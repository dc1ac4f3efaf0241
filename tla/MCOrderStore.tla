---------------------------- MODULE MCOrderStore ----------------------------
(***************************************************************************)
(* The store under arbitrary calls: two markets, three intents (one more   *)
(* than the markets can use, so that a second reservation would find a     *)
(* fresh one) and two order ids.                                           *)
(***************************************************************************)
EXTENDS OrderStore, TLC

\* Slugs, intents and order ids are interchangeable.
Symmetry ==
  Permutations(Slugs) \cup Permutations(Intents) \cup Permutations(OrderIds)

=============================================================================
