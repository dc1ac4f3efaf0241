-------------------------- MODULE MCOrderLifecycle --------------------------
(***************************************************************************)
(* Small instances of OrderLifecycle.  There is one intent more than the   *)
(* markets can use, so that a second reservation would find a fresh one.   *)
(***************************************************************************)
EXTENDS OrderLifecycle, TLC

MCSlugs == Assets \X (1..MaxRound)
MCOrderIds == Intents \cup Foreign
MCOutcomes == {"win", "loss"} \X (1..Qty)

\* Intents are interchangeable, and so are assets and foreign orders.
Symmetry ==
  Permutations(Intents) \cup Permutations(Assets) \cup Permutations(Foreign)

=============================================================================
