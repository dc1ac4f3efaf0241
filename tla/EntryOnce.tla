----------------------------- MODULE EntryOnce ------------------------------
(***************************************************************************)
(* What the entry path promises for every market, whatever crashes, lost   *)
(* answers and restarts happen: capital is committed durably before an     *)
(* order is sent, at most one order is ever sent, and the market's story   *)
(* only moves forward.  OrderLifecycle implements this module.             *)
(***************************************************************************)
EXTENDS Integers

CONSTANT Slugs

VARIABLES
  stage,   \* per market: how far its only entry attempt has come
  sent     \* per market: how many orders were handed to the venue

vars == <<stage, sent>>

Stages == {"free", "committed", "held", "missed", "settled", "given_up"}

TypeOK ==
  /\ stage \in [Slugs -> Stages]
  /\ sent \in [Slugs -> 0..1]

Init ==
  /\ stage = [s \in Slugs |-> "free"]
  /\ sent = [s \in Slugs |-> 0]

Move(s, from, to) ==
  /\ stage[s] = from
  /\ stage' = [stage EXCEPT ![s] = to]
  /\ UNCHANGED sent

\* Capital for the market is reserved.
Commit(s) == Move(s, "free", "committed")

\* The order leaves the process, once, and only while capital is reserved.
Send(s) ==
  /\ stage[s] = "committed"
  /\ sent[s] = 0
  /\ sent' = [sent EXCEPT ![s] = 1]
  /\ UNCHANGED stage

\* The attempt turned out to be a position, or nothing.
Hold(s) == Move(s, "committed", "held")
Miss(s) == Move(s, "committed", "missed")

\* The official outcome closes a position.
Settle(s) == Move(s, "held", "settled")

\* A restart stops following every attempt that is still open.
GiveUp ==
  /\ stage' = [s \in Slugs |-> IF stage[s] = "committed" THEN "given_up" ELSE stage[s]]
  /\ UNCHANGED sent

Next ==
  \/ \E s \in Slugs : Commit(s) \/ Send(s) \/ Hold(s) \/ Miss(s) \/ Settle(s)
  \/ GiveUp

Spec == Init /\ [][Next]_vars

=============================================================================
