----------------------------- MODULE RiskLedger -----------------------------
(* What the risk of a market may do, seen from the account: capital is at    *)
(* risk in full from the reservation on, afterwards only what was filled,    *)
(* and once it is released it stays released. RoundBudget builds on this;    *)
(* OrderLifecycle, where crashes, late answers, sweeps and operators change  *)
(* the orders, implements it.                                                *)
EXTENDS Integers

CONSTANTS
  Markets,
  Full      \* what an entry puts at risk

VARIABLES
  stage,    \* per market: none, pending, open or closed
  amount    \* per market: what the exposure queries count

ledgerVars == <<stage, amount>>

Stages == {"none", "pending", "open", "closed"}

LedgerTypeOK ==
  /\ stage \in [Markets -> Stages]
  /\ amount \in [Markets -> 0..Full]

Init ==
  /\ stage = [m \in Markets |-> "none"]
  /\ amount = [m \in Markets |-> 0]

\* A market is entered at most once.
Reserve(m) ==
  /\ stage[m] = "none"
  /\ stage' = [stage EXCEPT ![m] = "pending"]
  /\ amount' = [amount EXCEPT ![m] = Full]

\* What is pending turns out to be a position, of a quantity that is kept.
Fill(m, q) ==
  /\ stage[m] = "pending"
  /\ stage' = [stage EXCEPT ![m] = "open"]
  /\ amount' = [amount EXCEPT ![m] = q]

\* It turns out to be nothing, or the position is settled.
Release(m) ==
  /\ stage[m] \in {"pending", "open"}
  /\ stage' = [stage EXCEPT ![m] = "closed"]
  /\ amount' = [amount EXCEPT ![m] = 0]

\* A boot gives up everything that is pending, and nothing else.
Retire ==
  /\ stage' = [m \in Markets |-> IF stage[m] = "pending" THEN "closed" ELSE stage[m]]
  /\ amount' = [m \in Markets |-> IF stage[m] = "pending" THEN 0 ELSE amount[m]]

Next ==
  \/ \E m \in Markets :
       Reserve(m) \/ (\E q \in 1..Full : Fill(m, q)) \/ Release(m)
  \/ Retire

Spec == Init /\ [][Next]_ledgerVars

=============================================================================
