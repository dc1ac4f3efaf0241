----------------------------- MODULE RoundBudget ----------------------------
(* _RoundAccountPreflight of runner.py: the asset workers of one live round  *)
(* share an account snapshot and claim the fixed cost of an entry from one   *)
(* budget; risk.py checks the limits of an asset before that, and the round  *)
(* releases a claim that led to no durable order. Beside them the orders the *)
(* exposure is summed from change as RiskLedger allows: sweeps and executors *)
(* fill, close and settle them, a boot retires them. Amounts are integers.   *)
EXTENDS Integers, FiniteSets, FiniteSetsExt

CONSTANTS
  Assets,
  MaxRounds, \* bound: rounds
  Notional,  \* price * qty of the fixed entry
  Fee,       \* fee and Builder fee of the entry in each asset's market
  Budgets,   \* min(balance * fraction, allowance) as the venue may report it
  MaxOpen,   \* max_open_positions
  MaxLosses, \* max_consecutive_losses
  MaxCrashes \* bound: crashes

ASSUME RoundBudgetAssumption ==
  /\ IsFiniteSet(Assets)
  /\ MaxRounds \in Nat \ {0} /\ Notional \in Nat \ {0}
  /\ Fee \in [Assets -> Nat]
  /\ Budgets \subseteq Nat
  /\ MaxOpen \in Nat \ {0} /\ MaxLosses \in Nat \ {0} /\ MaxCrashes \in Nat

VARIABLES
  round,   \* the current round
  worker,  \* where each asset's worker is
  budget,  \* the snapshot's budget, or Unread or Failed
  existing, \* _existing_exposure
  claims,  \* _claimed_costs, 0 for no claim
  stage,   \* of each market's order: the ledger's
  amount,  \* its term of the exposure
  losses,  \* the current loss streak
  crashes  \* (bounded)

ledger == <<stage, amount>>
budgetVars == <<round, worker, budget, existing, claims, ledger, losses, crashes>>

Unread == -1
Failed == -2
Markets == (1 .. MaxRounds) \X Assets

\* The durable orders, in any other process and thread as well.
Ledger == INSTANCE RiskLedger WITH Full <- Notional

RoundBudgetTypeOK ==
  /\ round \in 1 .. MaxRounds
  /\ worker \in [Assets -> {"start", "ready", "checked", "claimed", "unclaim",
                            "done"}]
  /\ budget \in Budgets \cup {Unread, Failed}
  /\ existing \in Nat
  /\ claims \in [Assets -> Nat]
  /\ Ledger!LedgerTypeOK
  /\ losses \in Nat /\ crashes \in 0 .. MaxCrashes

RoundBudgetInit ==
  /\ round = 1
  /\ worker = [a \in Assets |-> "start"]
  /\ budget = Unread /\ existing = 0
  /\ claims = [a \in Assets |-> 0]
  /\ Ledger!Init
  /\ losses = 0 /\ crashes = 0

-----------------------------------------------------------------------------
\* total_risk_exposure: fills of open positions, full size of unresolved ones.
Exposure == SumFunctionOnSet(amount, Markets)
Claimed == SumFunctionOnSet(claims, Assets)

At(a, place) == worker' = [worker EXCEPT ![a] = place]

\* snapshot: the first worker reads the account and freezes the exposure, the
\* others get the same snapshot, or the same error.
Preflight(a) ==
  /\ worker[a] = "start"
  /\ \/ /\ budget = Unread
        /\ budget' \in Budgets
        /\ existing' = Exposure
        /\ At(a, "ready")
     \/ /\ budget = Unread
        /\ budget' = Failed
        /\ At(a, "done")
        /\ UNCHANGED existing
     \/ /\ budget # Unread
        /\ At(a, IF budget = Failed THEN "done" ELSE "ready")
        /\ UNCHANGED <<budget, existing>>
  /\ UNCHANGED <<round, claims, ledger, losses, crashes>>

\* The round ends in a HOLD before the risk limits: not due, late, not
\* qualified, or a limit not modelled (daily loss, cooldown).
HoldEntry(a) ==
  /\ worker[a] = "ready"
  /\ At(a, "done")
  /\ UNCHANGED <<round, budget, existing, claims, ledger, losses, crashes>>

\* open_positions_for_asset
OpenPositions(a) == {r \in 1 .. MaxRounds : stage[<<r, a>>] = "open"}

\* check_entry_risk
CheckEntryRisk(a) ==
  /\ worker[a] = "ready"
  /\ At(a, IF Cardinality(OpenPositions(a)) < MaxOpen /\ losses < MaxLosses
             THEN "checked" ELSE "done")
  /\ UNCHANGED <<round, budget, existing, claims, ledger, losses, crashes>>

Cost(a) == Notional + Fee[a]
Remaining == budget - existing - Claimed

\* Mutation: what the other workers have claimed is not subtracted.
ClaimAlone(a) ==
  /\ worker[a] = "checked"
  /\ IF budget - existing > 0 /\ Cost(a) <= budget - existing
       THEN claims' = [claims EXCEPT ![a] = Cost(a)] /\ At(a, "claimed")
       ELSE At(a, "done") /\ UNCHANGED claims
  /\ UNCHANGED <<round, budget, existing, ledger, losses, crashes>>

\* claim_fixed_entry
ClaimFixedEntry(a) ==
  /\ worker[a] = "checked"
  /\ IF Remaining > 0 /\ Cost(a) <= Remaining
       THEN claims' = [claims EXCEPT ![a] = Cost(a)] /\ At(a, "claimed")
       ELSE At(a, "done") /\ UNCHANGED claims
  /\ UNCHANGED <<round, budget, existing, ledger, losses, crashes>>

\* reserve_entry makes the durable intent, finds the market reserved already,
\* or raises.
ReserveEntry(a) ==
  /\ worker[a] = "claimed"
  /\ \/ /\ Ledger!Reserve(<<round, a>>)
        /\ At(a, "done")
     \/ /\ At(a, "unclaim")
        /\ UNCHANGED ledger
  /\ UNCHANGED <<round, budget, existing, claims, losses, crashes>>

\* Mutation: the claim is left behind.
KeepClaim(a) ==
  /\ worker[a] = "unclaim"
  /\ At(a, "done")
  /\ UNCHANGED <<round, budget, existing, claims, ledger, losses, crashes>>

\* The finally clause: without a durable intent the claim is released.
ReleaseClaim(a) ==
  /\ worker[a] = "unclaim"
  /\ claims' = [claims EXCEPT ![a] = 0]
  /\ At(a, "done")
  /\ UNCHANGED <<round, budget, existing, ledger, losses, crashes>>

-----------------------------------------------------------------------------
(* The orders beside the round                                               *)

\* Executor, sweep or operator: an unresolved order fills or is closed.
Resolve(m) ==
  /\ stage[m] = "pending"
  /\ (\E q \in 1 .. Notional : Ledger!Fill(m, q)) \/ Ledger!Release(m)
  /\ UNCHANGED <<round, worker, budget, existing, claims, losses, crashes>>

\* A settled position; a win ends the loss streak.
Settle(m) ==
  /\ stage[m] = "open"
  /\ Ledger!Release(m)
  /\ losses' \in {0, losses + 1}
  /\ UNCHANGED <<round, worker, budget, existing, claims, crashes>>

FreshWorkers ==
  /\ worker' = [a \in Assets |-> "start"]
  /\ budget' = Unread /\ existing' = 0
  /\ claims' = [a \in Assets |-> 0]

\* A worker that hangs ends the process, so no claim outlives its round.
NextRound ==
  /\ \A a \in Assets : worker[a] = "done"
  /\ round < MaxRounds
  /\ round' = round + 1
  /\ FreshWorkers
  /\ UNCHANGED <<ledger, losses, crashes>>

\* The process ends, the boot retires what is pending, and the new process may
\* join the same round again.
CrashRound ==
  /\ crashes < MaxCrashes
  /\ crashes' = crashes + 1
  /\ FreshWorkers
  /\ Ledger!Retire
  /\ UNCHANGED <<round, losses>>

RoundBudgetNext ==
  \/ \E a \in Assets :
       \/ Preflight(a) \/ HoldEntry(a) \/ CheckEntryRisk(a)
       \/ ClaimFixedEntry(a) \/ ReserveEntry(a) \/ ReleaseClaim(a)
  \/ \E m \in Markets : Resolve(m) \/ Settle(m)
  \/ NextRound \/ CrashRound

RoundBudgetSpec == RoundBudgetInit /\ [][RoundBudgetNext]_budgetVars

\* However the workers of a round interleave with sweeps that fill, close and
\* settle orders, the durable risk and the fees of this round's entries stay
\* inside the budget of the snapshot, or below the risk that was there already.
RiskWithinBudget ==
  budget >= 0 =>
    LET entered == {a \in Assets : claims[a] > 0
                      /\ stage[<<round, a>>] \in {"pending", "open"}} IN
    \/ Exposure <= existing
    \/ Exposure + SumFunctionOnSet(Fee, entered) <= budget

\* Budget is only held back for an order that exists or can still be made: a
\* refused or failed reservation never starves the other assets of the round.
NoBudgetLeak ==
  \A a \in Assets :
    claims[a] > 0 => \/ stage[<<round, a>>] # "none"
                     \/ worker[a] \in {"claimed", "unclaim"}
=============================================================================
