--------------------------- MODULE OrderLifecycle ---------------------------
(***************************************************************************)
(* The life of an entry around the store: the round loop of runner.py and  *)
(* its asset workers, OrderExecutor.execute_reserved and _reconcile of     *)
(* execution.py, the maintenance sweep (reconcile_submitted_orders and     *)
(* settle_open_positions), the operator's --attach-order-id session, the   *)
(* process that crashes and is started again, and, from outside the        *)
(* repository, the venue and Gamma.                                        *)
(*                                                                         *)
(* A slug is an asset and a round.  The venue's id of the order that       *)
(* intent i sends is written i; ids in Foreign are orders of the account   *)
(* that no intent sent and that an operator may attach by mistake.         *)
(*                                                                         *)
(* A store method is one transaction, so a step of a thread is the network *)
(* answer it waited for and the one store write that follows.  A probe     *)
(* reads a venue status that no longer changes once it is terminal, so     *)
(* reading and writing it in one step loses no interleaving.               *)
(***************************************************************************)
EXTENDS OrderStore

CONSTANTS
  Assets,      \* settings.assets
  MaxRound,    \* the last round in which entries are modelled
  Foreign,     \* order ids of the account that belong to no intent
  Modes,       \* the modes the daemon may be started in
  MaxCrashes,  \* bound: crashes, restarts and SIGTERMs together
  MaxAttach    \* bound: operator sessions

Rounds == 1..MaxRound

ASSUME LifecycleConstants ==
  /\ MaxRound \in Nat \ {0}
  /\ MaxCrashes \in Nat
  /\ MaxAttach \in Nat
  /\ Modes \subseteq {"live", "shadow"}
  /\ Modes # {}
  /\ Slugs = Assets \X Rounds
  /\ OrderIds = Intents \cup Foreign
  /\ Intents \cap Foreign = {}
  /\ Outcomes = {"win", "loss"} \X (1..Qty)

VARIABLES
  mode,       \* "down", the daemon "live" or in "shadow", or an "operator" session
  clock,      \* the five-minute candle that is running
  round,      \* the round _run_asset_rounds is running, 0 between rounds
  processed,  \* processed_round_starts of this process
  worker,     \* per asset: where its run_round is, and its record
  sweep,      \* the maintenance thread or the operator's startup sweep
  stalled,    \* OrderExecutor.read_probe_stalled
  venue,      \* per order id: what the venue did with it
  official,   \* per slug: the outcome Gamma has published
  posts,      \* history: POSTs that left the process, per slug
  crashes, attaches

processVars == <<mode, round, processed, worker, sweep, stalled>>
worldVars == <<clock, venue, official, posts, crashes, attaches>>
vars == <<storeVars, processVars, worldVars>>

Daemon == mode \in {"live", "shadow"}

SlugOf(a, r) == <<a, r>>

Idle == [pc |-> "idle", intent |-> NoIntent]
NoSweep == [pc |-> "idle", todo |-> {}]

\* The round loop works on round r; workers past 'reserved' hold a record.
WorkerStates ==
  {"idle", "observe", "decide", "reserved", "posted", "polling", "done"}

SweepStates == {"idle", "startup", "submitted", "settle"}

\* "sent" is a request still on its way; a "refused" request left no order.
VenueStates == {"none", "sent", "refused", "live", "closed"}

NoOrderYet == [st |-> "none", qty |-> 0]

-----------------------------------------------------------------------------
(* The venue and Gamma (external).                                         *)

\* A request on its way is accepted, however late, or it is rejected or lost.
VenueAnswers(o, st) ==
  /\ venue[o].st = "sent"
  /\ venue' = [venue EXCEPT ![o].st = st]
  /\ UNCHANGED <<storeVars, processVars, clock, official, posts, crashes, attaches>>

\* A resting order ends: matched in part or whole, cancelled or expired.
VenueCloses(o, q) ==
  /\ venue[o].st = "live"
  /\ venue' = [venue EXCEPT ![o] = [st |-> "closed", qty |-> q]]
  /\ UNCHANGED <<storeVars, processVars, clock, official, posts, crashes, attaches>>

\* Gamma publishes the outcome of a market whose round is over, once.
Resolve(a, r, outcome) ==
  /\ r < clock
  /\ official[SlugOf(a, r)] = "none"
  /\ official' = [official EXCEPT ![SlugOf(a, r)] = outcome]
  /\ UNCHANGED <<storeVars, processVars, clock, venue, posts, crashes, attaches>>

Tick ==
  /\ clock <= MaxRound
  /\ clock' = clock + 1
  /\ UNCHANGED <<storeVars, processVars, venue, official, posts, crashes, attaches>>

-----------------------------------------------------------------------------
(* The process.                                                            *)

\* What a process that ends takes with it.
Forget ==
  /\ round' = 0
  /\ processed' = {}
  /\ worker' = [a \in Assets |-> Idle]
  /\ sweep' = NoSweep
  /\ stalled' = FALSE

\* main without a manual operation: the runtime lock is free, and the daemon
\* initializes the runtime state before it does anything else.
Boot(m) ==
  /\ mode = "down"
  /\ mode' = m
  /\ InitializeRuntimeState
  /\ UNCHANGED <<round, processed, worker, sweep, stalled, worldVars>>

\* A crash, a SIGTERM (os._exit) or the supervisor's restart of a process with
\* a worker it cannot cancel.
Crash ==
  /\ mode # "down"
  /\ crashes < MaxCrashes
  /\ crashes' = crashes + 1
  /\ mode' = "down"
  /\ Forget
  /\ UNCHANGED <<storeVars, clock, venue, official, posts, attaches>>

\* main --attach-order-id: the operator names an order of the account for an
\* unknown execution, and _reconcile_startup scans every unresolved intent.
OperatorAttach(i, o) ==
  /\ mode = "down"
  /\ attaches < MaxAttach
  /\ venue[o].st \in {"live", "closed"}
  /\ AttachRecoveredOrderId(i, o)
  /\ attaches' = attaches + 1
  /\ mode' = "operator"
  /\ sweep' = [pc |-> "startup", todo |-> (UnresolvedOrders)']
  /\ UNCHANGED <<round, processed, worker, stalled, clock, venue, official, posts, crashes>>

OperatorDone ==
  /\ mode = "operator"
  /\ sweep.todo = {}
  /\ mode' = "down"
  /\ Forget
  /\ UNCHANGED <<storeVars, worldVars>>

-----------------------------------------------------------------------------
(* The round loop and its workers.                                         *)

\* _select_next_round_start and _run_asset_rounds: a candle this process has
\* not run yet, one worker per asset.
StartRound ==
  /\ Daemon
  /\ round = 0
  /\ clock \in Rounds \ processed
  /\ round' = clock
  /\ processed' = processed \cup {clock}
  /\ worker' = [a \in Assets |-> [pc |-> "observe", intent |-> NoIntent]]
  /\ UNCHANGED <<storeVars, mode, sweep, stalled, worldVars>>

\* The worker of asset a goes from pc to next, with intent i in hand.
Step(a, pc, next, i) ==
  /\ worker[a].pc = pc
  /\ worker' = [worker EXCEPT ![a] = [pc |-> next, intent |-> i]]
  /\ UNCHANGED <<mode, round, processed, sweep>>

\* The Gamma market is fetched and observed.
Observe(a, c) ==
  /\ Step(a, "observe", "decide", NoIntent)
  /\ ObserveMarket(SlugOf(a, round), c)
  /\ UNCHANGED <<stalled, worldVars>>

\* Every way out before the reservation: a failed fetch, a gate, a held or
\* late decision, a refused risk check or claim, a market already reserved.
HoldEntry(a) ==
  /\ \/ Step(a, "observe", "done", NoIntent)
     \/ Step(a, "decide", "done", NoIntent)
  /\ UNCHANGED <<storeVars, stalled, worldVars>>

\* Mutation: the order is sent first and the reservation is left for later.
ReserveLater(a, i) ==
  /\ clock = round
  /\ orders[i].state = "absent"
  /\ Step(a, "decide", "reserved", i)
  /\ UNCHANGED <<storeVars, stalled, worldVars>>

\* The decision falls before the close, and the intent is durable first.
Reserve(a, i) ==
  /\ clock = round
  /\ Step(a, "decide", "reserved", i)
  /\ LET s == SlugOf(a, round) IN ReserveEntry(s, markets[s].condition, i)
  /\ UNCHANGED <<stalled, worldVars>>

\* execute_reserved in shadow mode: the fill is simulated, nothing is sent.
ShadowFill(a) ==
  /\ mode = "shadow"
  /\ Step(a, "reserved", "done", worker[a].intent)
  /\ MarkTerminalExecution(worker[a].intent, Qty)
  /\ UNCHANGED <<stalled, worldVars>>

\* execute_reserved in live mode: exactly one POST.
Post(a) ==
  /\ mode = "live"
  /\ Step(a, "reserved", "posted", worker[a].intent)
  /\ venue' = [venue EXCEPT ![worker[a].intent].st = "sent"]
  /\ posts' = [posts EXCEPT ![SlugOf(a, round)] = @ + 1]
  /\ UNCHANGED <<storeVars, stalled, clock, official, crashes, attaches>>

\* The POST answers with the order's id.
Acknowledged(a) ==
  /\ Step(a, "posted", "polling", worker[a].intent)
  /\ venue[worker[a].intent].st \in {"live", "closed"}
  /\ MarkSubmitted(worker[a].intent, worker[a].intent)
  /\ UNCHANGED <<stalled, worldVars>>

\* Mutation: any error of the POST counts as a rejection.
RejectedOnAnyError(a) ==
  /\ Step(a, "posted", "done", worker[a].intent)
  /\ MarkTerminalExecution(worker[a].intent, 0)
  /\ UNCHANGED <<stalled, worldVars>>

\* A definite rejection: no order can exist.
Rejected(a) ==
  /\ Step(a, "posted", "done", worker[a].intent)
  /\ venue[worker[a].intent].st = "refused"
  /\ MarkTerminalExecution(worker[a].intent, 0)
  /\ UNCHANGED <<stalled, worldVars>>

\* Mutation: a timed-out POST is tried again.
RetriesPost(a) ==
  /\ Step(a, "posted", "reserved", worker[a].intent)
  /\ UNCHANGED <<storeVars, stalled, worldVars>>

\* A timeout, a lost or duplicate answer, or one without an id: anything may
\* have happened at the venue.
Ambiguous(a) ==
  /\ Step(a, "posted", "done", worker[a].intent)
  /\ MarkExecutionUnknown(worker[a].intent, "none")
  /\ UNCHANGED <<stalled, worldVars>>

\* The write that should follow the answer fails (or the one before the POST):
\* entry_runtime_error, and the record stays as it is.
WriteFails(a) ==
  /\ \/ Step(a, "reserved", "done", worker[a].intent)
     \/ Step(a, "posted", "done", worker[a].intent)
     \/ /\ Step(a, "polling", "done", worker[a].intent)
        /\ ~ stalled
        /\ venue[orders[worker[a].intent].orderId].st = "closed"
  /\ UNCHANGED <<storeVars, stalled, worldVars>>

\* A terminal status of order o is written down for intent i; a fill whose
\* price neither the order nor its trades give stays unknown.
WriteTerminal(i, o) ==
  /\ venue[o].st = "closed"
  /\ \/ MarkTerminalExecution(i, venue[o].qty)
     \/ venue[o].qty > 0 /\ MarkExecutionUnknown(i, "none")

\* _reconcile: a poll finds the order terminal.
PollTerminal(a) ==
  /\ ~ stalled
  /\ Step(a, "polling", "done", worker[a].intent)
  /\ WriteTerminal(worker[a].intent, orders[worker[a].intent].orderId)
  /\ UNCHANGED <<stalled, worldVars>>

\* Mutation: a GTC that is not terminal at the deadline counts as no fill.
DeadlineMeansNoFill(a) ==
  /\ Step(a, "polling", "done", worker[a].intent)
  /\ MarkTerminalExecution(worker[a].intent, 0)
  /\ UNCHANGED <<stalled, worldVars>>

\* _reconcile gives a GTC up at its deadline, or after a probe that timed out
\* (which wedges the probe) or found the flag set: nothing is written.
GiveUpPolling(a) ==
  /\ Step(a, "polling", "done", worker[a].intent)
  /\ stalled' \in {stalled, TRUE}
  /\ UNCHANGED <<storeVars, worldVars>>

-----------------------------------------------------------------------------
(* The maintenance sweep and the operator's startup sweep.                 *)

\* Mutation: the sweep takes every record with an id, resolved or not.
SweepsEveryRecord ==
  IF mode = "live"
  THEN [pc |-> "submitted", todo |-> {i \in Intents : orders[i].orderId # NoOrder}]
  ELSE [pc |-> "settle", todo |-> OpenPositions]

\* reconcile_submitted_orders runs in live mode only, and reads its list of
\* records once.
NewSweep ==
  IF mode = "live"
  THEN [pc |-> "submitted",
        todo |-> {i \in UnresolvedOrders : /\ orders[i].state = "submitted"
                                           /\ orders[i].orderId # NoOrder}]
  ELSE [pc |-> "settle", todo |-> OpenPositions]

\* maintenance.trigger: one sweep at a time, a trigger during one is dropped.
Trigger == sweep' = IF sweep.pc = "idle" THEN NewSweep ELSE sweep

\* The last worker is done; the finally clause of the loop triggers a sweep.
FinishRound ==
  /\ round # 0
  /\ \A a \in Assets : worker[a].pc = "done"
  /\ round' = 0
  /\ worker' = [a \in Assets |-> Idle]
  /\ Trigger
  /\ UNCHANGED <<storeVars, mode, processed, stalled, worldVars>>

\* Mutation: maintenance runs on a timer of its own, beside a running round.
TriggersAnyTime ==
  /\ Daemon
  /\ sweep.pc = "idle"
  /\ Trigger
  /\ UNCHANGED <<storeVars, mode, round, processed, worker, stalled, worldVars>>

\* Every later round in which no asset enters.
QuietRound ==
  /\ Daemon
  /\ round = 0
  /\ clock > MaxRound
  /\ sweep.pc = "idle"
  /\ Trigger
  /\ UNCHANGED <<storeVars, mode, round, processed, worker, stalled, worldVars>>

\* The sweep is through with record i.
SweptOne(i) ==
  /\ i \in sweep.todo
  /\ sweep' = [sweep EXCEPT !.todo = @ \ {i}]

SweepUnchanged == UNCHANGED <<mode, round, processed, worker, worldVars>>

\* The raw payload asks for identity validation, and the order is not the one
\* the intent describes (its token, side, size, price or maker differs).
IdentityMismatch(i) ==
  orders[i].class \in {"attached", "mismatch"} /\ orders[i].orderId # i

\* _reconcile_startup: without an id no local evidence can prove zero fill.
SweepNoOrderId(i) ==
  /\ sweep.pc = "startup"
  /\ orders[i].orderId = NoOrder
  /\ SweptOne(i)
  /\ MarkExecutionUnknown(i, orders[i].class)
  /\ UNCHANGED stalled
  /\ SweepUnchanged

\* reconcile_existing_once, answered by the venue.
SweepProbe(i) ==
  /\ sweep.pc \in {"startup", "submitted"}
  /\ orders[i].orderId # NoOrder
  /\ ~ stalled
  /\ SweptOne(i)
  /\ \/ /\ IdentityMismatch(i)
        /\ MarkExecutionUnknown(i, "mismatch")
     \/ /\ ~ IdentityMismatch(i)
        /\ \/ WriteTerminal(i, orders[i].orderId)
           \/ venue[orders[i].orderId].st = "live" /\ UNCHANGED storeVars
  /\ UNCHANGED stalled
  /\ SweepUnchanged

\* Mutation: a failed lookup is skipped and nothing is written.
SkipsFailedLookup(i) ==
  /\ sweep.pc \in {"startup", "submitted"}
  /\ orders[i].orderId # NoOrder
  /\ SweptOne(i)
  /\ UNCHANGED <<storeVars, stalled>>
  /\ SweepUnchanged

\* reconcile_existing_once, the lookup failing: at once when the flag is set,
\* with an error, or by a timeout that sets the flag.  With the flag set the
\* whole sweep ends, the settlements included.
SweepProbeFails(i) ==
  /\ sweep.pc \in {"startup", "submitted"}
  /\ orders[i].orderId # NoOrder
  /\ MarkExecutionUnknown(i, "none")
  /\ \/ /\ ~ stalled
        /\ SweptOne(i)
        /\ UNCHANGED stalled
     \/ /\ i \in sweep.todo
        /\ stalled' = TRUE
        /\ sweep' = IF sweep.pc = "startup" THEN [sweep EXCEPT !.todo = {}] ELSE NoSweep
  /\ SweepUnchanged

\* Mutation: the sweep returns after the reconciliation, stalled or not.
ReturnsBeforeSettlements ==
  /\ sweep.pc = "submitted"
  /\ sweep.todo = {}
  /\ sweep' = NoSweep
  /\ UNCHANGED <<storeVars, stalled>>
  /\ SweepUnchanged

\* The reconciliation is over: on to the open positions unless a probe stalls.
SweepSettlements ==
  /\ sweep.pc = "submitted"
  /\ sweep.todo = {}
  /\ sweep' = IF stalled THEN NoSweep ELSE [pc |-> "settle", todo |-> OpenPositions]
  /\ UNCHANGED <<storeVars, stalled>>
  /\ SweepUnchanged

\* Mutation: a position is settled on the predicted side without waiting.
SettlesOnPrediction(i) ==
  /\ sweep.pc = "settle"
  /\ SweptOne(i)
  /\ RecordSettlement(orders[i].slug, <<"win", orders[i].filled>>)
  /\ UNCHANGED stalled
  /\ SweepUnchanged

\* settle_open_positions: the outcome is known, the position is settled on it.
SettleOne(i) ==
  /\ sweep.pc = "settle"
  /\ SweptOne(i)
  /\ official[orders[i].slug] # "none"
  /\ RecordSettlement(orders[i].slug, <<official[orders[i].slug], orders[i].filled>>)
  /\ UNCHANGED stalled
  /\ SweepUnchanged

\* The lookup fails, or Gamma has no outcome yet, or the fee is not known.
SettleLater(i) ==
  /\ sweep.pc = "settle"
  /\ SweptOne(i)
  /\ UNCHANGED <<storeVars, stalled>>
  /\ SweepUnchanged

SweepDone ==
  /\ sweep.pc = "settle"
  /\ sweep.todo = {}
  /\ sweep' = NoSweep
  /\ UNCHANGED <<storeVars, stalled>>
  /\ SweepUnchanged

\* The wedged SDK call returns at last and clears the flag.
ProbeReturns ==
  /\ stalled
  /\ stalled' = FALSE
  /\ UNCHANGED <<storeVars, mode, round, processed, worker, sweep, worldVars>>

-----------------------------------------------------------------------------
Init ==
  /\ StoreInit
  /\ mode = "down"
  /\ clock = 1
  /\ round = 0
  /\ processed = {}
  /\ worker = [a \in Assets |-> Idle]
  /\ sweep = NoSweep
  /\ stalled = FALSE
  /\ venue = [o \in OrderIds |->
       IF o \in Foreign THEN [st |-> "closed", qty |-> 1] ELSE NoOrderYet]
  /\ official = [s \in Slugs |-> "none"]
  /\ posts = [s \in Slugs |-> 0]
  /\ crashes = 0
  /\ attaches = 0

World ==
  \/ \E o \in OrderIds, st \in {"live", "refused"} : VenueAnswers(o, st)
  \/ \E o \in OrderIds, q \in 0..Qty : VenueCloses(o, q)
  \/ \E a \in Assets, r \in Rounds, outcome \in {"win", "loss"} : Resolve(a, r, outcome)
  \/ Tick

Process ==
  \/ \E m \in Modes : Boot(m)
  \/ Crash
  \/ \E i \in Intents, o \in OrderIds : OperatorAttach(i, o)
  \/ OperatorDone

Submission(a) ==
  \/ ShadowFill(a)
  \/ Post(a)
  \/ Acknowledged(a)
  \/ Rejected(a)
  \/ Ambiguous(a)
  \/ WriteFails(a)
  \/ PollTerminal(a)
  \/ GiveUpPolling(a)

Worker(a) ==
  \/ \E c \in Conditions : Observe(a, c)
  \/ HoldEntry(a)
  \/ \E i \in Intents : Reserve(a, i)
  \/ Submission(a)

Maintenance ==
  \/ \E i \in Intents :
       \/ SweepNoOrderId(i)
       \/ SweepProbe(i)
       \/ SweepProbeFails(i)
       \/ SettleOne(i)
       \/ SettleLater(i)
  \/ SweepSettlements
  \/ SweepDone
  \/ ProbeReturns

Next ==
  \/ World
  \/ Process
  \/ StartRound
  \/ \E a \in Assets : Worker(a)
  \/ FinishRound
  \/ QuietRound
  \/ Maintenance

Spec == Init /\ [][Next]_vars

\* systemd restarts the unit (Restart=always); the scheduler, each worker and
\* the maintenance thread keep running while they can; every bounded call
\* returns, the wedged one included; and a lookup of a published outcome that
\* is repeated in every sweep does not fail for ever.
Fairness ==
  /\ WF_vars(\E m \in Modes : Boot(m))
  /\ WF_vars(StartRound)
  /\ \A a \in Assets : WF_vars(Worker(a))
  /\ WF_vars(FinishRound)
  /\ WF_vars(QuietRound)
  /\ WF_vars(Tick)
  /\ WF_vars(Maintenance)
  /\ WF_vars(ProbeReturns)
  /\ \A i \in Intents : SF_vars(SettleOne(i))

FairSpec == Spec /\ Fairness

-----------------------------------------------------------------------------
(* Properties.                                                             *)

LifecycleTypeOK ==
  /\ StoreTypeOK
  /\ mode \in {"down", "live", "shadow", "operator"}
  /\ clock \in 1..MaxRound + 1
  /\ round \in 0..MaxRound
  /\ processed \subseteq Rounds
  /\ worker \in [Assets -> [pc : WorkerStates, intent : Intents \cup {NoIntent}]]
  /\ sweep \in [pc : SweepStates, todo : SUBSET Intents]
  /\ stalled \in BOOLEAN
  /\ venue \in [OrderIds -> [st : VenueStates, qty : 0..Qty]]
  /\ official \in [Slugs -> {"none", "win", "loss"}]
  /\ posts \in [Slugs -> Nat]
  /\ crashes \in 0..MaxCrashes
  /\ attaches \in 0..MaxAttach

\* "An interrupted or uncertain submission is never retried for the same
\* slug": over every crash, restart and rejoined round, at most one POST
\* leaves the process for a market.
SubmitOnce == \A s \in Slugs : posts[s] <= 1

\* An operator's mistake that the identity validation did not stop.
Misattached(i) == orders[i].orderId \notin {i, NoOrder}

\* A fill is recorded with the quantity the venue gave the intent's order, and
\* "no fill" only where the venue gave it nothing: no answer that went missing
\* is ever taken for a zero fill, and none for a fill.
RecordedAsExecuted ==
  \A i \in Intents :
    venue[i].st # "none" /\ ~ Misattached(i) =>
      /\ orders[i].state = "filled" =>
           venue[i] = [st |-> "closed", qty |-> orders[i].filled]
      /\ orders[i].state = "no_fill" =>
           venue[i].st \in {"refused", "closed"} /\ venue[i].qty = 0

\* What the account may still have to pay for the order of intent i.
Owed(i) ==
  CASE venue[i].st \in {"sent", "live"} -> Qty
    [] venue[i].st = "closed" -> venue[i].qty
    [] OTHER -> 0

\* Every order that may hold shares is counted in full by the store's risk
\* exposure, through every lost answer, failed probe and crash, until it is
\* settled or a restart retires it.
RiskCoversVenue ==
  \A i \in Intents :
    Owed(i) > 0 =>
      /\ orders[i].state # "absent"
      /\ \/ markets[orders[i].slug].state \in {"retired", "settled"}
         \/ Misattached(i)
         \/ MarketRiskExposure(orders[i].slug) >= Owed(i)

\* A result is final: an order that is filled, no fill or retired never
\* changes again, although mark_execution_unknown would overwrite it.
ResultIsFinal ==
  [][\A i \in Intents :
       orders[i].state \in {"filled", "no_fill", "retired"} =>
         orders'[i] = orders[i]]_vars

\* "An arbitrary submitted/live order can never be redirected to a different
\* ID": an order that got its own id at the venue keeps it.
OwnIdKept ==
  [][\A i \in Intents : orders[i].orderId = i => orders'[i].orderId = i]_vars

\* A settlement carries the official outcome and the executed quantity.
SettledOnOfficial ==
  \A i \in Intents :
    LET s == orders[i].slug IN
    orders[i].state # "absent" /\ settlements[s] # NoOutcome =>
      settlements[s] = <<official[s], orders[i].filled>>

\* The round loop and the maintenance thread never work on the same order: a
\* sweep's list was read while no worker had a record in hand.
OneReconcilerPerOrder ==
  \A a \in Assets :
    worker[a].pc \in {"reserved", "posted", "polling"} =>
      worker[a].intent \notin sweep.todo

\* The stages of EntryOnce as the market's state column shows them.
StageOf(state) ==
  CASE state \in {"absent", "observing"} -> "free"
    [] state \in Unresolved -> "committed"
    [] state = "open" -> "held"
    [] state = "no_fill" -> "missed"
    [] state = "settled" -> "settled"
    [] state = "retired" -> "given_up"

Stage == [s \in Slugs |-> StageOf(markets[s].state)]

Once == INSTANCE EntryOnce WITH stage <- Stage, sent <- posts

\* The whole lifecycle implements the promise of the entry path: committed
\* before sent, sent at most once and only while committed, and forward only.
ImplementsEntryOnce == Once!Spec

\* The stages of RiskLedger, seen by the exposure queries.
RiskStageOf(state) ==
  CASE state \in {"absent", "observing"} -> "none"
    [] state \in Unresolved -> "pending"
    [] state = "open" -> "open"
    [] OTHER -> "closed"

RiskStage == [s \in Slugs |-> RiskStageOf(markets[s].state)]
RiskAmount == [s \in Slugs |-> MarketRiskExposure(s)]

Ledger == INSTANCE RiskLedger
  WITH Markets <- Slugs, Full <- Qty, stage <- RiskStage, amount <- RiskAmount

\* What the round budget assumes of the orders it froze its exposure from:
\* whatever answers come late and whoever reconciles, the risk of a market is
\* its full size, then its fill, then nothing, and never grows again.
ImplementsRiskLedger == Ledger!Spec

\* A pending order whose venue order is closed does not stay 'submitted'.
PendingLeaves ==
  \A i \in Intents :
    (orders[i].state = "submitted" /\ venue[i].st = "closed")
      ~> orders[i].state # "submitted"

\* A position of a resolved market is settled, across restarts, stalled
\* probes and failed lookups.
PositionsSettle ==
  \A s \in Slugs :
    (markets[s].state = "open" /\ official[s] # "none") ~> markets[s].state = "settled"

-----------------------------------------------------------------------------
(* The inductive invariant.                                                *)

\* A round runs only in a daemon, its workers only in a round, and no sweep
\* outlives its process.
Quiescent ==
  /\ round = 0 => \A a \in Assets : worker[a].pc = "idle"
  /\ round # 0 => Daemon
  /\ mode = "down" => sweep = NoSweep

\* A worker that is between its reservation and its result.
InHand(a) == worker[a].pc \in {"reserved", "posted", "polling"}

\* The record in a worker's hand is its market's, in the state the worker left
\* it in, and in no sweep's list.
HandsHold ==
  \A a \in Assets :
    InHand(a) =>
      LET i == worker[a].intent IN
      /\ i \in Intents
      /\ orders[i].slug = SlugOf(a, round)
      /\ orders[i].state =
           IF worker[a].pc = "polling" THEN "submitted" ELSE "entry_reserved"
      /\ i \notin sweep.todo

\* What a sweep has still to probe is unresolved.
SweepHolds ==
  \A i \in sweep.todo :
    /\ orders[i].state # "absent"
    /\ sweep.pc # "settle" => orders[i].state \in Unresolved

\* A market that was sent an order has an intent, and a worker that is about
\* to send has not been preceded.
SentBacked ==
  /\ SubmitOnce
  /\ \A s \in Slugs : posts[s] # 0 => markets[s].intent # NoIntent
  /\ \A a \in Assets : worker[a].pc = "reserved" => posts[SlugOf(a, round)] = 0

\* A worker decides on an observed market, and every market has its condition.
Observed ==
  /\ \A a \in Assets :
       worker[a].pc = "decide" => markets[SlugOf(a, round)].state # "absent"
  /\ \A s \in Slugs :
       markets[s].state # "absent" => markets[s].condition # NoCondition

LifecycleInv ==
  /\ StoreInv
  /\ LifecycleTypeOK
  /\ Quiescent
  /\ HandsHold
  /\ SweepHolds
  /\ SentBacked
  /\ Observed

\* An order the venue has heard of was reserved and sent, and only a closed one
\* has a quantity.
VenueFresh ==
  /\ \A i \in Intents : orders[i].state = "absent" => venue[i].st = "none"
  /\ \A a \in Assets :
       worker[a].pc = "reserved" => venue[worker[a].intent].st = "none"
  /\ \A o \in OrderIds : venue[o].st # "closed" => venue[o].qty = 0

\* An intent's own order passes the identity validation.
OwnIdPasses ==
  \A i \in Intents : orders[i].orderId = i => orders[i].class # "mismatch"

\* What the three tables say of a settled market.
SettledRows ==
  \A s \in Slugs :
    settlements[s] # NoOutcome =>
      /\ markets[s].state = "settled"
      /\ official[s] # "none"
      /\ settlements[s] = <<official[s], orders[markets[s].intent].filled>>

ResultInv ==
  /\ VenueFresh
  /\ OwnIdPasses
  /\ SettledRows
  /\ RecordedAsExecuted

-----------------------------------------------------------------------------
(* Stated by the repository, and not kept.                                 *)

\* attach_recovered_order_id: "Attach or replace an ID that must pass strict
\* identity validation": no foreign order's fill becomes an intent's result.
AttachedIdValidated ==
  \A i \in Intents :
    orders[i].state \in {"filled", "no_fill"} => ~ Misattached(i)

\* "No local evidence can prove zero-fill, even on a later boot.  Keep the risk
\* unresolved": the exposure of an order that may hold shares is only dropped
\* when its result is known.  The daemon's own boot drops it.
AmbiguityKeepsRisk ==
  \A i \in Intents :
    Owed(i) > 0 /\ ~ Misattached(i) =>
      \/ markets[orders[i].slug].state = "settled"
      \/ MarketRiskExposure(orders[i].slug) >= Owed(i)

\* "Non-terminal submitted orders stay pending": an order that the venue still
\* has on its book stays 'submitted' while the daemon runs.  One failed lookup
\* makes it 'execution_unknown', which no later sweep of the daemon probes.
PendingStaysPending ==
  [][\A i \in Intents :
       orders[i].state = "submitted" /\ venue[i].st = "live" =>
         orders'[i].state = "submitted"]_vars

=============================================================================
