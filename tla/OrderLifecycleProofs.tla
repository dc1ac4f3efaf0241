------------------------ MODULE OrderLifecycleProofs ------------------------
(***************************************************************************)
(* Proofs about OrderLifecycle for any assets, rounds, intents and orders, *)
(* any number of crashes and any number of operator sessions: the          *)
(* lifecycle only calls the store as the store allows, every market is     *)
(* sent at most one order, and the whole implements EntryOnce.             *)
(***************************************************************************)
EXTENDS OrderLifecycle, OrderStoreProofs

-----------------------------------------------------------------------------
(* Facts about single rows.                                                *)

\* Workers of two assets never have the same record in hand.
LEMMA DistinctHands ==
  ASSUME HandsHold, NEW a \in Assets, NEW b \in Assets, a # b, InHand(a), InHand(b)
  PROVE  worker[a].intent # worker[b].intent
BY DEF HandsHold, SlugOf

\* The record in a hand, read through the market.
LEMMA HandMarket ==
  ASSUME LifecycleInv, NEW a \in Assets, InHand(a)
  PROVE  LET i == worker[a].intent
             s == SlugOf(a, round) IN
         /\ i \in Intents
         /\ s \in Slugs
         /\ markets[s].intent = i
         /\ markets[s].state = orders[i].state
         /\ orders[i].state \in Unresolved
<1>1. /\ worker[a].intent \in Intents
      /\ orders[worker[a].intent].slug = SlugOf(a, round)
      /\ orders[worker[a].intent].state \in Unresolved
  BY DEF LifecycleInv, HandsHold, Unresolved
<1>2. /\ orders[worker[a].intent].state # "absent"
      /\ markets[orders[worker[a].intent].slug].state = orders[worker[a].intent].state
  BY <1>1, UnresolvedMarket DEF LifecycleInv
<1> QED
  BY <1>1, <1>2 DEF LifecycleInv, StoreInv, OneIntentPerMarket

\* A round's slug is a slug, and every intent's own id is an order id.
LEMMA SlugOfType ==
  ASSUME LifecycleTypeOK, NEW a \in Assets, round # 0
  PROVE  round \in Rounds /\ SlugOf(a, round) \in Slugs
BY LifecycleConstants DEF LifecycleTypeOK, Rounds, SlugOf

\* A worker that is not idle runs in a round.
LEMMA BusyRound ==
  ASSUME LifecycleInv, NEW a \in Assets, worker[a].pc # "idle"
  PROVE  round \in Rounds /\ SlugOf(a, round) \in Slugs
BY SlugOfType DEF LifecycleInv, Quiescent

\* A method that is called for one order writes no other.
LEMMA WrittenRows ==
  ASSUME StoreTypeOK, NEW i \in Intents, NEW q, NEW o, NEW class,
         \/ MarkTerminalExecution(i, q)
         \/ MarkExecutionUnknown(i, class)
         \/ MarkSubmitted(i, o)
  PROVE  \A j \in Intents \ {i} : orders'[j] = orders[j]
BY DEF StoreTypeOK, MarkTerminalExecution, MarkExecutionUnknown, MarkSubmitted
-----------------------------------------------------------------------------
(* The lifecycle calls the store only as the store allows.                 *)

\* The three parts of Next, seen from the store.
StoreStep == StoreNext \/ UNCHANGED storeVars

LEMMA TerminalStoreStep ==
  ASSUME LifecycleTypeOK, NEW i \in Intents, NEW o \in OrderIds, WriteTerminal(i, o)
  PROVE  StoreNext
<1>1. venue[o].qty \in 0..Qty
  BY DEF LifecycleTypeOK
<1>2. CASE MarkTerminalExecution(i, venue[o].qty)
  BY <1>1, <1>2 DEF StoreNext
<1>3. CASE MarkExecutionUnknown(i, "none")
  BY <1>3 DEF StoreNext, Classes
<1> QED
  BY <1>2, <1>3 DEF WriteTerminal

LEMMA WorkerStoreStep ==
  ASSUME LifecycleInv, NEW a \in Assets, Worker(a)
  PROVE  StoreStep
<1> DEFINE i == worker[a].intent
           s == SlugOf(a, round)
<1>1. InHand(a) => /\ i \in Intents
                   /\ i \in OrderIds
                   /\ orders[i].state = "submitted" => orders[i].orderId \in OrderIds
  <2> SUFFICES ASSUME InHand(a)
               PROVE  /\ i \in Intents
                      /\ i \in OrderIds
                      /\ orders[i].state = "submitted" => orders[i].orderId \in OrderIds
    OBVIOUS
  <2>1. i \in Intents
    BY DEF LifecycleInv, HandsHold
  <2> QED
    BY <2>1, LifecycleConstants DEF LifecycleInv, StoreInv, StoreTypeOK, OrderRow,
         RowsConsistent
<1>2. ASSUME NEW c \in Conditions, Observe(a, c) PROVE StoreNext
  <2>1. s \in Slugs
    BY <1>2, BusyRound DEF Observe, Step
  <2> QED
    BY <1>2, <2>1 DEF Observe, StoreNext
<1>3. CASE HoldEntry(a)
  BY <1>3 DEF HoldEntry, StoreStep
<1>4. ASSUME NEW j \in Intents, Reserve(a, j) PROVE StoreNext
  <2>1. s \in Slugs /\ worker[a].pc = "decide"
    BY <1>4, BusyRound DEF Reserve, Step
  <2>2. markets[s].condition \in Conditions
    BY <2>1 DEF LifecycleInv, Observed, StoreInv, StoreTypeOK, MarketRow
  <2> QED
    BY <1>4, <2>1, <2>2 DEF Reserve, StoreNext
<1>5. CASE ShadowFill(a)
  BY <1>1, <1>5, StoreConstants DEF ShadowFill, Step, InHand, StoreNext, StoreStep
<1>6. CASE Post(a)
  BY <1>6 DEF Post, StoreStep
<1>7. CASE Acknowledged(a)
  BY <1>1, <1>7 DEF Acknowledged, Step, InHand, StoreNext, StoreStep
<1>8. CASE Rejected(a)
  BY <1>1, <1>8, StoreConstants DEF Rejected, Step, InHand, StoreNext, StoreStep
<1>9. CASE Ambiguous(a)
  BY <1>1, <1>9 DEF Ambiguous, Step, InHand, StoreNext, StoreStep, Classes
<1>10. CASE WriteFails(a)
  BY <1>10 DEF WriteFails, StoreStep
<1>11. CASE PollTerminal(a)
  <2>1. /\ InHand(a)
        /\ worker[a].pc = "polling"
        /\ WriteTerminal(i, orders[i].orderId)
    BY <1>11 DEF PollTerminal, Step, InHand
  <2>2. orders[i].orderId \in OrderIds
    BY <1>1, <2>1 DEF LifecycleInv, HandsHold
  <2> QED
    BY <1>1, <2>1, <2>2, TerminalStoreStep DEF LifecycleInv, StoreStep
<1>12. CASE GiveUpPolling(a)
  BY <1>12 DEF GiveUpPolling, StoreStep
<1> QED
  BY <1>2, <1>3, <1>4, <1>5, <1>6, <1>7, <1>8, <1>9, <1>10, <1>11, <1>12
     DEF Worker, Submission, StoreStep

LEMMA MaintenanceStoreStep ==
  ASSUME LifecycleInv, Maintenance
  PROVE  StoreStep
<1>1. \A i \in Intents : /\ orders[i].class \in Classes
                         /\ orders[i].orderId # NoOrder => orders[i].orderId \in OrderIds
  BY DEF LifecycleInv, StoreInv, StoreTypeOK, OrderRow
<1>2. ASSUME NEW i \in Intents, SweepNoOrderId(i) PROVE StoreNext
  BY <1>1, <1>2 DEF SweepNoOrderId, StoreNext
<1>3. ASSUME NEW i \in Intents, SweepProbe(i) PROVE StoreStep
  <2>1. CASE MarkExecutionUnknown(i, "mismatch")
    BY <2>1 DEF StoreNext, StoreStep, Classes
  <2>2. CASE WriteTerminal(i, orders[i].orderId)
    BY <1>1, <1>3, <2>2, TerminalStoreStep DEF SweepProbe, LifecycleInv, StoreStep
  <2>3. CASE UNCHANGED storeVars
    BY <2>3 DEF StoreStep
  <2> QED
    BY <1>3, <2>1, <2>2, <2>3 DEF SweepProbe
<1>4. ASSUME NEW i \in Intents, SweepProbeFails(i) PROVE StoreNext
  BY <1>4 DEF SweepProbeFails, StoreNext, Classes
<1>5. ASSUME NEW i \in Intents, SettleOne(i) PROVE StoreStep
  <2> DEFINE s == orders[i].slug
             p == <<official[s], orders[i].filled>>
  <2>1. i \in sweep.todo /\ RecordSettlement(s, p) /\ official[s] # "none"
    BY <1>5 DEF SettleOne, SweptOne
  <2>2. /\ orders[i].state # "absent"
        /\ s \in Slugs
        /\ orders[i].filled \in 0..Qty
    BY <2>1 DEF LifecycleInv, SweepHolds, StoreInv, StoreTypeOK, OrderRow,
         OneIntentPerMarket
  <2>3. CASE markets[s].state = "open"
    <3>1. orders[i].state = "filled"
      BY <2>2, <2>3 DEF LifecycleInv, StoreInv, StatesAgree, StoreTypeOK, OrderRow,
           OrderStates, Unresolved, Beside
    <3>2. orders[i].filled \in 1..Qty
      BY <2>2, <3>1, StoreConstants DEF LifecycleInv, StoreInv, RowsConsistent
    <3>3. official[s] \in {"win", "loss"}
      BY <2>1, <2>2 DEF LifecycleInv, LifecycleTypeOK
    <3>4. p \in Outcomes
      BY <3>2, <3>3, LifecycleConstants
    <3> QED
      BY <2>1, <2>2, <3>4 DEF StoreNext, StoreStep
  <2>4. CASE UNCHANGED <<markets, settlements>>
    BY <2>1, <2>4 DEF RecordSettlement, storeVars, StoreStep
  <2> QED
    BY <2>1, <2>3, <2>4 DEF RecordSettlement
<1>6. ASSUME NEW i \in Intents, SettleLater(i) PROVE StoreStep
  BY <1>6 DEF SettleLater, StoreStep
<1>7. SweepSettlements \/ SweepDone \/ ProbeReturns => StoreStep
  BY DEF SweepSettlements, SweepDone, ProbeReturns, StoreStep
<1> QED
  BY <1>2, <1>3, <1>4, <1>5, <1>6, <1>7 DEF Maintenance, StoreStep

\* Every step of the lifecycle is a step of the store, or leaves it alone.
LEMMA LifecycleStoreStep ==
  ASSUME LifecycleInv, [Next]_vars
  PROVE  [StoreNext]_storeVars
<1>1. CASE World
  BY <1>1 DEF World, VenueAnswers, VenueCloses, Resolve, Tick, storeVars
<1>2. CASE Process
  BY <1>2 DEF Process, Boot, Crash, OperatorAttach, OperatorDone, StoreNext, storeVars
<1>3. CASE StartRound \/ FinishRound \/ QuietRound
  BY <1>3 DEF StartRound, FinishRound, QuietRound
<1>4. ASSUME NEW a \in Assets, Worker(a) PROVE [StoreNext]_storeVars
  BY <1>4, WorkerStoreStep DEF StoreStep
<1>5. CASE Maintenance
  BY <1>5, MaintenanceStoreStep DEF StoreStep
<1>6. CASE UNCHANGED vars
  BY <1>6 DEF vars
<1> QED
  BY <1>1, <1>2, <1>3, <1>4, <1>5, <1>6 DEF Next
-----------------------------------------------------------------------------
(* The parts of the invariant, one by one.                                 *)

LEMMA InitLifecycle == Init => LifecycleInv
<1> SUFFICES ASSUME Init PROVE LifecycleInv
  OBVIOUS
<1>1. StoreInv
  BY InitInv DEF Init
<1>2. LifecycleTypeOK
  <2>1. venue \in [OrderIds -> [st : VenueStates, qty : 0..Qty]]
    BY StoreConstants DEF Init, NoOrderYet, VenueStates
  <2>2. worker \in [Assets -> [pc : WorkerStates, intent : Intents \cup {NoIntent}]]
    BY DEF Init, Idle, WorkerStates
  <2>3. sweep \in [pc : SweepStates, todo : SUBSET Intents]
    BY DEF Init, NoSweep, SweepStates
  <2>4. /\ clock \in 1..MaxRound + 1
        /\ round \in 0..MaxRound
        /\ crashes \in 0..MaxCrashes
        /\ attaches \in 0..MaxAttach
    BY LifecycleConstants DEF Init
  <2> QED
    BY <1>1, <2>1, <2>2, <2>3, <2>4 DEF Init, StoreInv, LifecycleTypeOK
<1>3. Quiescent /\ HandsHold /\ SweepHolds
  BY DEF Init, Quiescent, HandsHold, SweepHolds, InHand, Idle, NoSweep
<1>4. SentBacked /\ Observed
  BY DEF Init, StoreInit, SentBacked, SubmitOnce, Observed, Idle, NoMarket
<1> QED
  BY <1>1, <1>2, <1>3, <1>4 DEF LifecycleInv

\* A worker moves within its round; only its own entry changes.
LEMMA WorkerMoves ==
  ASSUME LifecycleInv, NEW a \in Assets, Worker(a)
  PROVE  /\ worker[a].pc \in {"observe", "decide", "reserved", "posted", "polling"}
         /\ worker'[a].pc \in {"decide", "reserved", "posted", "polling", "done"}
         /\ worker'[a].intent \in Intents \cup {NoIntent}
         /\ worker' \in [Assets -> [pc : WorkerStates, intent : Intents \cup {NoIntent}]]
         /\ \A b \in Assets \ {a} : worker'[b] = worker[b]
         /\ UNCHANGED <<mode, round, processed, sweep>>
<1> DEFINE Moves(pc, next, i) ==
             /\ worker[a].pc = pc
             /\ worker' = [worker EXCEPT ![a] = [pc |-> next, intent |-> i]]
             /\ UNCHANGED <<mode, round, processed, sweep>>
<1>1. worker \in [Assets -> [pc : WorkerStates, intent : Intents \cup {NoIntent}]]
  BY DEF LifecycleInv, LifecycleTypeOK
<1>2. \E pc \in {"observe", "decide", "reserved", "posted", "polling"},
         next \in {"decide", "reserved", "posted", "polling", "done"},
         i \in Intents \cup {NoIntent} : Step(a, pc, next, i)
  <2>1. worker[a].intent \in Intents \cup {NoIntent}
    BY <1>1
  <2>2. CASE \E c \in Conditions : Observe(a, c)
    BY <2>2 DEF Observe
  <2>3. CASE HoldEntry(a)
    BY <2>3 DEF HoldEntry
  <2>4. CASE \E i \in Intents : Reserve(a, i)
    BY <2>4 DEF Reserve
  <2>5. CASE Submission(a)
    BY <2>1, <2>5 DEF Submission, ShadowFill, Post, Acknowledged, Rejected, Ambiguous,
         WriteFails, PollTerminal, GiveUpPolling
  <2> QED
    BY <2>2, <2>3, <2>4, <2>5 DEF Worker
<1> QED
  BY <1>1, <1>2 DEF Step, WorkerStates

\* The variables keep their types.
LEMMA TypesKept ==
  ASSUME LifecycleInv, [Next]_vars
  PROVE  LifecycleTypeOK'
<1> USE DEF LifecycleInv
<1>0. StoreTypeOK'
  BY LifecycleStoreStep, StoreStepInv DEF StoreInv
<1>1. CASE World
  <2> USE DEF processVars
  <2>1. ASSUME NEW o \in OrderIds, NEW st \in {"live", "refused"}, VenueAnswers(o, st)
        PROVE  LifecycleTypeOK'
    BY <1>0, <2>1 DEF VenueAnswers, LifecycleTypeOK, VenueStates
  <2>2. ASSUME NEW o \in OrderIds, NEW q \in 0..Qty, VenueCloses(o, q)
        PROVE  LifecycleTypeOK'
    BY <1>0, <2>2 DEF VenueCloses, LifecycleTypeOK, VenueStates
  <2>3. ASSUME NEW b \in Assets, NEW r \in Rounds, NEW outcome \in {"win", "loss"},
               Resolve(b, r, outcome)
        PROVE  LifecycleTypeOK'
    BY <1>0, <2>3, LifecycleConstants DEF Resolve, LifecycleTypeOK, SlugOf
  <2>4. CASE Tick
    BY <1>0, <2>4, LifecycleConstants DEF Tick, LifecycleTypeOK
  <2> QED
    BY <1>1, <2>1, <2>2, <2>3, <2>4 DEF World
<1>2. CASE Process
  <2>1. (UnresolvedOrders)' \subseteq Intents
    BY DEF UnresolvedOrders
  <2>2. Forget => /\ round' \in 0..MaxRound
                  /\ processed' \subseteq Rounds
                  /\ worker' \in [Assets -> [pc : WorkerStates,
                                           intent : Intents \cup {NoIntent}]]
                  /\ sweep' \in [pc : SweepStates, todo : SUBSET Intents]
                  /\ stalled' \in BOOLEAN
    <3>1. /\ Idle \in [pc : WorkerStates, intent : Intents \cup {NoIntent}]
          /\ NoSweep \in [pc : SweepStates, todo : SUBSET Intents]
          /\ 0 \in 0..MaxRound
      BY LifecycleConstants DEF Idle, NoSweep, WorkerStates, SweepStates
    <3> QED
      BY <3>1 DEF Forget
  <2>3. ASSUME NEW m \in Modes, Boot(m) PROVE LifecycleTypeOK'
    <3>1. mode' \in {"live", "shadow"}
      BY <2>3, LifecycleConstants DEF Boot
    <3> QED
      BY <1>0, <2>3, <3>1 DEF Boot, LifecycleTypeOK, worldVars
  <2>4. CASE Crash
    BY <1>0, <2>2, <2>4, LifecycleConstants DEF Crash, LifecycleTypeOK
  <2>5. ASSUME NEW i \in Intents, NEW o \in OrderIds, OperatorAttach(i, o)
        PROVE  LifecycleTypeOK'
    BY <1>0, <2>1, <2>5, LifecycleConstants
       DEF OperatorAttach, LifecycleTypeOK, SweepStates
  <2>6. CASE OperatorDone
    BY <1>0, <2>2, <2>6 DEF OperatorDone, LifecycleTypeOK, worldVars
  <2> QED
    BY <1>2, <2>3, <2>4, <2>5, <2>6 DEF Process
<1>3. NewSweep \in [pc : SweepStates, todo : SUBSET Intents]
  BY DEF NewSweep, UnresolvedOrders, OpenPositions, SweepStates
<1>4. CASE StartRound \/ FinishRound \/ QuietRound
  <2>1. Trigger => sweep' \in [pc : SweepStates, todo : SUBSET Intents]
    BY <1>3 DEF Trigger, LifecycleTypeOK
  <2>2. CASE StartRound
    BY <1>0, <2>2 DEF StartRound, LifecycleTypeOK, worldVars, WorkerStates, Rounds
  <2>3. CASE FinishRound
    BY <1>0, <2>1, <2>3, LifecycleConstants
       DEF FinishRound, Idle, LifecycleTypeOK, worldVars, WorkerStates
  <2>4. CASE QuietRound
    BY <1>0, <2>1, <2>4 DEF QuietRound, LifecycleTypeOK, worldVars
  <2> QED
    BY <1>4, <2>2, <2>3, <2>4
<1>5. ASSUME NEW a \in Assets, Worker(a) PROVE LifecycleTypeOK'
  <2>1. /\ worker' \in [Assets -> [pc : WorkerStates, intent : Intents \cup {NoIntent}]]
        /\ UNCHANGED <<mode, round, processed, sweep>>
    BY <1>5, WorkerMoves
  <2>2. CASE Post(a)
    <3>1. /\ SlugOf(a, round) \in Slugs
          /\ worker[a].intent \in OrderIds
      BY <2>2, HandMarket, LifecycleConstants DEF Post, Step, InHand
    <3> QED
      BY <1>0, <2>1, <2>2, <3>1 DEF Post, LifecycleTypeOK, VenueStates
  <2>3. CASE ~ Post(a)
    <3>1. UNCHANGED worldVars /\ stalled' \in BOOLEAN
      BY <1>5, <2>3 DEF Worker, Submission, Observe, HoldEntry, Reserve, ShadowFill,
           Acknowledged, Rejected, Ambiguous, WriteFails, PollTerminal, GiveUpPolling,
           LifecycleTypeOK
    <3> QED
      BY <1>0, <2>1, <3>1 DEF worldVars, LifecycleTypeOK
  <2> QED
    BY <2>2, <2>3
<1>6. CASE Maintenance
  <2>1. OpenPositions \subseteq Intents
    BY DEF OpenPositions
  <2> DEFINE Kept == /\ sweep' \in [pc : SweepStates, todo : SUBSET Intents]
                     /\ stalled' \in BOOLEAN
                     /\ UNCHANGED <<mode, round, processed, worker, worldVars>>
  <2>2. /\ sweep \in [pc : SweepStates, todo : SUBSET Intents]
        /\ stalled \in BOOLEAN
        /\ NoSweep \in [pc : SweepStates, todo : SUBSET Intents]
    BY DEF LifecycleTypeOK, NoSweep, SweepStates
  <2>3. \A i \in Intents : SweptOne(i) => sweep' \in [pc : SweepStates, todo : SUBSET Intents]
    BY <2>2 DEF SweptOne
  <2>4. ASSUME NEW i \in Intents,
               SweepNoOrderId(i) \/ SweepProbe(i) \/ SettleOne(i) \/ SettleLater(i)
        PROVE  Kept
    BY <2>2, <2>3, <2>4 DEF SweepNoOrderId, SweepProbe, SettleOne, SettleLater,
         SweepUnchanged
  <2>5. ASSUME NEW i \in Intents, SweepProbeFails(i) PROVE Kept
    BY <2>2, <2>3, <2>5 DEF SweepProbeFails, SweepUnchanged
  <2>6. ASSUME SweepSettlements \/ SweepDone \/ ProbeReturns PROVE Kept
    <3>1. [pc |-> "settle", todo |-> OpenPositions] \in [pc : SweepStates, todo : SUBSET Intents]
      BY <2>1 DEF SweepStates
    <3> QED
      BY <2>2, <2>6, <3>1 DEF SweepSettlements, SweepDone, ProbeReturns, SweepUnchanged
  <2>7. Kept
    BY <1>6, <2>4, <2>5, <2>6 DEF Maintenance
  <2> QED
    BY <1>0, <2>7 DEF worldVars, LifecycleTypeOK
<1>7. CASE UNCHANGED vars
  BY <1>0, <1>7 DEF vars, processVars, worldVars, LifecycleTypeOK
<1> QED
  BY <1>1, <1>2, <1>4, <1>5, <1>6, <1>7 DEF Next
\* A step that is no worker's leaves the workers alone, or begins or ends a
\* round, or ends the process.
LEMMA OtherSteps ==
  ASSUME LifecycleInv, [Next]_vars, \A a \in Assets : ~ Worker(a)
  PROVE  /\ \/ UNCHANGED <<round, worker>>
            \/ \A a \in Assets : worker'[a].pc \in {"idle", "observe"}
         /\ UNCHANGED posts
<1>1. CASE World
  BY <1>1 DEF World, VenueAnswers, VenueCloses, Resolve, Tick, processVars
<1>2. CASE Process
  BY <1>2 DEF Process, Boot, Crash, OperatorAttach, OperatorDone, Forget, Idle, worldVars
<1>3. CASE StartRound \/ FinishRound \/ QuietRound
  BY <1>3 DEF StartRound, FinishRound, QuietRound, Idle, worldVars
<1>4. CASE Maintenance
  BY <1>4 DEF Maintenance, SweepNoOrderId, SweepProbe, SweepProbeFails, SettleOne,
       SettleLater, SweepSettlements, SweepDone, ProbeReturns, SweepUnchanged, worldVars
<1>5. CASE UNCHANGED vars
  BY <1>5 DEF vars, processVars, worldVars
<1> QED
  BY <1>1, <1>2, <1>3, <1>4, <1>5 DEF Next

LEMMA QuiescentKept ==
  ASSUME LifecycleInv, [Next]_vars
  PROVE  Quiescent'
<1> USE DEF LifecycleInv, Quiescent, Daemon
<1>1. CASE World
  BY <1>1 DEF World, VenueAnswers, VenueCloses, Resolve, Tick, processVars
<1>2. CASE Process
  <2>1. ASSUME NEW m \in Modes, Boot(m) PROVE Quiescent'
    <3>1. m \in {"live", "shadow"}
      BY LifecycleConstants
    <3> QED
      BY <2>1, <3>1 DEF Boot
  <2>2. CASE Crash \/ OperatorDone
    BY <2>2 DEF Crash, OperatorDone, Forget, Idle
  <2>3. ASSUME NEW i \in Intents, NEW o \in OrderIds, OperatorAttach(i, o)
        PROVE  Quiescent'
    BY <2>3 DEF OperatorAttach
  <2> QED
    BY <1>2, <2>1, <2>2, <2>3 DEF Process
<1>3. CASE StartRound
  <2>1. round' # 0
    BY <1>3 DEF StartRound, Rounds
  <2> QED
    BY <1>3, <2>1 DEF StartRound
<1>4. CASE FinishRound \/ QuietRound
  BY <1>4 DEF FinishRound, QuietRound, Idle
<1>5. ASSUME NEW a \in Assets, Worker(a) PROVE Quiescent'
  <2>1. round # 0
    BY <1>5, WorkerMoves
  <2> QED
    BY <1>5, <2>1, WorkerMoves
<1>6. CASE Maintenance
  <2>1. mode = "down" => sweep.pc = "idle" /\ sweep.todo = {}
    BY DEF NoSweep
  <2>2. UNCHANGED <<mode, round, worker>> /\ (mode = "down" => UNCHANGED sweep)
    BY <1>6, <2>1 DEF Maintenance, SweepNoOrderId, SweepProbe, SweepProbeFails, SettleOne,
         SettleLater, SweepSettlements, SweepDone, ProbeReturns, SweptOne, SweepUnchanged
  <2> QED
    BY <2>2
<1>7. CASE UNCHANGED vars
  BY <1>7 DEF vars, processVars
<1> QED
  BY <1>1, <1>2, <1>3, <1>4, <1>5, <1>6, <1>7 DEF Next

LEMMA SentBackedKept ==
  ASSUME LifecycleInv, [Next]_vars
  PROVE  SentBacked'
<1>1. \A s \in Slugs : markets[s].intent # NoIntent => markets'[s].intent # NoIntent
  BY LifecycleStoreStep, MarketKept DEF LifecycleInv
<1>2. CASE \A a \in Assets : ~ Worker(a)
  <2>1. UNCHANGED posts
    BY <1>2, OtherSteps
  <2>2. CASE UNCHANGED <<round, worker>>
    BY <1>1, <2>1, <2>2 DEF LifecycleInv, SentBacked, SubmitOnce
  <2>3. CASE \A a \in Assets : worker'[a].pc \in {"idle", "observe"}
    BY <1>1, <2>1, <2>3 DEF LifecycleInv, SentBacked, SubmitOnce
  <2> QED
    BY <1>2, <2>2, <2>3, OtherSteps
<1>3. ASSUME NEW a \in Assets, Worker(a) PROVE SentBacked'
  <2> DEFINE s == SlugOf(a, round)
  <2>1. /\ s \in Slugs
        /\ round' = round
        /\ \A b \in Assets \ {a} : worker'[b] = worker[b]
        /\ \A b \in Assets \ {a} : SlugOf(b, round) # s
    BY <1>3, WorkerMoves, BusyRound DEF SlugOf
  <2>2. CASE Post(a)
    <3>1. /\ worker[a].pc = "reserved"
          /\ worker'[a].pc = "posted"
          /\ posts' = [posts EXCEPT ![s] = @ + 1]
      BY <2>2 DEF Post, Step, LifecycleInv, LifecycleTypeOK
    <3>2. posts[s] = 0 /\ markets[s].intent # NoIntent
      BY <3>1, HandMarket, StoreConstants DEF InHand, LifecycleInv, SentBacked
    <3>3. \A r \in Slugs : posts'[r] = IF r = s THEN 1 ELSE posts[r]
      BY <3>1, <3>2 DEF LifecycleInv, LifecycleTypeOK
    <3> QED
      BY <1>1, <2>1, <3>1, <3>2, <3>3 DEF LifecycleInv, SentBacked, SubmitOnce
  <2>3. ASSUME NEW i \in Intents, Reserve(a, i) PROVE SentBacked'
    <3>1. posts' = posts /\ markets[s].state \in {"absent", "observing"}
      BY <2>3 DEF Reserve, ReserveEntry, worldVars
    <3>2. markets[s].intent = NoIntent
      BY <2>1, <3>1 DEF LifecycleInv, StoreInv, RowsConsistent
    <3>3. posts[s] = 0
      BY <2>1, <3>2 DEF LifecycleInv, SentBacked
    <3> QED
      BY <1>1, <2>1, <3>1, <3>3 DEF LifecycleInv, SentBacked, SubmitOnce
  <2>4. CASE ~ Post(a) /\ \A i \in Intents : ~ Reserve(a, i)
    <3>1. posts' = posts
      BY <1>3, <2>4 DEF Worker, Submission, Observe, HoldEntry, ShadowFill, Acknowledged,
           Rejected, Ambiguous, WriteFails, PollTerminal, GiveUpPolling, worldVars
    <3>2. \E pc, i : \E next \in {"decide", "polling", "done"} : Step(a, pc, next, i)
      BY <1>3, <2>4 DEF Worker, Submission, Observe, HoldEntry, ShadowFill, Acknowledged,
           Rejected, Ambiguous, WriteFails, PollTerminal, GiveUpPolling
    <3>3. worker'[a].pc # "reserved"
      BY <3>2 DEF Step, LifecycleInv, LifecycleTypeOK
    <3> QED
      BY <1>1, <2>1, <3>1, <3>3 DEF LifecycleInv, SentBacked, SubmitOnce
  <2> QED
    BY <2>2, <2>3, <2>4
<1> QED
  BY <1>2, <1>3
LEMMA ObservedKept ==
  ASSUME LifecycleInv, [Next]_vars
  PROVE  Observed'
<1>1. [StoreNext]_storeVars
  BY LifecycleStoreStep
<1>2. \A s \in Slugs :
        markets[s].state # "absent" =>
          /\ markets'[s].state # "absent"
          /\ markets'[s].condition = markets[s].condition
  BY <1>1, MarketKept DEF LifecycleInv
<1>3. \A s \in Slugs : markets'[s].state # "absent" => markets'[s].condition # NoCondition
  <2> SUFFICES ASSUME NEW s \in Slugs, markets[s].state = "absent",
                      markets'[s].state # "absent"
               PROVE  markets'[s].condition # NoCondition
    BY <1>2 DEF LifecycleInv, Observed
  <2>1. /\ markets \in [Slugs -> MarketRow]
        /\ \A i \in Intents : markets[s].intent # i
    BY StoreConstants DEF LifecycleInv, StoreInv, StoreTypeOK, RowsConsistent
  <2>2. ASSUME NEW r \in Slugs, NEW c \in Conditions,
               ObserveMarket(r, c) \/ \E i \in Intents : ReserveEntry(r, c, i)
        PROVE  markets'[s].condition # NoCondition
    BY <2>1, <2>2, StoreConstants DEF ObserveMarket, ReserveEntry
  <2>3. ASSUME NEW i \in Intents, NEW from, NEW to, markets' = MoveMarket(i, from, to)
        PROVE  FALSE
    BY <2>1, <2>3 DEF MoveMarket
  <2>4. ASSUME NEW i \in Intents,
               \/ \E o \in OrderIds \cup {NoOrder} : MarkSubmitted(i, o)
               \/ \E class \in Classes : MarkExecutionUnknown(i, class)
               \/ \E o \in OrderIds : AttachRecoveredOrderId(i, o)
               \/ \E q \in 0..Qty : MarkTerminalExecution(i, q)
        PROVE  FALSE
    BY <2>3, <2>4 DEF MarkSubmitted, MarkExecutionUnknown, AttachRecoveredOrderId,
         MarkTerminalExecution
  <2>5. CASE InitializeRuntimeState
    BY <2>1, <2>5 DEF InitializeRuntimeState, Unresolved
  <2>6. ASSUME NEW r \in Slugs, NEW p \in Outcomes, RecordSettlement(r, p) PROVE FALSE
    BY <2>1, <2>6 DEF RecordSettlement
  <2>7. CASE UNCHANGED storeVars
    BY <2>7 DEF storeVars
  <2> QED
    BY <1>1, <2>2, <2>4, <2>5, <2>6, <2>7 DEF StoreNext
<1>4. ASSUME NEW a \in Assets, worker'[a].pc = "decide"
      PROVE  markets'[SlugOf(a, round')].state # "absent"
  <2>1. CASE \A b \in Assets : ~ Worker(b)
    <3>1. UNCHANGED <<round, worker>>
      BY <1>4, <2>1, OtherSteps
    <3>2. SlugOf(a, round) \in Slugs
      BY <1>4, <3>1, BusyRound
    <3> QED
      BY <1>2, <1>4, <3>1, <3>2 DEF LifecycleInv, Observed
  <2>2. ASSUME NEW b \in Assets, Worker(b) PROVE markets'[SlugOf(a, round')].state # "absent"
    <3>1. /\ round' = round
          /\ \A d \in Assets \ {b} : worker'[d] = worker[d]
          /\ SlugOf(a, round) \in Slugs
      <4>1. /\ worker[b].pc # "idle"
            /\ round' = round
            /\ \A d \in Assets \ {b} : worker'[d] = worker[d]
        BY <2>2, WorkerMoves
      <4>2. round # 0
        BY <4>1 DEF LifecycleInv, Quiescent
      <4> QED
        BY <4>1, <4>2, SlugOfType DEF LifecycleInv
    <3>2. CASE a # b
      BY <1>2, <1>4, <3>1, <3>2 DEF LifecycleInv, Observed
    <3>3. CASE a = b
      <4>1. \E c \in Conditions : Observe(a, c)
        <5>1. ASSUME NEW pc, NEW next, NEW i, Step(a, pc, next, i) PROVE next = "decide"
          BY <1>4, <5>1 DEF Step, LifecycleInv, LifecycleTypeOK
        <5> QED
          BY <2>2, <3>3, <5>1 DEF Worker, Submission, HoldEntry, Reserve, ShadowFill, Post,
               Acknowledged, Rejected, Ambiguous, WriteFails, PollTerminal, GiveUpPolling
      <4> QED
        BY <3>1, <4>1 DEF Observe, ObserveMarket, LifecycleInv, StoreInv, StoreTypeOK
    <3> QED
      BY <3>2, <3>3
  <2> QED
    BY <2>1, <2>2
<1> QED
  BY <1>3, <1>4 DEF Observed
\* A worker writes no order but the one in its hand, or a fresh one.
LEMMA WorkerRows ==
  ASSUME LifecycleInv, NEW a \in Assets, Worker(a),
         NEW j \in Intents, orders[j].state # "absent",
         InHand(a) => j # worker[a].intent
  PROVE  orders'[j] = orders[j]
<1>0. StoreTypeOK
  BY DEF LifecycleInv, StoreInv
<1>1. ASSUME NEW c \in Conditions, Observe(a, c) PROVE orders' = orders
  BY <1>1 DEF Observe, ObserveMarket
<1>2. CASE HoldEntry(a) \/ Post(a) \/ WriteFails(a) \/ GiveUpPolling(a)
  BY <1>2 DEF HoldEntry, Post, WriteFails, GiveUpPolling, storeVars
<1>3. ASSUME NEW i \in Intents, Reserve(a, i) PROVE orders'[j] = orders[j]
  BY <1>0, <1>3 DEF Reserve, ReserveEntry, StoreTypeOK
<1>4. ASSUME ShadowFill(a) \/ Rejected(a) \/ Ambiguous(a) \/ Acknowledged(a) \/ PollTerminal(a)
      PROVE  orders'[j] = orders[j]
  <2>1. InHand(a)
    BY <1>4 DEF ShadowFill, Rejected, Ambiguous, Acknowledged, PollTerminal, Step, InHand
  <2>2. worker[a].intent \in Intents
    BY <2>1 DEF LifecycleInv, HandsHold
  <2>3. \E q, o, class : \/ MarkTerminalExecution(worker[a].intent, q)
                         \/ MarkExecutionUnknown(worker[a].intent, class)
                         \/ MarkSubmitted(worker[a].intent, o)
    BY <1>4 DEF ShadowFill, Rejected, Ambiguous, Acknowledged, PollTerminal, WriteTerminal
  <2> QED
    BY <1>0, <2>1, <2>2, <2>3, WrittenRows
<1> QED
  BY <1>1, <1>2, <1>3, <1>4 DEF Worker, Submission

\* A sweep writes no order but those on its list, and takes each off the list.
LEMMA SweepRows ==
  ASSUME LifecycleInv, Maintenance
  PROVE  /\ \A j \in Intents \ sweep.todo : orders'[j] = orders[j]
         /\ \/ /\ sweep'.todo \subseteq sweep.todo
               /\ \A j \in sweep'.todo : orders'[j] = orders[j]
               /\ sweep'.pc = sweep.pc \/ sweep'.todo = {}
            \/ /\ sweep' = [pc |-> "settle", todo |-> OpenPositions]
               /\ UNCHANGED orders
<1> DEFINE Rows == /\ \A j \in Intents \ sweep.todo : orders'[j] = orders[j]
                   /\ sweep'.todo \subseteq sweep.todo
                   /\ \A j \in sweep'.todo : orders'[j] = orders[j]
                   /\ sweep'.pc = sweep.pc \/ sweep'.todo = {}
<1>0. /\ StoreTypeOK
      /\ sweep \in [pc : SweepStates, todo : SUBSET Intents]
  BY DEF LifecycleInv, LifecycleTypeOK
<1>1. ASSUME NEW i \in Intents, SweptOne(i), \A j \in Intents \ {i} : orders'[j] = orders[j]
      PROVE  Rows
  BY <1>0, <1>1 DEF SweptOne
<1>2. ASSUME NEW i \in Intents, SweepNoOrderId(i) PROVE Rows
  BY <1>0, <1>1, <1>2, WrittenRows DEF SweepNoOrderId
<1>3. ASSUME NEW i \in Intents, SweepProbe(i) PROVE Rows
  <2>1. \A j \in Intents \ {i} : orders'[j] = orders[j]
    <3>1. CASE \E q, class : MarkTerminalExecution(i, q) \/ MarkExecutionUnknown(i, class)
      BY <1>0, <3>1, WrittenRows
    <3>2. CASE UNCHANGED storeVars
      BY <3>2 DEF storeVars
    <3> QED
      BY <1>3, <3>1, <3>2 DEF SweepProbe, WriteTerminal
  <2> QED
    BY <1>1, <1>3, <2>1 DEF SweepProbe
<1>4. ASSUME NEW i \in Intents, SweepProbeFails(i) PROVE Rows
  <2>1. \A j \in Intents \ {i} : orders'[j] = orders[j]
    BY <1>0, <1>4, WrittenRows DEF SweepProbeFails
  <2>2. CASE SweptOne(i)
    BY <1>1, <2>1, <2>2
  <2>3. CASE /\ i \in sweep.todo
             /\ sweep' = IF sweep.pc = "startup" THEN [sweep EXCEPT !.todo = {}] ELSE NoSweep
    BY <1>0, <2>1, <2>3 DEF NoSweep
  <2> QED
    BY <1>4, <2>2, <2>3 DEF SweepProbeFails
<1>5. ASSUME NEW i \in Intents, SettleOne(i) \/ SettleLater(i) PROVE Rows
  BY <1>1, <1>5 DEF SettleOne, SettleLater, RecordSettlement, storeVars
<1>6. ASSUME SweepDone \/ ProbeReturns PROVE Rows
  BY <1>6 DEF SweepDone, ProbeReturns, NoSweep, storeVars
<1>7. CASE SweepSettlements
  <2>1. orders' = orders
    BY <1>7 DEF SweepSettlements, storeVars
  <2> QED
    BY <1>7, <2>1 DEF SweepSettlements, NoSweep
<1> QED
  BY <1>2, <1>3, <1>4, <1>5, <1>6, <1>7 DEF Maintenance

\* An open position is a filled order, so no worker and no probe works on it.
LEMMA PositionsFilled ==
  ASSUME StoreInv, NEW i \in OpenPositions
  PROVE  i \in Intents /\ orders[i].state = "filled"
<1>1. i \in Intents /\ orders[i].filled > 0 /\ markets[orders[i].slug].state = "open"
  BY DEF OpenPositions
<1>2. orders[i].state # "absent"
  BY <1>1 DEF StoreInv, RowsConsistent, NoRow
<1> QED
  BY <1>1, <1>2 DEF StoreInv, StoreTypeOK, OrderRow, OrderStates, StatesAgree, Beside,
       Unresolved

LEMMA SweepHoldsKept ==
  ASSUME LifecycleInv, [Next]_vars
  PROVE  SweepHolds'
<1>0. StoreInv /\ StoreInv'
  BY LifecycleStoreStep, StoreStepInv DEF LifecycleInv
<1>1. CASE World
  BY <1>1 DEF World, VenueAnswers, VenueCloses, Resolve, Tick, processVars, storeVars,
       LifecycleInv, SweepHolds
<1>2. ASSUME NEW m \in Modes, Boot(m) PROVE SweepHolds'
  BY <1>2 DEF Boot, LifecycleInv, Quiescent, NoSweep, SweepHolds
<1>3. CASE Crash \/ OperatorDone
  BY <1>3 DEF Crash, OperatorDone, Forget, NoSweep, SweepHolds
<1>4. ASSUME NEW i \in Intents, NEW o \in OrderIds, OperatorAttach(i, o)
      PROVE  SweepHolds'
  <2>1. \A j \in (UnresolvedOrders)' : /\ j \in Intents
                                       /\ orders'[j].state # "absent"
                                       /\ markets'[orders'[j].slug].state \in Unresolved
    BY DEF UnresolvedOrders
  <2>2. \A j \in (UnresolvedOrders)' : orders'[j].state \in Unresolved
    BY <1>0, <2>1 DEF StoreInv, StatesAgree, Beside, Unresolved
  <2>3. sweep'.todo = (UnresolvedOrders)'
    BY <1>4 DEF OperatorAttach
  <2> QED
    BY <2>1, <2>2, <2>3 DEF SweepHolds
<1>5. CASE StartRound
  BY <1>5 DEF StartRound, storeVars, LifecycleInv, SweepHolds
<1>6. CASE FinishRound \/ QuietRound
  <2>1. Trigger /\ orders' = orders
    BY <1>6 DEF FinishRound, QuietRound, storeVars
  <2>2. CASE sweep' = sweep
    BY <2>1, <2>2 DEF LifecycleInv, SweepHolds
  <2>3. CASE sweep' = NewSweep
    BY <1>0, <2>1, <2>3, PositionsFilled DEF NewSweep, SweepHolds, Unresolved
  <2> QED
    BY <2>1, <2>2, <2>3 DEF Trigger
<1>7. ASSUME NEW a \in Assets, Worker(a) PROVE SweepHolds'
  <2>1. sweep' = sweep
    BY <1>7, WorkerMoves
  <2>2. ASSUME NEW j \in sweep.todo PROVE orders'[j] = orders[j]
    <3>1. /\ j \in Intents
          /\ orders[j].state # "absent"
          /\ InHand(a) => j # worker[a].intent
      BY DEF LifecycleInv, LifecycleTypeOK, SweepHolds, HandsHold
    <3> QED
      BY <1>7, <3>1, WorkerRows
  <2> QED
    BY <2>1, <2>2 DEF LifecycleInv, SweepHolds
<1>8. CASE Maintenance
  <2>1. CASE /\ sweep'.todo \subseteq sweep.todo
             /\ \A j \in sweep'.todo : orders'[j] = orders[j]
             /\ sweep'.pc = sweep.pc \/ sweep'.todo = {}
    BY <2>1 DEF LifecycleInv, SweepHolds
  <2>2. CASE sweep' = [pc |-> "settle", todo |-> OpenPositions] /\ UNCHANGED orders
    BY <1>0, <2>2, PositionsFilled DEF SweepHolds
  <2> QED
    BY <1>8, <2>1, <2>2, SweepRows
<1>9. CASE UNCHANGED vars
  BY <1>9 DEF vars, storeVars, processVars, LifecycleInv, SweepHolds
<1> QED
  BY <1>1, <1>2, <1>3, <1>4, <1>5, <1>6, <1>7, <1>8, <1>9 DEF Next, Process
\* What a worker's own step does to the record in its hand.
LEMMA OwnHand ==
  ASSUME LifecycleInv, NEW a \in Assets, Worker(a), InHand(a)'
  PROVE  LET i == worker'[a].intent IN
         /\ i \in Intents
         /\ orders'[i].slug = SlugOf(a, round)
         /\ orders'[i].state =
              IF worker'[a].pc = "polling" THEN "submitted" ELSE "entry_reserved"
         /\ i \notin sweep.todo
<1> DEFINE i == worker'[a].intent
           Own == /\ i \in Intents
                  /\ orders'[i].slug = SlugOf(a, round)
                  /\ orders'[i].state =
                       IF worker'[a].pc = "polling" THEN "submitted" ELSE "entry_reserved"
                  /\ i \notin sweep.todo
<1>0. /\ StoreTypeOK
      /\ worker \in [Assets -> [pc : WorkerStates, intent : Intents \cup {NoIntent}]]
      /\ worker'[a].pc \in {"reserved", "posted", "polling"}
  BY DEF LifecycleInv, LifecycleTypeOK, InHand
<1>1. ASSUME NEW pc, NEW next, NEW j, Step(a, pc, next, j)
      PROVE  /\ worker[a].pc = pc
             /\ worker'[a].pc = next
             /\ i = j
  BY <1>0, <1>1 DEF Step
<1>2. ASSUME NEW j \in Intents, Reserve(a, j) PROVE Own
  <2>1. i = j /\ worker'[a].pc = "reserved"
    BY <1>1, <1>2 DEF Reserve
  <2>2. orders[j].state = "absent"
    BY <1>2 DEF Reserve, ReserveEntry
  <2>3. j \notin sweep.todo
    BY <2>2 DEF LifecycleInv, SweepHolds
  <2>4. orders'[j] = [NoRow EXCEPT !.state = "entry_reserved", !.slug = SlugOf(a, round)]
    BY <1>0, <1>2 DEF Reserve, ReserveEntry, StoreTypeOK
  <2> QED
    BY <2>1, <2>3, <2>4 DEF NoRow
<1>3. CASE Post(a)
  <2>1. /\ worker[a].pc = "reserved"
        /\ worker'[a].pc = "posted"
        /\ i = worker[a].intent
        /\ orders' = orders
    BY <1>1, <1>3 DEF Post, storeVars
  <2> QED
    BY <2>1 DEF LifecycleInv, HandsHold, InHand
<1>4. CASE Acknowledged(a)
  <2>1. /\ worker[a].pc = "posted"
        /\ worker'[a].pc = "polling"
        /\ i = worker[a].intent
        /\ MarkSubmitted(i, i)
    BY <1>1, <1>4 DEF Acknowledged
  <2>2. /\ i \in Intents
        /\ orders[i].slug = SlugOf(a, round)
        /\ i \notin sweep.todo
        /\ i # NoOrder
    BY <2>1, LifecycleConstants, StoreConstants DEF LifecycleInv, HandsHold, InHand
  <2>3. orders' = [orders EXCEPT ![i].state = "submitted", ![i].orderId = i,
                                 ![i].class = "none"]
    BY <2>1, <2>2 DEF MarkSubmitted
  <2>4. orders'[i].state = "submitted" /\ orders'[i].slug = orders[i].slug
    BY <1>0, <2>2, <2>3 DEF StoreTypeOK, OrderRow
  <2> QED
    BY <2>1, <2>2, <2>4
<1>5. ASSUME NEW c \in Conditions, Observe(a, c) PROVE FALSE
  BY <1>0, <1>1, <1>5 DEF Observe
<1>6. CASE \/ HoldEntry(a)
           \/ ShadowFill(a)
           \/ Rejected(a)
           \/ Ambiguous(a)
           \/ WriteFails(a)
           \/ PollTerminal(a)
           \/ GiveUpPolling(a)
  <2>1. worker'[a].pc = "done"
    BY <1>1, <1>6 DEF HoldEntry, ShadowFill, Rejected, Ambiguous, WriteFails, PollTerminal,
         GiveUpPolling
  <2> QED
    BY <1>0, <2>1
<1> QED
  BY <1>2, <1>3, <1>4, <1>5, <1>6 DEF Worker, Submission

LEMMA HandsHoldKept ==
  ASSUME LifecycleInv, [Next]_vars
  PROVE  HandsHold'
<1>0. StoreInv
  BY DEF LifecycleInv
<1>1. CASE \A a \in Assets : worker'[a].pc \in {"idle", "observe"}
  BY <1>1 DEF HandsHold, InHand
<1>2. ASSUME UNCHANGED <<round, worker>>,
             \A a \in Assets : InHand(a) =>
               /\ orders'[worker[a].intent] = orders[worker[a].intent]
               /\ worker[a].intent \notin sweep'.todo
      PROVE  HandsHold'
  BY <1>2 DEF LifecycleInv, HandsHold, InHand
<1>3. CASE World
  <2>1. UNCHANGED <<orders, sweep, round, worker>>
    BY <1>3 DEF World, VenueAnswers, VenueCloses, Resolve, Tick, processVars, storeVars
  <2> QED
    BY <1>2, <2>1 DEF LifecycleInv, HandsHold
<1>4. CASE Process
  <2>1. CASE mode \in {"down", "operator"} /\ UNCHANGED <<round, worker>>
    BY <1>1, <2>1 DEF LifecycleInv, Quiescent, Daemon
  <2>2. CASE Forget
    BY <1>1, <2>2 DEF Forget, Idle
  <2> QED
    BY <1>4, <2>1, <2>2 DEF Process, Boot, Crash, OperatorAttach, OperatorDone
<1>5. CASE StartRound \/ FinishRound
  BY <1>1, <1>5 DEF StartRound, FinishRound, Idle
<1>6. CASE QuietRound
  BY <1>1, <1>6 DEF QuietRound, LifecycleInv, Quiescent
<1>7. ASSUME NEW a \in Assets, Worker(a) PROVE HandsHold'
  <2>1. /\ UNCHANGED <<round, sweep>>
        /\ \A b \in Assets \ {a} : worker'[b] = worker[b]
    BY <1>7, WorkerMoves
  <2>2. ASSUME NEW b \in Assets \ {a}, InHand(b)
        PROVE  orders'[worker[b].intent] = orders[worker[b].intent]
    <3>1. worker[b].intent \in Intents /\ orders[worker[b].intent].state # "absent"
      BY <2>2, HandMarket DEF Unresolved
    <3>2. InHand(a) => worker[b].intent # worker[a].intent
      BY <2>2, DistinctHands DEF LifecycleInv
    <3> QED
      BY <1>7, <3>1, <3>2, WorkerRows
  <2>3. InHand(a)' => LET i == worker'[a].intent IN
                      /\ i \in Intents
                      /\ orders'[i].slug = SlugOf(a, round)
                      /\ orders'[i].state = IF worker'[a].pc = "polling"
                                            THEN "submitted" ELSE "entry_reserved"
                      /\ i \notin sweep.todo
    BY <1>7, OwnHand
  <2> QED
    BY <2>1, <2>2, <2>3 DEF LifecycleInv, HandsHold, InHand, SlugOf
<1>8. CASE Maintenance
  <2>1. UNCHANGED <<round, worker>>
    BY <1>8 DEF Maintenance, SweepNoOrderId, SweepProbe, SweepProbeFails, SettleOne,
         SettleLater, SweepSettlements, SweepDone, ProbeReturns, SweepUnchanged
  <2>2. ASSUME NEW a \in Assets, InHand(a)
        PROVE  /\ orders'[worker[a].intent] = orders[worker[a].intent]
               /\ worker[a].intent \notin sweep'.todo
    <3>1. /\ worker[a].intent \in Intents \ sweep.todo
          /\ orders[worker[a].intent].state # "filled"
      BY <2>2 DEF LifecycleInv, HandsHold
    <3>2. worker[a].intent \notin OpenPositions
      BY <1>0, <3>1, PositionsFilled
    <3> QED
      BY <1>8, <3>1, <3>2, SweepRows
  <2> QED
    BY <1>2, <2>1, <2>2
<1>9. CASE UNCHANGED vars
  BY <1>2, <1>9 DEF vars, processVars, storeVars, LifecycleInv, HandsHold
<1> QED
  BY <1>3, <1>4, <1>5, <1>6, <1>7, <1>8, <1>9 DEF Next

-----------------------------------------------------------------------------
(* The theorems.                                                           *)

LEMMA LifecycleStepInv ==
  ASSUME LifecycleInv, [Next]_vars
  PROVE  LifecycleInv'
<1>1. StoreInv'
  BY LifecycleStoreStep, StoreStepInv DEF LifecycleInv
<1> QED
  BY <1>1, TypesKept, QuiescentKept, HandsHoldKept, SweepHoldsKept, SentBackedKept,
     ObservedKept DEF LifecycleInv

\* The strengthening that the other theorems rest on is an invariant.
THEOREM LifecycleInvariant == Spec => []LifecycleInv
<1>1. Init => LifecycleInv
  BY InitLifecycle
<1>2. LifecycleInv /\ [Next]_vars => LifecycleInv'
  BY LifecycleStepInv
<1> QED
  BY <1>1, <1>2, PTL DEF Spec

\* The variables of the process, the venue and the store keep their types.
THEOREM LifecycleTypes == Spec => []LifecycleTypeOK
BY LifecycleInvariant, PTL DEF LifecycleInv

\* At most one order is ever sent for a market, whatever crashes, timeouts,
\* rejoined rounds and operator sessions happen.
THEOREM SentOnce == Spec => []SubmitOnce
BY LifecycleInvariant, PTL DEF LifecycleInv, SentBacked

\* The threads use the store only through its methods, so everything proved of
\* the store's own specification holds in the running system.
THEOREM LifecycleUsesStore == Spec => StoreSpec
<1>1. Init => StoreInit
  BY DEF Init
<1>2. LifecycleInv /\ [Next]_vars => [StoreNext]_storeVars
  BY LifecycleStoreStep
<1> QED
  BY <1>1, <1>2, LifecycleInvariant, PTL DEF Spec, StoreSpec

\* No worker and no sweep ever work on the same order.
THEOREM OneReconciler == Spec => []OneReconcilerPerOrder
<1>1. LifecycleInv => OneReconcilerPerOrder
  BY DEF LifecycleInv, HandsHold, InHand, OneReconcilerPerOrder
<1> QED
  BY <1>1, LifecycleInvariant, PTL
-----------------------------------------------------------------------------
(* Final results.                                                          *)

FinalStates == {"filled", "no_fill", "retired"}

LEMMA FinalKept ==
  ASSUME LifecycleInv, [Next]_vars, NEW j \in Intents, orders[j].state \in FinalStates
  PROVE  orders'[j] = orders[j]
<1> USE DEF FinalStates
<1>1. StoreTypeOK
  BY DEF LifecycleInv, StoreInv
<1>2. CASE World
  BY <1>2 DEF World, VenueAnswers, VenueCloses, Resolve, Tick, storeVars
<1>3. CASE Process
  <2>1. CASE InitializeRuntimeState
    BY <2>1 DEF InitializeRuntimeState, Unresolved
  <2>2. ASSUME NEW i \in Intents, NEW o \in OrderIds, AttachRecoveredOrderId(i, o)
        PROVE  orders'[j] = orders[j]
    BY <1>1, <2>2 DEF AttachRecoveredOrderId, StoreTypeOK
  <2> QED
    BY <1>3, <2>1, <2>2 DEF Process, Boot, Crash, OperatorAttach, OperatorDone, storeVars
<1>4. CASE StartRound \/ FinishRound \/ QuietRound
  BY <1>4 DEF StartRound, FinishRound, QuietRound, storeVars
<1>5. ASSUME NEW a \in Assets, Worker(a) PROVE orders'[j] = orders[j]
  BY <1>5, WorkerRows DEF LifecycleInv, HandsHold
<1>6. CASE Maintenance
  <2>1. CASE j \notin sweep.todo
    BY <1>6, <2>1, SweepRows
  <2>2. CASE j \in sweep.todo
    <3>1. sweep.pc = "settle"
      BY <2>2 DEF LifecycleInv, SweepHolds, Unresolved
    <3> QED
      BY <1>6, <3>1 DEF Maintenance, SweepNoOrderId, SweepProbe, SweepProbeFails,
           SettleOne, SettleLater, SweepSettlements, SweepDone, ProbeReturns,
           RecordSettlement, storeVars
  <2> QED
    BY <2>1, <2>2
<1>7. CASE UNCHANGED vars
  BY <1>7 DEF vars, storeVars
<1> QED
  BY <1>2, <1>3, <1>4, <1>5, <1>6, <1>7 DEF Next

\* Nothing rewrites a result, although mark_execution_unknown would: no caller
\* holds an order that has one.
THEOREM ResultsFinal == Spec => ResultIsFinal
<1>1. LifecycleInv /\ [Next]_vars =>
        [\A i \in Intents :
           orders[i].state \in {"filled", "no_fill", "retired"} =>
             orders'[i] = orders[i]]_vars
  BY FinalKept DEF FinalStates
<1> QED
  BY <1>1, LifecycleInvariant, PTL DEF Spec, ResultIsFinal

-----------------------------------------------------------------------------
(* The refinement of EntryOnce.                                            *)

\* The stage of every state of a market, and the table of stages.
LEMMA StageOfStates ==
  /\ StageOf("absent") = "free"
  /\ StageOf("observing") = "free"
  /\ StageOf("entry_reserved") = "committed"
  /\ StageOf("submitted") = "committed"
  /\ StageOf("execution_unknown") = "committed"
  /\ StageOf("open") = "held"
  /\ StageOf("no_fill") = "missed"
  /\ StageOf("settled") = "settled"
  /\ StageOf("retired") = "given_up"
<1>1. StageOf("absent") = "free" /\ StageOf("observing") = "free"
  BY DEF StageOf, Unresolved
<1>2. /\ StageOf("entry_reserved") = "committed"
      /\ StageOf("submitted") = "committed"
      /\ StageOf("execution_unknown") = "committed"
  BY DEF StageOf, Unresolved
<1>3. StageOf("open") = "held" /\ StageOf("no_fill") = "missed"
  BY DEF StageOf, Unresolved
<1>4. StageOf("settled") = "settled" /\ StageOf("retired") = "given_up"
  BY DEF StageOf, Unresolved
<1> QED
  BY <1>1, <1>2, <1>3, <1>4

\* One market's stage changes.
Advance(s, from, to) ==
  /\ Stage[s] = from
  /\ Stage' = [Stage EXCEPT ![s] = to]

StagesForward ==
  \/ UNCHANGED Stage
  \/ \E s \in Slugs : \/ Advance(s, "free", "committed")
                      \/ Advance(s, "committed", "held")
                      \/ Advance(s, "committed", "missed")
                      \/ Advance(s, "held", "settled")
  \/ Stage' = [s \in Slugs |-> IF Stage[s] = "committed" THEN "given_up" ELSE Stage[s]]

\* One row of markets changes, and with it one stage.
LEMMA RowAdvances ==
  ASSUME NEW own \in Slugs, \A s \in Slugs \ {own} : markets'[s].state = markets[s].state
  PROVE  /\ Stage[own] = StageOf(markets[own].state)
         /\ Stage' = [Stage EXCEPT ![own] = StageOf(markets'[own].state)]
BY DEF Stage

\* The market of an unresolved order stays within its stage or moves onward.
LEMMA StageMoves ==
  ASSUME StoreInv, NEW i \in Intents, orders[i].state \in Unresolved,
         NEW from, NEW to \in {"submitted", "execution_unknown", "open", "no_fill"},
         markets' = MoveMarket(i, from, to)
  PROVE  StagesForward
<1>1. /\ orders[i].state # "absent"
      /\ markets[orders[i].slug].state \in Unresolved
  BY UnresolvedMarket
<1>2. PICK own \in Slugs : own = orders[i].slug
  BY <1>1 DEF StoreInv, OneIntentPerMarket
<1>3. /\ markets \in [Slugs -> MarketRow]
      /\ markets[own].intent = i
      /\ \A s \in Slugs \ {own} : markets[s].intent # i
  BY <1>1, <1>2, StoreConstants DEF StoreInv, StoreTypeOK, OneIntentPerMarket
<1>4. \A s \in Slugs \ {own} : markets'[s].state = markets[s].state
  BY <1>3 DEF MoveMarket
<1>5. /\ Stage[own] = StageOf(markets[own].state)
      /\ Stage' = [Stage EXCEPT ![own] = StageOf(markets'[own].state)]
  BY <1>4, RowAdvances
<1>6. Stage[own] = "committed"
  BY <1>1, <1>2, <1>5, StageOfStates DEF Unresolved
<1>7. markets'[own].state \in {markets[own].state, to}
  BY <1>3 DEF MoveMarket, MarketRow
<1>8. StageOf(markets'[own].state) \in {"committed", "held", "missed"}
  BY <1>5, <1>6, <1>7, StageOfStates
<1>9. StageOf(markets'[own].state) = "committed" => Stage' = Stage
  BY <1>5, <1>6 DEF Stage
<1> QED
  BY <1>2, <1>5, <1>6, <1>8, <1>9 DEF StagesForward, Advance

\* A step of the store that rewrites no result moves the stages as EntryOnce
\* allows.
LEMMA StoreStagesForward ==
  ASSUME StoreInv, [StoreNext]_storeVars,
         \A j \in Intents : orders[j].state \in FinalStates => orders'[j] = orders[j]
  PROVE  StagesForward
<1>0. /\ markets \in [Slugs -> MarketRow]
      /\ orders \in [Intents -> OrderRow]
  BY DEF StoreInv, StoreTypeOK
<1>1. ASSUME markets' = markets PROVE StagesForward
  BY <1>1 DEF StagesForward, Stage
<1>2. ASSUME NEW s \in Slugs, NEW c \in Conditions, ObserveMarket(s, c)
      PROVE  StagesForward
  <2>1. CASE markets' = markets
    BY <1>1, <2>1
  <2>2. CASE /\ markets[s].state = "absent"
             /\ markets' = [markets EXCEPT ![s] =
                  [state |-> "observing", intent |-> NoIntent, condition |-> c]]
    <3>1. /\ markets'[s].state = "observing"
          /\ \A r \in Slugs \ {s} : markets'[r].state = markets[r].state
      BY <1>0, <2>2
    <3>2. /\ Stage[s] = "free"
          /\ Stage' = [Stage EXCEPT ![s] = "free"]
      BY <2>2, <3>1, RowAdvances, StageOfStates
    <3> QED
      BY <3>2 DEF StagesForward, Stage
  <2> QED
    BY <1>2, <2>1, <2>2 DEF ObserveMarket
<1>3. ASSUME NEW s \in Slugs, NEW c \in Conditions, NEW i \in Intents,
             ReserveEntry(s, c, i)
      PROVE  StagesForward
  <2>1. /\ markets[s].state \in {"absent", "observing"}
        /\ markets'[s].state = "entry_reserved"
        /\ \A r \in Slugs \ {s} : markets'[r].state = markets[r].state
    BY <1>0, <1>3 DEF ReserveEntry
  <2> QED
    BY <2>1, RowAdvances, StageOfStates DEF StagesForward, Advance
<1>4. ASSUME NEW i \in Intents, NEW class \in Classes, MarkExecutionUnknown(i, class)
      PROVE  StagesForward
  <2>1. CASE orders[i].state = "absent"
    <3>1. \A s \in Slugs : markets[s].intent # i
      BY <2>1, StoreConstants DEF StoreInv, OneIntentPerMarket, RowsConsistent, NoRow
    <3>2. markets' = markets
      BY <1>0, <1>4, <3>1 DEF MarkExecutionUnknown, MoveMarket
    <3> QED
      BY <1>1, <3>2
  <2>2. CASE orders[i].state # "absent"
    <3>1. orders'[i].state = "execution_unknown"
      BY <1>0, <1>4, <2>2 DEF MarkExecutionUnknown, OrderRow
    <3>2. orders[i].state \in Unresolved
      BY <1>0, <2>2, <3>1 DEF OrderRow, OrderStates, FinalStates, Unresolved
    <3> QED
      BY <1>4, <3>2, StageMoves DEF MarkExecutionUnknown
  <2> QED
    BY <2>1, <2>2
<1>5. ASSUME NEW i \in Intents, NEW o \in OrderIds \cup {NoOrder}, MarkSubmitted(i, o)
      PROVE  StagesForward
  BY <1>4, <1>5, StageMoves DEF MarkSubmitted, Unresolved, Classes
<1>6. ASSUME NEW i \in Intents, NEW o \in OrderIds, AttachRecoveredOrderId(i, o)
      PROVE  StagesForward
  BY <1>6, StageMoves DEF AttachRecoveredOrderId, Unresolved
<1>7. ASSUME NEW i \in Intents, NEW q \in 0..Qty, MarkTerminalExecution(i, q)
      PROVE  StagesForward
  BY <1>7, StageMoves DEF MarkTerminalExecution
<1>8. CASE InitializeRuntimeState
  <2>1. \A s \in Slugs :
          markets'[s].state = IF markets[s].state \in Unresolved
                              THEN "retired" ELSE markets[s].state
    BY <1>0, <1>8 DEF InitializeRuntimeState, MarketRow
  <2>2. \A s \in Slugs : Stage[s] = "committed" <=> markets[s].state \in Unresolved
    BY <1>0, StageOfStates DEF Stage, MarketRow, MarketStates, Unresolved
  <2>3. \A s \in Slugs :
          Stage'[s] = IF Stage[s] = "committed" THEN "given_up" ELSE Stage[s]
    BY <2>1, <2>2, StageOfStates DEF Stage
  <2> QED
    BY <2>3 DEF StagesForward, Stage
<1>9. ASSUME NEW s \in Slugs, NEW p \in Outcomes, RecordSettlement(s, p)
      PROVE  StagesForward
  <2>1. CASE /\ markets[s].state = "open"
             /\ markets' = [markets EXCEPT ![s].state = "settled"]
    <3>1. /\ markets'[s].state = "settled"
          /\ \A r \in Slugs \ {s} : markets'[r].state = markets[r].state
      BY <1>0, <2>1 DEF MarketRow
    <3> QED
      BY <2>1, <3>1, RowAdvances, StageOfStates DEF StagesForward, Advance
  <2> QED
    BY <1>1, <1>9, <2>1 DEF RecordSettlement
<1>10. CASE UNCHANGED storeVars
  BY <1>1, <1>10 DEF storeVars
<1> QED
  BY <1>2, <1>3, <1>4, <1>5, <1>6, <1>7, <1>8, <1>9, <1>10 DEF StoreNext

\* Only a worker's POST adds to the history of orders sent: one for a market
\* whose capital is committed and to which none was sent.
LEMMA PostsOnce ==
  ASSUME LifecycleInv, [Next]_vars
  PROVE  \/ UNCHANGED posts
         \/ \E s \in Slugs : Once!Send(s)
<1>1. CASE \A a \in Assets : ~ Worker(a)
  BY <1>1, OtherSteps
<1>2. ASSUME NEW a \in Assets, Post(a) PROVE \E s \in Slugs : Once!Send(s)
  <2>1. /\ worker[a].pc = "reserved"
        /\ posts' = [posts EXCEPT ![SlugOf(a, round)] = @ + 1]
        /\ UNCHANGED markets
    BY <1>2 DEF Post, Step, storeVars
  <2>2. PICK s \in Slugs : s = SlugOf(a, round)
    BY <2>1, HandMarket DEF InHand
  <2>3. markets[s].state \in Unresolved /\ posts[s] = 0
    BY <2>1, <2>2, HandMarket DEF InHand, LifecycleInv, SentBacked
  <2>4. posts' = [posts EXCEPT ![s] = 1]
    BY <2>1, <2>2, <2>3 DEF LifecycleInv, LifecycleTypeOK
  <2>5. Stage[s] = "committed" /\ UNCHANGED Stage
    BY <2>1, <2>3, StageOfStates DEF Stage, Unresolved
  <2> QED
    BY <2>3, <2>4, <2>5 DEF Once!Send
<1>3. ASSUME NEW a \in Assets, Worker(a), ~ Post(a) PROVE UNCHANGED posts
  BY <1>3 DEF Worker, Submission, Observe, HoldEntry, Reserve, ShadowFill, Acknowledged,
       Rejected, Ambiguous, WriteFails, PollTerminal, GiveUpPolling, worldVars
<1> QED
  BY <1>1, <1>2, <1>3

\* The whole lifecycle, with its crashes, lost answers, sweeps and operators,
\* keeps the promise of EntryOnce for every market.
THEOREM RefinesEntryOnce == Spec => ImplementsEntryOnce
<1>1. Init => Once!Init
  BY StageOfStates DEF Init, StoreInit, Stage, NoMarket, Once!Init
<1>2. LifecycleInv /\ [Next]_vars => [Once!Next]_Once!vars
  <2> SUFFICES ASSUME LifecycleInv, [Next]_vars
               PROVE  [Once!Next]_Once!vars
    OBVIOUS
  <2>1. CASE UNCHANGED posts
    <3>1. StagesForward
      BY LifecycleStoreStep, FinalKept, StoreStagesForward DEF LifecycleInv
    <3> QED
      BY <2>1, <3>1 DEF StagesForward, Advance, Once!vars, Once!Next, Once!Commit,
           Once!Hold, Once!Miss, Once!Settle, Once!GiveUp, Once!Move
  <2> QED
    BY <2>1, PostsOnce DEF Once!Next
<1> QED
  BY <1>1, <1>2, LifecycleInvariant, PTL DEF Spec, ImplementsEntryOnce, Once!Spec

-----------------------------------------------------------------------------
(* The refinement of RiskLedger. What the exposure queries see of a market   *)
(* is its stage in EntryOnce, and beside a position the fill of its order.   *)

LEMMA RiskStageOfStates ==
  /\ RiskStageOf("absent") = "none" /\ RiskStageOf("observing") = "none"
  /\ RiskStageOf("entry_reserved") = "pending"
  /\ RiskStageOf("submitted") = "pending"
  /\ RiskStageOf("execution_unknown") = "pending"
  /\ RiskStageOf("open") = "open"
  /\ RiskStageOf("no_fill") = "closed"
  /\ RiskStageOf("settled") = "closed" /\ RiskStageOf("retired") = "closed"
<1>1. RiskStageOf("absent") = "none" /\ RiskStageOf("observing") = "none"
  BY DEF RiskStageOf, Unresolved
<1>2. /\ RiskStageOf("entry_reserved") = "pending"
      /\ RiskStageOf("submitted") = "pending"
      /\ RiskStageOf("execution_unknown") = "pending"
  BY DEF RiskStageOf, Unresolved
<1>3. RiskStageOf("open") = "open" /\ RiskStageOf("no_fill") = "closed"
  BY DEF RiskStageOf, Unresolved
<1>4. RiskStageOf("settled") = "closed" /\ RiskStageOf("retired") = "closed"
  BY DEF RiskStageOf, Unresolved
<1> QED
  BY <1>1, <1>2, <1>3, <1>4

RiskFollowsStage ==
  \A s \in Slugs :
    /\ Stage[s] \in {"free", "committed", "held", "missed", "settled", "given_up"}
    /\ Stage[s] = "free" => RiskStage[s] = "none" /\ RiskAmount[s] = 0
    /\ Stage[s] = "committed" => RiskStage[s] = "pending" /\ RiskAmount[s] = Qty
    /\ Stage[s] = "held" =>
         /\ RiskStage[s] = "open"
         /\ markets[s].state = "open"
         /\ markets[s].intent \in Intents
         /\ orders[markets[s].intent].state = "filled"
         /\ RiskAmount[s] = orders[markets[s].intent].filled
         /\ RiskAmount[s] \in 1..Qty
    /\ Stage[s] \in {"missed", "settled", "given_up"} =>
         RiskStage[s] = "closed" /\ RiskAmount[s] = 0

\* The position of a market is a filled order.
LEMMA OpenOrder ==
  ASSUME StoreInv, NEW s \in Slugs, markets[s].state = "open"
  PROVE  /\ markets[s].intent \in Intents
         /\ orders[markets[s].intent].state = "filled"
         /\ orders[markets[s].intent].filled \in 1..Qty
<1>1. markets[s].intent \in Intents /\ orders[markets[s].intent].slug = s
  BY DEF StoreInv, StoreTypeOK, MarketRow, RowsConsistent, OneIntentPerMarket
<1>2. PICK i \in Intents : i = markets[s].intent
  BY <1>1
<1>3. orders[i].state # "absent"
  BY <1>1, <1>2, StoreConstants DEF StoreInv, RowsConsistent, NoRow
<1>4. "open" \in Beside(orders[i].state)
  BY <1>1, <1>2, <1>3 DEF StoreInv, StatesAgree
<1>5. orders[i].state = "filled" /\ orders[i].filled \in 0..Qty
  BY <1>4 DEF StoreInv, StoreTypeOK, OrderRow, OrderStates, Unresolved, Beside
<1>6. orders[i].filled > 0
  BY <1>5 DEF StoreInv, RowsConsistent
<1> QED
  BY <1>2, <1>5, <1>6, StoreConstants

LEMMA RiskOfStage == StoreInv => RiskFollowsStage
<1> SUFFICES ASSUME StoreInv, NEW s \in Slugs PROVE RiskFollowsStage!(s)
  BY DEF RiskFollowsStage
<1>1. markets[s].state \in MarketStates
  BY DEF StoreInv, StoreTypeOK, MarketRow
<1>2. /\ Stage[s] = StageOf(markets[s].state)
      /\ RiskStage[s] = RiskStageOf(markets[s].state)
      /\ RiskAmount[s] = MarketRiskExposure(s)
  BY DEF Stage, RiskStage, RiskAmount
<1>3. CASE markets[s].state \in Unresolved
  BY <1>2, <1>3, StageOfStates, RiskStageOfStates DEF MarketRiskExposure, Unresolved
<1>4. CASE markets[s].state = "open"
  <2>1. MarketRiskExposure(s) = orders[markets[s].intent].filled
    BY <1>4 DEF MarketRiskExposure, Unresolved
  <2> QED
    BY <1>2, <1>4, <2>1, StageOfStates, RiskStageOfStates, OpenOrder
<1>5. CASE markets[s].state \in {"absent", "observing", "no_fill", "settled", "retired"}
  <2>1. MarketRiskExposure(s) = 0
    BY <1>5 DEF MarketRiskExposure, Unresolved
  <2> QED
    BY <1>2, <1>5, <2>1, StageOfStates, RiskStageOfStates
<1> QED
  BY <1>1, <1>3, <1>4, <1>5 DEF MarketStates

LEMMA RiskOfStageNext == StoreInv' => RiskFollowsStage'
BY RiskOfStage, PTL

\* A position keeps the quantity it was opened with.
LEMMA RiskAmountKept ==
  ASSUME LifecycleInv, StoreInv', [Next]_vars,
         NEW s \in Slugs, Stage'[s] = Stage[s]
  PROVE  RiskStage'[s] = RiskStage[s] /\ RiskAmount'[s] = RiskAmount[s]
<1>1. RiskFollowsStage /\ RiskFollowsStage' /\ StoreInv
  BY RiskOfStage, RiskOfStageNext DEF LifecycleInv
<1>2. CASE Stage[s] # "held"
  BY <1>1, <1>2 DEF RiskFollowsStage
<1>3. CASE Stage[s] = "held"
  <2>1. /\ markets[s].intent \in Intents
        /\ orders[markets[s].intent].state = "filled"
        /\ RiskAmount[s] = orders[markets[s].intent].filled
        /\ RiskAmount'[s] = orders'[markets'[s].intent].filled
        /\ RiskStage'[s] = RiskStage[s]
    BY <1>1, <1>3 DEF RiskFollowsStage
  <2>2. orders'[markets[s].intent] = orders[markets[s].intent]
    BY <2>1, FinalKept DEF FinalStates
  <2>3. markets'[s].intent = markets[s].intent
    BY <1>1, <2>1, MarketKept, LifecycleStoreStep, StoreConstants
  <2> QED
    BY <2>1, <2>2, <2>3
<1> QED
  BY <1>2, <1>3

\* One stage changes, and with it what is counted for one market.
LEMMA LedgerAdvances ==
  ASSUME LifecycleInv, StoreInv', [Next]_vars,
         NEW s \in Slugs, NEW from, NEW to, Advance(s, from, to)
  PROVE  /\ Stage[s] = from /\ Stage'[s] = to
         /\ RiskStage' = [RiskStage EXCEPT ![s] = RiskStage'[s]]
         /\ RiskAmount' = [RiskAmount EXCEPT ![s] = RiskAmount'[s]]
<1>1. /\ Stage[s] = from /\ Stage'[s] = to
      /\ \A r \in Slugs \ {s} : Stage'[r] = Stage[r]
  BY DEF Advance, Stage
<1>2. \A r \in Slugs \ {s} : RiskStage'[r] = RiskStage[r] /\ RiskAmount'[r] = RiskAmount[r]
  BY <1>1, RiskAmountKept
<1>3. /\ RiskStage = [r \in Slugs |-> RiskStage[r]]
      /\ RiskAmount = [r \in Slugs |-> RiskAmount[r]]
      /\ RiskStage' = [r \in Slugs |-> RiskStage'[r]]
      /\ RiskAmount' = [r \in Slugs |-> RiskAmount'[r]]
  BY DEF RiskStage, RiskAmount
<1> QED
  BY <1>1, <1>2, <1>3, Zenon

LEMMA LedgerStep ==
  ASSUME LifecycleInv, [Next]_vars
  PROVE  [Ledger!Next]_Ledger!ledgerVars
<1>0. StoreInv'
  BY LifecycleStoreStep, StoreStepInv DEF LifecycleInv
<1>1. RiskFollowsStage /\ RiskFollowsStage' /\ StoreInv'
  BY <1>0, RiskOfStage, RiskOfStageNext DEF LifecycleInv
<1>2. StagesForward
  BY LifecycleStoreStep, FinalKept, StoreStagesForward DEF LifecycleInv
<1>3. ASSUME NEW s \in Slugs
      PROVE  /\ Stage'[s] = "committed" => RiskStage'[s] = "pending" /\ RiskAmount'[s] = Qty
             /\ Stage'[s] = "held" => RiskStage'[s] = "open" /\ RiskAmount'[s] \in 1..Qty
             /\ Stage'[s] \in {"missed", "settled", "given_up"} =>
                  RiskStage'[s] = "closed" /\ RiskAmount'[s] = 0
  BY <1>1 DEF RiskFollowsStage
<1>4. CASE UNCHANGED Stage
  <2>1. \A s \in Slugs : RiskStage'[s] = RiskStage[s] /\ RiskAmount'[s] = RiskAmount[s]
    BY <1>1, <1>4, RiskAmountKept
  <2> QED
    BY <2>1 DEF Ledger!ledgerVars, RiskStage, RiskAmount
<1>5. ASSUME NEW s \in Slugs, Advance(s, "free", "committed") PROVE Ledger!Reserve(s)
  <2>1. RiskStage[s] = "none"
    BY <1>1, <1>5, LedgerAdvances DEF RiskFollowsStage
  <2> QED
    BY <1>1, <1>3, <1>5, <2>1, LedgerAdvances DEF Ledger!Reserve
<1>6. ASSUME NEW s \in Slugs, Advance(s, "committed", "held")
      PROVE  \E q \in 1..Qty : Ledger!Fill(s, q)
  <2>1. RiskStage[s] = "pending"
    BY <1>1, <1>6, LedgerAdvances DEF RiskFollowsStage
  <2> QED
    BY <1>1, <1>3, <1>6, <2>1, LedgerAdvances DEF Ledger!Fill
<1>7. ASSUME NEW s \in Slugs,
             Advance(s, "committed", "missed") \/ Advance(s, "held", "settled")
      PROVE  Ledger!Release(s)
  <2>1. RiskStage[s] \in {"pending", "open"}
    BY <1>1, <1>7, LedgerAdvances DEF RiskFollowsStage
  <2> QED
    BY <1>1, <1>3, <1>7, <2>1, LedgerAdvances DEF Ledger!Release
<1>8. ASSUME Stage' = [s \in Slugs |-> IF Stage[s] = "committed" THEN "given_up"
                                      ELSE Stage[s]]
      PROVE  Ledger!Retire
  <2>1. ASSUME NEW s \in Slugs
        PROVE  /\ RiskStage'[s] = IF RiskStage[s] = "pending" THEN "closed" ELSE RiskStage[s]
               /\ RiskAmount'[s] = IF RiskStage[s] = "pending" THEN 0 ELSE RiskAmount[s]
    <3>1. CASE Stage[s] = "committed"
      BY <1>1, <1>3, <1>8, <3>1 DEF RiskFollowsStage
    <3>2. CASE Stage[s] # "committed"
      <4>1. Stage'[s] = Stage[s] /\ RiskStage[s] # "pending"
        BY <1>1, <1>8, <3>2 DEF RiskFollowsStage
      <4> QED
        BY <1>1, <4>1, RiskAmountKept
    <3> QED
      BY <3>1, <3>2
  <2> QED
    BY <2>1 DEF Ledger!Retire, RiskStage, RiskAmount
<1> QED
  BY <1>2, <1>4, <1>5, <1>6, <1>7, <1>8 DEF StagesForward, Ledger!Next

\* What a round assumes of the orders beside it when it freezes the exposure
\* holds of the whole lifecycle: the risk of a market is its full size, then
\* its fill, then nothing, and it never grows again.
THEOREM RefinesRiskLedger == Spec => ImplementsRiskLedger
<1>1. Init => Ledger!Init
  BY DEF Init, StoreInit, NoMarket, RiskStage, RiskStageOf, RiskAmount,
         MarketRiskExposure, Unresolved, Ledger!Init
<1>2. LifecycleInv /\ [Next]_vars => [Ledger!Next]_Ledger!ledgerVars
  BY LedgerStep
<1> QED
  BY <1>1, <1>2, LifecycleInvariant, PTL
     DEF Spec, ImplementsRiskLedger, Ledger!Spec

=============================================================================
