-------------------------- MODULE OrderResultProofs --------------------------
(***************************************************************************)
(* Proofs about the results that OrderLifecycle records: what the venue    *)
(* executed is what the store says, the risk exposure covers what may be   *)
(* owed, an order keeps its own id, and positions are settled on the       *)
(* official outcome.                                                       *)
(***************************************************************************)
EXTENDS OrderLifecycleProofs

-----------------------------------------------------------------------------
(* Ids.                                                                    *)

\* What the methods do to the ids and classifications of all orders.
LEMMA TerminalRows ==
  ASSUME StoreTypeOK, NEW i \in Intents, NEW q, MarkTerminalExecution(i, q),
         NEW j \in Intents
  PROVE  /\ orders'[j].orderId = orders[j].orderId
         /\ orders'[j].class \in {orders[j].class, "none"}
BY DEF StoreTypeOK, OrderRow, MarkTerminalExecution

LEMMA UnknownRows ==
  ASSUME StoreTypeOK, NEW i \in Intents, NEW class, MarkExecutionUnknown(i, class),
         NEW j \in Intents
  PROVE  /\ orders'[j].orderId = orders[j].orderId
         /\ orders'[j].class = orders[j].class \/ (i = j /\ orders'[j].class = class)
BY DEF StoreTypeOK, OrderRow, MarkExecutionUnknown

LEMMA SubmittedRows ==
  ASSUME StoreTypeOK, NEW i \in Intents, NEW o \in OrderIds, MarkSubmitted(i, o),
         NEW j \in Intents
  PROVE  \/ orders'[j] = orders[j]
         \/ i = j /\ orders'[j].orderId = o /\ orders'[j].class = "none"
BY StoreConstants DEF StoreTypeOK, OrderRow, MarkSubmitted

LEMMA IdsKept ==
  ASSUME LifecycleInv, OwnIdPasses, [Next]_vars, NEW j \in Intents
  PROVE  /\ orders[j].orderId = j => orders'[j].orderId = j
         /\ orders'[j].orderId = j => orders'[j].class # "mismatch"
<1> DEFINE Kept == /\ orders[j].orderId = j => orders'[j].orderId = j
                   /\ orders'[j].orderId = j => orders'[j].class # "mismatch"
<1> SUFFICES Kept
  OBVIOUS
<1>0. /\ StoreTypeOK
      /\ Intents \subseteq OrderIds
      /\ NoOrder \notin OrderIds
      /\ orders[j].orderId = j => orders[j].class # "mismatch"
  BY LifecycleConstants, StoreConstants DEF LifecycleInv, StoreInv, OwnIdPasses
<1>1. ASSUME orders'[j] = orders[j] PROVE Kept
  BY <1>0, <1>1
<1>2. ASSUME NEW i \in Intents, NEW q, MarkTerminalExecution(i, q) PROVE Kept
  BY <1>0, <1>2, TerminalRows
<1>3. ASSUME NEW i \in Intents, MarkExecutionUnknown(i, "none") PROVE Kept
  BY <1>0, <1>3, UnknownRows
<1>4. CASE World
  BY <1>1, <1>4 DEF World, VenueAnswers, VenueCloses, Resolve, Tick, storeVars
<1>5. CASE Process
  <2>1. CASE InitializeRuntimeState
    BY <1>0, <2>1 DEF InitializeRuntimeState, StoreTypeOK, OrderRow
  <2>2. ASSUME NEW i \in Intents, NEW o \in OrderIds, AttachRecoveredOrderId(i, o)
        PROVE  Kept
    BY <1>0, <2>2 DEF AttachRecoveredOrderId, StoreTypeOK, OrderRow
  <2> QED
    BY <1>1, <1>5, <2>1, <2>2 DEF Process, Boot, Crash, OperatorAttach, OperatorDone, storeVars
<1>6. CASE StartRound \/ FinishRound \/ QuietRound
  BY <1>1, <1>6 DEF StartRound, FinishRound, QuietRound, storeVars
<1>7. ASSUME NEW a \in Assets, Worker(a) PROVE Kept
  <2>1. ASSUME NEW c \in Conditions, Observe(a, c) PROVE Kept
    BY <1>1, <2>1 DEF Observe, ObserveMarket
  <2>2. ASSUME NEW i \in Intents, Reserve(a, i) PROVE Kept
    <3>1. CASE i = j
      <4>1. orders[j].orderId = NoOrder
        BY <2>2, <3>1 DEF Reserve, ReserveEntry, LifecycleInv, StoreInv, RowsConsistent, NoRow
      <4>2. orders'[j].orderId = NoOrder
        BY <1>0, <2>2, <3>1 DEF Reserve, ReserveEntry, NoRow, StoreTypeOK
      <4> QED
        BY <1>0, <4>1, <4>2
    <3>2. CASE i # j
      BY <1>0, <1>1, <2>2, <3>2 DEF Reserve, ReserveEntry, StoreTypeOK
    <3> QED
      BY <3>1, <3>2
  <2>3. CASE HoldEntry(a) \/ Post(a) \/ WriteFails(a) \/ GiveUpPolling(a)
    BY <1>1, <2>3 DEF HoldEntry, Post, WriteFails, GiveUpPolling, storeVars
  <2>4. CASE ShadowFill(a) \/ Rejected(a) \/ Ambiguous(a) \/ Acknowledged(a) \/ PollTerminal(a)
    <3>1. InHand(a)
      BY <2>4 DEF ShadowFill, Rejected, Ambiguous, Acknowledged, PollTerminal, Step, InHand
    <3>2. worker[a].intent \in Intents
      BY <3>1 DEF LifecycleInv, HandsHold
    <3>3. CASE Acknowledged(a)
      BY <1>0, <3>2, <3>3, SubmittedRows DEF Acknowledged
    <3>4. CASE ~ Acknowledged(a)
      BY <1>2, <1>3, <2>4, <3>2, <3>4 DEF ShadowFill, Rejected, Ambiguous, PollTerminal,
           WriteTerminal
    <3> QED
      BY <3>3, <3>4
  <2> QED
    BY <1>7, <2>1, <2>2, <2>3, <2>4 DEF Worker, Submission
<1>8. CASE Maintenance
  <2>1. ASSUME NEW i \in Intents, SweepNoOrderId(i) PROVE Kept
    <3>1. /\ orders[i].class \in Classes
          /\ orders[i].orderId = NoOrder
          /\ MarkExecutionUnknown(i, orders[i].class)
      BY <1>0, <2>1 DEF SweepNoOrderId, StoreTypeOK, OrderRow
    <3> QED
      BY <1>0, <3>1, UnknownRows
  <2>2. ASSUME NEW i \in Intents, SweepProbe(i) PROVE Kept
    <3>1. CASE IdentityMismatch(i) /\ MarkExecutionUnknown(i, "mismatch")
      BY <1>0, <3>1, UnknownRows DEF IdentityMismatch
    <3>2. CASE WriteTerminal(i, orders[i].orderId) \/ UNCHANGED storeVars
      BY <1>1, <1>2, <1>3, <3>2 DEF WriteTerminal, storeVars
    <3> QED
      BY <2>2, <3>1, <3>2 DEF SweepProbe
  <2>3. ASSUME NEW i \in Intents, SweepProbeFails(i) PROVE Kept
    BY <1>3, <2>3 DEF SweepProbeFails
  <2>4. ASSUME NEW i \in Intents, SettleOne(i) \/ SettleLater(i) PROVE Kept
    BY <1>1, <2>4 DEF SettleOne, SettleLater, RecordSettlement, storeVars
  <2>5. CASE SweepSettlements \/ SweepDone \/ ProbeReturns
    BY <1>1, <2>5 DEF SweepSettlements, SweepDone, ProbeReturns, storeVars
  <2> QED
    BY <1>8, <2>1, <2>2, <2>3, <2>4, <2>5 DEF Maintenance
<1>9. CASE UNCHANGED vars
  BY <1>1, <1>9 DEF vars, storeVars
<1> QED
  BY <1>4, <1>5, <1>6, <1>7, <1>8, <1>9 DEF Next
-----------------------------------------------------------------------------
(* Settlements.                                                            *)

\* A settled market stays settled.
LEMMA SettledStays ==
  ASSUME LifecycleInv, [Next]_vars, NEW s \in Slugs, markets[s].state = "settled"
  PROVE  markets'[s].state = "settled"
<1>1. StagesForward
  BY LifecycleStoreStep, FinalKept, StoreStagesForward DEF LifecycleInv
<1>2. Stage[s] = "settled"
  BY StageOfStates DEF Stage
<1>3. Stage'[s] = "settled"
  BY <1>1, <1>2 DEF StagesForward, Advance, Stage
<1>4. Stage'[s] = StageOf(markets'[s].state)
  BY DEF Stage
<1>5. markets'[s].state \in MarketStates
  BY LifecycleStoreStep, StoreStepInv DEF LifecycleInv, StoreInv, StoreTypeOK, MarketRow
<1> QED
  BY <1>3, <1>4, <1>5, StageOfStates DEF MarketStates, Unresolved

\* The order of a settled market, which is final.
LEMMA SettledOrder ==
  ASSUME StoreInv, NEW s \in Slugs, markets[s].state = "settled"
  PROVE  /\ markets[s].intent \in Intents
         /\ orders[markets[s].intent].state = "filled"
<1>1. /\ markets[s].intent \in Intents
      /\ orders[markets[s].intent].slug = s
  BY DEF StoreInv, StoreTypeOK, MarketRow, RowsConsistent, OneIntentPerMarket
<1>2. orders[markets[s].intent].state # "absent"
  BY <1>1, StoreConstants DEF StoreInv, RowsConsistent, NoRow
<1> QED
  BY <1>1, <1>2 DEF StoreInv, StoreTypeOK, OrderRow, OrderStates, StatesAgree, Beside,
     Unresolved

\* Only the sweep records a settlement, and an outcome is published once.
LEMMA OnlySettleOne ==
  ASSUME LifecycleInv, [Next]_vars
  PROVE  /\ UNCHANGED settlements \/ \E i \in Intents : SettleOne(i)
         /\ \A s \in Slugs : official[s] # "none" => official'[s] = official[s]
<1>1. CASE World
  <2>1. UNCHANGED settlements
    BY <1>1 DEF World, VenueAnswers, VenueCloses, Resolve, Tick, storeVars
  <2> QED
    BY <1>1, <2>1 DEF World, VenueAnswers, VenueCloses, Resolve, Tick, LifecycleInv,
         LifecycleTypeOK
<1>2. CASE Process
  BY <1>2 DEF Process, Boot, Crash, OperatorAttach, OperatorDone, InitializeRuntimeState,
       AttachRecoveredOrderId, storeVars, worldVars
<1>3. CASE StartRound \/ FinishRound \/ QuietRound
  BY <1>3 DEF StartRound, FinishRound, QuietRound, storeVars, worldVars
<1>4. ASSUME NEW a \in Assets, Worker(a) PROVE UNCHANGED <<settlements, official>>
  <2>1. CASE Submission(a)
    BY <2>1 DEF Submission, ShadowFill, Post, Acknowledged, Rejected, Ambiguous, WriteFails,
         PollTerminal, GiveUpPolling, WriteTerminal, MarkTerminalExecution, MarkSubmitted,
         MarkExecutionUnknown, storeVars, worldVars
  <2>2. CASE ~ Submission(a)
    BY <1>4, <2>2 DEF Worker, Observe, HoldEntry, Reserve, ObserveMarket, ReserveEntry,
         storeVars, worldVars
  <2> QED
    BY <2>1, <2>2
<1>5. CASE Maintenance
  <2>1. UNCHANGED official
    BY <1>5 DEF Maintenance, SweepNoOrderId, SweepProbe, SweepProbeFails, SettleOne,
         SettleLater, SweepSettlements, SweepDone, ProbeReturns, SweepUnchanged, worldVars
  <2>2. UNCHANGED settlements \/ \E i \in Intents : SettleOne(i)
    BY <1>5 DEF Maintenance, SweepNoOrderId, SweepProbe, SweepProbeFails, SettleLater,
         SweepSettlements, SweepDone, ProbeReturns, WriteTerminal, MarkTerminalExecution,
         MarkExecutionUnknown, storeVars
  <2> QED
    BY <2>1, <2>2
<1>6. CASE UNCHANGED vars
  BY <1>6 DEF vars, storeVars, worldVars
<1> QED
  BY <1>1, <1>2, <1>3, <1>4, <1>5, <1>6 DEF Next

LEMMA SettledRowsKept ==
  ASSUME LifecycleInv, SettledRows, [Next]_vars
  PROVE  SettledRows'
<1> SUFFICES ASSUME NEW s \in Slugs, settlements'[s] # NoOutcome
             PROVE  /\ markets'[s].state = "settled"
                    /\ official'[s] # "none"
                    /\ settlements'[s] = <<official'[s], orders'[markets'[s].intent].filled>>
  BY DEF SettledRows
<1>0. StoreInv
  BY DEF LifecycleInv
<1>1. CASE settlements'[s] = settlements[s]
  <2>1. /\ markets[s].state = "settled"
        /\ official[s] # "none"
        /\ settlements[s] = <<official[s], orders[markets[s].intent].filled>>
    BY <1>1 DEF SettledRows
  <2>2. /\ markets[s].intent \in Intents
        /\ orders'[markets[s].intent] = orders[markets[s].intent]
    BY <1>0, <2>1, SettledOrder, FinalKept DEF FinalStates
  <2>3. markets'[s].intent = markets[s].intent
    BY <1>0, <2>2, LifecycleStoreStep, MarketKept, StoreConstants
  <2> QED
    BY <1>1, <2>1, <2>2, <2>3, SettledStays, OnlySettleOne
<1>2. CASE settlements'[s] # settlements[s]
  <2>1. PICK i \in Intents : SettleOne(i)
    BY <1>2, OnlySettleOne
  <2>2. /\ i \in sweep.todo
        /\ official[orders[i].slug] # "none"
        /\ RecordSettlement(orders[i].slug, <<official[orders[i].slug], orders[i].filled>>)
        /\ UNCHANGED official
    BY <2>1 DEF SettleOne, SweptOne, SweepUnchanged, worldVars
  <2>3. /\ orders' = orders
        /\ markets' = [markets EXCEPT ![orders[i].slug].state = "settled"]
        /\ settlements' = [settlements EXCEPT ![orders[i].slug] =
                             <<official[orders[i].slug], orders[i].filled>>]
    BY <1>2, <2>2 DEF RecordSettlement
  <2>4. s = orders[i].slug
    BY <1>0, <1>2, <2>3 DEF StoreInv, StoreTypeOK
  <2>5. markets[s].intent = i
    BY <1>0, <2>2, <2>4 DEF LifecycleInv, SweepHolds, StoreInv, OneIntentPerMarket
  <2>6. /\ markets'[s].state = "settled"
        /\ markets'[s].intent = i
        /\ settlements'[s] = <<official[s], orders[i].filled>>
    BY <1>0, <2>3, <2>4, <2>5 DEF StoreInv, StoreTypeOK, MarketRow
  <2> QED
    BY <2>2, <2>3, <2>4, <2>6
<1> QED
  BY <1>1, <1>2
-----------------------------------------------------------------------------
(* Executions.                                                             *)

\* The venue's record of an order changes by its own steps and by a POST.
LEMMA VenueSteps ==
  ASSUME LifecycleInv, [Next]_vars
  PROVE  \/ UNCHANGED venue
         \/ \E o \in OrderIds : /\ venue[o].st \in {"sent", "live"}
                                /\ \A n \in OrderIds \ {o} : venue'[n] = venue[n]
                                /\ venue'[o].st # "none"
                                /\ venue'[o].st # "closed" => venue'[o].qty = venue[o].qty
                                /\ UNCHANGED <<orders, worker>>
         \/ \E a \in Assets : Post(a)
<1>0. venue \in [OrderIds -> [st : VenueStates, qty : 0..Qty]]
  BY DEF LifecycleInv, LifecycleTypeOK
<1>1. CASE World
  <2> DEFINE Changes(o) ==
               /\ venue[o].st \in {"sent", "live"}
               /\ \A n \in OrderIds \ {o} : venue'[n] = venue[n]
               /\ venue'[o].st # "none"
               /\ venue'[o].st # "closed" => venue'[o].qty = venue[o].qty
               /\ UNCHANGED <<orders, worker>>
  <2>1. ASSUME NEW o \in OrderIds, NEW st \in {"live", "refused"}, VenueAnswers(o, st)
        PROVE  Changes(o)
    BY <1>0, <2>1 DEF VenueAnswers, storeVars, processVars
  <2>2. ASSUME NEW o \in OrderIds, NEW q \in 0..Qty, VenueCloses(o, q)
        PROVE  Changes(o)
    BY <1>0, <2>2 DEF VenueCloses, storeVars, processVars
  <2>3. ASSUME NEW b \in Assets, NEW r \in Rounds, NEW outcome \in {"win", "loss"},
               Resolve(b, r, outcome)
        PROVE  UNCHANGED venue
    BY <2>3 DEF Resolve
  <2>4. CASE Tick
    BY <2>4 DEF Tick
  <2> QED
    BY <1>1, <2>1, <2>2, <2>3, <2>4 DEF World
<1>2. CASE Process
  BY <1>2 DEF Process, Boot, Crash, OperatorAttach, OperatorDone, worldVars
<1>3. CASE StartRound \/ FinishRound \/ QuietRound
  BY <1>3 DEF StartRound, FinishRound, QuietRound, worldVars
<1>4. ASSUME NEW a \in Assets, Worker(a), ~ Post(a) PROVE UNCHANGED venue
  BY <1>4 DEF Worker, Submission, Observe, HoldEntry, Reserve, ShadowFill, Acknowledged,
       Rejected, Ambiguous, WriteFails, PollTerminal, GiveUpPolling, worldVars
<1>5. CASE Maintenance
  BY <1>5 DEF Maintenance, SweepNoOrderId, SweepProbe, SweepProbeFails, SettleOne,
       SettleLater, SweepSettlements, SweepDone, ProbeReturns, SweepUnchanged, worldVars
<1>6. CASE UNCHANGED vars
  BY <1>6 DEF vars, worldVars
<1> QED
  BY <1>1, <1>2, <1>3, <1>4, <1>5, <1>6 DEF Next

\* What a POST does.
LEMMA PostSends ==
  ASSUME LifecycleInv, VenueFresh, NEW a \in Assets, Post(a)
  PROVE  LET o == worker[a].intent IN
         /\ InHand(a)
         /\ o \in Intents
         /\ orders[o].state = "entry_reserved"
         /\ venue'[o].st = "sent"
         /\ venue'[o].qty = 0
         /\ \A n \in OrderIds \ {o} : venue'[n] = venue[n]
         /\ worker'[a].pc = "posted"
         /\ \A b \in Assets \ {a} : worker'[b] = worker[b]
         /\ UNCHANGED orders
<1>1. /\ worker[a].pc = "reserved"
      /\ worker' = [worker EXCEPT ![a] = [pc |-> "posted", intent |-> worker[a].intent]]
      /\ venue' = [venue EXCEPT ![worker[a].intent].st = "sent"]
      /\ UNCHANGED orders
  BY DEF Post, Step, storeVars
<1>2. /\ venue \in [OrderIds -> [st : VenueStates, qty : 0..Qty]]
      /\ worker \in [Assets -> [pc : WorkerStates, intent : Intents \cup {NoIntent}]]
  BY DEF LifecycleInv, LifecycleTypeOK
<1>3. /\ InHand(a)
      /\ worker[a].intent \in Intents
      /\ worker[a].intent \in OrderIds
      /\ orders[worker[a].intent].state = "entry_reserved"
      /\ venue[worker[a].intent].st = "none"
      /\ venue[worker[a].intent].qty = 0
  BY <1>1, LifecycleConstants DEF InHand, LifecycleInv, HandsHold, VenueFresh
<1> QED
  BY <1>1, <1>2, <1>3

\* An order that was reserved stays in the table.
LEMMA PresentStays ==
  ASSUME StoreInv, [StoreNext]_storeVars, NEW i \in Intents, orders[i].state # "absent"
  PROVE  orders'[i].state # "absent"
<1> USE DEF StoreInv, StoreTypeOK, OrderRow, Unresolved
<1>1. CASE \E s \in Slugs, c \in Conditions : ObserveMarket(s, c)
  BY <1>1 DEF ObserveMarket
<1>2. CASE \E s \in Slugs, c \in Conditions, j \in Intents : ReserveEntry(s, c, j)
  BY <1>2 DEF ReserveEntry
<1>3. CASE \E j \in Intents, o \in OrderIds \cup {NoOrder} : MarkSubmitted(j, o)
  BY <1>3 DEF MarkSubmitted, MarkExecutionUnknown
<1>4. CASE \E j \in Intents, class \in Classes : MarkExecutionUnknown(j, class)
  BY <1>4 DEF MarkExecutionUnknown
<1>5. CASE \E j \in Intents, o \in OrderIds : AttachRecoveredOrderId(j, o)
  BY <1>5 DEF AttachRecoveredOrderId
<1>6. CASE \E j \in Intents, q \in 0..Qty : MarkTerminalExecution(j, q)
  BY <1>6 DEF MarkTerminalExecution
<1>7. CASE InitializeRuntimeState
  BY <1>7 DEF InitializeRuntimeState
<1>8. CASE \E s \in Slugs, p \in Outcomes : RecordSettlement(s, p)
  BY <1>8 DEF RecordSettlement
<1>9. CASE UNCHANGED storeVars
  BY <1>9 DEF storeVars
<1> QED
  BY <1>1, <1>2, <1>3, <1>4, <1>5, <1>6, <1>7, <1>8, <1>9 DEF StoreNext

\* A worker that is about to send was so before, or has just reserved.
LEMMA ReservedNow ==
  ASSUME LifecycleInv, [Next]_vars, NEW a \in Assets, worker'[a].pc = "reserved"
  PROVE  \/ worker'[a] = worker[a]
         \/ \E i \in Intents : /\ Reserve(a, i)
                               /\ worker'[a].intent = i
<1>1. CASE \A b \in Assets : ~ Worker(b)
  BY <1>1, OtherSteps
<1>2. ASSUME NEW b \in Assets \ {a}, Worker(b) PROVE worker'[a] = worker[a]
  BY <1>2, WorkerMoves
<1>3. CASE Worker(a)
  <2>0. worker[a].intent \in Intents \cup {NoIntent}
    BY DEF LifecycleInv, LifecycleTypeOK
  <2>1. \A pc, i : \A next \in {"decide", "posted", "polling", "done"} :
          ~ Step(a, pc, next, i)
    BY DEF Step, LifecycleInv, LifecycleTypeOK
  <2>2. CASE Submission(a)
    <3>1. \E pc : \E next \in {"posted", "polling", "done"} :
              Step(a, pc, next, worker[a].intent)
      BY <2>2 DEF Submission, ShadowFill, Post, Acknowledged, Rejected, Ambiguous,
           WriteFails, PollTerminal, GiveUpPolling
    <3> QED
      BY <2>1, <3>1
  <2>3. ~ HoldEntry(a)
    BY <2>1 DEF HoldEntry
  <2>4. ASSUME NEW c \in Conditions PROVE ~ Observe(a, c)
    BY <2>1 DEF Observe
  <2>5. ASSUME NEW i \in Intents, Reserve(a, i) PROVE worker'[a].intent = i
    BY <2>5 DEF Reserve, Step, LifecycleInv, LifecycleTypeOK
  <2> QED
    BY <1>3, <2>2, <2>3, <2>4, <2>5 DEF Worker
<1> QED
  BY <1>1, <1>2, <1>3

LEMMA VenueFreshKept ==
  ASSUME LifecycleInv, VenueFresh, [Next]_vars
  PROVE  VenueFresh'
<1>0. Intents \subseteq OrderIds
  BY LifecycleConstants
<1>1. ASSUME NEW i \in Intents, orders'[i].state = "absent"
      PROVE  venue'[i].st = "none"
  <2>1. orders[i].state = "absent" /\ venue[i].st = "none"
    BY <1>1, LifecycleStoreStep, PresentStays DEF LifecycleInv, VenueFresh
  <2>2. ASSUME NEW a \in Assets, Post(a) PROVE venue'[i] = venue[i]
    BY <1>0, <2>1, <2>2, PostSends
  <2> QED
    BY <1>0, <2>1, <2>2, VenueSteps
<1>2. ASSUME NEW a \in Assets, worker'[a].pc = "reserved"
      PROVE  venue'[worker'[a].intent].st = "none"
  <2>1. CASE worker'[a] = worker[a]
    <3>1. /\ InHand(a)
          /\ worker[a].intent \in Intents
          /\ venue[worker[a].intent].st = "none"
      BY <1>2, <2>1 DEF InHand, LifecycleInv, HandsHold, VenueFresh
    <3>2. ASSUME NEW b \in Assets, Post(b) PROVE venue'[worker[a].intent].st = "none"
      <4>1. a # b /\ InHand(b)
        BY <1>2, <3>2, PostSends
      <4>2. worker[a].intent # worker[b].intent
        BY <3>1, <4>1, DistinctHands DEF LifecycleInv
      <4> QED
        BY <1>0, <3>1, <3>2, <4>2, PostSends
    <3> QED
      BY <1>0, <2>1, <3>1, <3>2, VenueSteps
  <2>2. ASSUME NEW i \in Intents, Reserve(a, i), worker'[a].intent = i
        PROVE  venue'[worker'[a].intent].st = "none"
    <3>1. orders[i].state = "absent" /\ UNCHANGED venue
      BY <2>2 DEF Reserve, ReserveEntry, worldVars
    <3> QED
      BY <2>2, <3>1 DEF VenueFresh
  <2> QED
    BY <1>2, <2>1, <2>2, ReservedNow
<1>3. ASSUME NEW o \in OrderIds, venue'[o].st # "closed" PROVE venue'[o].qty = 0
  <2>1. ASSUME NEW a \in Assets, Post(a) PROVE venue'[o].qty = 0
    BY <1>3, <2>1, PostSends DEF VenueFresh
  <2>2. ASSUME NEW n \in OrderIds,
               venue[n].st \in {"sent", "live"},
               \A k \in OrderIds \ {n} : venue'[k] = venue[k],
               venue'[n].st # "closed" => venue'[n].qty = venue[n].qty
        PROVE  venue'[o].qty = 0
    BY <1>3, <2>2 DEF VenueFresh
  <2>3. CASE UNCHANGED venue
    BY <1>3, <2>3 DEF VenueFresh
  <2> QED
    BY <2>1, <2>2, <2>3, VenueSteps
<1> QED
  BY <1>1, <1>2, <1>3 DEF VenueFresh

\* A result that is written down is the venue's.
LEMMA ResultsWritten ==
  ASSUME LifecycleInv, ResultInv, [Next]_vars, NEW j \in Intents,
         orders[j].state \in Unresolved,
         orders'[j].state \in {"filled", "no_fill"}
  PROVE  /\ UNCHANGED venue
         /\ \/ venue[j].st = "none"
            \/ orders[j].orderId # j /\ orders'[j].orderId = orders[j].orderId
               /\ orders[j].orderId # NoOrder
            \/ /\ venue[j].st \in {"refused", "closed"}
               /\ orders'[j].state = IF venue[j].qty > 0 THEN "filled" ELSE "no_fill"
               /\ orders'[j].filled = venue[j].qty
<1> DEFINE Right == /\ UNCHANGED venue
                    /\ \/ venue[j].st = "none"
                       \/ orders[j].orderId # j /\ orders'[j].orderId = orders[j].orderId
                          /\ orders[j].orderId # NoOrder
                       \/ /\ venue[j].st \in {"refused", "closed"}
                          /\ orders'[j].state = IF venue[j].qty > 0 THEN "filled" ELSE "no_fill"
                          /\ orders'[j].filled = venue[j].qty
<1> SUFFICES Right
  OBVIOUS
<1>0. /\ StoreTypeOK
      /\ Intents \subseteq OrderIds
      /\ venue \in [OrderIds -> [st : VenueStates, qty : 0..Qty]]
      /\ orders[j].state \notin {"filled", "no_fill"}
  BY LifecycleConstants DEF LifecycleInv, StoreInv, LifecycleTypeOK, Unresolved
<1>1. \A i \in Intents : \A class : ~ MarkExecutionUnknown(i, class)
  BY <1>0 DEF MarkExecutionUnknown, StoreTypeOK, OrderRow
<1>2. \A i \in Intents : \A o : ~ MarkSubmitted(i, o)
  BY <1>0, <1>1 DEF MarkSubmitted, StoreTypeOK, OrderRow
<1>3. ASSUME NEW i \in Intents, NEW q, MarkTerminalExecution(i, q)
      PROVE  /\ i = j
             /\ orders'[j].filled = q
             /\ orders'[j].state = IF q > 0 THEN "filled" ELSE "no_fill"
             /\ orders'[j].orderId = orders[j].orderId
  BY <1>0, <1>3 DEF MarkTerminalExecution, StoreTypeOK, OrderRow
<1>4. ASSUME NEW i \in Intents, WriteTerminal(i, orders[i].orderId),
             orders[i].orderId # NoOrder, UNCHANGED venue
      PROVE  Right
  <2>1. /\ MarkTerminalExecution(i, venue[orders[i].orderId].qty)
        /\ venue[orders[i].orderId].st = "closed"
    BY <1>1, <1>4 DEF WriteTerminal
  <2> QED
    BY <1>3, <1>4, <2>1
<1>5. ASSUME NEW a \in Assets, Worker(a) PROVE Right
  <2>1. CASE Submission(a)
    <3>1. InHand(a)
      BY <2>1 DEF Submission, ShadowFill, Post, Acknowledged, Rejected, Ambiguous,
           WriteFails, PollTerminal, GiveUpPolling, Step, InHand
    <3>2. worker[a].intent \in Intents
      BY <3>1 DEF LifecycleInv, HandsHold
    <3>3. CASE ShadowFill(a)
      <4>1. worker[a].pc = "reserved" /\ UNCHANGED venue
        BY <3>3 DEF ShadowFill, Step, worldVars
      <4>2. venue[worker[a].intent].st = "none"
        BY <4>1 DEF ResultInv, VenueFresh
      <4> QED
        BY <1>3, <3>2, <3>3, <4>1, <4>2 DEF ShadowFill
    <3>4. CASE Rejected(a)
      <4>1. /\ UNCHANGED venue
            /\ venue[worker[a].intent].st = "refused"
            /\ venue[worker[a].intent].qty = 0
        BY <1>0, <3>2, <3>4 DEF Rejected, worldVars, ResultInv, VenueFresh
      <4> QED
        BY <1>3, <3>2, <3>4, <4>1 DEF Rejected
    <3>5. CASE PollTerminal(a)
      <4>1. /\ UNCHANGED venue
            /\ worker[a].pc = "polling"
            /\ WriteTerminal(worker[a].intent, orders[worker[a].intent].orderId)
        BY <3>5 DEF PollTerminal, Step, worldVars
      <4>2. orders[worker[a].intent].orderId # NoOrder
        BY <3>1, <3>2, <4>1 DEF LifecycleInv, HandsHold, StoreInv, RowsConsistent
      <4> QED
        BY <1>4, <3>2, <4>1, <4>2
    <3> QED
      BY <1>0, <1>1, <1>2, <2>1, <3>2, <3>3, <3>4, <3>5 DEF Submission, Post, Acknowledged,
         Ambiguous, WriteFails, GiveUpPolling, storeVars
  <2>2. CASE ~ Submission(a)
    <3>1. ASSUME NEW i \in Intents, Reserve(a, i) PROVE FALSE
      BY <1>0, <3>1 DEF Reserve, ReserveEntry, StoreTypeOK, OrderRow
    <3>2. ASSUME NEW c \in Conditions, Observe(a, c) PROVE FALSE
      BY <1>0, <3>2 DEF Observe, ObserveMarket
    <3> QED
      BY <1>0, <1>5, <2>2, <3>1, <3>2 DEF Worker, HoldEntry, storeVars
  <2> QED
    BY <2>1, <2>2
<1>6. CASE Maintenance
  <2>1. ASSUME NEW i \in Intents, SweepProbe(i) PROVE Right
    <3>1. WriteTerminal(i, orders[i].orderId)
      BY <1>0, <1>1, <2>1 DEF SweepProbe, storeVars
    <3> QED
      BY <1>4, <2>1, <3>1 DEF SweepProbe, SweepUnchanged, worldVars
  <2>2. ASSUME NEW i \in Intents, SweepNoOrderId(i) \/ SweepProbeFails(i) PROVE FALSE
    BY <1>1, <2>2 DEF SweepNoOrderId, SweepProbeFails
  <2>3. ASSUME NEW i \in Intents, SettleOne(i) \/ SettleLater(i) PROVE FALSE
    BY <1>0, <2>3 DEF SettleOne, SettleLater, RecordSettlement, storeVars
  <2> QED
    BY <1>0, <1>6, <2>1, <2>2, <2>3 DEF Maintenance, SweepSettlements, SweepDone,
       ProbeReturns, storeVars
<1>7. CASE World
  BY <1>0, <1>7 DEF World, VenueAnswers, VenueCloses, Resolve, Tick, storeVars
<1>8. CASE Process
  <2>1. ASSUME NEW i \in Intents, NEW o \in OrderIds, AttachRecoveredOrderId(i, o) PROVE FALSE
    BY <1>0, <2>1 DEF AttachRecoveredOrderId, StoreTypeOK, OrderRow
  <2>2. ~ InitializeRuntimeState
    BY <1>0 DEF InitializeRuntimeState, StoreTypeOK, OrderRow
  <2> QED
    BY <1>0, <1>8, <2>1, <2>2 DEF Process, Boot, Crash, OperatorAttach, OperatorDone, storeVars
<1>9. CASE StartRound \/ FinishRound \/ QuietRound \/ UNCHANGED vars
  BY <1>0, <1>9 DEF StartRound, FinishRound, QuietRound, storeVars, vars
<1> QED
  BY <1>5, <1>6, <1>7, <1>8, <1>9 DEF Next

\* A row of orders comes from reserve_entry.
LEMMA AbsentLeaves ==
  ASSUME StoreInv, [StoreNext]_storeVars, NEW i \in Intents, orders[i].state = "absent"
  PROVE  orders'[i].state \in {"absent", "entry_reserved"}
<1> USE DEF StoreInv, StoreTypeOK, OrderRow, Unresolved
<1>1. CASE \E s \in Slugs, c \in Conditions : ObserveMarket(s, c)
  BY <1>1 DEF ObserveMarket
<1>2. CASE \E s \in Slugs, c \in Conditions, j \in Intents : ReserveEntry(s, c, j)
  BY <1>2 DEF ReserveEntry
<1>3. CASE \E j \in Intents, o \in OrderIds \cup {NoOrder} : MarkSubmitted(j, o)
  BY <1>3 DEF MarkSubmitted, MarkExecutionUnknown
<1>4. CASE \E j \in Intents, class \in Classes : MarkExecutionUnknown(j, class)
  BY <1>4 DEF MarkExecutionUnknown
<1>5. CASE \E j \in Intents, o \in OrderIds : AttachRecoveredOrderId(j, o)
  BY <1>5 DEF AttachRecoveredOrderId
<1>6. CASE \E j \in Intents, q \in 0..Qty : MarkTerminalExecution(j, q)
  BY <1>6 DEF MarkTerminalExecution
<1>7. CASE InitializeRuntimeState
  BY <1>7 DEF InitializeRuntimeState
<1>8. CASE \E s \in Slugs, p \in Outcomes : RecordSettlement(s, p)
  BY <1>8 DEF RecordSettlement
<1>9. CASE UNCHANGED storeVars
  BY <1>9 DEF storeVars
<1> QED
  BY <1>1, <1>2, <1>3, <1>4, <1>5, <1>6, <1>7, <1>8, <1>9 DEF StoreNext

LEMMA RecordedKept ==
  ASSUME LifecycleInv, ResultInv, [Next]_vars
  PROVE  RecordedAsExecuted'
<1> SUFFICES ASSUME NEW j \in Intents,
                    venue'[j].st # "none",
                    orders'[j].orderId \in {j, NoOrder},
                    orders'[j].state \in {"filled", "no_fill"}
             PROVE  /\ orders'[j].state = "filled" =>
                         venue'[j] = [st |-> "closed", qty |-> orders'[j].filled]
                    /\ orders'[j].state = "no_fill" =>
                         venue'[j].st \in {"refused", "closed"} /\ venue'[j].qty = 0
  BY DEF RecordedAsExecuted, Misattached
<1>0. /\ StoreTypeOK
      /\ j \in OrderIds
      /\ venue \in [OrderIds -> [st : VenueStates, qty : 0..Qty]]
      /\ venue[j].qty \in Nat
      /\ venue[j].st # "closed" => venue[j].qty = 0
  BY LifecycleConstants, StoreConstants
  DEF LifecycleInv, StoreInv, LifecycleTypeOK, ResultInv, VenueFresh
<1>1. CASE orders[j].state \in {"filled", "no_fill"}
  <2>1. orders'[j] = orders[j]
    BY <1>1, FinalKept DEF FinalStates
  <2>2. venue[j].st # "none" => venue[j].st \in {"refused", "closed"}
    <3> SUFFICES ASSUME venue[j].st # "none" PROVE venue[j].st \in {"refused", "closed"}
      OBVIOUS
    <3>1. ~ Misattached(j)
      BY <2>1 DEF Misattached
    <3>2. CASE orders[j].state = "no_fill"
      BY <3>1, <3>2 DEF ResultInv, RecordedAsExecuted
    <3>3. CASE orders[j].state = "filled"
      <4>1. venue[j] = [st |-> "closed", qty |-> orders[j].filled]
        BY <3>1, <3>3 DEF ResultInv, RecordedAsExecuted
      <4> QED
        BY <4>1
    <3> QED
      BY <1>1, <3>2, <3>3
  <2>3. ASSUME NEW a \in Assets, Post(a) PROVE venue'[j] = venue[j]
    BY <1>0, <1>1, <2>3, PostSends DEF ResultInv
  <2>4. venue'[j] = venue[j] \/ venue[j].st \in {"sent", "live"}
    BY <1>0, <2>3, VenueSteps
  <2>5. venue'[j] = venue[j]
    BY <2>2, <2>4
  <2> QED
    BY <1>1, <2>1, <2>5 DEF ResultInv, RecordedAsExecuted, Misattached
<1>2. CASE orders[j].state \in Unresolved
  <2>1. /\ UNCHANGED venue
        /\ venue[j].st \in {"refused", "closed"}
        /\ orders'[j].state = IF venue[j].qty > 0 THEN "filled" ELSE "no_fill"
        /\ orders'[j].filled = venue[j].qty
    BY <1>2, ResultsWritten
  <2>2. venue[j] = [st |-> venue[j].st, qty |-> venue[j].qty]
    BY <1>0
  <2> QED
    BY <1>0, <2>1, <2>2
<1>3. CASE orders[j].state \in {"absent", "retired"}
  <2>1. orders[j].state # "retired"
    BY FinalKept DEF FinalStates
  <2>2. orders'[j].state \in {"absent", "entry_reserved"}
    BY <1>3, <2>1, LifecycleStoreStep, AbsentLeaves DEF LifecycleInv
  <2> QED
    BY <2>2
<1> QED
  BY <1>0, <1>1, <1>2, <1>3 DEF StoreTypeOK, OrderRow, OrderStates

LEMMA InitResult == Init => ResultInv
<1> SUFFICES ASSUME Init PROVE ResultInv
  OBVIOUS
<1>1. \A i \in Intents : venue[i] = NoOrderYet /\ orders[i] = NoRow
  BY LifecycleConstants DEF Init, StoreInit
<1>2. VenueFresh
  BY <1>1 DEF Init, VenueFresh, NoOrderYet, Idle
<1>3. OwnIdPasses
  BY <1>1 DEF OwnIdPasses, NoRow
<1>4. SettledRows
  BY DEF Init, StoreInit, SettledRows
<1>5. RecordedAsExecuted
  BY <1>1 DEF RecordedAsExecuted, NoOrderYet
<1> QED
  BY <1>2, <1>3, <1>4, <1>5 DEF ResultInv

LEMMA ResultStepInv ==
  ASSUME LifecycleInv, ResultInv, [Next]_vars
  PROVE  ResultInv'
<1>1. VenueFresh' /\ SettledRows'
  BY VenueFreshKept, SettledRowsKept DEF ResultInv
<1>2. OwnIdPasses'
  BY IdsKept DEF ResultInv, OwnIdPasses
<1> QED
  BY <1>1, <1>2, RecordedKept DEF ResultInv

\* What the venue, the orders and the settlements say of one another, over
\* every interleaving of workers, sweeps, crashes and operators.
THEOREM ResultInvariant == Spec => []ResultInv
<1>1. Init => ResultInv
  BY InitResult
<1>2. ResultInv /\ LifecycleInv /\ [Next]_vars => ResultInv'
  BY ResultStepInv
<1> QED
  BY <1>1, <1>2, LifecycleInvariant, PTL DEF Spec

\* A result is what the venue executed: no missing answer of execution.py's
\* POST or probes becomes a zero fill or a fill.
THEOREM RecordedIsExecuted == Spec => []RecordedAsExecuted
<1>1. ResultInv => RecordedAsExecuted
  BY DEF ResultInv
<1> QED
  BY <1>1, ResultInvariant, PTL

\* attach_recovered_order_id and mark_submitted never redirect an order that
\* has its own id.
THEOREM OwnIdIsKept == Spec => OwnIdKept
<1>1. LifecycleInv /\ ResultInv /\ [Next]_vars =>
        [\A i \in Intents : orders[i].orderId = i => orders'[i].orderId = i]_vars
  BY IdsKept DEF ResultInv
<1> QED
  BY <1>1, LifecycleInvariant, ResultInvariant, PTL DEF Spec, OwnIdKept

\* settle_open_positions settles on the official outcome and on the quantity
\* that was executed.
THEOREM SettlementIsOfficial == Spec => []SettledOnOfficial
<1>1. LifecycleInv /\ ResultInv => SettledOnOfficial
  BY DEF LifecycleInv, ResultInv, StoreInv, OneIntentPerMarket, SettledRows, SettledOnOfficial
<1> QED
  BY <1>1, LifecycleInvariant, ResultInvariant, PTL

\* What the account may owe for an order.
LEMMA OwedOf ==
  ASSUME LifecycleInv, NEW i \in Intents, Owed(i) > 0
  PROVE  /\ venue[i].st \in {"sent", "live", "closed"}
         /\ Owed(i) \in 0..Qty
         /\ venue[i].st = "closed" => Owed(i) = venue[i].qty
<1>1. venue[i] \in [st : VenueStates, qty : 0..Qty]
  BY LifecycleConstants DEF LifecycleInv, LifecycleTypeOK
<1>2. Qty \in Nat
  BY StoreConstants
<1> QED
  BY <1>1, <1>2 DEF Owed, VenueStates

\* market_risk_exposure covers what the venue may charge for every order that
\* is neither retired by a restart nor settled.
THEOREM ExposureCoversVenue == Spec => []RiskCoversVenue
<1>1. LifecycleInv /\ ResultInv => RiskCoversVenue
  <2> SUFFICES ASSUME LifecycleInv, ResultInv, NEW i \in Intents, Owed(i) > 0,
                      ~ Misattached(i),
                      markets[orders[i].slug].state \notin {"retired", "settled"}
               PROVE  /\ orders[i].state # "absent"
                      /\ MarketRiskExposure(orders[i].slug) >= Owed(i)
    BY OwedOf DEF RiskCoversVenue, ResultInv, VenueFresh
  <2>1. /\ venue[i].st \in {"sent", "live", "closed"}
        /\ Owed(i) \in 0..Qty
        /\ venue[i].st = "closed" => Owed(i) = venue[i].qty
    BY OwedOf
  <2>2. orders[i].state # "absent"
    BY <2>1 DEF ResultInv, VenueFresh
  <2>3. LET s == orders[i].slug IN
        /\ markets[s].intent = i
        /\ markets[s].state \in Beside(orders[i].state)
    BY <2>2 DEF LifecycleInv, StoreInv, OneIntentPerMarket, StatesAgree
  <2>4. CASE orders[i].state \in Unresolved
    <3>1. markets[orders[i].slug].state \in Unresolved
      BY <2>3, <2>4 DEF Beside, Unresolved
    <3>2. MarketRiskExposure(orders[i].slug) = Qty
      BY <3>1 DEF MarketRiskExposure, Unresolved
    <3>3. Qty >= Owed(i)
      BY <2>1, StoreConstants
    <3> QED
      BY <2>2, <3>2, <3>3
  <2>5. CASE orders[i].state = "filled"
    <3>1. markets[orders[i].slug].state = "open"
      BY <2>3, <2>5 DEF Beside
    <3>2. MarketRiskExposure(orders[i].slug) = orders[i].filled
      BY <2>3, <3>1 DEF MarketRiskExposure, Unresolved
    <3>3. venue[i] = [st |-> "closed", qty |-> orders[i].filled]
      BY <2>1, <2>5 DEF ResultInv, RecordedAsExecuted
    <3> QED
      BY <2>1, <2>2, <3>2, <3>3
  <2>6. CASE orders[i].state = "no_fill"
    <3>1. venue[i].st \in {"refused", "closed"} /\ venue[i].qty = 0
      BY <2>1, <2>6 DEF ResultInv, RecordedAsExecuted
    <3>2. Owed(i) = 0
      BY <2>1, <3>1
    <3> QED
      BY <3>2
  <2>7. CASE orders[i].state = "retired"
    BY <2>3, <2>7 DEF Beside
  <2> QED
    BY <2>2, <2>4, <2>5, <2>6, <2>7
    DEF LifecycleInv, StoreInv, StoreTypeOK, OrderRow, OrderStates
<1> QED
  BY <1>1, LifecycleInvariant, ResultInvariant, PTL

=============================================================================
