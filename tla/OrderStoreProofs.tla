-------------------------- MODULE OrderStoreProofs --------------------------
(***************************************************************************)
(* The invariants of OrderStore for every set of slugs, intents and order  *)
(* ids and every quantity.  StoreInv is inductive as it stands: its four   *)
(* conjuncts need each other (StatesAgree follows the pointers that        *)
(* OneIntentPerMarket keeps consistent), so each method is shown to        *)
(* preserve the whole of it, and StoreSpec => []StoreInv follows.          *)
(***************************************************************************)
EXTENDS OrderStore, TLAPS

\* The two maps that the UPDATE of markets and the bulk UPDATEs of
\* initialize_runtime_state produce are again tables of rows.
LEMMA MoveMarketType ==
  ASSUME StoreTypeOK, NEW i \in Intents, NEW from, NEW to \in MarketStates
  PROVE  MoveMarket(i, from, to) \in [Slugs -> MarketRow]
BY SMT DEF StoreTypeOK, MoveMarket, MarketRow

\* The empty tables a new database starts from satisfy the invariant.
LEMMA InitInv == StoreInit => StoreInv
<1> SUFFICES ASSUME StoreInit PROVE StoreInv
  OBVIOUS
<1>1. StoreTypeOK
  BY StoreConstants DEF StoreInit, StoreTypeOK, NoMarket, NoRow, MarketRow,
       OrderRow, MarketStates, OrderStates, Classes, Unresolved
<1>2. StatesAgree /\ OneIntentPerMarket
  BY StoreConstants DEF StoreInit, StatesAgree, OneIntentPerMarket, NoMarket, NoRow
<1>3. RowsConsistent
  BY StoreConstants DEF StoreInit, RowsConsistent, NoMarket, NoRow
<1> QED
  BY <1>1, <1>2, <1>3 DEF StoreInv

\* What MoveMarket does to the one market of an intent that has a row.
LEMMA MoveMarketOwn ==
  ASSUME StoreInv, NEW i \in Intents, orders[i].state # "absent",
         NEW from, NEW to \in MarketStates
  PROVE  LET own == orders[i].slug IN
         /\ own \in Slugs
         /\ markets[own].intent = i
         /\ MoveMarket(i, from, to)[own] =
              IF markets[own].state \in from
              THEN [markets[own] EXCEPT !.state = to] ELSE markets[own]
<1>1. orders[i].slug \in Slugs /\ markets[orders[i].slug].intent = i
  BY DEF StoreInv, OneIntentPerMarket
<1> QED
  BY <1>1 DEF MoveMarket

\* The common part of the methods that move an order and its market on: the
\* new row keeps the slug, both state columns get matching values that are
\* neither 'absent' nor 'observing', and the id stays unique.
LEMMA MoveInv ==
  ASSUME StoreInv, NEW i \in Intents, orders[i].state # "absent",
         NEW row \in OrderRow, NEW from, NEW to \in MarketStates,
         row.slug = orders[i].slug, row.state # "absent",
         markets[orders[i].slug].state \in from,
         to \in Beside(row.state), to \notin {"absent", "observing"},
         row.state = "submitted" => row.orderId # NoOrder,
         row.state = "filled" => row.filled > 0,
         row.state = "no_fill" => row.filled = 0,
         row.orderId # NoOrder => IdFree(i, row.orderId),
         orders' = [orders EXCEPT ![i] = row],
         markets' = MoveMarket(i, from, to),
         UNCHANGED settlements
  PROVE  StoreInv'
<1> DEFINE own == orders[i].slug
<1>0. own \in Slugs /\ markets[own].intent = i
  BY MoveMarketOwn
<1>1. \A s \in Slugs \ {own} : markets'[s] = markets[s]
  <2>1. \A s \in Slugs \ {own} : markets[s].intent # i
    BY StoreConstants DEF StoreInv, OneIntentPerMarket
  <2> QED
    BY <2>1 DEF MoveMarket
<1>2. markets'[own] = [markets[own] EXCEPT !.state = to]
  BY MoveMarketOwn
<1>3. markets'[own].state = to /\ markets'[own].intent = i
  BY <1>0, <1>2 DEF StoreInv, StoreTypeOK, MarketRow
<1>4. \A j \in Intents : orders'[j] = IF j = i THEN row ELSE orders[j]
  BY DEF StoreInv, StoreTypeOK
<1>5. \A j \in Intents \ {i} : orders[j].state # "absent" => orders[j].slug # own
  BY <1>0 DEF StoreInv, OneIntentPerMarket
<1>6. StoreTypeOK'
  BY MoveMarketType DEF StoreInv, StoreTypeOK
<1>7. StatesAgree'
  BY <1>0, <1>1, <1>3, <1>4, <1>5 DEF StoreInv, StatesAgree, OneIntentPerMarket
<1>8. OneIntentPerMarket'
  BY <1>0, <1>1, <1>3, <1>4, <1>5 DEF StoreInv, OneIntentPerMarket
<1>9. RowsConsistent'
  <2>1. \A s \in Slugs : markets'[s].intent = NoIntent
                           <=> markets'[s].state \in {"absent", "observing"}
    BY <1>0, <1>1, <1>3, StoreConstants DEF StoreInv, RowsConsistent
  <2>2. \A j \in Intents :
          orders'[j].orderId # NoOrder =>
            \A k \in Intents \ {j} : orders'[k].orderId # orders'[j].orderId
    BY <1>4 DEF StoreInv, RowsConsistent, IdFree
  <2> QED
    BY <1>4, <2>1, <2>2 DEF StoreInv, RowsConsistent, IdFree
<1> QED
  BY <1>6, <1>7, <1>8, <1>9 DEF StoreInv

-----------------------------------------------------------------------------
(* One lemma per method: from any state that satisfies the invariant, for  *)
(* any argument, the method leads to one that does.                        *)

LEMMA ObserveMarketInv ==
  ASSUME StoreInv, NEW s \in Slugs, NEW c \in Conditions, ObserveMarket(s, c)
  PROVE  StoreInv'
<1> USE DEF StoreInv, StoreTypeOK, StatesAgree, OneIntentPerMarket, RowsConsistent
<1>1. CASE UNCHANGED markets
  BY <1>1 DEF ObserveMarket, IdFree, storeVars
<1>2. CASE /\ markets[s].state = "absent"
           /\ markets' = [markets EXCEPT ![s] =
                [state |-> "observing", intent |-> NoIntent, condition |-> c]]
  <2>1. StoreTypeOK'
    BY <1>2 DEF ObserveMarket, MarketRow, MarketStates
  <2>2. \A i \in Intents : orders[i].state # "absent" => orders[i].slug # s
    BY <1>2, StoreConstants DEF MarketRow
  <2>3. StatesAgree' /\ OneIntentPerMarket'
    BY <1>2, <2>2 DEF ObserveMarket
  <2>4. RowsConsistent'
    BY <1>2, StoreConstants DEF ObserveMarket, IdFree
  <2> QED
    BY <2>1, <2>3, <2>4
<1> QED
  BY <1>1, <1>2 DEF ObserveMarket

LEMMA ReserveEntryInv ==
  ASSUME StoreInv, NEW s \in Slugs, NEW c \in Conditions, NEW i \in Intents,
         ReserveEntry(s, c, i)
  PROVE  StoreInv'
<1> USE DEF StoreInv, StoreTypeOK, StatesAgree, OneIntentPerMarket, RowsConsistent
<1>1. markets[s].intent = NoIntent
  BY DEF ReserveEntry
<1>2. \A j \in Intents : orders[j].state # "absent" => orders[j].slug # s
  BY <1>1, StoreConstants
<1>3. \A r \in Slugs : markets[r].intent # i
  BY StoreConstants DEF ReserveEntry, NoRow
<1>4. StoreTypeOK'
  BY DEF ReserveEntry, MarketRow, OrderRow, NoRow, MarketStates, OrderStates,
         Classes, Unresolved
<1>5. StatesAgree'
  BY <1>2 DEF ReserveEntry, Beside, NoRow
<1>6. OneIntentPerMarket'
  BY <1>2, <1>3 DEF ReserveEntry, NoRow
<1>7. RowsConsistent'
  BY StoreConstants DEF ReserveEntry, NoRow, IdFree
<1> QED
  BY <1>4, <1>5, <1>6, <1>7

\* In the invariant's states the market of an unresolved order is in the
\* order's own state.
LEMMA UnresolvedMarket ==
  ASSUME StoreInv, NEW i \in Intents, orders[i].state \in Unresolved
  PROVE  /\ orders[i].state # "absent"
         /\ markets[orders[i].slug].state = orders[i].state
BY DEF StoreInv, StatesAgree, Beside, Unresolved

LEMMA MarkExecutionUnknownInv ==
  ASSUME StoreInv, NEW i \in Intents, NEW class \in Classes,
         MarkExecutionUnknown(i, class)
  PROVE  StoreInv'
<1>1. CASE orders[i].state = "absent"
  <2>1. \A s \in Slugs : markets[s].intent # i
    BY <1>1, StoreConstants DEF StoreInv, OneIntentPerMarket, RowsConsistent, NoRow
  <2>2. UNCHANGED storeVars
    BY <1>1, <2>1 DEF MarkExecutionUnknown, MoveMarket, StoreInv, StoreTypeOK, storeVars
  <2> QED
    BY <2>2 DEF StoreInv, StoreTypeOK, StatesAgree, OneIntentPerMarket,
         RowsConsistent, IdFree, storeVars
<1>2. CASE orders[i].state # "absent"
  <2> DEFINE row == [orders[i] EXCEPT !.state = "execution_unknown", !.class = class]
  <2>1. row \in OrderRow
    BY DEF StoreInv, StoreTypeOK, OrderRow, OrderStates, Unresolved
  <2>2. /\ row.slug = orders[i].slug
        /\ row.state = "execution_unknown"
        /\ row.orderId = orders[i].orderId
    BY DEF StoreInv, StoreTypeOK, OrderRow
  <2>3. markets[orders[i].slug].state \in MarketStates
    BY <1>2 DEF StoreInv, StoreTypeOK, OneIntentPerMarket, MarketRow
  <2>4. /\ orders' = [orders EXCEPT ![i] = row]
        /\ markets' = MoveMarket(i, MarketStates, "execution_unknown")
        /\ UNCHANGED settlements
    BY <1>2 DEF MarkExecutionUnknown
  <2>5. row.orderId # NoOrder => IdFree(i, row.orderId)
    BY <2>2 DEF StoreInv, RowsConsistent
  <2>6. "execution_unknown" \in MarketStates
    BY DEF MarketStates, Unresolved
  <2> HIDE DEF row
  <2> QED
    BY <1>2, <2>1, <2>2, <2>3, <2>4, <2>5, <2>6, MoveInv DEF Beside
<1> QED
  BY <1>1, <1>2

LEMMA MarkSubmittedInv ==
  ASSUME StoreInv, NEW i \in Intents, NEW o \in OrderIds \cup {NoOrder},
         MarkSubmitted(i, o)
  PROVE  StoreInv'
<1>1. CASE MarkExecutionUnknown(i, "none")
  BY <1>1, MarkExecutionUnknownInv DEF Classes
<1>2. CASE ~MarkExecutionUnknown(i, "none")
  <2> DEFINE row == [orders[i] EXCEPT !.state = "submitted", !.orderId = o,
                                      !.class = "none"]
  <2>1. /\ orders[i].state = "entry_reserved"
        /\ o # NoOrder
        /\ IdFree(i, o)
        /\ orders' = [orders EXCEPT ![i] = row]
        /\ markets' = MoveMarket(i, {"entry_reserved"}, "submitted")
        /\ UNCHANGED settlements
    BY <1>2 DEF MarkSubmitted
  <2>2. row \in OrderRow
    BY DEF StoreInv, StoreTypeOK, OrderRow, OrderStates, Classes, Unresolved
  <2>3. row.slug = orders[i].slug /\ row.state = "submitted" /\ row.orderId = o
    BY DEF StoreInv, StoreTypeOK, OrderRow
  <2>4. "submitted" \in MarketStates
    BY DEF MarketStates, Unresolved
  <2>5. /\ orders[i].state # "absent"
        /\ markets[orders[i].slug].state = "entry_reserved"
    BY <2>1, UnresolvedMarket DEF Unresolved
  <2> HIDE DEF row
  <2> QED
    BY <2>1, <2>2, <2>3, <2>4, <2>5, MoveInv DEF Beside
<1> QED
  BY <1>1, <1>2

LEMMA AttachRecoveredOrderIdInv ==
  ASSUME StoreInv, NEW i \in Intents, NEW o \in OrderIds,
         AttachRecoveredOrderId(i, o)
  PROVE  StoreInv'
<1> DEFINE row == [orders[i] EXCEPT !.state = "submitted", !.orderId = o,
                                    !.class = "attached"]
<1>1. /\ orders[i].state = "execution_unknown"
      /\ o # NoOrder
      /\ IdFree(i, o)
      /\ orders' = [orders EXCEPT ![i] = row]
      /\ markets' = MoveMarket(i, {"execution_unknown"}, "submitted")
      /\ UNCHANGED settlements
  BY DEF AttachRecoveredOrderId
<1>2. row \in OrderRow
  BY DEF StoreInv, StoreTypeOK, OrderRow, OrderStates, Classes, Unresolved
<1>3. row.slug = orders[i].slug /\ row.state = "submitted" /\ row.orderId = o
  BY DEF StoreInv, StoreTypeOK, OrderRow
<1>4. "submitted" \in MarketStates
  BY DEF MarketStates, Unresolved
<1>5. /\ orders[i].state # "absent"
      /\ markets[orders[i].slug].state = "execution_unknown"
  BY <1>1, UnresolvedMarket DEF Unresolved
<1> HIDE DEF row
<1> QED
  BY <1>1, <1>2, <1>3, <1>4, <1>5, MoveInv DEF Beside

LEMMA MarkTerminalExecutionInv ==
  ASSUME StoreInv, NEW i \in Intents, NEW q \in 0..Qty,
         MarkTerminalExecution(i, q)
  PROVE  StoreInv'
<1> DEFINE st  == IF q > 0 THEN "filled" ELSE "no_fill"
           to  == IF q > 0 THEN "open" ELSE "no_fill"
           row == [orders[i] EXCEPT !.state = st, !.filled = q, !.class = "none"]
<1>1. /\ orders[i].state \in Unresolved
      /\ orders' = [orders EXCEPT ![i] = row]
      /\ markets' = MoveMarket(i, MarketStates, to)
      /\ UNCHANGED settlements
  BY DEF MarkTerminalExecution
<1>2. row \in OrderRow
  BY DEF StoreInv, StoreTypeOK, OrderRow, OrderStates, Classes, Unresolved
<1>3. /\ row.slug = orders[i].slug
      /\ row.state = st
      /\ row.filled = q
      /\ row.orderId = orders[i].orderId
  BY DEF StoreInv, StoreTypeOK, OrderRow
<1>4. /\ orders[i].state # "absent"
      /\ markets[orders[i].slug].state \in MarketStates
  BY <1>1, UnresolvedMarket DEF Unresolved, MarketStates
<1>5. row.orderId # NoOrder => IdFree(i, row.orderId)
  BY <1>3 DEF StoreInv, RowsConsistent
<1>6. to \in MarketStates /\ to \in Beside(st) /\ to \notin {"absent", "observing"}
  BY DEF MarketStates, Beside
<1>7. /\ st # "absent" /\ st # "submitted"
      /\ st = "filled" => q > 0
      /\ st = "no_fill" => q = 0
  BY StoreConstants
<1> HIDE DEF row, st, to
<1> QED
  BY <1>1, <1>2, <1>3, <1>4, <1>5, <1>6, <1>7, MoveInv

LEMMA InitializeRuntimeStateInv ==
  ASSUME StoreInv, InitializeRuntimeState
  PROVE  StoreInv'
<1> USE DEF StoreInv
<1>1. \A i \in Intents :
        orders'[i] = IF orders[i].state \in Unresolved
                     THEN [orders[i] EXCEPT !.state = "retired"] ELSE orders[i]
  BY DEF InitializeRuntimeState
<1>2. \A s \in Slugs :
        markets'[s] = IF markets[s].state \in Unresolved
                      THEN [markets[s] EXCEPT !.state = "retired"] ELSE markets[s]
  BY DEF InitializeRuntimeState
<1>3. /\ \A i \in Intents :
           /\ orders'[i].slug = orders[i].slug
           /\ orders'[i].orderId = orders[i].orderId
           /\ orders'[i].filled = orders[i].filled
           /\ orders'[i].state = IF orders[i].state \in Unresolved
                                 THEN "retired" ELSE orders[i].state
      /\ \A s \in Slugs :
           /\ markets'[s].intent = markets[s].intent
           /\ markets'[s].state = IF markets[s].state \in Unresolved
                                  THEN "retired" ELSE markets[s].state
  BY <1>1, <1>2 DEF StoreTypeOK, OrderRow, MarketRow
<1>4. StoreTypeOK'
  <2>1. \A i \in Intents : orders'[i] \in OrderRow
    BY <1>1 DEF StoreTypeOK, OrderRow, OrderStates
  <2>2. \A s \in Slugs : markets'[s] \in MarketRow
    BY <1>2 DEF StoreTypeOK, MarketRow, MarketStates
  <2> QED
    BY <2>1, <2>2 DEF InitializeRuntimeState, StoreTypeOK
<1>5. \A i \in Intents : orders[i].state # "absent" => orders[i].slug \in Slugs
  BY DEF OneIntentPerMarket
<1>6. StatesAgree'
  <2> SUFFICES ASSUME NEW i \in Intents, orders'[i].state # "absent"
               PROVE  markets'[orders'[i].slug].state \in Beside(orders'[i].state)
    BY DEF StatesAgree
  <2>1. orders[i].state # "absent" /\ orders[i].slug \in Slugs
    BY <1>3, <1>5 DEF Unresolved
  <2>2. CASE orders[i].state \in Unresolved
    BY <1>3, <2>1, <2>2, UnresolvedMarket DEF Beside
  <2>3. CASE orders[i].state \notin Unresolved
    BY <1>3, <2>1, <2>3 DEF StatesAgree, Beside, Unresolved
  <2> QED
    BY <2>2, <2>3
<1>7. OneIntentPerMarket'
  BY <1>3 DEF StoreTypeOK, MarketRow, OneIntentPerMarket, Unresolved
<1>8. RowsConsistent'
  <2>1. \A s \in Slugs : markets'[s].intent = NoIntent
                           <=> markets'[s].state \in {"absent", "observing"}
    BY <1>3 DEF RowsConsistent, Unresolved
  <2>2. \A i \in Intents : orders'[i].state = "absent" => orders'[i] = NoRow
    BY <1>1, <1>3 DEF RowsConsistent, Unresolved
  <2>3. \A i \in Intents : orders'[i].orderId # NoOrder =>
          \A j \in Intents \ {i} : orders'[j].orderId # orders'[i].orderId
    BY <1>3 DEF RowsConsistent, IdFree
  <2> QED
    BY <1>3, <2>1, <2>2, <2>3 DEF RowsConsistent, IdFree, Unresolved
<1> QED
  BY <1>4, <1>6, <1>7, <1>8

LEMMA RecordSettlementInv ==
  ASSUME StoreInv, NEW s \in Slugs, NEW p \in Outcomes, RecordSettlement(s, p)
  PROVE  StoreInv'
<1> USE DEF StoreInv
<1>1. CASE UNCHANGED <<markets, settlements>>
  BY <1>1 DEF RecordSettlement, StoreTypeOK, StatesAgree, OneIntentPerMarket,
       RowsConsistent, IdFree
<1>2. CASE /\ markets[s].state = "open"
           /\ settlements' = [settlements EXCEPT ![s] = p]
           /\ markets' = [markets EXCEPT ![s].state = "settled"]
  <2>1. StoreTypeOK'
    BY <1>2 DEF RecordSettlement, StoreTypeOK, MarketRow, MarketStates
  <2>2. \A r \in Slugs :
          /\ markets'[r].intent = markets[r].intent
          /\ markets'[r].state = IF r = s THEN "settled" ELSE markets[r].state
    BY <1>2 DEF StoreTypeOK, MarketRow
  <2>3. \A i \in Intents :
          orders[i].state # "absent" /\ orders[i].slug = s => orders[i].state = "filled"
    BY <1>2 DEF StatesAgree, Beside, StoreTypeOK, OrderRow, OrderStates, Unresolved
  <2>4. StatesAgree'
    BY <2>2, <2>3 DEF RecordSettlement, StatesAgree, OneIntentPerMarket, Beside
  <2>5. OneIntentPerMarket'
    BY <2>2 DEF RecordSettlement, OneIntentPerMarket, StoreTypeOK, MarketRow
  <2>6. RowsConsistent'
    BY <1>2, <2>2 DEF RecordSettlement, RowsConsistent, IdFree
  <2> QED
    BY <2>1, <2>4, <2>5, <2>6
<1> QED
  BY <1>1, <1>2 DEF RecordSettlement

-----------------------------------------------------------------------------
(* The theorems.                                                           *)

\* Every call of every method preserves the invariant.
LEMMA StoreStepInv == ASSUME StoreInv, [StoreNext]_storeVars PROVE StoreInv'
<1>1. ASSUME NEW s \in Slugs, NEW c \in Conditions, ObserveMarket(s, c)
      PROVE  StoreInv'
  BY <1>1, ObserveMarketInv
<1>2. ASSUME NEW s \in Slugs, NEW c \in Conditions, NEW i \in Intents,
             ReserveEntry(s, c, i)
      PROVE  StoreInv'
  BY <1>2, ReserveEntryInv
<1>3. ASSUME NEW i \in Intents, NEW o \in OrderIds \cup {NoOrder}, MarkSubmitted(i, o)
      PROVE  StoreInv'
  BY <1>3, MarkSubmittedInv
<1>4. ASSUME NEW i \in Intents, NEW class \in Classes,
             MarkExecutionUnknown(i, class)
      PROVE  StoreInv'
  BY <1>4, MarkExecutionUnknownInv DEF Classes
<1>5. ASSUME NEW i \in Intents, NEW o \in OrderIds, AttachRecoveredOrderId(i, o)
      PROVE  StoreInv'
  BY <1>5, AttachRecoveredOrderIdInv
<1>6. ASSUME NEW i \in Intents, NEW q \in 0..Qty, MarkTerminalExecution(i, q)
      PROVE  StoreInv'
  BY <1>6, MarkTerminalExecutionInv
<1>7. CASE InitializeRuntimeState
  BY <1>7, InitializeRuntimeStateInv
<1>8. ASSUME NEW s \in Slugs, NEW p \in Outcomes, RecordSettlement(s, p)
      PROVE  StoreInv'
  BY <1>8, RecordSettlementInv
<1>9. CASE UNCHANGED storeVars
  BY <1>9 DEF storeVars, StoreInv, StoreTypeOK, StatesAgree, OneIntentPerMarket,
       RowsConsistent, IdFree
<1> QED
  BY <1>1, <1>2, <1>3, <1>4, <1>5, <1>6, <1>7, <1>8, <1>9 DEF StoreNext

\* Whatever calls are made in whatever order, the three tables stay well
\* formed, an order and its market agree, and no market has two intents.
THEOREM StoreInvariant == StoreSpec => []StoreInv
<1>1. StoreInit => StoreInv
  BY InitInv
<1>2. StoreInv /\ [StoreNext]_storeVars => StoreInv'
  BY StoreStepInv
<1> QED
  BY <1>1, <1>2, PTL DEF StoreSpec

\* Every row keeps the columns and states of the schema.
THEOREM StoreTypes == StoreSpec => []StoreTypeOK
BY StoreInvariant, PTL DEF StoreInv

\* The order's state column and its market's never diverge, although they are
\* written by UPDATEs with different WHERE clauses.
THEOREM OrderAndMarketAgree == StoreSpec => []StatesAgree
BY StoreInvariant, PTL DEF StoreInv

\* The two pointer columns are inverse to each other: one order per market.
THEOREM SoleEntryPerMarket == StoreSpec => []OneIntentPerMarket
BY StoreInvariant, PTL DEF StoreInv

\* Quantities, venue ids and the intent column fit the states beside them.
THEOREM RowsStayConsistent == StoreSpec => []RowsConsistent
BY StoreInvariant, PTL DEF StoreInv

\* unresolved_orders selects by the market's column; it returns exactly the
\* orders whose own column is unresolved, so no pending order escapes a sweep
\* and no resolved one enters it.
THEOREM SweepSelectsUnresolved ==
  StoreSpec => [](UnresolvedOrders = {i \in Intents : orders[i].state \in Unresolved})
<1>1. StoreInv => UnresolvedOrders = {i \in Intents : orders[i].state \in Unresolved}
  <2> SUFFICES ASSUME StoreInv, NEW i \in Intents
               PROVE  i \in UnresolvedOrders <=> orders[i].state \in Unresolved
    BY DEF UnresolvedOrders
  <2>1. ASSUME orders[i].state \in Unresolved PROVE i \in UnresolvedOrders
    BY <2>1, UnresolvedMarket DEF UnresolvedOrders
  <2>2. ASSUME i \in UnresolvedOrders PROVE orders[i].state \in Unresolved
    BY <2>2 DEF UnresolvedOrders, StoreInv, StatesAgree, Beside, Unresolved
  <2> QED
    BY <2>1, <2>2
<1> QED
  BY <1>1, StoreInvariant, PTL

\* What no call takes from a market: its row, its condition and its intent.
LEMMA MarketKept ==
  ASSUME StoreInv, [StoreNext]_storeVars, NEW s \in Slugs
  PROVE  /\ markets[s].intent # NoIntent => markets'[s].intent = markets[s].intent
         /\ markets[s].state # "absent" =>
              /\ markets'[s].state # "absent"
              /\ markets'[s].condition = markets[s].condition
<1> DEFINE Kept == /\ markets[s].intent # NoIntent =>
                        markets'[s].intent = markets[s].intent
                   /\ markets[s].state # "absent" =>
                        /\ markets'[s].state # "absent"
                        /\ markets'[s].condition = markets[s].condition
<1> SUFFICES Kept
  OBVIOUS
<1>1. /\ markets \in [Slugs -> MarketRow]
      /\ markets[s].intent = NoIntent <=> markets[s].state \in {"absent", "observing"}
  BY DEF StoreInv, StoreTypeOK, RowsConsistent
<1>2. ASSUME NEW i \in Intents, NEW from, NEW to \in MarketStates \ {"absent"},
             markets' = MoveMarket(i, from, to)
      PROVE  Kept
  BY <1>1, <1>2 DEF MoveMarket, MarketRow
<1>3. CASE \E r \in Slugs, c \in Conditions : ObserveMarket(r, c)
  BY <1>1, <1>3 DEF ObserveMarket
<1>4. CASE \E r \in Slugs, c \in Conditions, i \in Intents : ReserveEntry(r, c, i)
  BY <1>1, <1>4 DEF ReserveEntry
<1>5. CASE \E i \in Intents, o \in OrderIds \cup {NoOrder} : MarkSubmitted(i, o)
  BY <1>2, <1>5 DEF MarkSubmitted, MarkExecutionUnknown, MarketStates, Unresolved
<1>6. CASE \E i \in Intents, class \in Classes : MarkExecutionUnknown(i, class)
  BY <1>2, <1>6 DEF MarkExecutionUnknown, MarketStates, Unresolved
<1>7. CASE \E i \in Intents, o \in OrderIds : AttachRecoveredOrderId(i, o)
  BY <1>2, <1>7 DEF AttachRecoveredOrderId, MarketStates, Unresolved
<1>8. CASE \E i \in Intents, q \in 0..Qty : MarkTerminalExecution(i, q)
  BY <1>2, <1>8 DEF MarkTerminalExecution, MarketStates
<1>9. CASE InitializeRuntimeState
  BY <1>1, <1>9 DEF InitializeRuntimeState, MarketRow
<1>10. CASE \E r \in Slugs, p \in Outcomes : RecordSettlement(r, p)
  BY <1>1, <1>10 DEF RecordSettlement, MarketRow
<1>11. CASE UNCHANGED storeVars
  BY <1>11 DEF storeVars
<1> QED
  BY <1>3, <1>4, <1>5, <1>6, <1>7, <1>8, <1>9, <1>10, <1>11 DEF StoreNext

\* Once reserved, a market keeps its intent for ever and never becomes free
\* again: the no-repeat policy of reserve_entry, across restarts too.
THEOREM NoRepeatedEntry == StoreSpec => ReservationIsFinal
<1>1. StoreInv /\ StoreInv' /\ [StoreNext]_storeVars =>
        [\A s \in Slugs :
           markets[s].intent # NoIntent =>
             /\ markets'[s].intent = markets[s].intent
             /\ markets'[s].state \notin {"absent", "observing"}]_storeVars
  BY MarketKept DEF StoreInv, RowsConsistent
<1> QED
  BY <1>1, StoreInvariant, PTL DEF StoreSpec, ReservationIsFinal

=============================================================================
