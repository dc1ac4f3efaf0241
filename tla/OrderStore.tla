----------------------------- MODULE OrderStore -----------------------------
(***************************************************************************)
(* The SQLite state machine of src/src/aftertake/state.py: the tables      *)
(* markets, orders and settlements, and the methods of StateStore that     *)
(* write them.                                                             *)
(*                                                                         *)
(* Every method holds the store's RLock and one BEGIN IMMEDIATE ...        *)
(* COMMIT transaction, so a method is one action.  A method that raises    *)
(* rolls its transaction back: it changes nothing and is not enabled here. *)
(* The action is parameterised by the method's arguments; the modules that *)
(* model the callers conjoin it with the caller's own step.  StoreSpec     *)
(* lets any caller call any method at any time.                            *)
(*                                                                         *)
(* Left out: timestamps, the reason and error texts, prices and fees.  Of  *)
(* raw_json only its "classification" is kept, because                     *)
(* attach_recovered_order_id reads it back.                                *)
(***************************************************************************)
EXTENDS Integers, FiniteSets

CONSTANTS
  Slugs,        \* markets.slug: one market of one asset and one round
  Conditions,   \* condition ids Gamma may report for a market
  Intents,      \* orders.intent_id, uuid4 values
  OrderIds,     \* order ids the venue may assign or an operator may type
  Outcomes,     \* the (pnl, payload) pairs a settlement may record
  Qty,          \* requested quantity of every entry (settings.qty)
  NoSlug, NoCondition, NoIntent, NoOrder, NoOutcome

ASSUME StoreConstants ==
  /\ Qty \in Nat \ {0}
  /\ NoSlug \notin Slugs
  /\ NoCondition \notin Conditions
  /\ NoIntent \notin Intents
  /\ NoOrder \notin OrderIds
  /\ NoOutcome \notin Outcomes

VARIABLES
  markets,      \* the row of each slug
  orders,       \* the row of each intent
  settlements   \* the row of each settled slug

storeVars == <<markets, orders, settlements>>

-----------------------------------------------------------------------------
(* States and rows.  "absent" stands for a row that does not exist.        *)

Unresolved == {"entry_reserved", "submitted", "execution_unknown"}

MarketStates ==
  {"absent", "observing", "open", "no_fill", "settled", "retired"} \cup Unresolved

OrderStates == {"absent", "filled", "no_fill", "retired"} \cup Unresolved

\* raw_json["classification"], as far as the store reads it back.
Classes == {"none", "attached", "mismatch"}

MarketRow ==
  [state : MarketStates,
   intent : Intents \cup {NoIntent},
   condition : Conditions \cup {NoCondition}]

OrderRow ==
  [state : OrderStates,
   slug : Slugs \cup {NoSlug},
   orderId : OrderIds \cup {NoOrder},
   class : Classes,
   filled : 0..Qty]

NoMarket == [state |-> "absent", intent |-> NoIntent, condition |-> NoCondition]

NoRow ==
  [state |-> "absent", slug |-> NoSlug, orderId |-> NoOrder,
   class |-> "none", filled |-> 0]

\* UPDATE markets SET state = to WHERE intent_id = i AND state IN from.
MoveMarket(i, from, to) ==
  [s \in Slugs |->
     IF markets[s].intent = i /\ markets[s].state \in from
     THEN [markets[s] EXCEPT !.state = to]
     ELSE markets[s]]

\* The partial unique index idx_orders_order_id admits o on row i.
IdFree(i, o) == \A j \in Intents \ {i} : orders[j].orderId # o

-----------------------------------------------------------------------------
(* The methods.                                                            *)

\* observe_market: insert the row, or find it with the same condition id.
ObserveMarket(s, c) ==
  /\ \/ /\ markets[s].state = "absent"
        /\ markets' = [markets EXCEPT ![s] =
             [state |-> "observing", intent |-> NoIntent, condition |-> c]]
     \/ /\ markets[s].state # "absent"
        /\ markets[s].condition = c
        /\ UNCHANGED markets
  /\ UNCHANGED <<orders, settlements>>

\* Mutation: a market whose attempt found no fill may be tried again.
ReserveEntryAfterNoFill(s, c, i) ==
  /\ orders[i].state = "absent"
  /\ \/ markets[s].state = "absent"
     \/ markets[s].state \in {"observing", "no_fill"} /\ markets[s].condition = c
  /\ markets' = [markets EXCEPT ![s] =
       [state |-> "entry_reserved", intent |-> i, condition |-> c]]
  /\ orders' = [orders EXCEPT ![i] =
       [NoRow EXCEPT !.state = "entry_reserved", !.slug = s]]
  /\ UNCHANGED settlements

\* reserve_entry, returning the record of the new intent i.  On a market in any
\* other state it returns None and changes nothing: it is not enabled.
ReserveEntry(s, c, i) ==
  /\ orders[i].state = "absent"
  /\ \/ markets[s].state = "absent"
     \/ markets[s].state = "observing" /\ markets[s].condition = c
  /\ markets' = [markets EXCEPT ![s] =
       [state |-> "entry_reserved", intent |-> i, condition |-> c]]
  /\ orders' = [orders EXCEPT ![i] =
       [NoRow EXCEPT !.state = "entry_reserved", !.slug = s]]
  /\ UNCHANGED settlements

\* mark_execution_unknown: neither UPDATE looks at the state it replaces, and
\* no rowcount is checked, so an unknown intent id changes nothing.
MarkExecutionUnknown(i, class) ==
  /\ orders' = IF orders[i].state = "absent" THEN orders
               ELSE [orders EXCEPT ![i].state = "execution_unknown",
                                   ![i].class = class]
  /\ markets' = MoveMarket(i, MarketStates, "execution_unknown")
  /\ UNCHANGED settlements

\* Mutation: an acknowledgement without an id is stored like any other.
MarkSubmittedUnchecked(i, o) ==
  /\ orders[i].state = "entry_reserved"
  /\ IdFree(i, o) \/ o = NoOrder
  /\ orders' = [orders EXCEPT ![i].state = "submitted",
                              ![i].orderId = o,
                              ![i].class = "none"]
  /\ markets' = MoveMarket(i, {"entry_reserved"}, "submitted")
  /\ UNCHANGED settlements

\* mark_submitted: an acknowledgement without an id is an unknown execution.
MarkSubmitted(i, o) ==
  \/ /\ o = NoOrder
     /\ MarkExecutionUnknown(i, "none")
  \/ /\ o # NoOrder
     /\ orders[i].state = "entry_reserved"
     /\ IdFree(i, o)
     /\ orders' = [orders EXCEPT ![i].state = "submitted",
                                 ![i].orderId = o,
                                 ![i].class = "none"]
     /\ markets' = MoveMarket(i, {"entry_reserved"}, "submitted")
     /\ UNCHANGED settlements

\* Mutation: any unknown execution may be given another id.
AttachAnyId(i, o) ==
  /\ o # NoOrder
  /\ orders[i].state = "execution_unknown"
  /\ IdFree(i, o)
  /\ orders' = [orders EXCEPT ![i].state = "submitted",
                              ![i].orderId = o,
                              ![i].class = "attached"]
  /\ markets' = MoveMarket(i, {"execution_unknown"}, "submitted")
  /\ UNCHANGED settlements

\* Mutation: an order that a boot has retired may be recovered, too.
AttachToRetired(i, o) ==
  /\ o # NoOrder
  /\ orders[i].state \in {"execution_unknown", "retired"}
  /\ orders[i].orderId # NoOrder => orders[i].class = "mismatch"
  /\ IdFree(i, o)
  /\ orders' = [orders EXCEPT ![i].state = "submitted",
                              ![i].orderId = o,
                              ![i].class = "attached"]
  /\ markets' = MoveMarket(i, {"execution_unknown", "retired"}, "submitted")
  /\ UNCHANGED settlements

\* attach_recovered_order_id: an id that is already there may be replaced
\* only after it failed the identity validation.
AttachRecoveredOrderId(i, o) ==
  /\ o # NoOrder
  /\ orders[i].state = "execution_unknown"
  /\ orders[i].orderId # NoOrder => orders[i].class = "mismatch"
  /\ IdFree(i, o)
  /\ orders' = [orders EXCEPT ![i].state = "submitted",
                              ![i].orderId = o,
                              ![i].class = "attached"]
  /\ markets' = MoveMarket(i, {"execution_unknown"}, "submitted")
  /\ UNCHANGED settlements

\* Mutation: the market's UPDATE forgets that it may be in execution_unknown.
MarkTerminalLeavesUnknown(i, q) ==
  /\ orders[i].state \in Unresolved
  /\ orders' = [orders EXCEPT ![i].state = IF q > 0 THEN "filled" ELSE "no_fill",
                              ![i].filled = q,
                              ![i].class = "none"]
  /\ markets' = MoveMarket(i, {"entry_reserved", "submitted"},
                           IF q > 0 THEN "open" ELSE "no_fill")
  /\ UNCHANGED settlements

\* mark_terminal_execution: the order's UPDATE is guarded by its state, the
\* market's is not.
MarkTerminalExecution(i, q) ==
  /\ orders[i].state \in Unresolved
  /\ orders' = [orders EXCEPT ![i].state = IF q > 0 THEN "filled" ELSE "no_fill",
                              ![i].filled = q,
                              ![i].class = "none"]
  /\ markets' = MoveMarket(i, MarketStates, IF q > 0 THEN "open" ELSE "no_fill")
  /\ UNCHANGED settlements

\* Mutation: the restart frees the markets it retires.
InitializeFreesMarkets ==
  /\ orders' = [i \in Intents |->
       IF orders[i].state \in Unresolved
       THEN [orders[i] EXCEPT !.state = "retired"] ELSE orders[i]]
  /\ markets' = [s \in Slugs |->
       IF markets[s].state \in Unresolved
       THEN [markets[s] EXCEPT !.state = "observing", !.intent = NoIntent]
       ELSE markets[s]]
  /\ UNCHANGED settlements

\* Mutation: the reason of the retirement lands in the state column.
InitializeWritesReason ==
  /\ orders' = [i \in Intents |->
       IF orders[i].state \in Unresolved
       THEN [orders[i] EXCEPT !.state = "runtime_initialized"] ELSE orders[i]]
  /\ markets' = [s \in Slugs |->
       IF markets[s].state \in Unresolved
       THEN [markets[s] EXCEPT !.state = "retired"] ELSE markets[s]]
  /\ UNCHANGED settlements

\* initialize_runtime_state: two independent UPDATEs over whole tables.
InitializeRuntimeState ==
  /\ orders' = [i \in Intents |->
       IF orders[i].state \in Unresolved
       THEN [orders[i] EXCEPT !.state = "retired"] ELSE orders[i]]
  /\ markets' = [s \in Slugs |->
       IF markets[s].state \in Unresolved
       THEN [markets[s] EXCEPT !.state = "retired"] ELSE markets[s]]
  /\ UNCHANGED settlements

\* record_settlement: the same payload again is accepted and changes nothing.
RecordSettlement(s, p) ==
  /\ \/ /\ settlements[s] = p
        /\ UNCHANGED <<markets, settlements>>
     \/ /\ settlements[s] = NoOutcome
        /\ markets[s].state = "open"
        /\ settlements' = [settlements EXCEPT ![s] = p]
        /\ markets' = [markets EXCEPT ![s].state = "settled"]
  /\ UNCHANGED orders

-----------------------------------------------------------------------------
(* Queries.                                                                *)

\* unresolved_orders: the join is on the market's state, not the order's.
UnresolvedOrders ==
  {i \in Intents : /\ orders[i].state # "absent"
                   /\ markets[orders[i].slug].state \in Unresolved}

\* open_positions.
OpenPositions ==
  {i \in Intents : /\ orders[i].filled > 0
                   /\ markets[orders[i].slug].state = "open"}

\* market_risk_exposure, in shares: what the account may owe for the market.
MarketRiskExposure(s) ==
  CASE markets[s].state \in Unresolved -> Qty
    [] markets[s].state = "open" -> orders[markets[s].intent].filled
    [] OTHER -> 0

-----------------------------------------------------------------------------
StoreInit ==
  /\ markets = [s \in Slugs |-> NoMarket]
  /\ orders = [i \in Intents |-> NoRow]
  /\ settlements = [s \in Slugs |-> NoOutcome]

StoreNext ==
  \/ \E s \in Slugs, c \in Conditions : ObserveMarket(s, c)
  \/ \E s \in Slugs, c \in Conditions, i \in Intents : ReserveEntry(s, c, i)
  \/ \E i \in Intents, o \in OrderIds \cup {NoOrder} : MarkSubmitted(i, o)
  \/ \E i \in Intents, class \in Classes : MarkExecutionUnknown(i, class)
  \/ \E i \in Intents, o \in OrderIds : AttachRecoveredOrderId(i, o)
  \/ \E i \in Intents, q \in 0..Qty : MarkTerminalExecution(i, q)
  \/ InitializeRuntimeState
  \/ \E s \in Slugs, p \in Outcomes : RecordSettlement(s, p)

StoreSpec == StoreInit /\ [][StoreNext]_storeVars

-----------------------------------------------------------------------------
(* Properties.                                                             *)

\* Every row of the three tables has the columns and the states the schema
\* and the methods of state.py give it.
StoreTypeOK ==
  /\ markets \in [Slugs -> MarketRow]
  /\ orders \in [Intents -> OrderRow]
  /\ settlements \in [Slugs -> Outcomes \cup {NoOutcome}]

\* The market states a row of orders may stand beside.
Beside(orderState) ==
  IF orderState = "filled" THEN {"open", "settled"} ELSE {orderState}

\* The two state columns are written by separate UPDATEs with different WHERE
\* clauses; whatever sequence of calls was made, an order and the market it
\* was reserved for tell the same story, so unresolved_orders, which reads the
\* market's column, returns exactly the orders whose own column is unresolved.
StatesAgree ==
  \A i \in Intents :
    orders[i].state # "absent" =>
      markets[orders[i].slug].state \in Beside(orders[i].state)

\* reserve_entry reserves "the sole entry attempt for a market": an order row
\* and its market row point at each other, so no market ever has two orders.
OneIntentPerMarket ==
  /\ \A i \in Intents :
       orders[i].state # "absent" =>
         orders[i].slug \in Slugs /\ markets[orders[i].slug].intent = i
  /\ \A s \in Slugs :
       markets[s].intent # NoIntent => orders[markets[s].intent].slug = s

\* A market is without an intent exactly while nothing was reserved for it, an
\* order that was submitted has a venue id, no two orders share one, and an
\* order is 'filled' with a quantity and 'no_fill' without.
RowsConsistent ==
  /\ \A s \in Slugs :
       markets[s].intent = NoIntent <=> markets[s].state \in {"absent", "observing"}
  /\ \A i \in Intents :
       /\ orders[i].state = "absent" => orders[i] = NoRow
       /\ orders[i].state = "submitted" => orders[i].orderId # NoOrder
       /\ orders[i].state = "filled" => orders[i].filled > 0
       /\ orders[i].state = "no_fill" => orders[i].filled = 0
       /\ orders[i].orderId # NoOrder => IdFree(i, orders[i].orderId)

\* The inductive invariant of the store.
StoreInv == StoreTypeOK /\ StatesAgree /\ OneIntentPerMarket /\ RowsConsistent

\* "A rejected/no-fill attempt remains terminal for this market": once an
\* intent was reserved for a market, no call, a restart's
\* initialize_runtime_state included, ever frees the market for another one.
ReservationIsFinal ==
  [][\A s \in Slugs :
       markets[s].intent # NoIntent =>
         /\ markets'[s].intent = markets[s].intent
         /\ markets'[s].state \notin {"absent", "observing"}]_storeVars

=============================================================================
