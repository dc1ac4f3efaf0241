# Formal model of aftertake (cor_pol)

A TLA+ verification project for the Polymarket five-minute runner in
`src/src/aftertake`. It states what the program promises about its orders and
money, checks it with TLC on small instances, and proves the most important
parts with TLAPS for every instance.

The program trades one market per asset and five-minute candle. In each round
it observes the market, may reserve an entry in SQLite, sends one order to the
CLOB, reconciles what happened to it, and settles the position on the official
outcome. What makes this hard is that an order and its database row live in two
places that fail separately: a POST may time out and still be executed, a
process may die between any two writes, a status probe may never return, and
the rounds go on meanwhile.

## 1. Inventory

Paths are under `src/src/aftertake`.

| Component | State | Operations | Interacts with |
|---|---|---|---|
| Order store (`state.py`) | SQLite tables `markets`, `orders`, `settlements` | `observe_market`, `reserve_entry`, `mark_submitted`, `mark_execution_unknown`, `attach_recovered_order_id`, `mark_terminal_execution`, `record_settlement`, `initialize_runtime_state` and the queries | every thread; one RLock and one transaction per call |
| Executor (`execution.py: OrderExecutor`) | `read_probe_stalled` | `execute_reserved` (one POST), `_reconcile` (poll to a deadline), `reconcile_existing_once` | store, CLOB client |
| Round loop (`runner.py: _run_round_loop, _run_asset_rounds, _run_twap_tail_round`) | `processed_round_starts`, one worker thread per asset | select the candle, run the workers, trigger maintenance | store, executor, market data, budget |
| Maintenance (`runner.py: _MaintenanceWorker`) | one coalescing daemon thread | `reconcile_submitted_orders`, `settle_open_positions` | store, the executor of the rounds, Gamma |
| Operator session (`runner.py: main --attach-order-id`) | none | attach an id, `_reconcile_startup` | store, runtime lock |
| Round budget (`runner.py: _RoundAccountPreflight`, `risk.py`) | one frozen account snapshot, claims | prepare, claim, release; `check_entry_risk` | workers, store |
| Outbox and component health (`state.py`, `runner.py`) | `notification_outbox`, `component_health`, an in-memory queue | enqueue, deliver, retry, transition | notifier, store |
| Supervision (`runner.py: RuntimeWatchdog, _run_diagnostics_then_restart`, systemd) | deadlines, the flag of the reported stall, one restart request | beat, alert, diagnose, restart | process |
| Heartbeat (`execution.py: HeartbeatLoop`) | id, one request in flight | post, adopt id, expire | CLOB; the live runtime does not start it |
| Market stream (`market_stream.py`) | two books, generation, readiness | snapshot, delta, reset, reconnect | entry decision |
| Binance proxy (`binance_proxy.py`) | trades per candle, invalid candles, time of connection | open, message, close, cleanup, read | entry decision |
| Tail rule (`twap_tail.py`) | none | gates and the entry decision | pure |
| Sizing and settlement (`live_sizing.py`, `settlement.py`) | none | quantity, fee, profit | pure |
| Resolver (`resolver.py`), ledger, notifier, configuration, legacy strategies, scripts | see `PROJECT.json` | | |

What makes each component correct:

* **Store.** One order per market, for ever; the order's and the market's state
  columns, written by separate `UPDATE`s with different `WHERE` clauses, never
  part; an id belongs to one order.
* **Lifecycle.** At most one POST per market over crashes, timeouts and
  rejoined rounds; a zero fill is recorded only if nothing was filled; what may
  be owed is counted; a result is final; the official outcome settles.
* **Budget.** The claims of concurrent workers never exceed the cap; what did
  not become an order is released.
* **Outbox.** A pending row is sent in the end, once unless its acknowledgement
  is lost, and not before an earlier row of the same name; health and alerts
  tell the same story.
* **Supervision.** One restart per failure, after the diagnostics or the grace
  period; one alert per stall.
* **Heartbeat.** No overlapping requests; a late id is used, not lost.
* **Probes, resolver, maintenance.** A guard that turns others away is lifted
  when what it stands for is over: the stall flag, the name override, the one
  sweep at a time.
* **Streams.** Nothing of an old connection is used in a new one; a tape that
  goes on after a gap does not count as complete.
* **Decision.** A late decision enters only where the target would have, and no
  decision enters on a tape that broke off early.

The hard behaviours are listed one by one, at their lines, under `hazards` in
`PROJECT.json`.

## 2. Modules

| Module | What it is |
|---|---|
| `OrderStore` | the store: one action per method, any caller at any time |
| `OrderStoreProofs` | proofs about it |
| `EntryOnce` | the abstract promise of the entry path, two variables |
| `RiskLedger` | what the risk of a market may do, two variables: the contract between the orders and the round budget |
| `OrderLifecycle` | EXTENDS `OrderStore`: round loop, workers, executor, sweeps, operator, crashes, venue, Gamma; refines `EntryOnce` and `RiskLedger` |
| `OrderLifecycleProofs` | proofs about it: submissions, sweeps, both refinements |
| `OrderResultProofs` | proofs about it: results, exposure, ids, settlements |
| `Outbox` | the notification outbox, component health, reporting threads, the queue and the sender thread |
| `Delivery` | the abstract promise of the outbox, one variable |
| `Alerts` | EXTENDS `Outbox`: the round supervisor, its emergency thread, crashes and boots; refines `Delivery` |
| `AlertsProofs` | proofs about it |
| `Heartbeat` | `HeartbeatLoop` and the venue's sessions |
| `ReadProbe` | the threads of `_call_bounded` that share the stall flag |
| `Resolver` | `scoped_getaddrinfo`, the name override shared by all streams |
| `Upkeep` | `_MaintenanceWorker` with its timer, and `RuntimeWatchdog` |
| `GuardProofs` | proofs about these four |
| `RoundBudget` | the budget of a round, claimed by its workers, over the orders of `RiskLedger` |
| `BudgetProofs` | sums over finite sets, and proofs about the budget |
| `MarketStream` | `MarketBookStream` with the round's two callbacks |
| `BinanceProxy` | the spot tape and its coverage of a candle |
| `TailRound` | EXTENDS `BinanceProxy`: the round that waits for its target and decides |
| `FeedProofs` | proofs about the stream, the tape and the decision |
| `MCOrderStore`, `MCOrderLifecycle`, `MCAlerts`, `MCTail` | the instances for TLC |
| `MCParts` | one run for the components beside the lifecycle |
| `PartsProofs` | that the components keep their theorems in that composition |
| `MCLive` | liveness of the two components that retry against the outside |

`OrderLifecycle` extends `OrderStore`, `Alerts` extends `Outbox` and `TailRound`
extends `BinanceProxy`: those interact through shared state. The components in
`MCParts` have no variable in common, so a behaviour of `MCParts` runs one of
them: the product of independent components would only add states, and no
property there reads two of them. `RoundBudget` and `OrderLifecycle` meet in
`RiskLedger`: the budget reads and reserves orders as the ledger says, and what
everybody else does to them, from a worker's poll to an operator's session, is
the ledger's too.

### How the store is modelled

A method of `StateStore` holds the lock and a `BEGIN IMMEDIATE` transaction, so
it is one action over the three tables, with the `UPDATE`s' own `WHERE` clauses
as conditions per row. A method that raises rolls back and is not enabled.
`mark_execution_unknown` has no guard at all in the code and has none here: that
it never destroys a result is a property of its callers (`ResultIsFinal`). Of
`raw_json` only the classification is kept, because
`attach_recovered_order_id` and the identity validation read it back.

### How the lifecycle is modelled

* `mode` is who holds the runtime lock: nobody, the daemon (live or shadow), or
  an operator session. `Boot` runs `initialize_runtime_state`, as `main` does.
* A worker has a program counter: observe, decide, reserved, posted, polling,
  done. Each step is the answer it waited for together with the one store write
  that follows. Between two steps everything else can happen.
* `venue` is, per order id, what the matching engine did: a request may be on
  its way, refused, live, or closed with a quantity. The acknowledgement, the
  timeout and the crash are all possible in every one of these states.
* `sweep` is the maintenance thread, or the operator's startup scan: a phase and
  the records it still has to visit. The list is read when the sweep is
  triggered, at the end of a round; the code's thread reads it milliseconds
  later, minutes before the next entry section, so the two are one step.
* A probe and the write of its answer are one step: a terminal status does not
  change, and no other thread writes the record (which is itself checked, as
  `OneReconcilerPerOrder`).
* `stalled` is `read_probe_stalled`. A timeout sets it, the wedged call's return
  clears it.
* `Crash` is a crash, a `SIGTERM` or the supervisor's restart; it takes all
  volatile state. `posts` is a history variable: requests that left the process.
* An operator attaches an id of the account, the intent's own or a foreign one.
  Because of the finding `attach_validated` below a foreign order's result can
  be recorded. `RecordedAsExecuted` and `RiskCoversVenue` exempt orders that
  carry such an id (`Misattached`), and only those.

### How alerts are modelled

* A step is one transaction, one queue operation or one Telegram call. A report
  goes through `pc`: `fallback` (the transaction raised, the two writes are
  tried apart), `persist`, `queue` (the dedupe test), `put` (`put_nowait`). The
  sender is its own program, and its rescans go through the same two queue steps
  (`Sender` is one of the `Actors`).
* `Transition` is `transition_component_and_enqueue_notification`: health edge
  and row at once. `Notify` is `_safe_notify` for messages that report no edge.
  `Persist` picks the row's name as `_notification_component` does.
  `MarkUnhealthy` is the edge without a row that the round loop writes for a
  failed round, and `MarkAssets` the one the supervisor writes for hung assets.
* Every alert asks for a row (`notify_on_no_transition`), a recovery only when
  its caller remembers an error, so `force` is free for recoveries only.
* A row has a `component`, the column of the table, and an `about`, what its
  text is about. `Transition` stores the component's own name. `Persist`, which
  the fallback after a failed transaction goes through, stores
  `component:slug` when the message has a slug, so two rows about one component
  may bear different names (`Aliases`, `NotificationComponent`), and
  `Deliverable` compares names only. `NotificationComponent[c]` is a set of
  names: `{c}` for assets and for components whose messages never have a slug,
  otherwise the slugs that may occur. What reports no edge (`Edgeless`) goes
  through `Persist` only and has one name.
* `queue` and `queued` are two variables guarded by different locks in the code
  and are changed in different steps here.
* `copies`, `lostAcks`, `lastSent` and `degraded` are history variables:
  messages Telegram has, acknowledgements that were not written, the row last
  delivered about each origin, and components with a failed write.
* `diag`, `wedged`, `grace`, `requested`, `exiting` are
  `_run_diagnostics_then_restart`. The diagnostics may hang (`Wedge`) at any
  point, then the loop thread never moves again.
* `Stop` takes the memory, `Boot` deletes pending rows and all health.

### How the components beside the lifecycle are modelled

* **Heartbeat.** `turn` is the loop inside one turn, `slot` the request it owns,
  `inFlight` the request threads inside the SDK. A turn that gives up leaves the
  slot alone and a later turn consumes it. The venue answers with the session
  that is current when it handles the request.
* **Probes.** The steps of `_call_bounded` where the flag is read or written are
  apart: admission and start, `done.set()` and the clearing, the expiry, the
  mark and the second look. Callers that have left are only counted.
* **Resolver.** The lock covers the counter and the installed function, not the
  thread's own stack, so `Open` and `Push`, `Pop` and `Close` are steps.
* **Upkeep.** `_done` and `_timer` are one field each, so a timer that has fired
  looks at the event of the next sweep. The watchdog reads the age
  (`CheckAge`), tests and sets `_stall_reported` (`FlagStall`) and alerts after
  the lock is released (`AlertStall`): three steps, with beats between any two.
  `beaten`, `told` and `raced` are history: a beat came since the age was read;
  the alerts about the stall that lasts; the flag was set from an age that was
  out of date.
* **Budget.** `budget` and `existing` are read once per round by the first
  worker. Fills, closings and settlements change the orders at any time, as
  `RiskLedger` allows, and the boot after a crash retires what is pending. The
  exposure is the sum of the ledger's amounts. `price * qty` is a constant, the
  fee one per asset.
* **Market stream.** A book is a set of levels; the callback runs after the lock
  is released (`at = "on_book"`). Changes may arrive before the first snapshot.
  `seen` is history: the pairs that stood at the venue during the connection.
* **Spot tape.** Exchange times are on the local clock, and an event is
  received at most `MaxDelay` steps late. `link` is whether events arrive,
  `connected` what the program believes: `Break` takes the link and what is in
  flight, without a callback; `OnClose` comes any time later, or after an attempt
  to connect that failed. `lost` is history: when the first event of a candle
  was lost. A candle in which the connection breaks counts as hit whether or not
  anything was traded in that moment, so `lost` is never later than the true
  loss.
* **Tail round.** One clock step is the unit of all thresholds. Basis points are
  compared as products of integers, which is exact where the code divides
  floats. Of trades with equal times the anchors and the last price take the
  first (`max`) and the reversal the last (`prices[-1]`), as the code does.
  `frozen` is history: what the rules said at the end of the target.

## 3. Runs

| Run | Instance | Question |
|---|---|---|
| `order_store` | 2 slugs, 2 conditions, 3 intents, 2 ids | Can any sequence of calls make the tables disagree? No. |
| `lifecycle_rounds` | 1 asset, 2 rounds, 3 intents, live and shadow, 1 crash | A sweep overlaps the next round, a crash makes a candle be rejoined: is anything sent twice? No; and the inductive invariant of the proofs and `EntryOnce` hold. |
| `lifecycle_assets` | 2 assets, 1 round, 3 intents, 1 foreign order, 2 crashes, 1 operator session | Does any lost answer, failed probe or operator hide an order, rewrite a result or redirect an id? No; and the risk of a market goes as `RiskLedger` says. |
| `lifecycle_liveness` | 1 asset, 1 round, 1 crash, live and shadow | Do closed orders leave `submitted`, positions get settled? Yes, under the fairness below. |
| `attach_validated` | two operator sessions | Violated, see below. |
| `risk_after_restart` | one crash | Violated, see below. |
| `pending_stays_pending` | no crash | Violated, see below. |
| `alerts` | 2 reporting threads, a component with a slug and an asset, queue of 1, 2 rows, 1 fault, 1 boot | Is an alert reordered (where all rows have one name), repeated, stranded in the dedupe set, or at odds with the health table; is it recorded as sent without having been; does the supervisor restart twice or without its alert? No; and `Delivery` is implemented. |
| `parts` | each component on its own, see below | Twelve questions about the components beside the lifecycle, the hazards at their lines. All hold. |
| `live` | 1 reporting thread, queue of 1, 2 rows, 1 fault, 1 boot; heartbeat with 3 sessions, 2 errors | Is a pending row sent, does a hung round end the process, is a replaced session left? Yes, under the fairness below. |
| `outbox_restart` | one reporting thread | Violated, see below. |
| `frozen_at_target` | one candle, two trades | Violated, see below. |

Bounds. There is one intent more than the markets can use, so a second
reservation would find a fresh one. Two rounds are what an overlap of a sweep
and the next round takes; a third adds nothing, for a sweep that is still
running drops the trigger. Two assets are what a collision of workers takes.
`Qty = 2` distinguishes no, partial and full fills. Crashes and operator
sessions are bounded by `MaxCrashes` and `MaxAttach`, candles by `MaxRound`;
after the last round `QuietRound` keeps triggering maintenance, as later rounds
without entries do. `CHECK_DEADLOCK FALSE`: after the last candle and with the
crashes used up a shadow or operator instance may have nothing left to do, and a
store that is never called is not stuck.

In `alerts` two threads report edges of the same component, which is what a
collision takes; a queue of one is full with the first task; two rows are what
order takes; one fault is a failed write, read, send or acknowledgement, and
each of them alone leads into its error path. In `parts`: three callers and
three clients are one more than two that interact and one that looks; two sweep
threads let one start while the timer of the other fires; two connections, one
level per side and two changes give an old book, a new one and a change before
the snapshot; a candle of 5 steps with the process starting in the candle before
it, anchors, target and cutoff one step apart and trades on either side of every
limit; two trades fill the buffer. The connection may break at any step and be
noticed at any later one, be restored before, at or after the candle's start,
and break again; a tape that can no longer lead to an entry runs on without
quotes (`MayCover`), with which it has nothing to do. A cleanup forgets the
candle before. The tape has one candle there; `CoverageIsSound` is proved for
any number of them. With two trades the reversal clause of `PathGate` is never the
one that decides; the proofs of `LateEntryWasDue` and `EntryTapeUnbroken` do not
depend on it. The budgets 2, 4 and 5 are too small for one entry, enough for
one, and enough for both with the fee of one. `CHECK_DEADLOCK FALSE` in these
runs too: a process at `MaxBoots` stays down, a bootstrap may raise, clocks are
bounded.

Fairness. Weak fairness of `Boot` is systemd's `Restart=always`; of
`StartRound`, `FinishRound`, `QuietRound` the scheduler's `while` loop; of each
worker and of the maintenance thread the operating system's scheduler; of
`ProbeReturns` the HTTP client's own timeouts. `SettleOne` is strongly fair: a
lookup of a published outcome that is repeated in every sweep does not fail for
ever. The venue is not fair: an order may rest for ever, and rounds end all the
same because polling has a deadline. In `live` every thread that does
not hang is scheduled, the retry time of a row comes (`Waiting`), the grace
period ends (`EmergencyRestart`), `os._exit` ends the process (`Exit`), and the
heartbeat's venue answers in the end; failures are bounded by `MaxFaults` and
`MaxErrors`, for a Telegram that never answers delivers nothing. Neither
`Restart` nor `Crash` is fair, and no progress is claimed across a boot, which
deletes the row.

### Findings

1. **`attach_validated` (a defect).** `attach_recovered_order_id` promises
   strict identity validation. When the lookup of the attached id fails once,
   `reconcile_existing_once` stores a payload without the marker that asks for
   validation; the next operator session scans every unresolved intent, skips
   the validation and records the foreign order's result.
2. **`risk_after_restart` (code and texts disagree).** Runbook and comments say
   an ambiguous order keeps its risk over a reboot. Every daemon boot retires
   it. The tests want the retirement; the texts are out of date.
3. **`pending_stays_pending` (code and docstring disagree).** One failed lookup
   moves a resting order to `execution_unknown`, which the daemon never probes
   again.
4. **`outbox_restart` (code and docstring disagree).** A process restart does
   erase a pending notification: the boot deletes every pending row, also the
   alert that was persisted just before a deliberate restart.
5. **`frozen_at_target` (code and docstring disagree).** A decision a little
   after the target is not always the decision of the target: a kline push in
   between rewrites the time at which the open was received, and the entry is
   held. It errs to the safe side only, as `LateEntryWasDue` shows.

### What the properties exempt

Three properties are weaker than a text of the code, because the code is. Each
names its exemption in its own definition. Without it, TLC finds the case: the
first two on the instances of `alerts` and `parts`, the third with the proxy
alone over two candles (`BinanceProxySpec`).

* **Recovery before alert.** `deliverable_notification` (`state.py:356`) returns
  a row "only when no same-component alert precedes it", and
  `test_notification_predecessor_blocks_recovery_until_alert_is_sent` checks it
  for rows of one name. After a failed transaction the fallback stores the alert
  as `component:slug` (`runner.py:467, 488, 596-602`), the recovery comes under
  the plain name (`runner.py:573-581`), and names are all that is compared: a
  deferred alert is overtaken by its component's recovery. One failed
  transaction is enough, with a failed send or a full queue. `FifoDelivery` exempts components
  with a slug once a transaction of theirs has failed (`Ordered`), and
  `Delivery` promises order within one name (`Lanes`).
* **A swallowed stall.** The comment in `RuntimeWatchdog._run` says "Report a
  sustained stall once" (`runner.py:213-215`). The flag is set from an age read
  in an earlier critical section (`runner.py:208-210, 223-226`): a beat between
  the two leaves the flag set for the next stall, which is then passed over in
  silence. `OneAlertPerStall` says that this is the only way to lose an alert
  (`raced`), and that none is repeated. An alert that comes after its stall has
  ended is possible, and counts for nothing.
* **A hole in a tape.** `tail_input` says that "missing continuity is explicit"
  (`binance_proxy.py:183`). A dead connection is noticed up to 30 s late
  (`binance_proxy.py:256`), and `_on_close` marks the candle of that moment
  (`binance_proxy.py:166-171`): a candle that broke off, or had trades in flight
  at a close just after its end, keeps its coverage. What holds is
  `CoverageSound`: such a hole is at the end of the tape, never inside it. And
  `EntryTapeUnbroken`: the one reader, which asks for a recent last trade, never
  enters on a tape that broke off longer ago than `binance_max_trade_age_s`.

## 4. Proofs

TLAPS proves the following for any slugs, assets, rounds, intents, order ids,
quantity, and any number of crashes and operator sessions, from the named
assumptions `StoreConstants` and `LifecycleConstants` only (the sentinels are
no elements of their sets, bounds are natural numbers, a slug is an asset and a
round). The other modules' assumptions say as little about their constants: each
has one, named after it. `RoundBudget` also assumes finitely many assets, which
are configured, for its sums.

* **`OrderStoreProofs`.** `StoreInv` (types, `StatesAgree`,
  `OneIntentPerMarket`, `RowsConsistent`) is inductive: `StoreInvariant`. The
  three parts need each other: that the market an order points to points back is
  what makes an `UPDATE ... WHERE intent_id` touch one row, and that the state
  columns agree is what makes it touch the right one. From it `StoreTypes`,
  `OrderAndMarketAgree`, `SoleEntryPerMarket`, `RowsStayConsistent`,
  `SweepSelectsUnresolved` and the action property `NoRepeatedEntry`.
* **`OrderLifecycleProofs`.** `SubmitOnce` is not inductive. `LifecycleInv`
  adds what a worker knows of the record in its hand (`HandsHold`), that a
  sweep's list holds what is still unresolved (`SweepHolds`), that a market that
  was sent an order has an intent and a worker about to send has not been
  preceded (`SentBacked`), that a process which is down has no threads
  (`Quiescent`) and that deciding workers have an observed market (`Observed`).
  Each part has a lemma of its own; `LifecycleInvariant` combines them. From it
  follow `LifecycleTypes`, `SentOnce`, `OneReconciler`, `ResultsFinal`,
  `LifecycleUsesStore` (the whole system is a `StoreSpec`, so the store's
  theorems hold of it) and `RefinesEntryOnce`.

* **`OrderResultProofs`.** What is written down is what happened outside.
  `ResultInv` adds to `LifecycleInv` that the venue has not heard of an order
  before its POST and only a closed order has a quantity (`VenueFresh`), that an
  intent's own id is never classified a mismatch (`OwnIdPasses`), that a
  settlement stands beside a settled market and a published outcome
  (`SettledRows`), and `RecordedAsExecuted` itself. `ResultsWritten` goes through
  every action that could write a result and finds only those that read it from
  the venue; a final result is never touched again (`FinalKept`), and the venue
  changes no order that is final (`VenueSteps`). `RecordedIsExecuted`,
  `OwnIdIsKept`, `SettlementIsOfficial` and `ExposureCoversVenue` follow. The
  exemptions are the runs': a foreign id that slipped through (finding 1) and
  orders that a boot retired (finding 2).

* **`AlertsProofs`.** `Shape` is the frame of everything else: the tables, the
  memory and the restart have their types, ids in memory are ids of rows, rows
  are only appended and keep their component and kind (`KeepsRows`), and a
  process that is down has no memory. On it stand three invariants.
  `DiagInv` follows the supervisor's own report through `pc`, for the alert is
  persisted some steps before the restart is requested. `DeliveryInv` says
  that the row being sent is pending without a pending predecessor of its
  name, and that a pending row has at most as many copies as lost
  acknowledgements except while it waits for one: `NoDuplicateUnacknowledged`.
  `ReportsInv` says that a report on the fallback
  path is of a degraded component, so only edges written together with their row
  count in `HealthAndAlertsAgree`. `OrderInv` says that pending rows about an
  `Ordered` origin bear its own name, and that nothing before its last delivered
  row is pending: `DeliveredInOrder`. `NoIdIsStranded` needs `DiagInv`, since the
  supervisor overwrites the loop's message.
  `RefinesDelivery` maps every row to its name's lane and to a fate: waiting,
  delivered and not acknowledged, sent, dropped. `Delivery` promises order
  within a lane only, and leaves open in which of its origin's lanes a
  notification waits, which is what the code does. Beside `DeliveryInv` it needs
  `AckInv`: a row that is being acknowledged has a copy more than it lost
  acknowledgements.
* **`GuardProofs`.** `OneHeartbeatInFlight` needs to know that the slot is
  open exactly while a request is in flight; `FatalOncePerOutage` that the
  latch is set exactly when the callback was counted. `FlagClears` is inductive
  only with the callers' places (a call that is over has cleared the flag or its
  caller looks again); `ResolverIsScoped` counts the open contexts by the
  cardinality of the threads' contexts; `SweepsDoNotOverlap` needs that the
  thread of record is the one alive; `StallReportedOnce` needs `WatchInv`: how
  many alerts there have been follows from the flag, from where the watchdog is
  in its three steps, and from the beats that came in between.
* **`BudgetProofs`.** The exposure and the claims are sums over all markets and
  all assets, which the community module defines by a recursive choice. The
  first part derives from that definition what a proof needs: how a sum unfolds
  (`SumRemove`), that it grows with its terms (`SumLeq`), how it changes in one
  place (`SumChange`), that it splits (`SumPlus`). The induction over the
  subsets of a finite set is `SubsetInduction`, from the well-foundedness of the
  strict subsets; the set of the good subsets stands where a predicate would.
  `RiskWithinBudget` is not inductive: it speaks of the entries of the round and
  the exposure, and the code compares claims and a frozen snapshot. `BudgetInv`
  says in between that a claim is the cost of an entry and was made against a
  snapshot (`ClaimsAreCosts`), that since the snapshot the exposure has grown by
  the entries of this round at most, and that the snapshot has room for all
  claims (`ClaimsFit`). What happens to orders beside the round may only lower
  the exposure, which is where the ledger is used. Then `ClaimsCover` bounds
  entries and fees by the claims, and `RiskStaysInBudget` follows.
* **The ledger.** `BudgetUsesLedger` shows that `RoundBudget` does and assumes no
  more of the orders than `RiskLedger`, and `RefinesRiskLedger`, in
  `OrderLifecycleProofs`, that the whole lifecycle is a behaviour of the ledger:
  what the budget relies on is what the orders guarantee. The refinement reuses
  the stages of `EntryOnce` and adds that the store's two state columns and the
  filled quantity determine the counted risk (`RiskOfStage`) and that a filled
  order is not touched again (`FinalKept`).
* **`FeedProofs`.** The books lag behind the venue by the wire: `StreamInv`
  says that there is a history of pairs that stood at the venue, one per message
  that is not received yet, in which each initialized book is its pair's and each
  message leads to the next.
  `ProxyInv` adds to `CoverageSound` that a trade is received after it is made
  and not after now (`TradesInv`) and that while the program is disconnected no
  candle that is still open counts as complete (`DisconnectedInv`); whatever
  writes a trade into a candle needs the link, and the link comes back only
  after an `OnClose` has marked the candle of that moment.
  `TailInv` adds that the quotes
  are ordered in time and that after the target the rules say what they said at
  the target, or `Hold`: what arrives later is filtered out by its receipt, and
  what is lost only removes the grounds of an entry. `EntryTapesAreUnbroken`
  joins the two: a causal trade was received before the loss, and one of them is
  at most `TradeAge` old.
* **`PartsProofs`.** `PartsAreComponents`: a behaviour of `MCParts` is one of
  each component's specification, so the theorems above hold of the composition
  that the run checks: `PartsTyped`, and `PartsAreSafe` for the other
  invariants of the run.

Every invariant and action property that a passing run checks, and each of the
three refinements, is stated by a theorem. Only model-checked are the five
liveness properties (`PendingLeaves`, `PositionsSettle`,
`PendingEventuallySent`, `HungRoundRestarts`, `ExpiredSessionRecovers`): with
fairness and `ENABLED` they are beyond the prover. The violated properties of
the findings are TLC's counterexamples and have nothing to prove.

## 5. Not modelled

* GTD cancellation and FAK orders: live mode requires GTC (`config.py`).
* The detached workers of a shadow-mode round that overran its supervisor.
* Prices of orders, reasons, timestamps and message texts; fees are one integer
  per asset, profit and rounding are left out.
* Injected notifiers, which send synchronously in the caller; a store that is
  closed under the sender; the branches of `persist_before_send`, which every
  caller passes as false; the watchdog's alert before the boot has cleaned up.
* The HTTP client's retries and parsing: an answer or an error.
* `stop` of the heartbeat, the data watchdog of the market stream (never armed)
  and its keepalive, which is one more way to disconnect.
* The dynamic sizing of `claim_entry_size` and `compute_live_entry_size`, used
  by the legacy rounds only; the daily loss and the cooldown, which are one
  `HoldEntry`.
* Several assets on one Binance proxy: the candles of two assets share nothing
  but the connection and the cleanup time. An exchange clock ahead of the local
  one (see the hazards). Events that arrive after `MaxDelay`, or out of the
  stream while it is connected: the websocket delivers what it delivers in the
  connection it was made for.
* That the timer of an old sweep may alert about the next one: `Upkeep` has the
  interleaving, but no text says that the alert is true (see the hazards).
* The ledger, the configuration, the legacy strategies and the scripts: offline
  folds, parsing, replay and installation, as `PROJECT.json` says of each.
