------------------------------- MODULE Outbox -------------------------------
(* The durable notification outbox and the component health of state.py,     *)
(* with the delivery pipeline of runner.py: a reporting thread persists an   *)
(* alert together with the health edge it reports, then hands the row to one *)
(* sender thread over a bounded in-memory queue; the sender reads the row    *)
(* back, calls Telegram and acknowledges the row; a periodic scan requeues   *)
(* whatever the queue dropped and whatever has to be retried.                *)
(* One action is one transaction, one queue operation or one Telegram call,  *)
(* so threads and crashes interleave exactly where the code releases a lock. *)
EXTENDS Integers, Sequences, FiniteSets

CONSTANTS
  Threads,      \* threads that report: round loop, asset workers, watchdog...
  Sender,       \* the aftertake-notifier thread
  Components,   \* components with a row in component_health
  AssetHealth,  \* those of them the round loop may mark without a row
  Edgeless,     \* what messages without a health edge are about: a market...
  Supervisor,   \* "asset_supervisor", one of them
  NoComponent,  \* the empty component of lifecycle messages (boot, settle...)
  Aliases,      \* the names "component:slug"
  NotificationComponent,  \* the names _safe_notify gives a component's rows
  QueueCap,     \* maxsize of _NOTIFY_QUEUE
  MaxRows,      \* bound: rows ever inserted
  MaxFaults     \* bound: failed writes, reads and sends

ASSUME OutboxAssumption ==
  /\ Sender \notin Threads
  /\ AssetHealth \subseteq Components
  /\ {Supervisor, NoComponent} \subseteq Edgeless
  /\ Supervisor # NoComponent
  /\ Components \cap Edgeless = {}
  /\ Aliases \cap (Components \cup Edgeless) = {}
  /\ NotificationComponent \in [Components -> SUBSET (Components \cup Aliases)]
  /\ \A c \in Components :
       /\ NotificationComponent[c] # {}
       /\ NotificationComponent[c] \subseteq {c} \cup Aliases
  /\ QueueCap \in Nat \ {0}
  /\ MaxRows \in Nat
  /\ MaxFaults \in Nat

VARIABLES
  health,      \* component_health: "none" is a component without a row
  outbox,      \* notification_outbox in rowid order
  firstRow,    \* rowid of the first row this process can insert
  queue,       \* _NOTIFY_QUEUE
  queued,      \* _NOTIFY_QUEUED, the ids the queue is believed to hold
  registered,  \* _NOTIFY_REGISTRY has the store, so the sender runs
  pc,          \* next step of a thread's report
  msg,         \* the message a thread is reporting
  sender,      \* next step of the sender
  task,        \* the task the sender holds
  todo,        \* rows the sender's scan still has to queue
  degraded,    \* components with a failed write since boot (history)
  lastSent,    \* the row last delivered about each origin (history)
  faults,      \* failed writes, reads and sends so far (bounded)
  up           \* the process runs

memory == <<firstRow, queue, queued, registered, pc, msg, sender, task, todo,
            degraded>>
outboxVars == <<health, outbox, firstRow, queue, queued, registered, pc, msg,
                sender, task, todo, degraded, lastSent, faults, up>>

Kinds == {"alert", "recovery_success"}
Origins == Components \cup Edgeless   \* what a message is about
Names == Origins \cup Aliases         \* what the component column may hold
Actors == Threads \cup {Sender}
Message == [about : Origins, kind : Kinds, id : 0 .. MaxRows,
            force : BOOLEAN]
Row == [component : Names, about : Origins, kind : Kinds,
        status : {"pending", "sent", "deleted"}, due : BOOLEAN,
        copies : Nat, lostAcks : Nat]

Blank == [about |-> NoComponent, kind |-> "alert", id |-> 0,
          force |-> FALSE]

Rows == DOMAIN outbox
Pending(i) == outbox[i].status = "pending"

\* A status edge: the first failure is one, a first healthy report is not.
StatusOf(kind) == IF kind = "alert" THEN "unhealthy" ELSE "healthy"
\* Mutation: a recovery is never an edge.
TransitionedFailuresOnly(c, kind) ==
  health[c] # StatusOf(kind) /\ kind # "recovery_success"

Transitioned(c, kind) ==
  /\ health[c] # StatusOf(kind)
  /\ ~(health[c] = "none" /\ kind = "recovery_success")

\* _notification_component: the slug of a message becomes part of the name,
\* except for an asset. A message without an edge has one name from the start.
RowNames(c) == IF c \in Components THEN NotificationComponent[c] ELSE {c}

\* The row of a new notification, stored under name. Only the name is a column
\* of the table; what the row is about is in its text (history).
NewRow(name, c, kind) ==
  [component |-> name, about |-> c, kind |-> kind, status |-> "pending",
   due |-> TRUE, copies |-> 0, lostAcks |-> 0]

\* Mutation: no test for an earlier pending row of the component.
DeliverableOutOfTurn(i) == Pending(i) /\ outbox[i].due

\* Mutation: no test that the row is still pending.
DeliverableAgain(i) ==
  /\ outbox[i].due
  /\ \/ outbox[i].component = NoComponent
     \/ \A j \in Rows : j < i /\ outbox[j].component = outbox[i].component
                          => ~Pending(j)

\* deliverable_notification and pending_notifications: due, and no pending
\* row with the same name in its component column before it.
Deliverable(i) ==
  /\ Pending(i)
  /\ outbox[i].due
  /\ \/ outbox[i].component = NoComponent
     \/ \A j \in Rows : j < i /\ outbox[j].component = outbox[i].component
                          => ~Pending(j)

\* The report of thread t is over.
Done(t) ==
  /\ pc' = [pc EXCEPT ![t] = "idle"]
  /\ msg' = [msg EXCEPT ![t] = Blank]

\* A write, a read or a send that raises.
Fault ==
  /\ faults < MaxFaults
  /\ faults' = faults + 1

-----------------------------------------------------------------------------
(* A reporting thread                                                        *)

\* transition_component_and_enqueue_notification: the health edge and its row,
\* under the component's own name, in one transaction.
Transition(t, c, kind, force) ==
  /\ up
  /\ pc[t] = "idle"
  /\ health' = [health EXCEPT ![c] = StatusOf(kind)]
  /\ IF Transitioned(c, kind) \/ force
       THEN /\ Len(outbox) < MaxRows
            /\ outbox' = Append(outbox, NewRow(c, c, kind))
            /\ pc' = [pc EXCEPT ![t] = "queue"]
            /\ msg' = [msg EXCEPT ![t] = [about |-> c, kind |-> kind,
                         id |-> Len(outbox) + 1, force |-> FALSE]]
       ELSE UNCHANGED <<outbox, pc, msg>>
  /\ UNCHANGED <<firstRow, queue, queued, registered, sender, task, todo,
                 degraded, lastSent, faults, up>>

\* The transaction raised: nothing was written, the two writes are tried apart.
TransitionFails(t, c, kind, force) ==
  /\ up
  /\ pc[t] = "idle"
  /\ Fault
  /\ pc' = [pc EXCEPT ![t] = "fallback"]
  /\ msg' = [msg EXCEPT ![t] = [about |-> c, kind |-> kind, id |-> 0,
                                force |-> force]]
  /\ degraded' = degraded \cup {c}
  /\ UNCHANGED <<health, outbox, firstRow, queue, queued, registered, sender,
                 task, todo, lastSent, up>>

NotifyIf(t, wanted) ==
  IF wanted THEN pc' = [pc EXCEPT ![t] = "persist"] /\ UNCHANGED msg
            ELSE Done(t)

\* _mark_component_healthy / _mark_component_unhealthy, which swallow a fault
\* and then report no edge.
FallbackMark(t) ==
  /\ up
  /\ pc[t] = "fallback"
  /\ LET c == msg[t].about IN
     \/ /\ health' = [health EXCEPT ![c] = StatusOf(msg[t].kind)]
        /\ NotifyIf(t, Transitioned(c, msg[t].kind) \/ msg[t].force)
        /\ UNCHANGED faults
     \/ /\ Fault
        /\ NotifyIf(t, msg[t].force)
        /\ UNCHANGED health
  /\ UNCHANGED <<outbox, firstRow, queue, queued, registered, sender, task,
                 todo, degraded, lastSent, up>>

\* _mark_component_unhealthy on its own: an edge without a row.
MarkUnhealthy(t, c) ==
  /\ up
  /\ pc[t] = "idle"
  /\ health' = [health EXCEPT ![c] = "unhealthy"]
  /\ UNCHANGED <<outbox, firstRow, queue, queued, registered, pc, msg, sender,
                 task, todo, degraded, lastSent, faults, up>>

\* _safe_notify for a message that reports no health edge.
Notify(t, c) ==
  /\ up
  /\ pc[t] = "idle"
  /\ pc' = [pc EXCEPT ![t] = "persist"]
  /\ msg' = [msg EXCEPT ![t] = [about |-> c, kind |-> "alert", id |-> 0,
                                force |-> FALSE]]
  /\ UNCHANGED <<health, outbox, firstRow, queue, queued, registered, sender,
                 task, todo, degraded, lastSent, faults, up>>

\* _safe_notify persists first, under a name of its own; a message that cannot
\* be persisted is still queued, without an id.
Persist(t) ==
  /\ up
  /\ pc[t] = "persist"
  /\ pc' = [pc EXCEPT ![t] = "queue"]
  /\ \/ /\ Len(outbox) < MaxRows
        /\ \E name \in RowNames(msg[t].about) :
             outbox' = Append(outbox, NewRow(name, msg[t].about, msg[t].kind))
        /\ msg' = [msg EXCEPT ![t].id = Len(outbox) + 1]
        /\ UNCHANGED <<degraded, faults>>
     \/ /\ Fault
        /\ degraded' = degraded \cup {msg[t].about}
        /\ UNCHANGED <<outbox, msg>>
  /\ UNCHANGED <<health, firstRow, queue, queued, registered, sender, task,
                 todo, lastSent, up>>

\* Mutation: the empty id of an unpersisted message enters the dedupe set.
QueueAddAnyId(t) ==
  /\ up
  /\ pc[t] = "queue"
  /\ registered' = TRUE
  /\ IF msg[t].id \in queued
       THEN Done(t) /\ UNCHANGED queued
       ELSE /\ pc' = [pc EXCEPT ![t] = "put"]
            /\ queued' = queued \cup {msg[t].id}
            /\ UNCHANGED msg
  /\ UNCHANGED <<health, outbox, firstRow, queue, sender, task, todo, degraded,
                 lastSent, faults, up>>

\* _register_notification_context, then the dedupe test of
\* _queue_notification_delivery. A message without id is never deduplicated.
QueueAdd(t) ==
  /\ up
  /\ pc[t] = "queue"
  /\ registered' = TRUE
  /\ IF msg[t].id \in queued
       THEN Done(t) /\ UNCHANGED queued
       ELSE /\ pc' = [pc EXCEPT ![t] = "put"]
            /\ queued' = queued \cup ({msg[t].id} \ {0})
            /\ UNCHANGED msg
  /\ UNCHANGED <<health, outbox, firstRow, queue, sender, task, todo, degraded,
                 lastSent, faults, up>>

\* Mutation: a full queue drops the task and remembers its id.
QueuePutKeepsId(t) ==
  /\ up
  /\ pc[t] = "put"
  /\ Done(t)
  /\ queue' = IF Len(queue) < QueueCap THEN Append(queue, msg[t]) ELSE queue
  /\ UNCHANGED <<health, outbox, firstRow, queued, registered, sender, task,
                 todo, degraded, lastSent, faults, up>>

\* put_nowait: a full queue drops the task and forgets its id.
QueuePut(t) ==
  /\ up
  /\ pc[t] = "put"
  /\ Done(t)
  /\ IF Len(queue) < QueueCap
       THEN queue' = Append(queue, msg[t]) /\ UNCHANGED queued
       ELSE queued' = queued \ {msg[t].id} /\ UNCHANGED queue
  /\ UNCHANGED <<health, outbox, firstRow, registered, sender, task, todo,
                 degraded, lastSent, faults, up>>

-----------------------------------------------------------------------------
(* The sender thread                                                         *)

Take ==
  /\ up /\ registered
  /\ sender = "idle"
  /\ queue # <<>>
  /\ task' = Head(queue)
  /\ queue' = Tail(queue)
  /\ sender' = IF Head(queue).id = 0 THEN "send" ELSE "read"
  /\ UNCHANGED <<health, outbox, firstRow, queued, registered, pc, msg, todo,
                 degraded, lastSent, faults, up>>

\* A row that is no longer deliverable, or cannot be read, is left alone.
ReadRow ==
  /\ up
  /\ sender = "read"
  /\ \/ /\ sender' = IF Deliverable(task.id) THEN "send" ELSE "release"
        /\ UNCHANGED faults
     \/ Fault /\ sender' = "release"
  /\ UNCHANGED <<health, outbox, firstRow, queue, queued, registered, pc, msg,
                 task, todo, degraded, lastSent, up>>

\* Mutation: a send that raised is acknowledged like one that did not.
SendUnchecked ==
  /\ up
  /\ sender = "send"
  /\ \/ /\ IF task.id = 0
             THEN sender' = "release" /\ UNCHANGED <<outbox, lastSent>>
             ELSE /\ sender' = "ack"
                  /\ outbox' = [outbox EXCEPT ![task.id].copies = @ + 1]
                  /\ lastSent' = [lastSent EXCEPT
                                    ![outbox[task.id].about] = task.id]
        /\ UNCHANGED faults
     \/ /\ Fault
        /\ sender' = IF task.id = 0 THEN "release" ELSE "ack"
        /\ UNCHANGED <<outbox, lastSent>>
  /\ UNCHANGED <<health, firstRow, queue, queued, registered, pc, msg, task,
                 todo, degraded, up>>

\* notifier.send: Telegram accepts the message, or the call raises.
Send ==
  /\ up
  /\ sender = "send"
  /\ \/ /\ IF task.id = 0
             THEN sender' = "release" /\ UNCHANGED <<outbox, lastSent>>
             ELSE /\ sender' = "ack"
                  /\ outbox' = [outbox EXCEPT ![task.id].copies = @ + 1]
                  /\ lastSent' = [lastSent EXCEPT
                                    ![outbox[task.id].about] = task.id]
        /\ UNCHANGED faults
     \/ /\ Fault
        /\ sender' = IF task.id = 0 THEN "release" ELSE "nack"
        /\ UNCHANGED <<outbox, lastSent>>
  /\ UNCHANGED <<health, firstRow, queue, queued, registered, pc, msg, task,
                 todo, degraded, up>>

\* mark_notification_sent touches a pending row only. When it raises, the row
\* is marked failed although Telegram has the message.
Ack ==
  /\ up
  /\ sender = "ack"
  /\ \/ /\ outbox' = [outbox EXCEPT ![task.id].status =
                        IF @ = "pending" THEN "sent" ELSE @]
        /\ sender' = "release"
        /\ UNCHANGED faults
     \/ /\ Fault
        /\ outbox' = [outbox EXCEPT ![task.id].lostAcks = @ + 1]
        /\ sender' = "nack"
  /\ UNCHANGED <<health, firstRow, queue, queued, registered, pc, msg, task,
                 todo, degraded, lastSent, up>>

\* mark_notification_failed keeps the row pending and defers its next attempt.
Nack ==
  /\ up
  /\ sender = "nack"
  /\ sender' = "release"
  /\ \/ /\ outbox' = [outbox EXCEPT ![task.id].due =
                        IF Pending(task.id) THEN FALSE ELSE @]
        /\ UNCHANGED faults
     \/ Fault /\ UNCHANGED outbox
  /\ UNCHANGED <<health, firstRow, queue, queued, registered, pc, msg, task,
                 todo, degraded, lastSent, up>>

\* Mutation: the id stays in the dedupe set after the delivery.
ReleaseKeepsId ==
  /\ up
  /\ sender = "release"
  /\ sender' = "idle"
  /\ task' = Blank
  /\ UNCHANGED <<health, outbox, firstRow, queue, queued, registered, pc, msg,
                 todo, degraded, lastSent, faults, up>>

\* The worker's finally block.
Release ==
  /\ up
  /\ sender = "release"
  /\ sender' = "idle"
  /\ task' = Blank
  /\ queued' = queued \ {task.id}
  /\ UNCHANGED <<health, outbox, firstRow, queue, registered, pc, msg, todo,
                 degraded, lastSent, faults, up>>

\* _queue_pending_notifications, on an empty queue: read the deliverable rows,
\* then offer them one by one to the queue in rowid order.
ScanBegin ==
  /\ up /\ registered
  /\ sender = "idle"
  /\ queue = <<>>
  /\ todo' = {i \in Rows : Deliverable(i)}
  /\ todo' # {}
  /\ sender' = "scan"
  /\ UNCHANGED <<health, outbox, firstRow, queue, queued, registered, pc, msg,
                 task, degraded, lastSent, faults, up>>

ScanNext ==
  /\ up
  /\ sender = "scan"
  /\ pc[Sender] = "idle"
  /\ \E i \in todo :
       /\ \A j \in todo : i <= j
       /\ todo' = todo \ {i}
       /\ msg' = [msg EXCEPT ![Sender] = [about |-> outbox[i].about,
                    kind |-> outbox[i].kind, id |-> i, force |-> FALSE]]
       /\ pc' = [pc EXCEPT ![Sender] = "queue"]
  /\ UNCHANGED <<health, outbox, firstRow, queue, queued, registered, sender,
                 task, degraded, lastSent, faults, up>>

ScanDone ==
  /\ up
  /\ sender = "scan"
  /\ pc[Sender] = "idle"
  /\ todo = {}
  /\ sender' = "idle"
  /\ UNCHANGED <<health, outbox, firstRow, queue, queued, registered, pc, msg,
                 task, todo, degraded, lastSent, faults, up>>

\* The retry time of a deferred row passes.
RetryDue ==
  /\ \E i \in Rows :
       /\ Pending(i) /\ ~outbox[i].due
       /\ outbox' = [outbox EXCEPT ![i].due = TRUE]
  /\ UNCHANGED <<health, memory, lastSent, faults, up>>

-----------------------------------------------------------------------------
(* The process                                                               *)

\* Everything in memory goes with the process; the database stays.
Stop ==
  /\ up
  /\ up' = FALSE
  /\ queue' = <<>> /\ queued' = {} /\ registered' = FALSE
  /\ pc' = [t \in Actors |-> "idle"]
  /\ msg' = [t \in Actors |-> Blank]
  /\ sender' = "idle" /\ task' = Blank /\ todo' = {}
  /\ degraded' = {}
  /\ UNCHANGED <<health, outbox, firstRow, lastSent, faults>>

\* initialize_runtime_state deletes every health row and every pending
\* notification before the first report of the new process.
BootRow(row) ==
  IF row.status = "pending" THEN [row EXCEPT !.status = "deleted"] ELSE row

Boot ==
  /\ ~up
  /\ up' = TRUE
  /\ health' = [c \in Components |-> "none"]
  /\ outbox' = [i \in Rows |-> BootRow(outbox[i])]
  /\ firstRow' = Len(outbox) + 1
  /\ UNCHANGED <<queue, queued, registered, pc, msg, sender, task, todo,
                 degraded, lastSent, faults>>

-----------------------------------------------------------------------------
OutboxInit ==
  /\ health = [c \in Components |-> "none"]
  /\ outbox = <<>>
  /\ firstRow = 1
  /\ queue = <<>> /\ queued = {} /\ registered = FALSE
  /\ pc = [t \in Actors |-> "idle"]
  /\ msg = [t \in Actors |-> Blank]
  /\ sender = "idle" /\ task = Blank /\ todo = {}
  /\ degraded = {}
  /\ lastSent = [c \in Origins |-> 0]
  /\ faults = 0
  /\ up = TRUE

ThreadStep(t) == FallbackMark(t) \/ Persist(t) \/ QueueAdd(t) \/ QueuePut(t)

SenderStep ==
  \/ Take \/ ReadRow \/ Send \/ Ack \/ Nack \/ Release
  \/ ScanBegin \/ ScanNext \/ ScanDone
  \/ QueueAdd(Sender) \/ QueuePut(Sender)
=============================================================================
