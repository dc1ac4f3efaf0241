------------------------------- MODULE Alerts -------------------------------
(* The outbox composed with the supervision of the process: the round        *)
(* supervisor that persists diagnostics and then restarts a process whose    *)
(* asset worker hangs (_run_asset_rounds, _run_diagnostics_then_restart),    *)
(* the emergency thread that restarts it when the diagnostics hang too,      *)
(* crashes, and the service manager that boots the process again.            *)
EXTENDS Outbox

CONSTANTS
  Loop,       \* the thread of _run_round_loop
  Duty,       \* what each thread reports
  MaxBoots    \* bound: process starts after the first

ASSUME AlertsAssumption ==
  /\ Loop \in Threads
  /\ Duty \in [Threads -> SUBSET (Origins \ {Supervisor})]
  /\ MaxBoots \in Nat

VARIABLES
  diag,       \* progress of _run_diagnostics_then_restart
  wedged,     \* its diagnostics hang in SQLite
  grace,      \* the grace period has passed without diagnostics_done
  requested,  \* the requested event of request_once
  exiting,    \* threads that won request_once and call restart_fn
  boots       \* process starts after the first (bounded)

restartVars == <<diag, wedged, grace, requested, exiting>>
vars == <<outboxVars, restartVars, boots>>

TypeOK ==
  /\ health \in [Components -> {"none", "healthy", "unhealthy"}]
  /\ outbox \in Seq(Row)
  /\ firstRow \in Nat \ {0}
  /\ queue \in Seq(Message)
  /\ queued \subseteq 1 .. MaxRows
  /\ registered \in BOOLEAN
  /\ pc \in [Actors -> {"idle", "fallback", "persist", "queue", "put"}]
  /\ msg \in [Actors -> Message]
  /\ sender \in {"idle", "read", "send", "ack", "nack", "release", "scan"}
  /\ task \in Message
  /\ todo \subseteq 1 .. MaxRows
  /\ degraded \subseteq Origins
  /\ lastSent \in [Origins -> 0 .. MaxRows]
  /\ faults \in 0 .. MaxFaults
  /\ up \in BOOLEAN
  /\ diag \in {"none", "marking", "alerting", "done"}
  /\ wedged \in BOOLEAN /\ grace \in BOOLEAN /\ requested \in BOOLEAN
  /\ exiting \in Nat
  /\ boots \in 0 .. MaxBoots

Init ==
  /\ OutboxInit
  /\ diag = "none" /\ wedged = FALSE /\ grace = FALSE
  /\ requested = FALSE /\ exiting = 0
  /\ boots = 0

-----------------------------------------------------------------------------
(* Reports                                                                   *)

\* Asset workers, maintenance, watchdog and heartbeat threads, and the loop
\* itself outside of the supervisor's diagnostics. Every caller asks for a row
\* with each alert; with a recovery, only those that remember an error do. A
\* failed round of an asset is marked by the loop, which leaves the alert to
\* the worker.
Report(t) ==
  /\ t = Loop => diag = "none"
  /\ \/ \E c \in Components \cap Duty[t], kind \in Kinds, force \in BOOLEAN :
          /\ kind = "alert" => force
          /\ Transition(t, c, kind, force) \/ TransitionFails(t, c, kind, force)
     \/ \E c \in Edgeless \cap Duty[t] : Notify(t, c)
     \/ t = Loop /\ \E c \in AssetHealth : MarkUnhealthy(t, c)
  /\ UNCHANGED <<restartVars, boots>>

Working(t) ==
  /\ t = Loop => ~wedged
  /\ ThreadStep(t)
  /\ UNCHANGED <<restartVars, boots>>

Sending == SenderStep /\ UNCHANGED <<restartVars, boots>>

Waiting == RetryDue /\ UNCHANGED <<restartVars, boots>>

-----------------------------------------------------------------------------
(* The round supervisor                                                      *)

\* An asset worker outlives the round's deadline: the emergency thread starts
\* its wait and the diagnostics begin.
RoundTimeout ==
  /\ up
  /\ boots < MaxBoots
  /\ diag = "none"
  /\ pc[Loop] = "idle"
  /\ diag' = "marking"
  /\ UNCHANGED <<outboxVars, wedged, grace, requested, exiting,
                 boots>>

\* The hung assets are marked without a notifier, hence without a row each,
\* and one alert names them all. A failed mark is swallowed.
MarkAssets ==
  /\ diag = "marking"
  /\ ~wedged
  /\ \E hung \in (SUBSET AssetHealth) :
       health' = [c \in Components |->
                    IF c \in hung THEN "unhealthy" ELSE health[c]]
  /\ pc' = [pc EXCEPT ![Loop] = "persist"]
  /\ msg' = [msg EXCEPT ![Loop] = [Blank EXCEPT !.about = Supervisor]]
  /\ diag' = "alerting"
  /\ UNCHANGED <<outbox, firstRow, queue, queued, registered, sender, task,
                 todo, degraded, lastSent, faults, up>>
  /\ UNCHANGED <<wedged, grace, requested, exiting, boots>>

\* request_once: the first caller goes on to restart_fn.
RequestOnce ==
  IF requested
    THEN UNCHANGED <<requested, exiting>>
    ELSE requested' = TRUE /\ exiting' = exiting + 1

\* Mutation: diagnostics_done is set without running the diagnostics.
FinishDiagnosticsEarly ==
  /\ diag \in {"marking", "alerting"}
  /\ ~wedged
  /\ diag' = "done"
  /\ RequestOnce
  /\ UNCHANGED <<outboxVars, wedged, grace, boots>>

FinishDiagnostics ==
  /\ diag = "alerting"
  /\ ~wedged
  /\ pc[Loop] = "idle"
  /\ diag' = "done"
  /\ RequestOnce
  /\ UNCHANGED <<outboxVars, wedged, grace, boots>>

\* SQLite may itself be what hangs: the diagnostics never come back.
Wedge ==
  /\ diag \in {"marking", "alerting"}
  /\ ~wedged
  /\ wedged' = TRUE
  /\ UNCHANGED <<outboxVars, diag, grace, requested, exiting, boots>>

\* Mutation: the emergency thread waits for diagnostics that hang.
EmergencyAfterDiagnostics ==
  /\ diag \in {"marking", "alerting"}
  /\ ~wedged /\ ~grace
  /\ grace' = TRUE
  /\ RequestOnce
  /\ UNCHANGED <<outboxVars, diag, wedged, boots>>

EmergencyRestart ==
  /\ diag \in {"marking", "alerting"}
  /\ ~grace
  /\ grace' = TRUE
  /\ RequestOnce
  /\ UNCHANGED <<outboxVars, diag, wedged, boots>>

Fresh ==
  /\ diag' = "none" /\ wedged' = FALSE /\ grace' = FALSE
  /\ requested' = FALSE /\ exiting' = 0

\* restart_after_diagnostics: os._exit.
Exit ==
  /\ exiting > 0
  /\ Stop
  /\ Fresh
  /\ UNCHANGED boots

\* Any other end of the process: SIGTERM (os._exit as well) or a kill.
Crash ==
  /\ boots < MaxBoots
  /\ Stop
  /\ Fresh
  /\ UNCHANGED boots

\* The service manager starts the process again.
Restart ==
  /\ boots < MaxBoots
  /\ Boot
  /\ boots' = boots + 1
  /\ UNCHANGED <<restartVars>>

-----------------------------------------------------------------------------
Next ==
  \/ \E t \in Threads : Report(t)
  \/ \E t \in Threads : Working(t)
  \/ Sending \/ Waiting
  \/ RoundTimeout \/ MarkAssets \/ FinishDiagnostics \/ Wedge
  \/ EmergencyRestart \/ Exit \/ Crash \/ Restart

\* Every thread that is not hung is scheduled, a retry time comes, the grace
\* period ends and the service manager restarts the process.
Spec ==
  /\ Init /\ [][Next]_vars
  /\ \A t \in Threads : WF_vars(Working(t))
  /\ WF_vars(Sending) /\ WF_vars(Waiting)
  /\ WF_vars(MarkAssets) /\ WF_vars(FinishDiagnostics)
  /\ WF_vars(EmergencyRestart) /\ WF_vars(Exit)

-----------------------------------------------------------------------------
(* Properties                                                                *)

\* All rows about origin c carry its own name: nothing of it went through
\* _safe_notify, which would add the slug, or there is no slug to add.
Ordered(c) ==
  /\ c # NoComponent
  /\ c \in degraded => RowNames(c) = {c}

\* The operator reads the messages about one thing in the order in which they
\* were persisted: a retried or rescanned row never arrives after a later one
\* (the predecessor test of deliverable_notification, one sender). A component
\* with a slug is exempt once a transaction of it failed: its later rows then
\* bear two names, and a deferred alert is overtaken by its recovery.
FifoDelivery ==
  [][\A c \in Origins : Ordered(c) => lastSent'[c] >= lastSent[c]]_vars

\* A message reaches Telegram a second time only when its acknowledgement was
\* lost, whatever duplicates of its id the queue and the scan produce.
NoUnneededDuplicate ==
  \A i \in Rows : outbox[i].copies <= 1 + outbox[i].lostAcks

\* What became of a row: Telegram has a message of which a copy was accepted
\* and whose acknowledgement was not lost.
Fate(row) ==
  CASE row.status = "sent" -> "sent"
    [] row.status = "deleted" -> "dropped"
    [] row.status = "pending" -> IF row.copies > row.lostAcks THEN "delivered"
                                                              ELSE "waiting"

Promised ==
  [i \in Rows |-> [origin |-> outbox[i].about, lane |-> outbox[i].component,
                   fate |-> Fate(outbox[i])]]

\* Where the rows about an origin may wait: under its own name when the edge and
\* the row are one transaction, and under those of _safe_notify.
Lanes == [c \in Origins |-> {c} \cup RowNames(c)]

Promise == INSTANCE Delivery WITH log <- Promised

\* Queue, scans, retries, faults and restarts implement Delivery: a row goes
\* out in the turn of its name, once per lost acknowledgement, and is
\* recorded as sent only after Telegram accepted it (_deliver_notification_task
\* and the outbox methods of state.py).
ImplementsDelivery == Promise!Spec

\* The dedupe set never keeps an id that no task carries: such a row would
\* never be queued again (_NOTIFY_QUEUED against _NOTIFY_QUEUE).
NoStrandedId ==
  \A i \in queued :
    \/ \E k \in DOMAIN queue : queue[k].id = i
    \/ task.id = i
    \/ \E t \in Actors : pc[t] = "put" /\ msg[t].id = i

\* Row i is the last one of component c that this process persisted.
IsLast(c, i) ==
  /\ i >= firstRow
  /\ outbox[i].about = c
  /\ \A j \in Rows : j > i => outbox[j].about # c

\* Health and outbox tell the same story: the last message of a component is
\* an alert only while the component is unhealthy, and an unhealthy component
\* has one as its last message, unless a write failed or the round loop marked
\* it (transition_component_and_enqueue_notification is one transaction).
HealthHasItsAlert ==
  up => \A c \in Components \ degraded :
    /\ \A i \in Rows : IsLast(c, i) /\ outbox[i].kind = "alert"
                          => health[c] = "unhealthy"
    /\ health[c] = "unhealthy" /\ c \notin AssetHealth
         => \E i \in Rows : IsLast(c, i) /\ outbox[i].kind = "alert"

\* The supervisor restarts the process at most once, and only with its alert
\* in the outbox, after a failed write of it, or after the grace period.
DiagnosticsBeforeRestart ==
  /\ exiting <= 1
  /\ exiting = 1 =>
       \/ grace
       \/ Supervisor \in degraded
       \/ \E i \in Rows : i >= firstRow /\ outbox[i].about = Supervisor

\* Whatever is dropped by a full queue, fails to send or waits behind another
\* row, a pending row is sent in the end, unless the process ends.
PendingEventuallySent ==
  \A i \in 1 .. MaxRows :
    (i \in Rows /\ Pending(i)) ~> (~up \/ (i \in Rows /\ ~Pending(i)))

\* A hung round ends the process, also when the diagnostics hang as well.
HungRoundRestarts == (diag # "none") ~> ~up

\* state.py on enqueue_notification: "a transport failure or process restart
\* cannot erase a pending error/recovery notification".
PersistedSurvivesRestart ==
  [][\A i \in Rows : Pending(i) => outbox'[i].status # "deleted"]_vars
=============================================================================
