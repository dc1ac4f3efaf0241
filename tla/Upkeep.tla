------------------------------- MODULE Upkeep -------------------------------
(* The two guards of the scheduler thread in runner.py: _MaintenanceWorker,  *)
(* which runs at most one reconciliation and settlement sweep beside the     *)
(* rounds and alerts when it is late, and RuntimeWatchdog, which alerts when *)
(* the scheduler itself makes no progress.                                   *)
EXTENDS Integers

CONSTANTS
  Sweepers,  \* identities for sweep threads, each free again when it ends
  NoSweeper, \* None
  MaxLate    \* bound: timers past their wait at a time

ASSUME UpkeepAssumption == NoSweeper \notin Sweepers /\ MaxLate \in Nat

VARIABLES
  sweep,     \* the sweep threads and where they are
  current,   \* _thread: the last one started, with its liveness
  done,      \* _done, the event of the last sweep
  timer,     \* _timer: armed or none
  firing,    \* timers past their wait, about to test _done
  late,      \* timers that found it unset, about to alert
  upkeep,    \* component_health of "maintenance_worker"
  stale,     \* the last beat is older than the stage's limit
  watch,     \* next step of the watchdog's _run
  reported,  \* _stall_reported
  beaten,    \* a beat has come since the watchdog read the age (history)
  told,      \* alerts about the stall that lasts (history)
  raced      \* reported was set from an age that a beat had ended (history)

sweepVars == <<sweep, current, done, timer, firing, late, upkeep>>
watchVars == <<stale, watch, reported, beaten, told, raced>>
upkeepVars == <<sweepVars, watchVars>>

UpkeepTypeOK ==
  /\ sweep \in [Sweepers -> {"none", "running", "reported", "finished"}]
  /\ current \in Sweepers \cup {NoSweeper}
  /\ done \in BOOLEAN
  /\ timer \in {"none", "armed"}
  /\ firing \in Nat /\ late \in Nat
  /\ upkeep \in {"none", "healthy", "unhealthy"}
  /\ stale \in BOOLEAN /\ reported \in BOOLEAN
  /\ watch \in {"idle", "checked", "alerting"}
  /\ beaten \in BOOLEAN /\ raced \in BOOLEAN
  /\ told \in Nat

UpkeepInit ==
  /\ sweep = [s \in Sweepers |-> "none"]
  /\ current = NoSweeper
  /\ done = FALSE /\ timer = "none" /\ firing = 0 /\ late = 0
  /\ upkeep = "none"
  /\ stale = FALSE /\ watch = "idle" /\ reported = FALSE
  /\ beaten = FALSE /\ told = 0 /\ raced = FALSE

-----------------------------------------------------------------------------
(* Maintenance                                                               *)

Alive(s) == s \in Sweepers /\ sweep[s] # "none"

StartSweep(s) ==
  /\ sweep[s] = "none"
  /\ sweep' = [sweep EXCEPT ![s] = "running"]
  /\ current' = s
  /\ done' = FALSE
  /\ timer' = "armed"
  /\ UNCHANGED <<firing, late, upkeep, watchVars>>

\* Mutation: trigger looks at the event instead of the thread.
TriggerAnyway(s) == (current = NoSweeper \/ done) /\ StartSweep(s)

\* trigger: a sweep that is still alive is not joined by a second one.
Trigger(s) == ~Alive(current) /\ StartSweep(s)

\* _run_guarded: the sweep's result is reported first.
SweepReports(s) ==
  /\ sweep[s] = "running"
  /\ sweep' = [sweep EXCEPT ![s] = "reported"]
  /\ upkeep' \in {"healthy", "unhealthy"}
  /\ UNCHANGED <<current, done, timer, firing, late, watchVars>>

SetDone(s) ==
  /\ sweep[s] = "reported"
  /\ sweep' = [sweep EXCEPT ![s] = "finished"]
  /\ done' = TRUE
  /\ UNCHANGED <<current, timer, firing, late, upkeep, watchVars>>

\* A timer that has fired is past cancelling.
CancelTimer(s) ==
  /\ sweep[s] = "finished"
  /\ sweep' = [sweep EXCEPT ![s] = "none"]
  /\ timer' = "none"
  /\ UNCHANGED <<current, done, firing, late, upkeep, watchVars>>

TimerFires ==
  /\ timer = "armed"
  /\ firing + late < MaxLate
  /\ timer' = "none"
  /\ firing' = firing + 1
  /\ UNCHANGED <<sweep, current, done, late, upkeep, watchVars>>

\* _timeout reads the event of the sweep that is current by then.
TimeoutTest ==
  /\ firing > 0
  /\ firing' = firing - 1
  /\ late' = IF done THEN late ELSE late + 1
  /\ UNCHANGED <<sweep, current, done, timer, upkeep, watchVars>>

TimeoutAlert ==
  /\ late > 0
  /\ late' = late - 1
  /\ upkeep' = "unhealthy"
  /\ UNCHANGED <<sweep, current, done, timer, firing, watchVars>>

-----------------------------------------------------------------------------
(* The runtime watchdog                                                      *)

\* RuntimeWatchdog.beat, called by the round loop at any time. It ends the
\* stall, and what the watchdog holds from before it is out of date.
Beat ==
  /\ stale' = FALSE /\ reported' = FALSE
  /\ beaten' = TRUE /\ told' = 0 /\ raced' = FALSE
  /\ UNCHANGED <<sweepVars, watch>>

\* No beat for longer than the stage's limit.
Age ==
  /\ ~stale
  /\ stale' = TRUE
  /\ UNCHANGED <<sweepVars, watch, reported, beaten, told, raced>>

\* _run reads the age and the stage under the lock.
CheckAge ==
  /\ stale /\ watch = "idle"
  /\ watch' = "checked"
  /\ beaten' = FALSE
  /\ UNCHANGED <<sweepVars, stale, reported, told, raced>>

\* _run takes the lock a second time, to test and to set the flag.
FlagStall ==
  /\ watch = "checked"
  /\ IF reported
       THEN watch' = "idle" /\ UNCHANGED <<reported, raced>>
       ELSE watch' = "alerting" /\ reported' = TRUE /\ raced' = beaten
  /\ UNCHANGED <<sweepVars, stale, beaten, told>>

\* Mutation: the flag is set once the alert is out.
AlertThenFlag ==
  /\ watch = "alerting"
  /\ watch' = "idle"
  /\ reported' = TRUE
  /\ told' = IF beaten THEN told ELSE told + 1
  /\ UNCHANGED <<sweepVars, stale, beaten, raced>>

\* The alert goes out after the lock is released: when a beat has come since
\* the age was read, it is about a stall that has ended.
AlertStall ==
  /\ watch = "alerting"
  /\ watch' = "idle"
  /\ told' = IF beaten THEN told ELSE told + 1
  /\ UNCHANGED <<sweepVars, stale, reported, beaten, raced>>

-----------------------------------------------------------------------------
UpkeepNext ==
  \/ \E s \in Sweepers :
       Trigger(s) \/ SweepReports(s) \/ SetDone(s) \/ CancelTimer(s)
  \/ TimerFires \/ TimeoutTest \/ TimeoutAlert
  \/ Beat \/ Age \/ CheckAge \/ FlagStall \/ AlertStall

UpkeepSpec == UpkeepInit /\ [][UpkeepNext]_upkeepVars

\* Two sweeps never overlap: they would probe, settle and alert the same orders
\* twice through the one SDK client.
OneSweep ==
  \A s, r \in Sweepers : sweep[s] # "none" /\ sweep[r] # "none" => s = r

\* A stall that has lasted past the watchdog's last look.
PassedOver == stale /\ reported /\ watch = "idle"

\* Wherever a beat falls among the watchdog's two critical sections and the
\* alert that follows them, a stall is alerted at most once, and one that is
\* passed over because it counts as reported has been alerted: an alert about
\* an earlier stall stands in for it only when a beat fell exactly between
\* reading the age and setting the flag.
OneAlertPerStall == told <= 1 /\ (PassedOver => told = 1 \/ raced)
=============================================================================
