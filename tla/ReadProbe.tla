----------------------------- MODULE ReadProbe ------------------------------
(* OrderExecutor._call_bounded: the asset workers and the maintenance sweep  *)
(* share one executor, and each read-only SDK call runs in a thread of its   *)
(* own that its caller abandons at the deadline. The flag read_probe_stalled *)
(* turns further calls away while an abandoned call is still running.        *)
EXTENDS Integers

CONSTANTS
  Callers,     \* threads that probe through the shared executor
  MaxAbandoned \* bound: abandoned calls that have not ended

ASSUME ReadProbeAssumption == MaxAbandoned \in Nat

VARIABLES
  stalled,   \* _read_probe_stalled
  caller,    \* where each caller is in _call_bounded
  probe,     \* the call it waits for: running, done (event set), over (cleared)
  abandoned, \* abandoned calls still running
  finishing  \* abandoned calls with their event set and the flag not cleared

probeVars == <<stalled, caller, probe, abandoned, finishing>>

ReadProbeTypeOK ==
  /\ stalled \in BOOLEAN
  /\ caller \in [Callers -> {"idle", "admitted", "waiting", "expired", "marked"}]
  /\ probe \in [Callers -> {"none", "running", "done", "over"}]
  /\ abandoned \in Nat /\ finishing \in Nat

ReadProbeInit ==
  /\ stalled = FALSE
  /\ caller = [c \in Callers |-> "idle"]
  /\ probe = [c \in Callers |-> "none"]
  /\ abandoned = 0 /\ finishing = 0

\* A stalled executor raises at once; the test and the start are two steps.
Admit(c) ==
  /\ caller[c] = "idle"
  /\ ~stalled
  /\ caller' = [caller EXCEPT ![c] = "admitted"]
  /\ UNCHANGED <<stalled, probe, abandoned, finishing>>

Start(c) ==
  /\ caller[c] = "admitted"
  /\ caller' = [caller EXCEPT ![c] = "waiting"]
  /\ probe' = [probe EXCEPT ![c] = "running"]
  /\ UNCHANGED <<stalled, abandoned, finishing>>

\* invoke's finally block: done.set(), and then the flag is cleared, whichever
\* call the flag stands for.
Finish(c) ==
  /\ probe[c] = "running"
  /\ probe' = [probe EXCEPT ![c] = "done"]
  /\ UNCHANGED <<stalled, caller, abandoned, finishing>>

Clear(c) ==
  /\ probe[c] = "done"
  /\ probe' = [probe EXCEPT ![c] = "over"]
  /\ stalled' = FALSE
  /\ UNCHANGED <<caller, abandoned, finishing>>

\* The caller leaves; a call it leaves behind goes on without it.
Leave(c) ==
  /\ probe[c] = "over" \/ abandoned + finishing < MaxAbandoned
  /\ caller' = [caller EXCEPT ![c] = "idle"]
  /\ probe' = [probe EXCEPT ![c] = "none"]
  /\ abandoned' = IF probe[c] = "running" THEN abandoned + 1 ELSE abandoned
  /\ finishing' = IF probe[c] = "done" THEN finishing + 1 ELSE finishing

Return(c) ==
  /\ caller[c] = "waiting"
  /\ probe[c] \in {"done", "over"}
  /\ Leave(c)
  /\ UNCHANGED stalled

\* The wait gives up; the flag is set in a step of its own.
Expire(c) ==
  /\ caller[c] = "waiting"
  /\ probe[c] = "running"
  /\ caller' = [caller EXCEPT ![c] = "expired"]
  /\ UNCHANGED <<stalled, probe, abandoned, finishing>>

Mark(c) ==
  /\ caller[c] = "expired"
  /\ caller' = [caller EXCEPT ![c] = "marked"]
  /\ stalled' = TRUE
  /\ UNCHANGED <<probe, abandoned, finishing>>

\* Mutation: the event is not tested again after the flag was set.
RaiseUnchecked(c) ==
  /\ caller[c] = "marked"
  /\ Leave(c)
  /\ UNCHANGED stalled

\* if done.is_set(): the call finished meanwhile, perhaps before the flag was
\* set, so its own clearing may be past.
Raise(c) ==
  /\ caller[c] = "marked"
  /\ stalled' = IF probe[c] \in {"done", "over"} THEN FALSE ELSE stalled
  /\ Leave(c)

AbandonedFinish ==
  /\ abandoned > 0
  /\ abandoned' = abandoned - 1
  /\ finishing' = finishing + 1
  /\ UNCHANGED <<stalled, caller, probe>>

AbandonedClear ==
  /\ finishing > 0
  /\ finishing' = finishing - 1
  /\ stalled' = FALSE
  /\ UNCHANGED <<caller, probe, abandoned>>

ReadProbeNext ==
  \/ \E c \in Callers :
       \/ Admit(c) \/ Start(c) \/ Finish(c) \/ Clear(c) \/ Return(c)
       \/ Expire(c) \/ Mark(c) \/ Raise(c)
  \/ AbandonedFinish \/ AbandonedClear

ReadProbeSpec == ReadProbeInit /\ [][ReadProbeNext]_probeVars

\* The stall flag never outlives the calls it stands for: when every call has
\* ended and no caller is about to look again, reads are admitted. A flag left
\* behind would turn every later reconciliation away.
StallFlagNotStuck ==
  stalled => \/ abandoned + finishing > 0
             \/ \E c \in Callers : caller[c] = "marked"
=============================================================================
