----------------------------- MODULE GuardProofs -----------------------------
(* What holds, for any number of threads, sessions and failures, of the      *)
(* guards beside the orders: the heartbeat loop, and the state that threads  *)
(* share without working together: the stall flag of the read probes, the    *)
(* global resolver, the maintenance sweep and the runtime watchdog.          *)
EXTENDS Heartbeat, ReadProbe, Resolver, Upkeep, SequenceTheorems,
        FiniteSetTheorems, TLAPS

-----------------------------------------------------------------------------
(* Heartbeat: SlotInv ties the counter of running SDK calls to the slot the  *)
(* loop owns: a call is running exactly while the slot is open, and only an  *)
(* empty slot is opened. LatchInv ties the count of fatal callbacks to the   *)
(* latch.                                                                    *)

\* An SDK call runs exactly while the slot is open.
SlotInv == inFlight = (IF slot = "open" THEN 1 ELSE 0)

\* The latch counts: the callback ran once if it is set, and not at all else.
LatchInv ==
  /\ fatals = IF fatal THEN 1 ELSE 0
  /\ fatal => age = HardAge \/ overflow

BeatInv == HeartbeatTypeOK /\ SlotInv /\ LatchInv

USE HeartbeatAssumption

LEMMA BeatInit == HeartbeatInit => BeatInv
<1> SUFFICES ASSUME HeartbeatInit PROVE BeatInv
  OBVIOUS
<1>1. /\ <<>> \in Seq({"heartbeat_error", "heartbeat_recovered"})
      /\ Len(<<>>) <= StatusCap
  OBVIOUS
<1>2. NoAnswer \in Answer /\ 0 \in Ids
  BY DEF NoAnswer, Answer, Ids
<1>3. HeartbeatTypeOK
  <2>1. /\ statuses \in Seq({"heartbeat_error", "heartbeat_recovered"})
        /\ Len(statuses) <= StatusCap
    BY <1>1 DEF HeartbeatInit
  <2>2. /\ 1 \in 1 .. MaxSessions /\ 0 \in 0 .. HardAge /\ 0 \in 0 .. 2
        /\ 0 \in 0 .. MaxErrors
    OBVIOUS
  <2> QED
    BY <1>2, <2>1, <2>2 DEF HeartbeatInit, HeartbeatTypeOK
<1>4. SlotInv /\ LatchInv
  BY DEF HeartbeatInit, SlotInv, LatchInv
<1> QED
  BY <1>3, <1>4 DEF BeatInv

\* The three ways a turn can handle its request.
LEMMA RequestTypes ==
  ASSUME BeatInv,
         \/ Consume
         \/ TimedOut
         \/ slot = "none" /\ StartRequest
  PROVE  /\ turn' \in {"due", "waiting", "returned", "raised"}
         /\ slot' \in {"none", "open", "answered"}
         /\ inFlight' \in Nat /\ carried' \in Ids
         /\ answer' \in Answer /\ reply' \in Answer
         /\ inFlight' = IF slot' = "open" THEN 1 ELSE 0
<1> USE DEF BeatInv, HeartbeatTypeOK, SlotInv, Ids, Answer, NoAnswer
<1>1. CASE Consume
  BY <1>1 DEF Consume
<1>2. CASE TimedOut
  BY <1>2 DEF TimedOut
<1>3. CASE slot = "none" /\ StartRequest
  BY <1>3 DEF StartRequest
<1> QED
  BY <1>1, <1>2, <1>3

\* Whatever is handed to it, the status queue stays within its limit.
LEMMA NotifiedType ==
  ASSUME BeatInv,
         NEW kinds \in {<<>>, <<"heartbeat_recovered">>, <<"heartbeat_error">>},
         Notified(kinds)
  PROVE  /\ statuses' \in Seq({"heartbeat_error", "heartbeat_recovered"})
         /\ Len(statuses') <= StatusCap
<1>1. CASE kinds = <<>>
  BY <1>1 DEF BeatInv, HeartbeatTypeOK, Notified, Lost
<1>2. CASE kinds # <<>>
  <2>1. CASE Len(statuses) >= StatusCap
    BY <1>2, <2>1 DEF BeatInv, HeartbeatTypeOK, Notified, Lost
  <2>2. CASE Len(statuses) < StatusCap
    <3>1. statuses' = statuses \o kinds
      BY <1>2, <2>2 DEF BeatInv, HeartbeatTypeOK, Notified, Lost
    <3>2. PICK k \in {"heartbeat_error", "heartbeat_recovered"} : kinds = <<k>>
      BY <1>2
    <3>3. statuses' = Append(statuses, k)
      BY <3>1, <3>2, AppendIsConcat DEF BeatInv, HeartbeatTypeOK
    <3> QED
      BY <2>2, <3>3 DEF BeatInv, HeartbeatTypeOK
  <2> QED
    BY <2>1, <2>2 DEF BeatInv, HeartbeatTypeOK
<1> QED
  BY <1>1, <1>2

\* Setting the latch counts its first request, and no other.
LEMMA LatchCounts ==
  ASSUME NEW latched \in BOOLEAN, NEW want \in BOOLEAN, NEW count,
         count = (IF latched THEN 1 ELSE 0), Latch(latched, count, want)
  PROVE  /\ fatal' = (latched \/ want) /\ fatal' \in BOOLEAN
         /\ fatals' = IF fatal' THEN 1 ELSE 0
BY DEF Latch

LEMMA BeatStep == BeatInv /\ [HeartbeatNext]_beatVars => BeatInv'
<1> SUFFICES ASSUME BeatInv, [HeartbeatNext]_beatVars
             PROVE  BeatInv'
  OBVIOUS
<1> USE DEF BeatInv, HeartbeatTypeOK, SlotInv, LatchInv
<1>1. CASE Post
  <2>1. \/ Consume
        \/ TimedOut
        \/ slot = "none" /\ StartRequest
    BY <1>1 DEF Post
  <2> QED
    BY <1>1, <2>1, RequestTypes DEF Post
<1>2. CASE Wait
  <2>1. Consume \/ TimedOut
    BY <1>2 DEF Wait
  <2> QED
    BY <1>2, <2>1, RequestTypes DEF Wait
<1>3. CASE Success
  <2> DEFINE kinds == IF hadError \/ phase = "boot"
                        THEN <<"heartbeat_recovered">> ELSE <<>>
  <2>1. /\ Notified(kinds) /\ overflow' = Lost(kinds)
        /\ Latch(FALSE, 0, Lost(kinds))
    BY <1>3 DEF Success
  <2>2. kinds \in {<<>>, <<"heartbeat_recovered">>, <<"heartbeat_error">>}
    OBVIOUS
  <2>3. Lost(kinds) \in BOOLEAN
    BY DEF Lost
  <2> HIDE DEF kinds
  <2>4. /\ statuses' \in Seq({"heartbeat_error", "heartbeat_recovered"})
        /\ Len(statuses') <= StatusCap
    BY <2>1, <2>2, NotifiedType
  <2>5. LatchInv' /\ fatal' \in BOOLEAN /\ overflow' \in BOOLEAN /\ fatals' \in Nat
    <3>1. /\ fatal' = (FALSE \/ Lost(kinds)) /\ fatal' \in BOOLEAN
          /\ fatals' = IF fatal' THEN 1 ELSE 0
      BY <2>1, <2>3, LatchCounts
    <3>2. fatal' => overflow'
      BY <2>1, <3>1
    <3>3. fatals' \in Nat
      BY <3>1
    <3> QED
      BY <2>1, <2>3, <3>1, <3>2, <3>3
  <2>6. heartbeatId' \in Ids
    BY <1>3 DEF Success, Adopt, Answer
  <2>7. /\ phase' = "run" /\ turn' = "due" /\ failures' = 0 /\ age' = 0
        /\ hadError' = FALSE
        /\ UNCHANGED <<slot, inFlight, carried, answer, reply, session, errors>>
    BY <1>3 DEF Success
  <2>8. 0 \in 0 .. HardAge /\ 0 \in 0 .. 2
    OBVIOUS
  <2>9. HeartbeatTypeOK'
    BY <2>4, <2>5, <2>6, <2>7, <2>8
  <2> QED
    BY <2>5, <2>7, <2>9
<1>4. CASE BootstrapFailure
  <2>1. LatchInv' /\ fatal' \in BOOLEAN /\ fatals' \in Nat
    <3>1. (age = HardAge) \in BOOLEAN
      OBVIOUS
    <3>2. Latch(fatal, fatals, age = HardAge) /\ UNCHANGED <<age, overflow>>
      BY <1>4 DEF BootstrapFailure
    <3>3. /\ fatal' = (fatal \/ (age = HardAge)) /\ fatal' \in BOOLEAN
          /\ fatals' = IF fatal' THEN 1 ELSE 0
      BY <3>1, <3>2, LatchCounts
    <3> QED
      BY <3>2, <3>3
  <2>2. heartbeatId' \in Ids
    BY <1>4 DEF BootstrapFailure, Adopt, Answer
  <2>3. failures' \in 0 .. 2
    BY <1>4 DEF BootstrapFailure, Fails
  <2> QED
    BY <1>4, <2>1, <2>2, <2>3 DEF BootstrapFailure
<1>5. CASE Failure
  <2> DEFINE kinds == IF hadError THEN <<>> ELSE <<"heartbeat_error">>
  <2>1. /\ Notified(kinds) /\ overflow' = (overflow \/ Lost(kinds))
        /\ Latch(fatal, fatals, Lost(kinds) \/ HardFailure)
    BY <1>5 DEF Failure
  <2>2. kinds \in {<<>>, <<"heartbeat_recovered">>, <<"heartbeat_error">>}
    OBVIOUS
  <2>3. Lost(kinds) \in BOOLEAN /\ HardFailure \in BOOLEAN
    BY DEF Lost, HardFailure
  <2> HIDE DEF kinds
  <2>4. /\ statuses' \in Seq({"heartbeat_error", "heartbeat_recovered"})
        /\ Len(statuses') <= StatusCap
    BY <2>1, <2>2, NotifiedType
  <2>5. LatchInv' /\ fatal' \in BOOLEAN /\ overflow' \in BOOLEAN /\ fatals' \in Nat
    <3>1. /\ fatal' = (fatal \/ (Lost(kinds) \/ HardFailure))
          /\ fatal' \in BOOLEAN /\ fatals' = IF fatal' THEN 1 ELSE 0
      BY <2>1, <2>3, LatchCounts
    <3>2. HardFailure => age = HardAge
      BY DEF HardFailure
    <3> QED
      BY <1>5, <2>1, <2>3, <3>1, <3>2 DEF Failure
  <2>6. heartbeatId' \in Ids
    BY <1>5 DEF Failure, Adopt, Answer
  <2>7. failures' \in 0 .. 2
    BY <1>5 DEF Failure, Fails
  <2>8. /\ turn' = "due" /\ hadError' = TRUE
        /\ UNCHANGED <<phase, slot, inFlight, carried, answer, reply, session,
                       age, errors>>
    BY <1>5 DEF Failure
  <2>9. HeartbeatTypeOK'
    BY <2>4, <2>5, <2>6, <2>7, <2>8
  <2> QED
    BY <2>5, <2>8, <2>9
<1>6. CASE StatusWorker
  <2>1. /\ Tail(statuses) \in Seq({"heartbeat_error", "heartbeat_recovered"})
        /\ Len(Tail(statuses)) <= StatusCap
    BY <1>6 DEF StatusWorker
  <2> QED
    BY <1>6, <2>1 DEF StatusWorker
<1>7. CASE VenueAnswers
  <2>1. slot = "open" /\ inFlight' = 0 /\ slot' = "answered"
    BY <1>7 DEF VenueAnswers
  <2>2. answer' \in Answer /\ errors' \in 0 .. MaxErrors
    <3>1. session \in Ids /\ 0 \in Ids
      BY DEF Ids
    <3>2. [ok |-> TRUE, id |-> session] \in Answer
      BY <3>1 DEF Answer
    <3>3. [ok |-> FALSE, id |-> session] \in Answer
      BY <3>1 DEF Answer
    <3>4. NoAnswer \in Answer
      BY <3>1 DEF Answer, NoAnswer
    <3>5. answer' \in Answer
      BY <1>7, <3>2, <3>3, <3>4 DEF VenueAnswers
    <3>6. errors' \in 0 .. MaxErrors
      BY <1>7 DEF VenueAnswers
    <3> QED
      BY <3>5, <3>6
  <2> QED
    BY <1>7, <2>1, <2>2 DEF VenueAnswers
<1>8. CASE VenueExpires
  BY <1>8 DEF VenueExpires
<1>9. CASE Tick
  BY <1>9 DEF Tick
<1>10. CASE UNCHANGED beatVars
  BY <1>10 DEF beatVars
<1> QED
  BY <1>1, <1>2, <1>3, <1>4, <1>5, <1>6, <1>7, <1>8, <1>9, <1>10
     DEF HeartbeatNext

\* The inductive invariant of the heartbeat loop.
THEOREM BeatInvariant == HeartbeatSpec => []BeatInv
BY BeatInit, BeatStep, PTL DEF HeartbeatSpec

\* HeartbeatLoop never has two SDK calls in flight (_post_heartbeat_bounded).
THEOREM NoOverlappingHeartbeats == HeartbeatSpec => []OneHeartbeatInFlight
<1>1. BeatInv => OneHeartbeatInFlight
  BY DEF BeatInv, SlotInv, OneHeartbeatInFlight
<1> QED
  BY <1>1, BeatInvariant, PTL

\* The fatal alert comes at most once per outage and never early
\* (_request_fatal and its callers).
THEOREM OneFatalPerOutage == HeartbeatSpec => []FatalOncePerOutage
<1>1. BeatInv => FatalOncePerOutage
  BY DEF BeatInv, LatchInv, FatalOncePerOutage
<1> QED
  BY <1>1, BeatInvariant, PTL

HIDE HeartbeatAssumption

-----------------------------------------------------------------------------
(* ReadProbe                                                                 *)

\* A caller past the start of its call has a call.
ProbeInv ==
  /\ ReadProbeTypeOK
  /\ \A c \in Callers :
       caller[c] \in {"waiting", "expired", "marked"} => probe[c] # "none"
  /\ StallFlagNotStuck

LEMMA ProbeInit == ReadProbeInit => ProbeInv
<1> SUFFICES ASSUME ReadProbeInit PROVE ProbeInv
  OBVIOUS
<1>1. ReadProbeTypeOK
  BY DEF ReadProbeInit, ReadProbeTypeOK
<1>2. ~stalled /\ \A c \in Callers : caller[c] = "idle"
  BY DEF ReadProbeInit
<1> QED
  BY <1>1, <1>2 DEF ProbeInv, StallFlagNotStuck

\* Leaving keeps the types, and a call that still runs is counted.
LEMMA LeaveTypes ==
  ASSUME ProbeInv, NEW c \in Callers, Leave(c)
  PROVE  /\ caller' \in [Callers -> {"idle", "admitted", "waiting", "expired",
                                     "marked"}]
         /\ probe' \in [Callers -> {"none", "running", "done", "over"}]
         /\ abandoned' \in Nat /\ finishing' \in Nat
         /\ abandoned' + finishing' >= abandoned + finishing
         /\ probe[c] = "running" => abandoned' + finishing' > 0
         /\ caller' = [caller EXCEPT ![c] = "idle"]
         /\ probe' = [probe EXCEPT ![c] = "none"]
BY DEF ProbeInv, ReadProbeTypeOK, Leave

LEMMA ProbeStep == ProbeInv /\ [ReadProbeNext]_probeVars => ProbeInv'
<1> SUFFICES ASSUME ProbeInv, [ReadProbeNext]_probeVars PROVE ProbeInv'
  OBVIOUS
<1> USE DEF ProbeInv, ReadProbeTypeOK, StallFlagNotStuck
<1>1. ASSUME NEW c \in Callers, Admit(c) PROVE ProbeInv'
  BY <1>1 DEF Admit
<1>2. ASSUME NEW c \in Callers, Start(c) PROVE ProbeInv'
  BY <1>2 DEF Start
<1>3. ASSUME NEW c \in Callers, Finish(c) PROVE ProbeInv'
  BY <1>3 DEF Finish
<1>4. ASSUME NEW c \in Callers, Clear(c) PROVE ProbeInv'
  BY <1>4 DEF Clear
<1>5. ASSUME NEW c \in Callers, Return(c) PROVE ProbeInv'
  <2>1. caller[c] = "waiting" /\ stalled' = stalled /\ Leave(c)
    BY <1>5 DEF Return
  <2> QED
    BY <2>1, LeaveTypes
<1>6. ASSUME NEW c \in Callers, Expire(c) PROVE ProbeInv'
  BY <1>6 DEF Expire
<1>7. ASSUME NEW c \in Callers, Mark(c) PROVE ProbeInv'
  BY <1>7 DEF Mark
<1>8. ASSUME NEW c \in Callers, Raise(c) PROVE ProbeInv'
  <2>1. caller[c] = "marked" /\ Leave(c) /\ probe[c] # "none"
    BY <1>8 DEF Raise
  <2>2. CASE probe[c] \in {"done", "over"}
    BY <1>8, <2>1, <2>2, LeaveTypes DEF Raise
  <2>3. CASE probe[c] = "running"
    BY <1>8, <2>1, <2>3, LeaveTypes DEF Raise
  <2> QED
    BY <2>1, <2>2, <2>3
<1>9. CASE AbandonedFinish
  BY <1>9 DEF AbandonedFinish
<1>10. CASE AbandonedClear
  <2>1. /\ stalled' = FALSE /\ finishing' \in Nat
        /\ UNCHANGED <<caller, probe, abandoned>>
    BY <1>10 DEF AbandonedClear
  <2> QED
    BY <2>1
<1>11. CASE UNCHANGED probeVars
  BY <1>11 DEF probeVars
<1> QED
  BY <1>1, <1>2, <1>3, <1>4, <1>5, <1>6, <1>7, <1>8, <1>9, <1>10, <1>11
     DEF ReadProbeNext

\* The inductive invariant of the read probes.
THEOREM ProbeInvariant == ReadProbeSpec => []ProbeInv
BY ProbeInit, ProbeStep, PTL DEF ReadProbeSpec

\* The stall flag never outlives the calls it stands for (_call_bounded), for
\* any number of callers.
THEOREM FlagClears == ReadProbeSpec => []StallFlagNotStuck
<1>1. ProbeInv => StallFlagNotStuck
  BY DEF ProbeInv
<1> QED
  BY <1>1, ProbeInvariant, PTL

-----------------------------------------------------------------------------
(* Resolver                                                                  *)

\* The contexts that are open or about to be pushed or closed, by position.
OpenContexts ==
  {x \in Clients \X Nat :
     1 <= x[2]
     /\ x[2] <= Len(stack[x[1]]) + (IF step[x[1]] = "none" THEN 0 ELSE 1)}

\* _resolver_contexts counts them, and says which resolver is installed.
ContextInv ==
  /\ ResolverTypeOK
  /\ base = "system"
  /\ IsFiniteSet(OpenContexts)
  /\ contexts = Cardinality(OpenContexts)
  /\ installed = IF contexts = 0 THEN "system" ELSE "dispatcher"

\* The position a thread is at when its next context opens.
Height(c) == Len(stack[c]) + (IF step[c] = "none" THEN 0 ELSE 1)

LEMMA HeightNat ==
  ASSUME ResolverTypeOK, NEW c \in Clients
  PROVE  Height(c) \in Nat /\ Len(stack[c]) \in Nat
BY DEF ResolverTypeOK, Height

LEMMA ContextsAre ==
  OpenContexts = {x \in Clients \X Nat : 1 <= x[2] /\ x[2] <= Height(x[1])}
BY DEF OpenContexts, Height

LEMMA SameHeights ==
  ASSUME \A c \in Clients : Height(c)' = Height(c)
  PROVE  OpenContexts' = OpenContexts
<1>1. OpenContexts' = {x \in Clients \X Nat : 1 <= x[2] /\ x[2] <= Height(x[1])'}
  BY DEF OpenContexts, Height
<1> QED
  BY <1>1, ContextsAre

\* A thread that opens a context adds one position, one that closes takes one
\* away, and the positions of the others stay.
LEMMA OneHigher ==
  ASSUME ContextInv, NEW c \in Clients, Height(c)' = Height(c) + 1,
         \A d \in Clients \ {c} : Height(d)' = Height(d)
  PROVE  /\ IsFiniteSet(OpenContexts')
         /\ Cardinality(OpenContexts') = Cardinality(OpenContexts) + 1
<1> DEFINE x == <<c, Height(c) + 1>>
<1>1. OpenContexts' = {y \in Clients \X Nat : 1 <= y[2] /\ y[2] <= Height(y[1])'}
  BY DEF OpenContexts, Height
<1>2. \A d \in Clients : Height(d) \in Nat
  BY HeightNat DEF ContextInv
<1>3. OpenContexts' = OpenContexts \cup {x}
  <2>1. ASSUME NEW y \in Clients \X Nat
        PROVE  y \in OpenContexts' <=> y \in OpenContexts \/ y = x
    <3>1. PICK d \in Clients, n \in Nat : y = <<d, n>>
      OBVIOUS
    <3>2. y \in OpenContexts' <=> 1 <= n /\ n <= Height(d)'
      BY <1>1, <3>1
    <3>3. y \in OpenContexts <=> 1 <= n /\ n <= Height(d)
      BY <3>1, ContextsAre
    <3>4. CASE d = c
      BY <1>2, <3>1, <3>2, <3>3, <3>4
    <3>5. CASE d # c
      BY <3>1, <3>2, <3>3, <3>5
    <3> QED
      BY <3>4, <3>5
  <2>2. x \in Clients \X Nat
    BY <1>2
  <2>3. OpenContexts' \subseteq Clients \X Nat
    BY <1>1
  <2>4. OpenContexts \subseteq Clients \X Nat
    BY ContextsAre
  <2> QED
    BY <2>1, <2>2, <2>3, <2>4
<1>4. x \notin OpenContexts
  BY <1>2, ContextsAre
<1> QED
  BY <1>3, <1>4, FS_AddElement DEF ContextInv

LEMMA OneLower ==
  ASSUME ContextInv, NEW c \in Clients, Height(c) > 0,
         Height(c)' = Height(c) - 1,
         \A d \in Clients \ {c} : Height(d)' = Height(d)
  PROVE  /\ IsFiniteSet(OpenContexts')
         /\ Cardinality(OpenContexts') = Cardinality(OpenContexts) - 1
<1> DEFINE x == <<c, Height(c)>>
<1>1. OpenContexts' = {y \in Clients \X Nat : 1 <= y[2] /\ y[2] <= Height(y[1])'}
  BY DEF OpenContexts, Height
<1>2. \A d \in Clients : Height(d) \in Nat
  BY HeightNat DEF ContextInv
<1>3. OpenContexts' = OpenContexts \ {x}
  <2>1. ASSUME NEW y \in Clients \X Nat
        PROVE  y \in OpenContexts' <=> y \in OpenContexts /\ y # x
    <3>1. PICK d \in Clients, n \in Nat : y = <<d, n>>
      OBVIOUS
    <3>2. y \in OpenContexts' <=> 1 <= n /\ n <= Height(d)'
      BY <1>1, <3>1
    <3>3. y \in OpenContexts <=> 1 <= n /\ n <= Height(d)
      BY <3>1, ContextsAre
    <3>4. CASE d = c
      BY <1>2, <3>1, <3>2, <3>3, <3>4
    <3>5. CASE d # c
      BY <3>1, <3>2, <3>3, <3>5
    <3> QED
      BY <3>4, <3>5
  <2>2. OpenContexts' \subseteq Clients \X Nat
    BY <1>1
  <2>3. OpenContexts \subseteq Clients \X Nat
    BY ContextsAre
  <2> QED
    BY <2>1, <2>2, <2>3
<1>4. x \in OpenContexts
  BY <1>2, ContextsAre
<1> QED
  BY <1>3, <1>4, FS_RemoveElement DEF ContextInv

LEMMA ContextInit == ResolverInit => ContextInv
<1> SUFFICES ASSUME ResolverInit PROVE ContextInv
  OBVIOUS
<1>1. ResolverTypeOK
  BY DEF ResolverInit, ResolverTypeOK, Resolvers
<1>2. OpenContexts = {}
  <2>1. \A c \in Clients : Height(c) = 0
    BY DEF ResolverInit, Height
  <2> QED
    BY <2>1, ContextsAre
<1> QED
  BY <1>1, <1>2, FS_EmptySet DEF ResolverInit, ContextInv

LEMMA ContextStep == ContextInv /\ [ResolverNext]_resolverVars => ContextInv'
<1> SUFFICES ASSUME ContextInv, [ResolverNext]_resolverVars PROVE ContextInv'
  OBVIOUS
<1>a. /\ contexts = Cardinality(OpenContexts)
      /\ contexts \in Nat /\ (contexts = 0 <=> OpenContexts = {})
      /\ \A c \in Clients : Height(c) \in Nat
  BY FS_CardinalityType, FS_EmptySet, HeightNat DEF ContextInv
<1>1. ASSUME NEW c \in Clients, Open(c) PROVE ContextInv'
  <2>1. ResolverTypeOK'
    BY <1>1, <1>a DEF Open, ContextInv, ResolverTypeOK, Resolvers
  <2>2. Height(c)' = Height(c) + 1
    BY <1>1 DEF Open, Height, ContextInv, ResolverTypeOK
  <2>3. \A d \in Clients \ {c} : Height(d)' = Height(d)
    BY <1>1 DEF Open, Height, ContextInv, ResolverTypeOK
  <2>4. /\ contexts' = contexts + 1 /\ base' = "system"
        /\ installed' = "dispatcher"
    BY <1>1, <1>a DEF Open, ContextInv
  <2> QED
    BY <1>a, <2>1, <2>2, <2>3, <2>4, OneHigher DEF ContextInv
<1>2. ASSUME NEW c \in Clients, Push(c) PROVE ContextInv'
  <2>1. PICK o \in Overrides : stack' = [stack EXCEPT ![c] = Append(@, o)]
    BY <1>2 DEF Push
  <2>2. ResolverTypeOK'
    BY <1>2, <2>1 DEF Push, ContextInv, ResolverTypeOK
  <2>3. \A d \in Clients : Height(d)' = Height(d)
    <3>1. Len(stack'[c]) = Len(stack[c]) + 1
      BY <2>1 DEF ContextInv, ResolverTypeOK
    <3>2. /\ step[c] = "opening" /\ step'[c] = "none"
          /\ Len(stack[c]) \in Nat
      BY <1>2 DEF Push, ContextInv, ResolverTypeOK
    <3>3. Height(c)' = Height(c)
      BY <3>1, <3>2 DEF Height
    <3>4. \A d \in Clients \ {c} : Height(d)' = Height(d)
      BY <1>2, <2>1 DEF Push, Height, ContextInv, ResolverTypeOK
    <3> QED
      BY <3>3, <3>4
  <2> QED
    BY <1>2, <2>2, <2>3, SameHeights DEF Push, ContextInv
<1>3. ASSUME NEW c \in Clients, Pop(c) PROVE ContextInv'
  <2>1. /\ SubSeq(stack[c], 1, Len(stack[c]) - 1) \in Seq(Overrides)
        /\ Len(SubSeq(stack[c], 1, Len(stack[c]) - 1)) = Len(stack[c]) - 1
    <3>1. stack[c] \in Seq(Overrides) /\ stack[c] # <<>>
      BY <1>3 DEF Pop, ContextInv, ResolverTypeOK
    <3>2. Len(stack[c]) \in Nat /\ Len(stack[c]) > 0
      BY <3>1
    <3> QED
      BY <3>1, <3>2
  <2>2. ResolverTypeOK'
    BY <1>3, <2>1 DEF Pop, ContextInv, ResolverTypeOK
  <2>3. \A d \in Clients : Height(d)' = Height(d)
    <3>1. Len(stack'[c]) = Len(stack[c]) - 1
      BY <1>3, <2>1 DEF Pop, ContextInv, ResolverTypeOK
    <3>2. /\ step[c] = "none" /\ step'[c] = "closing"
          /\ Len(stack[c]) \in Nat
      BY <1>3 DEF Pop, ContextInv, ResolverTypeOK
    <3>3. Height(c)' = Height(c)
      BY <3>1, <3>2 DEF Height
    <3>4. \A d \in Clients \ {c} : Height(d)' = Height(d)
      BY <1>3 DEF Pop, Height, ContextInv, ResolverTypeOK
    <3> QED
      BY <3>3, <3>4
  <2> QED
    BY <1>3, <2>2, <2>3, SameHeights DEF Pop, ContextInv
<1>4. ASSUME NEW c \in Clients, Close(c) PROVE ContextInv'
  <2>1. ResolverTypeOK'
    BY <1>4 DEF Close, ContextInv, ResolverTypeOK, Resolvers
  <2>2. Height(c) > 0 /\ Height(c)' = Height(c) - 1
    BY <1>4 DEF Close, Height, ContextInv, ResolverTypeOK
  <2>3. \A d \in Clients \ {c} : Height(d)' = Height(d)
    BY <1>4 DEF Close, Height, ContextInv, ResolverTypeOK
  <2>4. <<c, 1>> \in OpenContexts
    BY <1>a, <2>2, ContextsAre
  <2>5. /\ contexts' = contexts - 1 /\ base' = "system"
        /\ installed' = IF contexts' = 0 THEN "system" ELSE "dispatcher"
    BY <1>4, <1>a, <2>4 DEF Close, ContextInv
  <2> QED
    BY <1>a, <2>1, <2>2, <2>3, <2>5, OneLower DEF ContextInv
<1>5. CASE UNCHANGED resolverVars
  <2>1. \A d \in Clients : Height(d)' = Height(d)
    BY <1>5 DEF resolverVars, Height
  <2> QED
    BY <1>5, <2>1, SameHeights DEF resolverVars, ContextInv, ResolverTypeOK
<1> QED
  BY <1>1, <1>2, <1>3, <1>4, <1>5 DEF ResolverNext

\* The inductive invariant of the resolver: the counter is the number of the
\* contexts that are open.
THEOREM ContextInvariant == ResolverSpec => []ContextInv
BY ContextInit, ContextStep, PTL DEF ResolverSpec

\* In whatever order any number of threads nest and leave their contexts, each
\* resolves through the dispatcher inside, and the system resolver comes back
\* (scoped_getaddrinfo).
THEOREM ResolverIsScoped == ResolverSpec => []ResolverScoped
<1>1. ContextInv => ResolverScoped
  <2> SUFFICES ASSUME ContextInv PROVE ResolverScoped
    OBVIOUS
  <2>1. contexts = 0 <=> OpenContexts = {}
    BY FS_EmptySet DEF ContextInv
  <2>2. ASSUME NEW c \in Clients, stack[c] # <<>> PROVE installed = "dispatcher"
    <3>1. Len(stack[c]) > 0
      BY <2>2 DEF ContextInv, ResolverTypeOK
    <3>2. Height(c) \in Nat /\ Height(c) > 0
      BY <3>1, HeightNat DEF Height, ContextInv, ResolverTypeOK
    <3>3. <<c, 1>> \in OpenContexts
      BY <3>2, ContextsAre
    <3> QED
      BY <2>1, <3>3 DEF ContextInv
  <2>3. ASSUME \A c \in Clients : stack[c] = <<>> /\ step[c] = "none"
        PROVE  installed = "system"
    <3>1. \A c \in Clients : Height(c) = 0
      <4>1. Len(<<>>) = 0 /\ 0 + 0 = 0
        OBVIOUS
      <4>2. ASSUME NEW c \in Clients PROVE Height(c) = 0
        <5>1. Len(stack[c]) = 0 /\ step[c] = "none"
          BY <2>3, <4>1
        <5> QED
          BY <5>1 DEF Height
      <4> QED
        BY <4>2
    <3>2. OpenContexts = {}
      BY <3>1, ContextsAre
    <3> QED
      BY <2>1, <3>2 DEF ContextInv
  <2> QED
    BY <2>2, <2>3 DEF ResolverScoped, ContextInv
<1> QED
  BY <1>1, ContextInvariant, PTL

-----------------------------------------------------------------------------
(* Upkeep                                                                    *)

\* A sweep that has not ended is the one trigger knows.
CurrentInv == \A s \in Sweepers : sweep[s] # "none" => s = current

\* An alert about the stall that lasts leaves the flag set, and so does one
\* that is on its way out; a flag without an alert is one or the other.
WatchInv ==
  /\ told \in {0, 1} /\ (told = 1 => reported)
  /\ watch = "alerting" /\ ~beaten => reported /\ told = 0
  /\ reported /\ told = 0 /\ ~raced => watch = "alerting" /\ ~beaten

UpkeepInv == UpkeepTypeOK /\ CurrentInv /\ WatchInv

LEMMA UpkeepStart == UpkeepInit => UpkeepInv
<1> SUFFICES ASSUME UpkeepInit PROVE UpkeepInv
  OBVIOUS
<1>1. UpkeepTypeOK
  BY DEF UpkeepInit, UpkeepTypeOK
<1>2. CurrentInv
  BY DEF UpkeepInit, CurrentInv
<1>3. WatchInv
  BY DEF UpkeepInit, WatchInv
<1> QED
  BY <1>1, <1>2, <1>3 DEF UpkeepInv

LEMMA UpkeepStep == UpkeepInv /\ [UpkeepNext]_upkeepVars => UpkeepInv'
<1> SUFFICES ASSUME UpkeepInv, [UpkeepNext]_upkeepVars PROVE UpkeepInv'
  OBVIOUS
<1> USE DEF UpkeepInv, UpkeepTypeOK, CurrentInv, WatchInv, watchVars,
            sweepVars
<1>1. ASSUME NEW s \in Sweepers, Trigger(s) PROVE UpkeepInv'
  <2>1. \A r \in Sweepers : sweep[r] = "none"
    BY <1>1 DEF Trigger, Alive
  <2>2. /\ sweep' = [sweep EXCEPT ![s] = "running"] /\ current' = s
        /\ done' = FALSE /\ timer' = "armed"
        /\ UNCHANGED <<firing, late, upkeep, watchVars>>
    BY <1>1 DEF Trigger, StartSweep
  <2> QED
    BY <2>1, <2>2
<1>2. ASSUME NEW s \in Sweepers, SweepReports(s) PROVE UpkeepInv'
  BY <1>2 DEF SweepReports
<1>3. ASSUME NEW s \in Sweepers, SetDone(s) PROVE UpkeepInv'
  BY <1>3 DEF SetDone
<1>4. ASSUME NEW s \in Sweepers, CancelTimer(s) PROVE UpkeepInv'
  BY <1>4 DEF CancelTimer
<1>5. CASE TimerFires
  BY <1>5 DEF TimerFires
<1>6. CASE TimeoutTest
  BY <1>6 DEF TimeoutTest
<1>7. CASE TimeoutAlert
  BY <1>7 DEF TimeoutAlert
<1>8. CASE Beat
  <2>1. /\ stale' = FALSE /\ reported' = FALSE
        /\ beaten' = TRUE /\ told' = 0 /\ raced' = FALSE
        /\ UNCHANGED <<sweepVars, watch>>
    BY <1>8 DEF Beat
  <2>2. 0 # 1
    OBVIOUS
  <2> QED
    BY <2>1, <2>2
<1>9. CASE Age
  BY <1>9 DEF Age
<1>10. CASE CheckAge
  BY <1>10 DEF CheckAge
<1>11. CASE FlagStall
  <2>1. CASE reported
    BY <1>11, <2>1 DEF FlagStall
  <2>2. CASE ~reported
    <3>1. watch' = "alerting" /\ reported' = TRUE /\ raced' = beaten
          /\ UNCHANGED <<sweepVars, stale, beaten, told>>
      BY <1>11, <2>2 DEF FlagStall
    <3>2. told' = 0
      BY <2>2, <3>1
    <3> QED
      BY <3>1, <3>2
  <2> QED
    BY <2>1, <2>2
<1>12. CASE AlertStall
  <2>1. watch = "alerting" /\ watch' = "idle"
        /\ UNCHANGED <<sweepVars, stale, reported, beaten, raced>>
    BY <1>12 DEF AlertStall
  <2>2. CASE beaten
    <3>1. told' = told
      BY <1>12, <2>2 DEF AlertStall
    <3> QED
      BY <2>1, <2>2, <3>1
  <2>3. CASE ~beaten
    <3>1. reported /\ told' = 1
      BY <1>12, <2>1, <2>3 DEF AlertStall
    <3> QED
      BY <2>1, <2>3, <3>1
  <2> QED
    BY <2>2, <2>3
<1>13. CASE UNCHANGED upkeepVars
  BY <1>13 DEF upkeepVars
<1> QED
  BY <1>1, <1>2, <1>3, <1>4, <1>5, <1>6, <1>7, <1>8, <1>9, <1>10, <1>11, <1>12,
     <1>13 DEF UpkeepNext

\* The inductive invariant of the sweeps and the watchdog.
THEOREM UpkeepInvariant == UpkeepSpec => []UpkeepInv
BY UpkeepStart, UpkeepStep, PTL DEF UpkeepSpec

\* Two maintenance sweeps never overlap (_MaintenanceWorker.trigger).
THEOREM SweepsDoNotOverlap == UpkeepSpec => []OneSweep
<1>1. UpkeepInv => OneSweep
  BY DEF UpkeepInv, CurrentInv, OneSweep
<1> QED
  BY <1>1, UpkeepInvariant, PTL

\* A stall is alerted at most once, and one that is passed over has been
\* alerted unless a beat fell between the age and the flag
\* (RuntimeWatchdog._run and beat).
THEOREM StallReportedOnce == UpkeepSpec => []OneAlertPerStall
<1>1. UpkeepInv => OneAlertPerStall
  <2> SUFFICES ASSUME UpkeepInv PROVE OneAlertPerStall
    OBVIOUS
  <2>1. told \in {0, 1} /\ told <= 1
    BY DEF UpkeepInv, WatchInv
  <2>2. PassedOver => told = 1 \/ raced
    BY <2>1 DEF UpkeepInv, UpkeepTypeOK, WatchInv, PassedOver
  <2> QED
    BY <2>1, <2>2 DEF OneAlertPerStall
<1> QED
  BY <1>1, UpkeepInvariant, PTL
=============================================================================
