----------------------------- MODULE Heartbeat ------------------------------
(* HeartbeatLoop of execution.py: the loop thread posts one heartbeat at a   *)
(* time through a request thread it waits for only so long, keeps the answer *)
(* that comes late for its next turn, and adopts the id of the answer, also  *)
(* the replacement id of a refusal. The venue is the environment: it ends    *)
(* sessions, and answers a request with the id that was current when it      *)
(* handled it, or not at all for a while.                                    *)
EXTENDS Integers, Sequences

CONSTANTS
  HardAge,      \* hard_failure_s in units of the model's clock
  StatusCap,    \* maxsize of the status queue, 64
  MaxSessions,  \* bound: sessions the venue opens
  MaxErrors     \* bound: requests that fail without an id

ASSUME HeartbeatAssumption ==
  /\ HardAge \in Nat \ {0}
  /\ StatusCap \in Nat \ {0}
  /\ MaxSessions \in Nat \ {0}
  /\ MaxErrors \in Nat

VARIABLES
  phase,       \* bootstrap, the background loop, or a bootstrap that raised
  turn,        \* where the loop is in its turn
  slot,        \* the request the loop owns: _request_thread, _request_done
  inFlight,    \* request threads inside the SDK call
  carried,     \* the id the last request carries
  answer,      \* its stored result or failure
  reply,       \* what the loop's turn returned or raised
  heartbeatId, \* _heartbeat_id, 0 for the empty string
  session,     \* the venue's current session
  age,         \* time since the last success, up to HardAge
  failures,    \* consecutive_failures, up to 2
  hadError,    \* had_error
  fatal,       \* _fatal_requested
  fatals,      \* fatal callbacks since the last success (history)
  overflow,    \* a status was lost since the last success (history)
  statuses,    \* _status_queue
  errors       \* requests that failed without an id (bounded)

beatVars == <<phase, turn, slot, inFlight, carried, answer, reply,
              heartbeatId, session, age, failures, hadError, fatal, fatals,
              overflow, statuses, errors>>

Ids == 0 .. MaxSessions
Answer == [ok : BOOLEAN, id : Ids]
NoAnswer == [ok |-> FALSE, id |-> 0]

HeartbeatTypeOK ==
  /\ phase \in {"boot", "run", "down"}
  /\ turn \in {"due", "waiting", "returned", "raised"}
  /\ slot \in {"none", "open", "answered"}
  /\ inFlight \in Nat
  /\ carried \in Ids /\ heartbeatId \in Ids
  /\ answer \in Answer /\ reply \in Answer
  /\ session \in 1 .. MaxSessions
  /\ age \in 0 .. HardAge
  /\ failures \in 0 .. 2
  /\ hadError \in BOOLEAN /\ fatal \in BOOLEAN /\ overflow \in BOOLEAN
  /\ fatals \in Nat
  /\ statuses \in Seq({"heartbeat_error", "heartbeat_recovered"})
  /\ Len(statuses) <= StatusCap
  /\ errors \in 0 .. MaxErrors

HeartbeatInit ==
  /\ phase = "boot" /\ turn = "due"
  /\ slot = "none" /\ inFlight = 0 /\ carried = 0
  /\ answer = NoAnswer /\ reply = NoAnswer
  /\ heartbeatId = 0 /\ session = 1
  /\ age = 0 /\ failures = 0 /\ hadError = FALSE
  /\ fatal = FALSE /\ fatals = 0 /\ overflow = FALSE
  /\ statuses = <<>> /\ errors = 0

-----------------------------------------------------------------------------
(* The request                                                               *)

\* _consume_request_locked frees the slot and returns or raises its content.
Consume ==
  /\ slot = "answered"
  /\ slot' = "none"
  /\ turn' = IF answer.ok THEN "returned" ELSE "raised"
  /\ reply' = answer
  /\ UNCHANGED <<inFlight, carried, answer>>

\* The turn raises a TimeoutError and leaves the request alone.
TimedOut ==
  /\ slot = "open"
  /\ turn' = "raised"
  /\ reply' = NoAnswer
  /\ UNCHANGED <<slot, inFlight, carried, answer>>

StartRequest ==
  /\ slot' = "open"
  /\ inFlight' = inFlight + 1
  /\ carried' = heartbeatId
  /\ answer' = NoAnswer
  /\ turn' = "waiting"
  /\ UNCHANGED reply

\* Mutation: a new request is started while the old one is still in flight.
PostAgain ==
  /\ phase # "down"
  /\ turn = "due"
  /\ IF slot = "answered" THEN Consume ELSE StartRequest
  /\ UNCHANGED <<phase, heartbeatId, session, age, failures, hadError, fatal,
                 fatals, overflow, statuses, errors>>

\* _post_heartbeat_bounded: a request still in flight raises, one that was
\* answered late is consumed, otherwise a new one starts.
Post ==
  /\ phase # "down"
  /\ turn = "due"
  /\ \/ slot = "none" /\ StartRequest
     \/ Consume
     \/ TimedOut
  /\ UNCHANGED <<phase, heartbeatId, session, age, failures, hadError, fatal,
                 fatals, overflow, statuses, errors>>

\* done.wait returns, or gives up after call_timeout_s.
Wait ==
  /\ turn = "waiting"
  /\ Consume \/ TimedOut
  /\ UNCHANGED <<phase, heartbeatId, session, age, failures, hadError, fatal,
                 fatals, overflow, statuses, errors>>

-----------------------------------------------------------------------------
(* What the loop makes of it                                                 *)

Adopt(id) == heartbeatId' = IF id # 0 THEN id ELSE heartbeatId

\* _notify_status never blocks; a full queue is a fatal fault of its own.
Lost(kinds) == kinds # <<>> /\ Len(statuses) >= StatusCap
\* Mutation: the queue grows past its limit.
NotifiedAlways(kinds) ==
  /\ statuses' = statuses \o kinds

Notified(kinds) ==
  /\ statuses' = IF Lost(kinds) THEN statuses ELSE statuses \o kinds

\* _request_fatal: the callback runs once until a success clears the latch.
Latch(latched, count, want) ==
  /\ fatal' = (latched \/ want)
  /\ fatals' = IF want /\ ~latched THEN count + 1 ELSE count

Success ==
  /\ turn = "returned"
  /\ turn' = "due"
  /\ phase' = "run"
  /\ Adopt(reply.id)
  /\ failures' = 0 /\ age' = 0 /\ hadError' = FALSE
  /\ LET kinds == IF hadError \/ phase = "boot"
                    THEN <<"heartbeat_recovered">> ELSE <<>> IN
     /\ Notified(kinds)
     /\ overflow' = Lost(kinds)
     /\ Latch(FALSE, 0, Lost(kinds))
  /\ UNCHANGED <<slot, inFlight, carried, answer, reply, session, errors>>

Fails == IF failures < 2 THEN failures + 1 ELSE 2

BootstrapFailure ==
  /\ phase = "boot"
  /\ turn = "raised"
  /\ turn' = "due"
  /\ failures' = Fails
  /\ Adopt(reply.id)
  /\ Latch(fatal, fatals, age = HardAge)
  /\ phase' = IF age = HardAge THEN "down" ELSE "boot"
  /\ UNCHANGED <<slot, inFlight, carried, answer, reply, session, age, hadError,
                 overflow, statuses, errors>>

\* Mutation: any second failure is hard, however recent the last success.
HardFailureEarly == slot = "open" \/ Fails = 2

\* A failure is hard after hard_failure_s without success, and then only with
\* the request in flight or at the second failure.
HardFailure == age = HardAge /\ (slot = "open" \/ Fails = 2)

\* Mutation: the replacement id of a refusal is not adopted.
FailureKeepsId ==
  /\ phase = "run"
  /\ turn = "raised"
  /\ turn' = "due"
  /\ failures' = Fails
  /\ hadError' = TRUE
  /\ Notified(IF hadError THEN <<>> ELSE <<"heartbeat_error">>)
  /\ Latch(fatal, fatals, HardFailure)
  /\ UNCHANGED <<phase, slot, inFlight, carried, answer, reply, heartbeatId,
                 session, age, overflow, errors>>

Failure ==
  /\ phase = "run"
  /\ turn = "raised"
  /\ turn' = "due"
  /\ failures' = Fails
  /\ Adopt(reply.id)
  /\ hadError' = TRUE
  /\ LET kinds == IF hadError THEN <<>> ELSE <<"heartbeat_error">> IN
     /\ Notified(kinds)
     /\ overflow' = (overflow \/ Lost(kinds))
     /\ Latch(fatal, fatals, Lost(kinds) \/ HardFailure)
  /\ UNCHANGED <<phase, slot, inFlight, carried, answer, reply, session, age,
                 errors>>

\* _status_worker hands one status to the runner.
StatusWorker ==
  /\ statuses # <<>>
  /\ statuses' = Tail(statuses)
  /\ UNCHANGED <<phase, turn, slot, inFlight, carried, answer, reply,
                 heartbeatId, session, age, failures, hadError, fatal, fatals,
                 overflow, errors>>

-----------------------------------------------------------------------------
(* The environment                                                           *)

\* The venue handles a request: the current id is acknowledged, an empty one
\* may open the session or be refused with the id to use, any other is refused.
VenueAnswers ==
  /\ inFlight > 0
  /\ inFlight' = inFlight - 1
  /\ slot' = "answered"
  /\ \/ /\ carried \in {0, session}
        /\ answer' = [ok |-> TRUE, id |-> session]
        /\ UNCHANGED errors
     \/ /\ carried # session
        /\ answer' = [ok |-> FALSE, id |-> session]
        /\ UNCHANGED errors
     \/ /\ errors < MaxErrors
        /\ errors' = errors + 1
        /\ answer' = NoAnswer
  /\ UNCHANGED <<phase, turn, carried, reply, heartbeatId, session, age,
                 failures, hadError, fatal, fatals, overflow, statuses>>

VenueExpires ==
  /\ session < MaxSessions
  /\ session' = session + 1
  /\ UNCHANGED <<phase, turn, slot, inFlight, carried, answer, reply,
                 heartbeatId, age, failures, hadError, fatal, fatals, overflow,
                 statuses, errors>>

Tick ==
  /\ age < HardAge
  /\ age' = age + 1
  /\ UNCHANGED <<phase, turn, slot, inFlight, carried, answer, reply,
                 heartbeatId, session, failures, hadError, fatal, fatals,
                 overflow, statuses, errors>>

HeartbeatNext ==
  \/ Post \/ Wait \/ Success \/ BootstrapFailure \/ Failure \/ StatusWorker
  \/ VenueAnswers \/ VenueExpires \/ Tick

HeartbeatSpec == HeartbeatInit /\ [][HeartbeatNext]_beatVars

-----------------------------------------------------------------------------
\* The account heartbeat never has two SDK calls in flight, however late the
\* venue answers: overlapping calls would race their heartbeat ids.
OneHeartbeatInFlight == inFlight <= 1

\* The fatal alert comes at most once per outage, and only after the hard
\* failure age, unless a status was lost on a full queue: a slow answer that
\* still arrives never raises it.
FatalOncePerOutage ==
  /\ fatals <= 1
  /\ fatal => age = HardAge \/ overflow

\* A session the venue has replaced is left: a running loop comes back to the
\* current id and never repeats an expired one for ever, whatever answers are
\* late or lost on the way.
ExpiredSessionRecovers ==
  (phase = "run" /\ heartbeatId # session) ~> (heartbeatId = session)
=============================================================================
