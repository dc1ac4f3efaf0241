---------------------------- MODULE MarketStream ----------------------------
(* MarketBookStream of market_stream.py with the two callbacks of            *)
(* _run_twap_tail_round: the stream thread keeps the paired books of one     *)
(* market from a websocket and hands every paired snapshot to record_book    *)
(* after it has released its lock; an error discards the books, and          *)
(* reset_books the observations, before the next connection. The venue, its  *)
(* books and the wire are the environment. The data watchdog is left out:    *)
(* the runner never arms it.                                                 *)
EXTENDS Integers, Sequences, SequencesExt

CONSTANTS
  Tokens,     \* the YES and NO tokens
  Levels,     \* price levels a side may hold
  ObsCap,     \* maxlen of the observations, 2048
  MaxSockets, \* bound: connections
  MaxChanges, \* bound: changes of the venue's books
  MaxTime     \* bound: steps of the clock

ASSUME MarketStreamAssumption ==
  /\ ObsCap \in Nat \ {0}
  /\ MaxSockets \in Nat /\ MaxChanges \in Nat /\ MaxTime \in Nat

VARIABLES
  venue,        \* the venue's book of each token
  seen,         \* the paired books since the connection (history)
  wire,         \* messages sent on this connection and not received
  owed,         \* tokens whose first snapshot is not sent yet
  at,           \* where the stream thread is
  books,        \* _books
  ready,        \* _ready
  snapshot,     \* the paired book built under the lock
  observations, \* the deque of the round
  clock,        \* the clock observed_at is read from
  stopping,     \* _stop
  sockets, changes \* (bounded)

streamVars == <<venue, seen, wire, owed, at, books, ready, snapshot,
                observations, clock, stopping, sockets, changes>>

Paired == [Tokens -> SUBSET Levels]
TokenBook == [initialized : BOOLEAN, levels : SUBSET Levels]
Observation == [observed : Nat, pair : Paired]
StreamMessage ==
  [kind : {"book"}, token : Tokens, levels : SUBSET Levels] \cup
  [kind : {"price_change"}, token : Tokens, level : Levels, size : {0, 1}]

MarketStreamTypeOK ==
  /\ venue \in Paired /\ seen \subseteq Paired
  /\ wire \in Seq(StreamMessage) /\ owed \subseteq Tokens
  /\ at \in {"reset", "on_reset", "connect", "receive", "on_book", "ended"}
  /\ books \in [Tokens -> TokenBook]
  /\ ready \in BOOLEAN /\ stopping \in BOOLEAN
  /\ snapshot \in Observation
  /\ observations \in Seq(Observation)
  /\ clock \in Nat /\ sockets \in Nat /\ changes \in Nat

Empty == [initialized |-> FALSE, levels |-> {}]
Books == [t \in Tokens |-> books[t].levels]

MarketStreamInit ==
  /\ venue = [t \in Tokens |-> {}] /\ seen = {}
  /\ wire = <<>> /\ owed = {}
  /\ at = "reset"
  /\ books = [t \in Tokens |-> Empty]
  /\ ready = FALSE
  /\ snapshot = [observed |-> 0, pair |-> [t \in Tokens |-> {}]]
  /\ observations = <<>>
  /\ clock = 0 /\ stopping = FALSE
  /\ sockets = 0 /\ changes = 0

-----------------------------------------------------------------------------
(* The stream thread                                                         *)

\* Mutation: the books of the old connection are kept.
ResetReadyOnly ==
  /\ at = "reset"
  /\ at' = "on_reset"
  /\ ready' = FALSE
  /\ UNCHANGED <<venue, seen, wire, owed, books, snapshot, observations, clock,
                 stopping, sockets, changes>>

\* _reset_books under the lock, and its callback after it.
ResetBooks ==
  /\ at = "reset"
  /\ at' = "on_reset"
  /\ books' = [t \in Tokens |-> Empty]
  /\ ready' = FALSE
  /\ UNCHANGED <<venue, seen, wire, owed, snapshot, observations, clock,
                 stopping, sockets, changes>>

OnReset ==
  /\ at = "on_reset"
  /\ at' = "connect"
  /\ observations' = <<>>
  /\ UNCHANGED <<venue, seen, wire, owed, books, ready, snapshot, clock,
                 stopping, sockets, changes>>

\* create_connection and the subscription to both tokens.
Connect ==
  /\ at = "connect" /\ ~stopping
  /\ sockets < MaxSockets
  /\ sockets' = sockets + 1
  /\ at' = "receive"
  /\ wire' = <<>>
  /\ owed' = Tokens
  /\ seen' = {venue}
  /\ UNCHANGED <<venue, books, ready, snapshot, observations, clock, stopping,
                 changes>>

\* A failed handshake, a closed or silent socket, an error while receiving.
Disconnect ==
  /\ at \in {"connect", "receive"} /\ ~(at = "connect" /\ stopping)
  /\ at' = "reset"
  /\ UNCHANGED <<venue, seen, wire, owed, books, ready, snapshot, observations,
                 clock, stopping, sockets, changes>>

\* close() ends the thread when it looks at _stop again.
EndStream ==
  /\ at \in {"connect", "receive"} /\ stopping
  /\ at' = "ended"
  /\ UNCHANGED <<venue, seen, wire, owed, books, ready, snapshot, observations,
                 clock, stopping, sockets, changes>>

\* The book after message m: a snapshot replaces it, a change is applied to
\* whatever is there.
Applied(m) ==
  IF m.kind = "book" THEN [initialized |-> TRUE, levels |-> m.levels]
  ELSE [books[m.token] EXCEPT !.levels =
          IF m.size = 0 THEN @ \ {m.level} ELSE @ \cup {m.level}]

\* process_message: applied under the lock; only a pair of initialized books
\* is ready and goes to the callback.
ProcessMessage ==
  /\ at = "receive" /\ ~stopping
  /\ wire # <<>>
  /\ wire' = Tail(wire)
  /\ books' = [books EXCEPT ![Head(wire).token] = Applied(Head(wire))]
  /\ IF \A t \in Tokens : books'[t].initialized
       THEN /\ ready' = TRUE
            /\ snapshot' = [observed |-> clock,
                            pair |-> [t \in Tokens |-> books'[t].levels]]
            /\ at' = "on_book"
       ELSE UNCHANGED <<ready, snapshot, at>>
  /\ UNCHANGED <<venue, seen, owed, observations, clock, stopping, sockets,
                 changes>>

Newer == observations = <<>> \/ snapshot.observed > Last(observations).observed

\* record_book: only a later observation is kept, and only so many of them.
RecordBook ==
  /\ at = "on_book"
  /\ at' = "receive"
  /\ observations' =
       IF ~Newer THEN observations
       ELSE Append(IF Len(observations) < ObsCap THEN observations
                   ELSE Tail(observations), snapshot)
  /\ UNCHANGED <<venue, seen, wire, owed, books, ready, snapshot, clock,
                 stopping, sockets, changes>>

-----------------------------------------------------------------------------
(* The round and the environment                                             *)

CloseStream ==
  /\ ~stopping
  /\ stopping' = TRUE
  /\ UNCHANGED <<venue, seen, wire, owed, at, books, ready, snapshot,
                 observations, clock, sockets, changes>>

Connected == at \in {"receive", "on_book"}

\* Changes are also made, and not sent, while nobody is connected.
VenueChanges(t) ==
  /\ changes < MaxChanges
  /\ changes' = changes + 1
  /\ \E l \in Levels, size \in {0, 1} :
       /\ venue' = [venue EXCEPT ![t] =
                      IF size = 0 THEN @ \ {l} ELSE @ \cup {l}]
       /\ wire' = IF Connected
                    THEN Append(wire, [kind |-> "price_change", token |-> t,
                                       level |-> l, size |-> size])
                    ELSE wire
  /\ seen' = seen \cup {venue'}
  /\ UNCHANGED <<owed, at, books, ready, snapshot, observations, clock,
                 stopping, sockets>>

VenueSnapshot(t) ==
  /\ Connected
  /\ t \in owed
  /\ owed' = owed \ {t}
  /\ wire' = Append(wire, [kind |-> "book", token |-> t, levels |-> venue[t]])
  /\ UNCHANGED <<venue, seen, at, books, ready, snapshot, observations, clock,
                 stopping, sockets, changes>>

StreamTick ==
  /\ clock < MaxTime
  /\ clock' = clock + 1
  /\ UNCHANGED <<venue, seen, wire, owed, at, books, ready, snapshot,
                 observations, stopping, sockets, changes>>

MarketStreamNext ==
  \/ ResetBooks \/ OnReset \/ Connect \/ Disconnect \/ EndStream
  \/ ProcessMessage \/ RecordBook \/ CloseStream \/ StreamTick
  \/ \E t \in Tokens : VenueChanges(t) \/ VenueSnapshot(t)

MarketStreamSpec == MarketStreamInit /\ [][MarketStreamNext]_streamVars

\* What the decision reads is a pair of books that stood together at the venue
\* during one connection, the one the round is connected to: neither a level
\* of the last connection nor a pair half of it gets past a reconnect.
QuotesFromOneConnection ==
  /\ \A k \in DOMAIN observations : observations[k].pair \in seen
  /\ ready => Books \in seen
=============================================================================
