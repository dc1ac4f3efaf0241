---------------------------- MODULE AlertsProofs ----------------------------
(* What holds of the outbox, its sender and the supervision, for any number  *)
(* of threads, components, rows, faults and boots. Shape is the type and the *)
(* shape of the shared state: whose ids are rows, what the sender holds in   *)
(* each of its states, and that a stopped process keeps nothing in memory.   *)
(* Every step keeps the rows (KeepsRows): it never changes whose they are,   *)
(* and a row that is no longer pending stays so. The theorems rest on it.    *)
EXTENDS Alerts, TLAPS

USE OutboxAssumption, AlertsAssumption

Steps == {"idle", "fallback", "persist", "queue", "put"}
SenderSteps == {"idle", "read", "send", "ack", "nack", "release", "scan"}

StoreOK ==
  /\ health \in [Components -> {"none", "healthy", "unhealthy"}]
  /\ outbox \in Seq(Row) /\ Len(outbox) <= MaxRows
  /\ firstRow \in Nat \ {0} /\ firstRow <= Len(outbox) + 1
  /\ lastSent \in [Origins -> 0 .. MaxRows]
  /\ faults \in 0 .. MaxFaults

\* Ids are those of rows; the sender has a row while it reads or marks one.
MemoryOK ==
  /\ registered \in BOOLEAN /\ up \in BOOLEAN
  /\ pc \in [Actors -> Steps]
  /\ msg \in [Actors -> Message]
  /\ queue \in Seq(Message)
  /\ task \in Message
  /\ sender \in SenderSteps
  /\ degraded \subseteq Origins
  /\ queued \subseteq Rows /\ todo \subseteq Rows
  /\ \A k \in DOMAIN queue : queue[k].id \in {0} \cup Rows
  /\ \A t \in Actors : msg[t].id \in {0} \cup Rows
  /\ task.id \in {0} \cup Rows
  /\ sender \in {"read", "ack", "nack"} => task.id # 0
  /\ sender \in {"idle", "scan"} => task.id = 0

RestartOK ==
  /\ diag \in {"none", "marking", "alerting", "done"}
  /\ wedged \in BOOLEAN /\ grace \in BOOLEAN /\ requested \in BOOLEAN
  /\ exiting \in Nat
  /\ boots \in 0 .. MaxBoots

\* What a process that has stopped holds: nothing.
StoppedClean ==
  ~up => /\ sender = "idle" /\ diag = "none" /\ exiting = 0 /\ ~requested
         /\ \A t \in Actors : pc[t] = "idle"

Shape == StoreOK /\ MemoryOK /\ RestartOK /\ StoppedClean

KeepsRows ==
  /\ outbox' \in Seq(Row) /\ Len(outbox') <= MaxRows
  /\ Len(outbox) <= Len(outbox') /\ Rows \subseteq Rows'
  /\ \A i \in Rows : /\ outbox'[i].about = outbox[i].about
                     /\ outbox'[i].component = outbox[i].component
                     /\ outbox'[i].kind = outbox[i].kind
                     /\ Pending(i)' => Pending(i)

LEMMA ActorsOf == Threads \subseteq Actors /\ Sender \in Actors /\ Loop \in Actors
BY DEF Actors

LEMMA BlankIsMessage == Blank \in Message /\ Blank.id = 0
BY DEF Blank, Message, Origins, Kinds

\* A name under which a row may be stored.
LEMMA NamesOf ==
  /\ Components \subseteq Origins /\ Edgeless \subseteq Origins
  /\ Origins \subseteq Names
  /\ \A c \in Origins : RowNames(c) \subseteq Names
BY DEF Origins, Names, RowNames

\* Rows are numbered from 1; the table grows at its end.
LEMMA AppendRow ==
  ASSUME StoreOK, NEW name \in Names, NEW c \in Origins, NEW kind \in Kinds,
         Len(outbox) < MaxRows,
         outbox' = Append(outbox, NewRow(name, c, kind))
  PROVE  /\ KeepsRows
         /\ Rows = 1 .. Len(outbox) /\ Len(outbox) \in Nat
         /\ Rows' = Rows \cup {Len(outbox) + 1} /\ Len(outbox) + 1 \notin Rows
         /\ \A i \in Rows : outbox'[i] = outbox[i]
         /\ outbox'[Len(outbox) + 1] = NewRow(name, c, kind)
         /\ Len(outbox) + 1 \in 1 .. MaxRows
<1> DEFINE n == Len(outbox)
<1>1. outbox \in Seq(Row) /\ n \in Nat /\ DOMAIN outbox = 1 .. n
      /\ MaxRows \in Nat /\ n < MaxRows
  BY DEF StoreOK
<1>2. NewRow(name, c, kind) \in Row
  BY DEF NewRow, Row
<1> HIDE DEF NewRow
<1>3. /\ outbox' \in Seq(Row) /\ Len(outbox') = n + 1
      /\ DOMAIN outbox' = 1 .. n + 1
      /\ \A i \in 1 .. n : outbox'[i] = outbox[i]
      /\ outbox'[n + 1] = NewRow(name, c, kind)
  BY <1>1, <1>2
<1> HIDE DEF n
<1>4. 1 .. n + 1 = (1 .. n) \cup {n + 1} /\ n + 1 \notin 1 .. n
      /\ n + 1 \in 1 .. MaxRows
  BY <1>1
<1>5. \A i \in Rows : outbox'[i] = outbox[i]
  BY <1>1, <1>3 DEF Rows
<1>6. KeepsRows
  BY <1>1, <1>3, <1>4, <1>5 DEF KeepsRows, Rows, Pending
<1> QED
  BY <1>1, <1>3, <1>4, <1>5, <1>6 DEF Rows, n

\* One row changes, but not whose it is, and it does not become pending again.
LEMMA ChangeRow ==
  ASSUME StoreOK, NEW i \in Rows, NEW row \in Row,
         outbox' = [outbox EXCEPT ![i] = row],
         row.about = outbox[i].about, row.component = outbox[i].component,
         row.kind = outbox[i].kind,
         row.status = "pending" => Pending(i)
  PROVE  /\ KeepsRows /\ Rows' = Rows /\ outbox'[i] = row
         /\ \A j \in Rows : j # i => outbox'[j] = outbox[j]
<1>1. outbox \in Seq(Row) /\ Len(outbox) <= MaxRows
  BY DEF StoreOK
<1>2. outbox' \in Seq(Row) /\ Len(outbox') = Len(outbox)
      /\ DOMAIN outbox' = DOMAIN outbox
  BY <1>1 DEF Rows
<1>3. outbox'[i] = row /\ \A j \in Rows : j # i => outbox'[j] = outbox[j]
  BY DEF Rows
<1> QED
  BY <1>1, <1>2, <1>3 DEF KeepsRows, Rows, Pending

LEMMA SameRows ==
  ASSUME StoreOK, outbox' = outbox
  PROVE  KeepsRows /\ Rows' = Rows
BY DEF KeepsRows, Rows, StoreOK, Pending

\* A row of the store.
LEMMA RowType ==
  ASSUME StoreOK, NEW i \in Rows
  PROVE  outbox[i] \in Row /\ i \in 1 .. MaxRows /\ i \in Nat
<1>1. outbox \in Seq(Row) /\ Len(outbox) \in Nat /\ Len(outbox) <= MaxRows
      /\ i \in 1 .. Len(outbox)
  BY DEF StoreOK, Rows
<1> QED
  BY <1>1

-----------------------------------------------------------------------------
(* The shape is kept                                                         *)

\* A thread goes on to another step of its report, with another message.
LEMMA ActorStep ==
  ASSUME MemoryOK, Rows \subseteq Rows', NEW t \in Actors, NEW s \in Steps,
         NEW m \in Message, m.id \in {0} \cup Rows',
         pc' = [pc EXCEPT ![t] = s], msg' = [msg EXCEPT ![t] = m]
  PROVE  /\ pc' \in [Actors -> Steps] /\ msg' \in [Actors -> Message]
         /\ \A u \in Actors : msg'[u].id \in {0} \cup Rows'
         /\ pc'[t] = s /\ msg'[t] = m
         /\ \A u \in Actors : u # t => pc'[u] = pc[u] /\ msg'[u] = msg[u]
BY DEF MemoryOK

LEMMA ActorDone ==
  ASSUME MemoryOK, Rows \subseteq Rows', NEW t \in Actors, Done(t)
  PROVE  /\ pc' \in [Actors -> Steps] /\ msg' \in [Actors -> Message]
         /\ \A u \in Actors : msg'[u].id \in {0} \cup Rows'
         /\ pc'[t] = "idle" /\ msg'[t] = Blank
         /\ \A u \in Actors : u # t => pc'[u] = pc[u] /\ msg'[u] = msg[u]
<1>1. "idle" \in Steps /\ pc' = [pc EXCEPT ![t] = "idle"]
      /\ msg' = [msg EXCEPT ![t] = Blank]
  BY DEF Done, Steps
<1> QED
  BY <1>1, BlankIsMessage, ActorStep

\* What is left of MemoryOK when the sender and its queue stand still.
LEMMA SenderStill ==
  ASSUME MemoryOK, Rows \subseteq Rows',
         pc' \in [Actors -> Steps], msg' \in [Actors -> Message],
         \A t \in Actors : msg'[t].id \in {0} \cup Rows',
         registered' \in BOOLEAN, degraded' \subseteq Origins,
         UNCHANGED <<queue, queued, sender, task, todo, up>>
  PROVE  MemoryOK'
BY DEF MemoryOK

LEMMA FaultOK == ASSUME StoreOK, Fault PROVE faults' \in 0 .. MaxFaults
BY DEF StoreOK, Fault

LEMMA TransitionShape ==
  ASSUME StoreOK, MemoryOK, NEW t \in Actors, NEW c \in Components,
         NEW kind \in Kinds, NEW force \in BOOLEAN, Transition(t, c, kind, force)
  PROVE  StoreOK' /\ MemoryOK' /\ KeepsRows
<1>1. /\ health' = [health EXCEPT ![c] = StatusOf(kind)]
      /\ UNCHANGED <<firstRow, queue, queued, registered, sender, task, todo,
                     degraded, lastSent, faults, up>>
  BY DEF Transition
<1>2. health' \in [Components -> {"none", "healthy", "unhealthy"}]
  <2>1. StatusOf(kind) \in {"healthy", "unhealthy"}
    BY DEF StatusOf
  <2> QED
    BY <1>1, <2>1 DEF StoreOK
<1>3. CASE Transitioned(c, kind) \/ force
  <2> DEFINE n == Len(outbox) + 1
             m == [about |-> c, kind |-> kind, id |-> n, force |-> FALSE]
  <2>1. /\ Len(outbox) < MaxRows /\ outbox' = Append(outbox, NewRow(c, c, kind))
        /\ pc' = [pc EXCEPT ![t] = "queue"] /\ msg' = [msg EXCEPT ![t] = m]
    BY <1>3 DEF Transition
  <2>2. c \in Origins /\ c \in Names /\ "queue" \in Steps
    BY NamesOf DEF Steps
  <2>3. KeepsRows /\ Rows' = Rows \cup {n} /\ n \in 1 .. MaxRows
    BY <2>1, <2>2, AppendRow
  <2> HIDE DEF n
  <2>4. m \in Message /\ m.id = n
    BY <2>2, <2>3 DEF Message
  <2> HIDE DEF m
  <2>5. StoreOK'
    BY <1>1, <1>2, <2>3 DEF StoreOK, KeepsRows
  <2>6. /\ pc' \in [Actors -> Steps] /\ msg' \in [Actors -> Message]
        /\ \A u \in Actors : msg'[u].id \in {0} \cup Rows'
    BY <2>1, <2>2, <2>3, <2>4, ActorStep DEF KeepsRows
  <2>7. MemoryOK'
    BY <1>1, <2>3, <2>6, SenderStill DEF MemoryOK
  <2> QED
    BY <2>3, <2>5, <2>7
<1>4. CASE ~(Transitioned(c, kind) \/ force)
  <2>1. UNCHANGED <<outbox, pc, msg>>
    BY <1>4 DEF Transition
  <2>2. KeepsRows /\ Rows' = Rows
    BY <2>1, SameRows
  <2>3. StoreOK'
    BY <1>1, <1>2, <2>1 DEF StoreOK
  <2>4. MemoryOK'
    BY <1>1, <2>1, <2>2 DEF MemoryOK
  <2> QED
    BY <2>2, <2>3, <2>4
<1> QED
  BY <1>3, <1>4

LEMMA TransitionFailsShape ==
  ASSUME StoreOK, MemoryOK, NEW t \in Actors, NEW c \in Components,
         NEW kind \in Kinds, NEW force \in BOOLEAN,
         TransitionFails(t, c, kind, force)
  PROVE  StoreOK' /\ MemoryOK' /\ KeepsRows
<1> DEFINE m == [about |-> c, kind |-> kind, id |-> 0, force |-> force]
<1>1. /\ Fault /\ degraded' = degraded \cup {c}
      /\ pc' = [pc EXCEPT ![t] = "fallback"] /\ msg' = [msg EXCEPT ![t] = m]
      /\ UNCHANGED <<health, outbox, firstRow, queue, queued, registered, sender,
                     task, todo, lastSent, up>>
  BY DEF TransitionFails
<1>2. c \in Origins /\ "fallback" \in Steps /\ MaxRows \in Nat
  BY DEF Origins, Steps
<1>3. m \in Message /\ m.id = 0
  BY <1>2 DEF Message
<1> HIDE DEF m
<1>4. KeepsRows /\ Rows' = Rows
  BY <1>1, SameRows
<1>5. StoreOK'
  BY <1>1, FaultOK DEF StoreOK
<1>6. MemoryOK'
  <2>1. /\ pc' \in [Actors -> Steps] /\ msg' \in [Actors -> Message]
        /\ \A u \in Actors : msg'[u].id \in {0} \cup Rows'
    BY <1>1, <1>2, <1>3, <1>4, ActorStep
  <2> QED
    BY <1>1, <1>2, <1>4, <2>1, SenderStill DEF MemoryOK
<1> QED
  BY <1>4, <1>5, <1>6

LEMMA NotifyShape ==
  ASSUME StoreOK, MemoryOK, NEW t \in Actors, NEW c \in Edgeless, Notify(t, c)
  PROVE  StoreOK' /\ MemoryOK' /\ KeepsRows
<1> DEFINE m == [about |-> c, kind |-> "alert", id |-> 0, force |-> FALSE]
<1>1. /\ pc' = [pc EXCEPT ![t] = "persist"] /\ msg' = [msg EXCEPT ![t] = m]
      /\ UNCHANGED <<health, outbox, firstRow, queue, queued, registered, sender,
                     task, todo, degraded, lastSent, faults, up>>
  BY DEF Notify
<1>2. "persist" \in Steps /\ m \in Message /\ m.id = 0
  BY DEF Steps, Message, Origins, Kinds
<1> HIDE DEF m
<1>3. KeepsRows /\ Rows' = Rows
  BY <1>1, SameRows
<1>4. StoreOK'
  BY <1>1 DEF StoreOK
<1>5. /\ pc' \in [Actors -> Steps] /\ msg' \in [Actors -> Message]
      /\ \A u \in Actors : msg'[u].id \in {0} \cup Rows'
  BY <1>1, <1>2, <1>3, ActorStep
<1> QED
  BY <1>1, <1>3, <1>4, <1>5, SenderStill DEF MemoryOK

LEMMA UnhealthyShape ==
  ASSUME StoreOK, MemoryOK, NEW t \in Actors, NEW c \in AssetHealth,
         MarkUnhealthy(t, c)
  PROVE  StoreOK' /\ MemoryOK' /\ KeepsRows
<1>1. /\ health' = [health EXCEPT ![c] = "unhealthy"]
      /\ UNCHANGED <<outbox, firstRow, queue, queued, registered, pc, msg,
                     sender, task, todo, degraded, lastSent, faults, up>>
  BY DEF MarkUnhealthy
<1>2. KeepsRows /\ Rows' = Rows
  BY <1>1, SameRows
<1>3. StoreOK'
  BY <1>1, <1>2 DEF StoreOK
<1>4. MemoryOK'
  BY <1>1, <1>2 DEF MemoryOK
<1> QED
  BY <1>2, <1>3, <1>4

LEMMA FallbackShape ==
  ASSUME StoreOK, MemoryOK, NEW t \in Actors, FallbackMark(t)
  PROVE  StoreOK' /\ MemoryOK' /\ KeepsRows
<1>1. UNCHANGED <<outbox, firstRow, queue, queued, registered, sender, task,
                  todo, degraded, lastSent, up>>
  BY DEF FallbackMark
<1>2. KeepsRows /\ Rows' = Rows
  BY <1>1, SameRows
<1>3. PICK wanted \in BOOLEAN :
        /\ NotifyIf(t, wanted)
        /\ \/ Fault /\ UNCHANGED health
           \/ /\ health' = [health EXCEPT ![msg[t].about] =
                              StatusOf(msg[t].kind)]
              /\ UNCHANGED faults
  <2>1. (Transitioned(msg[t].about, msg[t].kind) \/ msg[t].force) \in BOOLEAN
    OBVIOUS
  <2>2. msg[t].force \in BOOLEAN
    BY DEF MemoryOK, Message
  <2> QED
    BY <2>1, <2>2 DEF FallbackMark
<1>4. StoreOK'
  <2>1. StatusOf(msg[t].kind) \in {"healthy", "unhealthy"}
    BY DEF StatusOf
  <2>2. health' \in [Components -> {"none", "healthy", "unhealthy"}]
    BY <1>3, <2>1 DEF StoreOK
  <2> QED
    BY <1>1, <1>3, <2>2, FaultOK DEF StoreOK
<1>5. /\ pc' \in [Actors -> Steps] /\ msg' \in [Actors -> Message]
      /\ \A u \in Actors : msg'[u].id \in {0} \cup Rows'
  <2>1. CASE wanted
    <3>1. pc' = [pc EXCEPT ![t] = "persist"] /\ msg' = msg /\ "persist" \in Steps
      BY <1>3, <2>1 DEF NotifyIf, Steps
    <3> QED
      BY <1>2, <3>1 DEF MemoryOK
  <2>2. CASE ~wanted
    BY <1>2, <1>3, <2>2, ActorDone DEF NotifyIf
  <2> QED
    BY <2>1, <2>2
<1> QED
  BY <1>1, <1>2, <1>4, <1>5, SenderStill DEF MemoryOK

LEMMA PersistShape ==
  ASSUME StoreOK, MemoryOK, NEW t \in Actors, Persist(t)
  PROVE  StoreOK' /\ MemoryOK' /\ KeepsRows
<1> DEFINE c == msg[t].about
           kind == msg[t].kind
           n == Len(outbox) + 1
<1>0. c \in Origins /\ kind \in Kinds /\ msg[t] \in Message
  BY DEF MemoryOK, Message
<1>1. /\ pc' = [pc EXCEPT ![t] = "queue"] /\ "queue" \in Steps
      /\ UNCHANGED <<health, firstRow, queue, queued, registered, sender, task,
                     todo, lastSent, up>>
  BY DEF Persist, Steps
<1>2. ASSUME Len(outbox) < MaxRows, NEW name \in RowNames(c),
             outbox' = Append(outbox, NewRow(name, c, kind)),
             msg' = [msg EXCEPT ![t].id = n], UNCHANGED <<degraded, faults>>
      PROVE  StoreOK' /\ MemoryOK' /\ KeepsRows
  <2> DEFINE m == [msg[t] EXCEPT !.id = n]
  <2> HIDE DEF c, kind
  <2>1. KeepsRows /\ Rows' = Rows \cup {n} /\ n \in 1 .. MaxRows
    BY <1>0, <1>2, NamesOf, AppendRow
  <2> HIDE DEF n
  <2>2. m \in Message /\ m.id = n
    BY <1>0, <2>1 DEF Message
  <2>3. msg' = [msg EXCEPT ![t] = m]
    BY <1>2
  <2> HIDE DEF m
  <2>4. StoreOK'
    BY <1>1, <1>2, <2>1 DEF StoreOK, KeepsRows
  <2>5. /\ pc' \in [Actors -> Steps] /\ msg' \in [Actors -> Message]
        /\ \A u \in Actors : msg'[u].id \in {0} \cup Rows'
    BY <1>1, <2>1, <2>2, <2>3, ActorStep DEF KeepsRows
  <2> QED
    BY <1>1, <1>2, <2>1, <2>4, <2>5, SenderStill DEF MemoryOK
<1>3. CASE Fault /\ degraded' = degraded \cup {c} /\ UNCHANGED <<outbox, msg>>
  <2> HIDE DEF c, kind
  <2>1. KeepsRows /\ Rows' = Rows
    BY <1>3, SameRows
  <2>2. StoreOK'
    BY <1>1, <1>3, FaultOK DEF StoreOK
  <2>3. /\ pc' \in [Actors -> Steps] /\ msg' \in [Actors -> Message]
        /\ \A u \in Actors : msg'[u].id \in {0} \cup Rows'
    BY <1>1, <1>3, <2>1 DEF MemoryOK
  <2> QED
    BY <1>0, <1>1, <1>3, <2>1, <2>2, <2>3, SenderStill DEF MemoryOK
<1> QED
  BY <1>2, <1>3 DEF Persist

LEMMA QueueAddShape ==
  ASSUME StoreOK, MemoryOK, NEW t \in Actors, QueueAdd(t)
  PROVE  StoreOK' /\ MemoryOK' /\ KeepsRows
<1>1. /\ registered' = TRUE
      /\ UNCHANGED <<health, outbox, firstRow, queue, sender, task, todo,
                     degraded, lastSent, faults, up>>
  BY DEF QueueAdd
<1>2. KeepsRows /\ Rows' = Rows
  BY <1>1, SameRows
<1>3. StoreOK'
  BY <1>1 DEF StoreOK
<1>4. /\ pc' \in [Actors -> Steps] /\ msg' \in [Actors -> Message]
      /\ \A u \in Actors : msg'[u].id \in {0} \cup Rows'
      /\ queued' \subseteq Rows'
  <2>1. CASE msg[t].id \in queued
    <3>1. Done(t) /\ queued' = queued
      BY <2>1 DEF QueueAdd
    <3> QED
      BY <1>2, <3>1, ActorDone DEF MemoryOK
  <2>2. CASE msg[t].id \notin queued
    <3>1. /\ pc' = [pc EXCEPT ![t] = "put"] /\ "put" \in Steps
          /\ queued' = queued \cup ({msg[t].id} \ {0}) /\ msg' = msg
      BY <2>2 DEF QueueAdd, Steps
    <3>2. msg[t].id \in {0} \cup Rows
      BY DEF MemoryOK
    <3> QED
      BY <1>2, <3>1, <3>2 DEF MemoryOK
  <2> QED
    BY <2>1, <2>2
<1> QED
  BY <1>1, <1>2, <1>3, <1>4 DEF MemoryOK

\* A queue of messages with one more at its end, or without its first.
LEMMA QueueGrows ==
  ASSUME MemoryOK, NEW m \in Message, m.id \in {0} \cup Rows,
         queue' = Append(queue, m), Rows' = Rows
  PROVE  /\ queue' \in Seq(Message) /\ Len(queue) \in Nat
         /\ DOMAIN queue' = DOMAIN queue \cup {Len(queue) + 1}
         /\ \A k \in DOMAIN queue : queue'[k] = queue[k]
         /\ queue'[Len(queue) + 1] = m
         /\ \A k \in DOMAIN queue' : queue'[k].id \in {0} \cup Rows'
<1> DEFINE n == Len(queue)
<1>1. queue \in Seq(Message) /\ n \in Nat /\ DOMAIN queue = 1 .. n
  BY DEF MemoryOK
<1>2. /\ queue' \in Seq(Message) /\ DOMAIN queue' = 1 .. n + 1
      /\ \A k \in 1 .. n : queue'[k] = queue[k]
      /\ queue'[n + 1] = m
  BY <1>1
<1> HIDE DEF n
<1>3. 1 .. n + 1 = (1 .. n) \cup {n + 1}
  BY <1>1
<1>4. \A k \in DOMAIN queue : queue[k].id \in {0} \cup Rows
  BY DEF MemoryOK
<1>5. \A k \in DOMAIN queue' : queue'[k].id \in {0} \cup Rows'
  BY <1>1, <1>2, <1>3, <1>4
<1> QED
  BY <1>1, <1>2, <1>3, <1>5 DEF n

LEMMA QueueShrinks ==
  ASSUME MemoryOK, queue # <<>>, queue' = Tail(queue), Rows' = Rows
  PROVE  /\ Head(queue) = queue[1] /\ 1 \in DOMAIN queue
         /\ queue[1] \in Message /\ queue[1].id \in {0} \cup Rows
         /\ queue' \in Seq(Message)
         /\ \A k \in DOMAIN queue : k # 1 => \E l \in DOMAIN queue' :
              queue'[l] = queue[k]
         /\ \A k \in DOMAIN queue' : queue'[k].id \in {0} \cup Rows'
<1> DEFINE n == Len(queue)
<1>1. queue \in Seq(Message) /\ n \in Nat /\ n > 0 /\ DOMAIN queue = 1 .. n
      /\ Head(queue) = queue[1]
  BY DEF MemoryOK
<1>2. /\ queue' \in Seq(Message) /\ Len(queue') = n - 1
      /\ \A k \in 1 .. n - 1 : queue'[k] = queue[k + 1]
  BY <1>1
<1>3. DOMAIN queue' = 1 .. n - 1
  BY <1>1, <1>2
<1> HIDE DEF n
<1>4. \A k \in DOMAIN queue : queue[k].id \in {0} \cup Rows
  BY DEF MemoryOK
<1>5. 1 \in DOMAIN queue /\ queue[1] \in Message
  BY <1>1
<1>6. \A k \in 1 .. n - 1 : k + 1 \in 1 .. n
  BY <1>1
<1>7. \A k \in DOMAIN queue' : queue'[k].id \in {0} \cup Rows'
  BY <1>1, <1>2, <1>3, <1>4, <1>6
<1>8. ASSUME NEW k \in DOMAIN queue, k # 1
      PROVE  \E l \in DOMAIN queue' : queue'[l] = queue[k]
  <2>1. k - 1 \in 1 .. n - 1 /\ (k - 1) + 1 = k
    BY <1>1, <1>8
  <2> QED
    BY <1>2, <1>3, <2>1
<1> QED
  BY <1>1, <1>2, <1>4, <1>5, <1>7, <1>8

LEMMA QueuePutShape ==
  ASSUME StoreOK, MemoryOK, NEW t \in Actors, QueuePut(t)
  PROVE  StoreOK' /\ MemoryOK' /\ KeepsRows
<1>1. /\ Done(t)
      /\ UNCHANGED <<health, outbox, firstRow, registered, sender, task, todo,
                     degraded, lastSent, faults, up>>
  BY DEF QueuePut
<1>2. KeepsRows /\ Rows' = Rows
  BY <1>1, SameRows
<1>3. StoreOK'
  BY <1>1 DEF StoreOK
<1>4. /\ pc' \in [Actors -> Steps] /\ msg' \in [Actors -> Message]
      /\ \A u \in Actors : msg'[u].id \in {0} \cup Rows'
  BY <1>1, <1>2, ActorDone
<1>5. /\ queue' \in Seq(Message) /\ queued' \subseteq Rows'
      /\ \A k \in DOMAIN queue' : queue'[k].id \in {0} \cup Rows'
  <2>1. CASE Len(queue) < QueueCap
    <3>1. queue' = Append(queue, msg[t]) /\ queued' = queued
      BY <2>1 DEF QueuePut
    <3>2. msg[t] \in Message /\ msg[t].id \in {0} \cup Rows
      BY DEF MemoryOK
    <3>3. queue' \in Seq(Message)
          /\ \A k \in DOMAIN queue' : queue'[k].id \in {0} \cup Rows'
      BY <1>2, <3>1, <3>2, QueueGrows
    <3> QED
      BY <1>2, <3>1, <3>3 DEF MemoryOK
  <2>2. CASE ~(Len(queue) < QueueCap)
    <3>1. queued' = queued \ {msg[t].id} /\ queue' = queue
      BY <2>2 DEF QueuePut
    <3> QED
      BY <1>2, <3>1 DEF MemoryOK
  <2> QED
    BY <2>1, <2>2
<1> QED
  BY <1>1, <1>2, <1>3, <1>4, <1>5 DEF MemoryOK

LEMMA TakeShape ==
  ASSUME StoreOK, MemoryOK, Take
  PROVE  StoreOK' /\ MemoryOK' /\ KeepsRows
<1>1. /\ queue # <<>> /\ task' = Head(queue) /\ queue' = Tail(queue)
      /\ sender' = IF Head(queue).id = 0 THEN "send" ELSE "read"
      /\ UNCHANGED <<health, outbox, firstRow, queued, registered, pc, msg, todo,
                     degraded, lastSent, faults, up>>
  BY DEF Take
<1>2. KeepsRows /\ Rows' = Rows
  BY <1>1, SameRows
<1>3. StoreOK'
  BY <1>1 DEF StoreOK
<1>4. /\ task' \in Message /\ task'.id \in {0} \cup Rows'
      /\ queue' \in Seq(Message)
      /\ \A k \in DOMAIN queue' : queue'[k].id \in {0} \cup Rows'
  BY <1>1, <1>2, QueueShrinks
<1>5. /\ sender' \in {"send", "read"} /\ (sender' = "read" => task'.id # 0)
  BY <1>1
<1> QED
  BY <1>1, <1>2, <1>3, <1>4, <1>5 DEF MemoryOK, SenderSteps

\* The sender goes on to another step with the same task.
LEMMA SenderMoves ==
  ASSUME MemoryOK, Rows \subseteq Rows', sender' \in SenderSteps,
         sender' \in {"read", "ack", "nack"} => task.id # 0,
         sender' \in {"idle", "scan"} => task.id = 0,
         UNCHANGED <<queue, queued, registered, pc, msg, task, todo, degraded,
                     up>>
  PROVE  MemoryOK'
BY DEF MemoryOK

LEMMA ReadRowShape ==
  ASSUME StoreOK, MemoryOK, ReadRow
  PROVE  StoreOK' /\ MemoryOK' /\ KeepsRows
<1>1. /\ sender' \in {"send", "release"}
      /\ UNCHANGED <<health, outbox, firstRow, queue, queued, registered, pc, msg,
                     task, todo, degraded, lastSent, up>>
      /\ Fault \/ UNCHANGED faults
  BY DEF ReadRow
<1>2. KeepsRows /\ Rows' = Rows
  BY <1>1, SameRows
<1>3. StoreOK'
  BY <1>1, FaultOK DEF StoreOK
<1> QED
  BY <1>1, <1>2, <1>3, SenderMoves DEF SenderSteps

LEMMA SendShape ==
  ASSUME StoreOK, MemoryOK, Send
  PROVE  StoreOK' /\ MemoryOK' /\ KeepsRows /\ Rows' = Rows
<1>1. UNCHANGED <<health, firstRow, queue, queued, registered, pc, msg, task,
                  todo, degraded, up>>
  BY DEF Send
<1>2. task.id \in {0} \cup Rows
  BY DEF MemoryOK
<1>3. CASE /\ task.id # 0 /\ sender' = "ack"
           /\ outbox' = [outbox EXCEPT ![task.id].copies = @ + 1]
           /\ lastSent' = [lastSent EXCEPT ![outbox[task.id].about] = task.id]
           /\ UNCHANGED faults
  <2> DEFINE i == task.id
             row == [outbox[i] EXCEPT !.copies = @ + 1]
  <2>1. i \in Rows
    BY <1>2, <1>3
  <2> HIDE DEF i
  <2>2. outbox[i] \in Row /\ i \in 1 .. MaxRows
    BY <2>1, RowType
  <2>3. row \in Row /\ row.about = outbox[i].about
      /\ row.component = outbox[i].component
        /\ row.kind = outbox[i].kind /\ row.status = outbox[i].status
    BY <2>2 DEF Row
  <2>4. outbox' = [outbox EXCEPT ![i] = row]
    BY <1>3 DEF i
  <2> HIDE DEF row
  <2>5. KeepsRows /\ Rows' = Rows
    BY <2>1, <2>3, <2>4, ChangeRow DEF Pending
  <2>6. lastSent' \in [Origins -> 0 .. MaxRows]
    <3>1. task.id \in 0 .. MaxRows
      BY <2>2 DEF i
    <3> QED
      BY <1>3, <3>1 DEF StoreOK
  <2>7. StoreOK'
    BY <1>1, <1>3, <2>5, <2>6 DEF StoreOK, KeepsRows
  <2>8. MemoryOK'
    BY <1>1, <1>3, <2>5, SenderMoves DEF SenderSteps
  <2> QED
    BY <2>5, <2>7, <2>8
<1>4. CASE /\ UNCHANGED <<outbox, lastSent>>
           /\ Fault \/ UNCHANGED faults
           /\ sender' \in {"release", "nack"}
           /\ sender' = "nack" => task.id # 0
  <2>1. KeepsRows /\ Rows' = Rows
    BY <1>4, SameRows
  <2>2. StoreOK'
    BY <1>1, <1>4, FaultOK DEF StoreOK
  <2>3. MemoryOK'
    BY <1>1, <1>4, <2>1, SenderMoves DEF SenderSteps
  <2> QED
    BY <2>1, <2>2, <2>3
<1> QED
  BY <1>3, <1>4 DEF Send

LEMMA AckShape ==
  ASSUME StoreOK, MemoryOK, Ack
  PROVE  /\ StoreOK' /\ MemoryOK' /\ KeepsRows /\ Rows' = Rows
         /\ task.id \in Rows
         /\ \A j \in Rows : j # task.id => outbox'[j] = outbox[j]
         /\ outbox'[task.id].copies = outbox[task.id].copies
         /\ \/ ~Pending(task.id)' /\ sender' = "release"
               /\ outbox'[task.id].lostAcks = outbox[task.id].lostAcks
            \/ outbox'[task.id].lostAcks = outbox[task.id].lostAcks + 1
<1> DEFINE i == task.id
           acked == [outbox[i] EXCEPT !.status = IF @ = "pending" THEN "sent" ELSE @]
           lost == [outbox[i] EXCEPT !.lostAcks = @ + 1]
<1>1. UNCHANGED <<health, firstRow, queue, queued, registered, pc, msg, task,
                  todo, degraded, lastSent, up>>
  BY DEF Ack
<1>2. i \in Rows /\ i # 0
  BY DEF Ack, MemoryOK
<1>3. outbox[i] \in Row
  BY <1>2, RowType
<1>4. CASE /\ outbox' = [outbox EXCEPT ![task.id].status =
                           IF @ = "pending" THEN "sent" ELSE @]
           /\ sender' = "release" /\ UNCHANGED faults
  <2>1. outbox' = [outbox EXCEPT ![i] = acked]
    BY <1>4
  <2> HIDE DEF i
  <2>2. /\ acked \in Row /\ acked.status # "pending"
        /\ acked.about = outbox[i].about
        /\ acked.component = outbox[i].component /\ acked.kind = outbox[i].kind
        /\ acked.copies = outbox[i].copies /\ acked.lostAcks = outbox[i].lostAcks
    BY <1>3 DEF Row
  <2> HIDE DEF acked
  <2>3. /\ KeepsRows /\ Rows' = Rows /\ outbox'[i] = acked
        /\ \A j \in Rows : j # i => outbox'[j] = outbox[j]
    BY <1>2, <2>1, <2>2, ChangeRow
  <2>4. StoreOK'
    BY <1>1, <1>4, <2>3 DEF StoreOK, KeepsRows
  <2>5. MemoryOK'
    BY <1>1, <1>4, <2>3, SenderMoves DEF SenderSteps
  <2>6. ~Pending(i)'
    BY <1>1, <2>2, <2>3 DEF Pending, i
  <2> QED
    BY <1>1, <1>2, <1>4, <2>2, <2>3, <2>4, <2>5, <2>6 DEF i
<1>5. CASE /\ Fault /\ outbox' = [outbox EXCEPT ![task.id].lostAcks = @ + 1]
           /\ sender' = "nack"
  <2>1. outbox' = [outbox EXCEPT ![i] = lost]
    BY <1>5
  <2>0. i = task.id
    OBVIOUS
  <2> HIDE DEF i
  <2>2. /\ lost \in Row /\ lost.status = outbox[i].status
        /\ lost.about = outbox[i].about
        /\ lost.component = outbox[i].component /\ lost.kind = outbox[i].kind
        /\ lost.copies = outbox[i].copies
        /\ lost.lostAcks = outbox[i].lostAcks + 1
    BY <1>3 DEF Row
  <2> HIDE DEF lost
  <2>3. /\ KeepsRows /\ Rows' = Rows /\ outbox'[i] = lost
        /\ \A j \in Rows : j # i => outbox'[j] = outbox[j]
    <3>1. lost.status = "pending" => Pending(i)
      BY <2>2 DEF Pending
    <3> QED
      BY <1>2, <2>1, <2>2, <3>1, ChangeRow
  <2>4. StoreOK'
    BY <1>1, <1>5, <2>3, FaultOK DEF StoreOK, KeepsRows
  <2>5. MemoryOK'
    BY <1>1, <1>2, <1>5, <2>0, <2>3, SenderMoves DEF SenderSteps
  <2> QED
    BY <1>2, <2>0, <2>2, <2>3, <2>4, <2>5
<1> QED
  BY <1>4, <1>5 DEF Ack

\* A row of which nothing changes but when it is due.
SameCounts ==
  \A j \in Rows : /\ outbox'[j].status = outbox[j].status
                  /\ outbox'[j].copies = outbox[j].copies
                  /\ outbox'[j].lostAcks = outbox[j].lostAcks

LEMMA DueShape ==
  ASSUME StoreOK, NEW i \in Rows, NEW d \in BOOLEAN,
         outbox' = [outbox EXCEPT ![i].due = d],
         UNCHANGED <<health, firstRow, lastSent>>, Fault \/ UNCHANGED faults
  PROVE  StoreOK' /\ KeepsRows /\ Rows' = Rows /\ SameCounts
<1> DEFINE row == [outbox[i] EXCEPT !.due = d]
<1>1. outbox[i] \in Row
  BY RowType
<1>2. /\ row \in Row /\ row.status = outbox[i].status
      /\ row.about = outbox[i].about
      /\ row.component = outbox[i].component /\ row.kind = outbox[i].kind
      /\ row.copies = outbox[i].copies /\ row.lostAcks = outbox[i].lostAcks
  BY <1>1 DEF Row
<1>3. outbox' = [outbox EXCEPT ![i] = row]
  OBVIOUS
<1> HIDE DEF row
<1>4. /\ KeepsRows /\ Rows' = Rows /\ outbox'[i] = row
      /\ \A j \in Rows : j # i => outbox'[j] = outbox[j]
  <2>1. row.status = "pending" => Pending(i)
    BY <1>2 DEF Pending
  <2>2. /\ row \in Row /\ row.about = outbox[i].about
        /\ row.component = outbox[i].component /\ row.kind = outbox[i].kind
    BY <1>2
  <2> QED
    BY <1>3, <2>1, <2>2, ChangeRow
<1>5. StoreOK'
  BY <1>4, FaultOK DEF StoreOK, KeepsRows
<1>6. SameCounts
  BY <1>2, <1>4 DEF SameCounts
<1> QED
  BY <1>4, <1>5, <1>6

LEMMA NackShape ==
  ASSUME StoreOK, MemoryOK, Nack
  PROVE  StoreOK' /\ MemoryOK' /\ KeepsRows /\ Rows' = Rows /\ SameCounts
<1>1. /\ UNCHANGED <<health, firstRow, queue, queued, registered, pc, msg, task,
                     todo, degraded, lastSent, up>>
      /\ sender' = "release"
      /\ Fault \/ UNCHANGED faults
  BY DEF Nack
<1>2. task.id \in Rows
  BY DEF Nack, MemoryOK
<1>3. StoreOK' /\ KeepsRows /\ Rows' = Rows /\ SameCounts
  <2>1. CASE outbox' = [outbox EXCEPT ![task.id].due =
                          IF Pending(task.id) THEN FALSE ELSE @]
    <3> DEFINE d == IF Pending(task.id) THEN FALSE ELSE outbox[task.id].due
    <3>1. outbox[task.id] \in Row
      BY <1>2, RowType
    <3>2. d \in BOOLEAN
      BY <3>1 DEF Row
    <3>3. outbox' = [outbox EXCEPT ![task.id].due = d]
      BY <2>1
    <3> HIDE DEF d
    <3> QED
      BY <1>1, <1>2, <3>2, <3>3, DueShape
  <2>2. CASE UNCHANGED outbox
    BY <1>1, <2>2, SameRows, FaultOK DEF StoreOK, SameCounts
  <2> QED
    BY <2>1, <2>2 DEF Nack
<1> QED
  BY <1>1, <1>3, SenderMoves DEF SenderSteps

LEMMA RetryShape ==
  ASSUME StoreOK, MemoryOK, RetryDue
  PROVE  /\ StoreOK' /\ MemoryOK' /\ KeepsRows /\ Rows' = Rows /\ SameCounts
         /\ UNCHANGED <<health, memory, lastSent, faults, up>>
<1>1. PICK i \in Rows : outbox' = [outbox EXCEPT ![i].due = TRUE]
  BY DEF RetryDue
<1>2. UNCHANGED <<health, memory, lastSent, faults, up>>
  BY DEF RetryDue
<1>3. UNCHANGED <<firstRow, queue, queued, registered, pc, msg, sender, task,
                  todo, degraded>>
  BY <1>2 DEF memory
<1>4. StoreOK' /\ KeepsRows /\ Rows' = Rows /\ SameCounts
  BY <1>1, <1>2, <1>3, DueShape
<1>5. MemoryOK'
  BY <1>2, <1>3, <1>4 DEF MemoryOK
<1> QED
  BY <1>2, <1>4, <1>5

LEMMA ReleaseShape ==
  ASSUME StoreOK, MemoryOK, Release
  PROVE  StoreOK' /\ MemoryOK' /\ KeepsRows
<1>1. /\ sender' = "idle" /\ task' = Blank /\ queued' = queued \ {task.id}
      /\ UNCHANGED <<health, outbox, firstRow, queue, registered, pc, msg, todo,
                     degraded, lastSent, faults, up>>
  BY DEF Release
<1>2. KeepsRows /\ Rows' = Rows
  BY <1>1, SameRows
<1>3. StoreOK'
  BY <1>1 DEF StoreOK
<1>4. queued' \subseteq Rows' /\ sender' \in SenderSteps
  BY <1>1, <1>2 DEF MemoryOK, SenderSteps
<1> QED
  BY <1>1, <1>2, <1>3, <1>4, BlankIsMessage DEF MemoryOK

LEMMA ScanBeginShape ==
  ASSUME StoreOK, MemoryOK, ScanBegin
  PROVE  StoreOK' /\ MemoryOK' /\ KeepsRows
<1>1. /\ sender = "idle" /\ sender' = "scan" /\ todo' \subseteq Rows
      /\ UNCHANGED <<health, outbox, firstRow, queue, queued, registered, pc, msg,
                     task, degraded, lastSent, faults, up>>
  BY DEF ScanBegin
<1>2. KeepsRows /\ Rows' = Rows
  BY <1>1, SameRows
<1>3. StoreOK'
  BY <1>1 DEF StoreOK
<1> QED
  BY <1>1, <1>2, <1>3 DEF MemoryOK, SenderSteps

LEMMA ScanNextShape ==
  ASSUME StoreOK, MemoryOK, ScanNext
  PROVE  StoreOK' /\ MemoryOK' /\ KeepsRows
<1>1. PICK i \in todo :
        /\ todo' = todo \ {i} /\ pc' = [pc EXCEPT ![Sender] = "queue"]
        /\ msg' = [msg EXCEPT ![Sender] =
                     [about |-> outbox[i].about,
                      kind |-> outbox[i].kind, id |-> i, force |-> FALSE]]
  BY DEF ScanNext
<1> DEFINE m == [about |-> outbox[i].about, kind |-> outbox[i].kind,
                 id |-> i, force |-> FALSE]
<1>2. UNCHANGED <<health, outbox, firstRow, queue, queued, registered, sender,
                  task, degraded, lastSent, faults, up>>
  BY DEF ScanNext
<1>3. KeepsRows /\ Rows' = Rows
  BY <1>2, SameRows
<1>4. i \in Rows
  BY DEF MemoryOK
<1>5. outbox[i] \in Row /\ i \in 1 .. MaxRows
  BY <1>4, RowType
<1>6. m \in Message /\ m.id = i
  BY <1>5 DEF Message, Row
<1>7. msg' = [msg EXCEPT ![Sender] = m] /\ "queue" \in Steps /\ Sender \in Actors
  BY <1>1, ActorsOf DEF Steps
<1> HIDE DEF m
<1>8. /\ pc' \in [Actors -> Steps] /\ msg' \in [Actors -> Message]
      /\ \A u \in Actors : msg'[u].id \in {0} \cup Rows'
  BY <1>1, <1>3, <1>4, <1>6, <1>7, ActorStep
<1>9. StoreOK'
  BY <1>2 DEF StoreOK
<1> QED
  BY <1>1, <1>2, <1>3, <1>8, <1>9 DEF MemoryOK

LEMMA ScanDoneShape ==
  ASSUME StoreOK, MemoryOK, ScanDone
  PROVE  StoreOK' /\ MemoryOK' /\ KeepsRows
<1>1. /\ sender = "scan" /\ sender' = "idle"
      /\ UNCHANGED <<health, outbox, firstRow, queue, queued, registered, pc, msg,
                     task, todo, degraded, lastSent, faults, up>>
  BY DEF ScanDone
<1>2. KeepsRows /\ Rows' = Rows
  BY <1>1, SameRows
<1>3. StoreOK'
  BY <1>1 DEF StoreOK
<1>4. task.id = 0
  BY <1>1 DEF MemoryOK
<1> QED
  BY <1>1, <1>2, <1>3, <1>4, SenderMoves DEF SenderSteps

LEMMA StopShape ==
  ASSUME StoreOK, MemoryOK, Stop
  PROVE  StoreOK' /\ MemoryOK' /\ KeepsRows
<1>1. /\ up' = FALSE /\ queue' = <<>> /\ queued' = {} /\ registered' = FALSE
      /\ pc' = [t \in Actors |-> "idle"] /\ msg' = [t \in Actors |-> Blank]
      /\ sender' = "idle" /\ task' = Blank /\ todo' = {} /\ degraded' = {}
      /\ UNCHANGED <<health, outbox, firstRow, lastSent, faults>>
  BY DEF Stop
<1>2. KeepsRows /\ Rows' = Rows
  BY <1>1, SameRows
<1>3. StoreOK'
  BY <1>1 DEF StoreOK
<1>4. /\ pc' \in [Actors -> Steps] /\ msg' \in [Actors -> Message]
      /\ \A t \in Actors : msg'[t].id = 0
  BY <1>1, BlankIsMessage DEF Steps
<1>5. queue' \in Seq(Message) /\ DOMAIN queue' = {}
  BY <1>1
<1> QED
  BY <1>1, <1>2, <1>3, <1>4, <1>5, BlankIsMessage DEF MemoryOK, SenderSteps

LEMMA BootShape ==
  ASSUME StoreOK, MemoryOK, Boot
  PROVE  /\ StoreOK' /\ MemoryOK' /\ KeepsRows /\ Rows' = Rows
         /\ \A i \in Rows : /\ ~Pending(i)'
                            /\ outbox'[i].copies = outbox[i].copies
                            /\ outbox'[i].lostAcks = outbox[i].lostAcks
                            /\ ~(i >= firstRow')
<1>1. /\ up' = TRUE /\ health' = [c \in Components |-> "none"]
      /\ outbox' = [i \in Rows |-> BootRow(outbox[i])]
      /\ firstRow' = Len(outbox) + 1
      /\ UNCHANGED <<queue, queued, registered, pc, msg, sender, task, todo,
                     degraded, lastSent, faults>>
  BY DEF Boot
<1>2. /\ outbox \in Seq(Row) /\ Len(outbox) \in Nat
      /\ Rows = 1 .. Len(outbox) /\ Len(outbox) <= MaxRows
  BY DEF StoreOK, Rows
<1>3. ASSUME NEW i \in Rows
      PROVE  LET row == BootRow(outbox[i]) IN
             /\ row \in Row /\ row.status # "pending"
             /\ row.about = outbox[i].about
             /\ row.component = outbox[i].component /\ row.kind = outbox[i].kind
             /\ row.copies = outbox[i].copies
             /\ row.lostAcks = outbox[i].lostAcks
  <2>1. outbox[i] \in Row
    BY <1>3, RowType
  <2>2. CASE outbox[i].status = "pending"
    <3> DEFINE row == [outbox[i] EXCEPT !.status = "deleted"]
    <3>1. BootRow(outbox[i]) = row
      BY <2>2 DEF BootRow
    <3>2. /\ row \in Row /\ row.status = "deleted"
          /\ row.about = outbox[i].about
          /\ row.component = outbox[i].component /\ row.kind = outbox[i].kind
          /\ row.copies = outbox[i].copies
          /\ row.lostAcks = outbox[i].lostAcks
      BY <2>1 DEF Row
    <3> HIDE DEF row
    <3> QED
      BY <3>1, <3>2
  <2>3. CASE outbox[i].status # "pending"
    BY <2>1, <2>3 DEF BootRow
  <2> QED
    BY <2>2, <2>3
<1> DEFINE new == [i \in Rows |-> BootRow(outbox[i])]
<1>4. /\ new \in [1 .. Len(outbox) -> Row] /\ DOMAIN new = 1 .. Len(outbox)
      /\ \A i \in Rows : new[i] = BootRow(outbox[i])
  BY <1>2, <1>3
<1>5. outbox' = new
  BY <1>1
<1> HIDE DEF new, BootRow
<1>6. new \in Seq(Row) /\ Len(new) = Len(outbox)
  BY <1>2, <1>4
<1>7. KeepsRows /\ Rows' = Rows
  BY <1>2, <1>3, <1>4, <1>5, <1>6 DEF KeepsRows, Rows, Pending
<1>8. StoreOK'
  BY <1>1, <1>2, <1>7 DEF StoreOK, KeepsRows
<1>9. MemoryOK'
  BY <1>1, <1>7 DEF MemoryOK
<1>10. \A i \in Rows : ~(i >= firstRow')
  BY <1>1, <1>2
<1> QED
  BY <1>3, <1>4, <1>5, <1>7, <1>8, <1>9, <1>10 DEF Pending

\* The rows and the memory under the steps of the supervision.
LEMMA MarkShape ==
  ASSUME StoreOK, MemoryOK, MarkAssets
  PROVE  StoreOK' /\ MemoryOK' /\ KeepsRows
<1> DEFINE m == [Blank EXCEPT !.about = Supervisor]
<1>1. /\ pc' = [pc EXCEPT ![Loop] = "persist"] /\ msg' = [msg EXCEPT ![Loop] = m]
      /\ UNCHANGED <<outbox, firstRow, queue, queued, registered, sender, task,
                     todo, degraded, lastSent, faults, up>>
  BY DEF MarkAssets
<1>2. "persist" \in Steps /\ m \in Message /\ m.id = 0
  BY BlankIsMessage DEF Steps, Message, Origins
<1> HIDE DEF m
<1>3. health' \in [Components -> {"none", "healthy", "unhealthy"}]
  BY DEF MarkAssets, StoreOK
<1>4. KeepsRows /\ Rows' = Rows
  BY <1>1, SameRows
<1>5. StoreOK'
  BY <1>1, <1>3 DEF StoreOK
<1>6. /\ pc' \in [Actors -> Steps] /\ msg' \in [Actors -> Message]
      /\ \A u \in Actors : msg'[u].id \in {0} \cup Rows'
  BY <1>1, <1>2, <1>4, ActorsOf, ActorStep
<1> QED
  BY <1>1, <1>4, <1>5, <1>6, SenderStill DEF MemoryOK

LEMMA StillShape ==
  ASSUME StoreOK, MemoryOK, UNCHANGED outboxVars
  PROVE  /\ StoreOK' /\ MemoryOK' /\ KeepsRows
         /\ UNCHANGED <<health, outbox, firstRow, queue, queued, registered, pc,
                        msg, sender, task, todo, degraded, lastSent, faults, up>>
<1>1. UNCHANGED <<health, outbox, firstRow, queue, queued, registered, pc, msg,
                  sender, task, todo, degraded, lastSent, faults, up>>
  BY DEF outboxVars
<1>2. KeepsRows /\ Rows' = Rows
  BY <1>1, SameRows
<1>3. StoreOK'
  BY <1>1 DEF StoreOK
<1>4. MemoryOK'
  BY <1>1, <1>2 DEF MemoryOK
<1> QED
  BY <1>1, <1>2, <1>3, <1>4

LEMMA SenderStepShape ==
  ASSUME StoreOK, MemoryOK, SenderStep
  PROVE  StoreOK' /\ MemoryOK' /\ KeepsRows /\ up /\ up' = up
<1>1. StoreOK' /\ MemoryOK' /\ KeepsRows
  BY TakeShape, ReadRowShape, SendShape, AckShape, NackShape, ReleaseShape,
     ScanBeginShape, ScanNextShape, ScanDoneShape, QueueAddShape, QueuePutShape,
     ActorsOf
  DEF SenderStep
<1>2. up /\ up' = up
  BY DEF SenderStep, Take, ReadRow, Send, Ack, Nack, Release, ScanBegin,
         ScanNext, ScanDone, QueueAdd, QueuePut
<1> QED
  BY <1>1, <1>2

LEMMA ThreadStepShape ==
  ASSUME StoreOK, MemoryOK, NEW t \in Threads, ThreadStep(t)
  PROVE  StoreOK' /\ MemoryOK' /\ KeepsRows /\ up /\ up' = up
<1>1. StoreOK' /\ MemoryOK' /\ KeepsRows
  BY FallbackShape, PersistShape, QueueAddShape, QueuePutShape, ActorsOf
  DEF ThreadStep
<1>2. up /\ up' = up
  BY DEF ThreadStep, FallbackMark, Persist, QueueAdd, QueuePut
<1> QED
  BY <1>1, <1>2

LEMMA ReportShape ==
  ASSUME StoreOK, MemoryOK, NEW t \in Threads, Report(t)
  PROVE  StoreOK' /\ MemoryOK' /\ KeepsRows /\ up /\ up' = up
<1>1. \/ \E c \in Components, kind \in Kinds, force \in BOOLEAN :
           Transition(t, c, kind, force) \/ TransitionFails(t, c, kind, force)
      \/ \E c \in Edgeless : Notify(t, c)
      \/ \E c \in AssetHealth : MarkUnhealthy(t, c)
  BY DEF Report
<1>2. t \in Actors
  BY ActorsOf
<1>3. StoreOK' /\ MemoryOK' /\ KeepsRows
  BY <1>1, <1>2, TransitionShape, TransitionFailsShape, NotifyShape,
     UnhealthyShape
<1>4. up /\ up' = up
  BY <1>1 DEF Transition, TransitionFails, Notify, MarkUnhealthy
<1> QED
  BY <1>3, <1>4

\* What the steps of the supervision do to their own variables.
LEMMA RequestOK ==
  ASSUME RestartOK, RequestOnce
  PROVE  requested' \in BOOLEAN /\ exiting' \in Nat
<1>1. CASE requested
  BY <1>1 DEF RestartOK, RequestOnce
<1>2. CASE ~requested
  BY <1>2 DEF RestartOK, RequestOnce
<1> QED
  BY <1>1, <1>2

LEMMA ShapeStart == Init => Shape
<1> SUFFICES ASSUME Init PROVE Shape
  OBVIOUS
<1>1. outbox = <<>> /\ outbox \in Seq(Row) /\ Len(outbox) = 0 /\ MaxRows \in Nat
  BY DEF Init, OutboxInit
<1>2. Rows = {}
  BY <1>1 DEF Rows
<1>3. StoreOK
  BY <1>1 DEF Init, OutboxInit, StoreOK
<1>4. queue \in Seq(Message) /\ DOMAIN queue = {}
  BY DEF Init, OutboxInit
<1>5. MemoryOK
  BY <1>2, <1>4, BlankIsMessage DEF Init, OutboxInit, MemoryOK, Steps, SenderSteps
<1>6. RestartOK
  <2>1. 0 \in 0 .. MaxBoots
    OBVIOUS
  <2> QED
    BY <2>1 DEF Init, RestartOK
<1>7. StoppedClean
  BY DEF Init, OutboxInit, StoppedClean
<1> QED
  BY <1>3, <1>5, <1>6, <1>7 DEF Shape

LEMMA ShapeKeeps == Shape /\ [Next]_vars => Shape' /\ KeepsRows
<1> SUFFICES ASSUME Shape, [Next]_vars PROVE Shape' /\ KeepsRows
  OBVIOUS
<1> USE DEF Shape
<1>1. ASSUME UNCHANGED <<restartVars, boots>>,
             StoreOK' /\ MemoryOK' /\ KeepsRows /\ up /\ up' = up
      PROVE  Shape' /\ KeepsRows
  BY <1>1 DEF restartVars, RestartOK, StoppedClean
<1>2. ASSUME NEW t \in Threads, Report(t) PROVE Shape' /\ KeepsRows
  BY <1>1, <1>2, ReportShape DEF Report
<1>3. ASSUME NEW t \in Threads, Working(t) PROVE Shape' /\ KeepsRows
  BY <1>1, <1>3, ThreadStepShape DEF Working
<1>4. CASE Sending
  BY <1>1, <1>4, SenderStepShape DEF Sending
<1>5. CASE Waiting
  <2>1. /\ StoreOK' /\ MemoryOK' /\ KeepsRows
        /\ UNCHANGED <<memory, up, restartVars, boots>>
    BY <1>5, RetryShape DEF Waiting
  <2> QED
    BY <2>1 DEF restartVars, memory, RestartOK, StoppedClean
<1>6. CASE RoundTimeout
  <2>1. StoreOK' /\ MemoryOK' /\ KeepsRows /\ up /\ up' = up
    BY <1>6, StillShape DEF RoundTimeout
  <2> QED
    BY <1>6, <2>1 DEF RoundTimeout, RestartOK, StoppedClean
<1>7. CASE MarkAssets
  <2>1. StoreOK' /\ MemoryOK' /\ KeepsRows /\ up' = up
    BY <1>7, MarkShape DEF MarkAssets
  <2>2. up
    BY <1>7 DEF MarkAssets, StoppedClean
  <2> QED
    BY <1>7, <2>1, <2>2 DEF MarkAssets, RestartOK, StoppedClean
<1>8. CASE FinishDiagnostics
  <2>1. StoreOK' /\ MemoryOK' /\ KeepsRows /\ up' = up
    BY <1>8, StillShape DEF FinishDiagnostics
  <2>2. up
    BY <1>8 DEF FinishDiagnostics, StoppedClean
  <2> QED
    BY <1>8, <2>1, <2>2, RequestOK DEF FinishDiagnostics, RestartOK, StoppedClean
<1>9. CASE Wedge
  <2>1. StoreOK' /\ MemoryOK' /\ KeepsRows /\ up' = up
    BY <1>9, StillShape DEF Wedge
  <2>2. up
    BY <1>9 DEF Wedge, StoppedClean
  <2> QED
    BY <1>9, <2>1, <2>2 DEF Wedge, RestartOK, StoppedClean
<1>10. CASE EmergencyRestart
  <2>1. StoreOK' /\ MemoryOK' /\ KeepsRows /\ up' = up
    BY <1>10, StillShape DEF EmergencyRestart
  <2>2. up
    BY <1>10 DEF EmergencyRestart, StoppedClean
  <2> QED
    BY <1>10, <2>1, <2>2, RequestOK DEF EmergencyRestart, RestartOK, StoppedClean
<1>11. CASE Exit \/ Crash
  <2>1. Stop /\ Fresh /\ UNCHANGED boots
    BY <1>11 DEF Exit, Crash
  <2>2. StoreOK' /\ MemoryOK' /\ KeepsRows
    BY <2>1, StopShape
  <2>3. RestartOK'
    BY <2>1 DEF Fresh, RestartOK
  <2>4. StoppedClean'
    BY <2>1 DEF Fresh, Stop, StoppedClean
  <2> QED
    BY <2>2, <2>3, <2>4
<1>12. CASE Restart
  <2>1. StoreOK' /\ MemoryOK' /\ KeepsRows /\ up' = TRUE
    BY <1>12, BootShape DEF Restart, Boot
  <2>2. RestartOK'
    BY <1>12 DEF Restart, restartVars, RestartOK
  <2> QED
    BY <2>1, <2>2 DEF StoppedClean
<1>13. CASE UNCHANGED vars
  <2>1. StoreOK' /\ MemoryOK' /\ KeepsRows
        /\ UNCHANGED <<sender, pc, up, restartVars, boots>>
    BY <1>13, StillShape DEF vars
  <2> QED
    BY <2>1 DEF restartVars, RestartOK, StoppedClean
<1> QED
  BY <1>2, <1>3, <1>4, <1>5, <1>6, <1>7, <1>8, <1>9, <1>10, <1>11, <1>12, <1>13
  DEF Next

\* The types of the outbox, of the threads' and the sender's state and of the
\* supervision (state.py and runner.py), for any number of rows and faults.
THEOREM AlertsTyped == Spec => []TypeOK
<1>1. Shape => TypeOK
  <2> SUFFICES ASSUME Shape PROVE TypeOK
    OBVIOUS
  <2>1. Rows \subseteq 1 .. MaxRows
    BY RowType DEF Shape
  <2> QED
    BY <2>1 DEF Shape, StoreOK, MemoryOK, RestartOK, TypeOK, Steps, SenderSteps
<1> QED
  BY <1>1, ShapeStart, ShapeKeeps, PTL DEF Spec

-----------------------------------------------------------------------------
(* The restart after the diagnostics                                         *)

Reported ==
  \/ Supervisor \in degraded
  \/ \E i \in Rows : i >= firstRow /\ outbox[i].about = Supervisor

\* How far the alert of the supervisor has come, while its diagnostics run.
DiagInv ==
  /\ exiting \in {0, 1} /\ (requested <=> exiting = 1)
  /\ diag = "marking" => pc[Loop] = "idle"
  /\ diag = "alerting" =>
       \/ pc[Loop] = "persist" /\ msg[Loop].about = Supervisor
       \/ pc[Loop] \in {"queue", "put", "idle"} /\ Reported
  /\ diag = "done" => Reported
  /\ exiting = 1 => grace \/ diag = "done"

LEMMA ReportedStays ==
  ASSUME KeepsRows, Reported, UNCHANGED firstRow, degraded \subseteq degraded'
  PROVE  Reported'
<1>1. CASE Supervisor \in degraded
  BY <1>1 DEF Reported
<1>2. CASE \E i \in Rows : i >= firstRow /\ outbox[i].about = Supervisor
  <2>1. PICK i \in Rows : i >= firstRow /\ outbox[i].about = Supervisor
    BY <1>2
  <2>2. i \in Rows' /\ outbox'[i].about = Supervisor
    BY <2>1 DEF KeepsRows
  <2> QED
    BY <2>1, <2>2 DEF Reported
<1> QED
  BY <1>1, <1>2 DEF Reported

\* Steps that do not touch the supervision, nor the loop while its alert is
\* under way.
LEMMA DiagFrame ==
  ASSUME DiagInv, KeepsRows, UNCHANGED firstRow, degraded \subseteq degraded',
         UNCHANGED restartVars,
         \/ diag \in {"none", "done"}
         \/ pc'[Loop] = pc[Loop] /\ msg'[Loop] = msg[Loop]
  PROVE  DiagInv'
<1>1. Reported => Reported'
  BY ReportedStays
<1>2. UNCHANGED <<diag, grace, requested, exiting>>
  BY DEF restartVars
<1> QED
  BY <1>1, <1>2 DEF DiagInv

\* A step of one actor leaves the reports of the others alone.
LEMMA OthersStill ==
  ASSUME MemoryOK, NEW t \in Actors, NEW u \in Actors, u # t,
         \/ FallbackMark(t) \/ Persist(t) \/ QueueAdd(t) \/ QueuePut(t)
  PROVE  pc'[u] = pc[u] /\ msg'[u] = msg[u]
BY DEF MemoryOK, FallbackMark, NotifyIf, Done, Persist, QueueAdd, QueuePut

LEMMA SenderLeavesReports ==
  ASSUME MemoryOK, SenderStep, NEW u \in Actors, u # Sender
  PROVE  pc'[u] = pc[u] /\ msg'[u] = msg[u]
<1>1. CASE QueueAdd(Sender) \/ QueuePut(Sender)
  BY <1>1, ActorsOf, OthersStill
<1>2. CASE ScanNext
  BY <1>2 DEF ScanNext, MemoryOK
<1>3. CASE \/ Take \/ ReadRow \/ Send \/ Ack \/ Nack \/ Release
           \/ ScanBegin \/ ScanDone
  BY <1>3 DEF Take, ReadRow, Send, Ack, Nack, Release, ScanBegin, ScanDone
<1> QED
  BY <1>1, <1>2, <1>3 DEF SenderStep

\* Within a process the failed writes are remembered and the rows of it begin
\* where they began.
LEMMA SameProcess ==
  ASSUME MemoryOK,
         \/ \E t \in Threads : Report(t) \/ ThreadStep(t)
         \/ SenderStep \/ RetryDue \/ MarkAssets \/ UNCHANGED outboxVars
  PROVE  UNCHANGED firstRow /\ degraded \subseteq degraded'
<1>1. ASSUME NEW t \in Threads, Report(t) \/ ThreadStep(t)
      PROVE  UNCHANGED firstRow /\ degraded \subseteq degraded'
  BY <1>1 DEF Report, Transition, TransitionFails, Notify, MarkUnhealthy,
              ThreadStep, FallbackMark, Persist, QueueAdd, QueuePut
<1>2. CASE SenderStep
  BY <1>2 DEF SenderStep, Take, ReadRow, Send, Ack, Nack, Release, ScanBegin,
              ScanNext, ScanDone, QueueAdd, QueuePut
<1>3. CASE RetryDue
  BY <1>3 DEF RetryDue, memory
<1>4. CASE MarkAssets \/ UNCHANGED outboxVars
  BY <1>4 DEF MarkAssets, outboxVars
<1> QED
  BY <1>1, <1>2, <1>3, <1>4

LEMMA LoopWorks ==
  ASSUME Shape, DiagInv, Working(Loop)
  PROVE  DiagInv'
<1>0. /\ StoreOK /\ MemoryOK /\ Loop \in Actors /\ Loop \in Threads
      /\ ThreadStep(Loop) /\ UNCHANGED restartVars
  BY ActorsOf DEF Shape, Working
<1>1. KeepsRows /\ UNCHANGED firstRow /\ degraded \subseteq degraded'
  BY <1>0, ThreadStepShape, SameProcess
<1>2. CASE diag \in {"none", "done"}
  BY <1>0, <1>1, <1>2, DiagFrame
<1>3. CASE diag \in {"marking", "alerting"}
  <2>1. Reported => Reported'
    BY <1>1, ReportedStays
  <2>2. UNCHANGED <<diag, grace, requested, exiting>>
    BY <1>0 DEF restartVars
  <2>3. ~FallbackMark(Loop) /\ diag = "alerting"
    <3>1. pc[Loop] # "fallback" /\ (diag = "marking" => pc[Loop] = "idle")
      BY <1>3 DEF DiagInv
    <3>2. pc[Loop] # "idle"
      BY <1>0 DEF ThreadStep, FallbackMark, Persist, QueueAdd, QueuePut
    <3> QED
      BY <1>3, <3>1, <3>2 DEF FallbackMark
  <2>4. pc'[Loop] \in {"queue", "put", "idle"} /\ Reported'
    <3>1. CASE Persist(Loop)
      <4>1. pc[Loop] = "persist" /\ pc' = [pc EXCEPT ![Loop] = "queue"]
        BY <3>1 DEF Persist
      <4>2. pc'[Loop] = "queue"
        BY <1>0, <4>1 DEF MemoryOK
      <4>3. msg[Loop].about = Supervisor
        BY <2>3, <4>1 DEF DiagInv
      <4>4. CASE degraded' = degraded \cup {Supervisor}
        BY <4>2, <4>4 DEF Reported
      <4>5. ASSUME Len(outbox) < MaxRows, NEW name \in RowNames(Supervisor),
                   outbox' = Append(outbox,
                               NewRow(name, Supervisor, msg[Loop].kind))
            PROVE  pc'[Loop] \in {"queue", "put", "idle"} /\ Reported'
        <5>1. Supervisor \in Origins /\ msg[Loop].kind \in Kinds
          BY <1>0, NamesOf DEF MemoryOK, Message
        <5>2. /\ Len(outbox) + 1 \in Rows'
              /\ outbox'[Len(outbox) + 1] =
                   NewRow(name, Supervisor, msg[Loop].kind)
          BY <1>0, <4>5, <5>1, NamesOf, AppendRow
        <5>3. outbox'[Len(outbox) + 1].about = Supervisor
          BY <5>2 DEF NewRow
        <5>4. Len(outbox) + 1 >= firstRow
          BY DEF Shape, StoreOK
        <5> QED
          BY <1>1, <4>2, <5>2, <5>3, <5>4 DEF Reported
      <4> QED
        BY <3>1, <4>3, <4>4, <4>5 DEF Persist
    <3>2. CASE QueueAdd(Loop) \/ QueuePut(Loop)
      <4>1. pc[Loop] \in {"queue", "put"}
        BY <3>2 DEF QueueAdd, QueuePut
      <4>2. Reported
        BY <2>3, <4>1 DEF DiagInv
      <4>3. pc'[Loop] \in {"put", "idle"}
        BY <1>0, <3>2 DEF QueueAdd, QueuePut, Done, MemoryOK
      <4> QED
        BY <2>1, <4>2, <4>3
    <3> QED
      BY <1>0, <2>3, <3>1, <3>2 DEF ThreadStep
  <2> QED
    BY <2>2, <2>3, <2>4 DEF DiagInv
<1> QED
  BY <1>2, <1>3 DEF Shape, RestartOK

LEMMA DiagKeeps == Shape /\ DiagInv /\ [Next]_vars => DiagInv'
<1> SUFFICES ASSUME Shape, DiagInv, [Next]_vars PROVE DiagInv'
  OBVIOUS
<1>0. StoreOK /\ MemoryOK /\ KeepsRows /\ Sender # Loop
  BY ShapeKeeps DEF Shape
<1>1. ASSUME NEW t \in Threads, Report(t) PROVE DiagInv'
  <2>1. UNCHANGED restartVars /\ UNCHANGED firstRow /\ degraded \subseteq degraded'
    BY <1>0, <1>1, SameProcess DEF Report
  <2>2. CASE t = Loop
    BY <1>0, <1>1, <2>1, <2>2, DiagFrame DEF Report
  <2>3. CASE t # Loop
    <3>1. pc'[Loop] = pc[Loop] /\ msg'[Loop] = msg[Loop]
      <4>1. t \in Actors /\ Loop \in Actors /\ pc \in [Actors -> Steps]
            /\ msg \in [Actors -> Message]
        BY <1>0, ActorsOf DEF MemoryOK
      <4> QED
        BY <1>1, <2>3, <4>1 DEF Report, Transition, TransitionFails, Notify,
                                MarkUnhealthy
    <3> QED
      BY <1>0, <2>1, <3>1, DiagFrame
  <2> QED
    BY <2>2, <2>3
<1>2. ASSUME NEW t \in Threads, Working(t) PROVE DiagInv'
  <2>1. CASE t = Loop
    BY <1>2, <2>1, LoopWorks
  <2>2. CASE t # Loop
    <3>1. /\ ThreadStep(t) /\ UNCHANGED restartVars /\ UNCHANGED firstRow
          /\ degraded \subseteq degraded'
      BY <1>0, <1>2, SameProcess DEF Working
    <3>2. pc'[Loop] = pc[Loop] /\ msg'[Loop] = msg[Loop]
      BY <1>0, <2>2, <3>1, ActorsOf, OthersStill DEF ThreadStep
    <3> QED
      BY <1>0, <3>1, <3>2, DiagFrame
  <2> QED
    BY <2>1, <2>2
<1>3. CASE Sending
  <2>1. /\ SenderStep /\ UNCHANGED restartVars /\ UNCHANGED firstRow
        /\ degraded \subseteq degraded'
    BY <1>0, <1>3, SameProcess DEF Sending
  <2>2. pc'[Loop] = pc[Loop] /\ msg'[Loop] = msg[Loop]
    BY <1>0, <2>1, ActorsOf, SenderLeavesReports
  <2> QED
    BY <1>0, <2>1, <2>2, DiagFrame
<1>4. CASE Waiting
  <2>1. UNCHANGED memory /\ UNCHANGED restartVars
    BY <1>4 DEF Waiting, RetryDue
  <2> QED
    BY <1>0, <2>1, DiagFrame DEF memory
<1>5. CASE \/ UNCHANGED outboxVars /\ (Wedge \/ EmergencyRestart)
           \/ FinishDiagnostics \/ RoundTimeout \/ MarkAssets
  <2>1. UNCHANGED firstRow /\ degraded \subseteq degraded'
    BY <1>0, <1>5, SameProcess DEF FinishDiagnostics, RoundTimeout
  <2>2. Reported => Reported'
    BY <1>0, <2>1, ReportedStays
  <2>3. CASE RoundTimeout
    BY <2>2, <2>3 DEF RoundTimeout, DiagInv, outboxVars
  <2>4. CASE MarkAssets
    <3>1. pc'[Loop] = "persist" /\ msg'[Loop].about = Supervisor
      <4>1. Loop \in Actors /\ pc \in [Actors -> Steps]
            /\ msg \in [Actors -> Message]
        BY <1>0, ActorsOf DEF MemoryOK
      <4>2. /\ pc'[Loop] = "persist"
            /\ msg'[Loop] = [Blank EXCEPT !.about = Supervisor]
        BY <2>4, <4>1 DEF MarkAssets
      <4> QED
        BY <4>2 DEF Blank
    <3> QED
      BY <2>4, <3>1 DEF MarkAssets, DiagInv
  <2>5. CASE FinishDiagnostics
    <3>1. diag = "alerting" /\ pc[Loop] = "idle" /\ diag' = "done"
          /\ UNCHANGED grace /\ RequestOnce
      BY <2>5 DEF FinishDiagnostics
    <3>2. Reported'
      BY <2>2, <3>1 DEF DiagInv
    <3>3. exiting' \in {0, 1} /\ (requested' <=> exiting' = 1)
      BY <3>1 DEF RequestOnce, DiagInv
    <3> QED
      BY <3>1, <3>2, <3>3 DEF DiagInv
  <2>6. CASE UNCHANGED outboxVars /\ Wedge
    BY <2>2, <2>6 DEF Wedge, DiagInv, outboxVars
  <2>7. CASE UNCHANGED outboxVars /\ EmergencyRestart
    <3>1. exiting' \in {0, 1} /\ (requested' <=> exiting' = 1)
      BY <2>7 DEF EmergencyRestart, RequestOnce, DiagInv
    <3> QED
      BY <2>2, <2>7, <3>1 DEF EmergencyRestart, DiagInv, outboxVars
  <2> QED
    BY <1>5, <2>3, <2>4, <2>5, <2>6, <2>7
<1>6. CASE Exit \/ Crash
  BY <1>6 DEF Exit, Crash, Fresh, DiagInv
<1>7. CASE Restart
  <2>1. ~up /\ UNCHANGED <<pc, msg, diag, wedged, grace, requested, exiting>>
    BY <1>7 DEF Restart, Boot, restartVars
  <2> QED
    BY <2>1 DEF Shape, StoppedClean, DiagInv
<1>8. CASE UNCHANGED vars
  <2>1. UNCHANGED <<firstRow, degraded, pc, msg>> /\ UNCHANGED restartVars
    BY <1>8 DEF vars, outboxVars
  <2> QED
    BY <1>0, <2>1, DiagFrame
<1> QED
  BY <1>1, <1>2, <1>3, <1>4, <1>5, <1>6, <1>7, <1>8
  DEF Next, Wedge, EmergencyRestart

\* The supervisor restarts the process once, and only with its alert in the
\* outbox, after a failed write of it, or after the grace period (runner.py:
\* _run_diagnostics_then_restart), whatever hangs and whichever thread wins.
THEOREM RestartAfterDiagnostics == Spec => []DiagnosticsBeforeRestart
<1>1. Init => DiagInv
  BY DEF Init, OutboxInit, DiagInv
<1>2. DiagInv => DiagnosticsBeforeRestart
  BY DEF DiagInv, Reported, DiagnosticsBeforeRestart
<1> QED
  BY <1>1, <1>2, ShapeStart, ShapeKeeps, DiagKeeps, PTL DEF Spec

-----------------------------------------------------------------------------
(* The dedupe set                                                            *)

\* Steps that leave the queue, the task and every message on its way to the
\* queue alone.
LEMMA StrandedFrame ==
  ASSUME NoStrandedId, UNCHANGED <<queue, queued, task>>,
         \A t \in Actors : pc[t] = "put" => pc'[t] = "put" /\ msg'[t] = msg[t]
  PROVE  NoStrandedId'
BY DEF NoStrandedId

LEMMA StrandedQueueAdd ==
  ASSUME MemoryOK, NoStrandedId, NEW t \in Actors, QueueAdd(t)
  PROVE  NoStrandedId'
<1>1. pc[t] = "queue" /\ UNCHANGED <<queue, task>>
  BY DEF QueueAdd
<1>2. \A u \in Actors : pc[u] = "put" => pc'[u] = "put" /\ msg'[u] = msg[u]
  BY <1>1, OthersStill
<1>3. CASE msg[t].id \in queued
  BY <1>1, <1>2, <1>3, StrandedFrame DEF QueueAdd
<1>4. CASE msg[t].id \notin queued
  <2>1. /\ queued' = queued \cup ({msg[t].id} \ {0})
        /\ pc' = [pc EXCEPT ![t] = "put"] /\ msg' = msg
    BY <1>4 DEF QueueAdd
  <2>2. pc'[t] = "put" /\ msg'[t].id = msg[t].id
    BY <2>1 DEF MemoryOK
  <2> QED
    BY <1>1, <1>2, <2>1, <2>2 DEF NoStrandedId
<1> QED
  BY <1>3, <1>4

LEMMA StrandedQueuePut ==
  ASSUME MemoryOK, NoStrandedId, NEW t \in Actors, QueuePut(t)
  PROVE  NoStrandedId'
<1>1. pc[t] = "put" /\ UNCHANGED <<outbox, task>>
  BY DEF QueuePut
<1>2. \A u \in Actors : u # t => pc'[u] = pc[u] /\ msg'[u] = msg[u]
  BY OthersStill
<1>3. CASE Len(queue) < QueueCap
  <2>1. queue' = Append(queue, msg[t]) /\ queued' = queued /\ Rows' = Rows
    BY <1>1, <1>3 DEF QueuePut, Rows
  <2>2. msg[t] \in Message /\ msg[t].id \in {0} \cup Rows
    BY DEF MemoryOK
  <2>3. /\ \A k \in DOMAIN queue : k \in DOMAIN queue' /\ queue'[k] = queue[k]
        /\ \E k \in DOMAIN queue' : queue'[k] = msg[t]
    BY <2>1, <2>2, QueueGrows
  <2> QED
    BY <1>1, <1>2, <2>1, <2>3 DEF NoStrandedId
<1>4. CASE ~(Len(queue) < QueueCap)
  <2>1. queued' = queued \ {msg[t].id} /\ queue' = queue
    BY <1>4 DEF QueuePut
  <2> QED
    BY <1>1, <1>2, <2>1 DEF NoStrandedId
<1> QED
  BY <1>3, <1>4

LEMMA StrandedTake ==
  ASSUME StoreOK, MemoryOK, NoStrandedId, Take
  PROVE  NoStrandedId'
<1>1. /\ queue # <<>> /\ task' = Head(queue) /\ queue' = Tail(queue)
      /\ sender = "idle" /\ UNCHANGED <<outbox, queued, pc, msg>>
  BY DEF Take
<1>2. Rows' = Rows
  BY <1>1 DEF Rows
<1>3. /\ task' = queue[1]
      /\ \A k \in DOMAIN queue : k # 1 => \E l \in DOMAIN queue' :
           queue'[l] = queue[k]
  BY <1>1, <1>2, QueueShrinks
<1>4. task.id \notin queued
  <2>1. 0 \notin Rows
    BY RowType
  <2> QED
    BY <1>1, <2>1 DEF MemoryOK
<1> QED
  BY <1>1, <1>3, <1>4 DEF NoStrandedId

LEMMA StrandedKeeps == Shape /\ DiagInv /\ NoStrandedId /\ [Next]_vars
                         => NoStrandedId'
<1> SUFFICES ASSUME Shape, DiagInv, NoStrandedId, [Next]_vars
             PROVE  NoStrandedId'
  OBVIOUS
<1>0. /\ StoreOK /\ MemoryOK /\ Loop \in Actors /\ Sender \in Actors
      /\ Threads \subseteq Actors /\ pc \in [Actors -> Steps]
      /\ msg \in [Actors -> Message]
  BY ActorsOf DEF Shape, MemoryOK
<1>1. ASSUME NEW t \in Threads, Report(t) PROVE NoStrandedId'
  <2>1. UNCHANGED <<queue, queued, task>>
    BY <1>1 DEF Report, Transition, TransitionFails, Notify,
                MarkUnhealthy
  <2>2. \A u \in Actors : pc[u] = "put" => pc'[u] = "put" /\ msg'[u] = msg[u]
    BY <1>0, <1>1 DEF Report, Transition, TransitionFails, Notify,
                      MarkUnhealthy
  <2> QED
    BY <2>1, <2>2, StrandedFrame
<1>2. ASSUME NEW t \in Threads, Working(t) PROVE NoStrandedId'
  <2>1. CASE FallbackMark(t) \/ Persist(t)
    <3>1. pc[t] # "put" /\ UNCHANGED <<queue, queued, task>>
      BY <2>1 DEF FallbackMark, Persist
    <3> QED
      BY <1>0, <2>1, <3>1, OthersStill, StrandedFrame
  <2> QED
    BY <1>0, <1>2, <2>1, StrandedQueueAdd, StrandedQueuePut
    DEF Working, ThreadStep
<1>3. CASE Sending
  <2>1. CASE Release
    <3>1. UNCHANGED <<queue, pc, msg>> /\ queued' = queued \ {task.id}
      BY <2>1 DEF Release
    <3> QED
      BY <3>1 DEF NoStrandedId
  <2>2. CASE \/ ReadRow \/ Send \/ Ack \/ Nack \/ ScanBegin \/ ScanNext
             \/ ScanDone
    <3>1. UNCHANGED <<queue, queued, task>>
      BY <2>2 DEF ReadRow, Send, Ack, Nack, ScanBegin, ScanNext, ScanDone
    <3>2. \A u \in Actors : pc[u] = "put" => pc'[u] = "put" /\ msg'[u] = msg[u]
      BY <1>0, <2>2
      DEF ReadRow, Send, Ack, Nack, ScanBegin, ScanNext, ScanDone
    <3> QED
      BY <3>1, <3>2, StrandedFrame
  <2> QED
    BY <1>0, <1>3, <2>1, <2>2, StrandedTake, StrandedQueueAdd, StrandedQueuePut
    DEF Sending, SenderStep
<1>4. CASE Waiting \/ Restart \/ UNCHANGED vars
  <2>1. UNCHANGED <<queue, queued, task, pc, msg>>
    BY <1>4 DEF Waiting, RetryDue, memory, Restart, Boot, vars, outboxVars
  <2> QED
    BY <2>1, StrandedFrame
<1>5. CASE RoundTimeout \/ FinishDiagnostics \/ Wedge \/ EmergencyRestart
  <2>1. UNCHANGED <<queue, queued, task, pc, msg>>
    BY <1>5 DEF RoundTimeout, FinishDiagnostics, Wedge, EmergencyRestart,
                outboxVars
  <2> QED
    BY <2>1, StrandedFrame
<1>6. CASE MarkAssets
  <2>1. pc[Loop] = "idle" /\ UNCHANGED <<queue, queued, task>>
    BY <1>6 DEF MarkAssets, DiagInv
  <2>2. \A u \in Actors : u # Loop => pc'[u] = pc[u] /\ msg'[u] = msg[u]
    BY <1>0, <1>6 DEF MarkAssets
  <2> QED
    BY <2>1, <2>2, StrandedFrame
<1>7. CASE Exit \/ Crash
  <2>1. queued' = {}
    BY <1>7 DEF Exit, Crash, Stop
  <2> QED
    BY <2>1 DEF NoStrandedId
<1> QED
  BY <1>1, <1>2, <1>3, <1>4, <1>5, <1>6, <1>7 DEF Next

\* No id stays in the dedupe set that no task, queued message or thread carries
\* (runner.py: _queue_notification_delivery, _notification_worker), so no row
\* is shut out of the queue for good.
THEOREM NoIdIsStranded == Spec => []NoStrandedId
<1>1. Init => NoStrandedId
  BY DEF Init, OutboxInit, NoStrandedId
<1>2. Init => DiagInv
  BY DEF Init, OutboxInit, DiagInv
<1> QED
  BY <1>1, <1>2, ShapeStart, ShapeKeeps, DiagKeeps, StrandedKeeps, PTL DEF Spec

-----------------------------------------------------------------------------
(* Deliveries                                                                *)

\* What the sender is about to send is pending, and next under its name.
SendInv ==
  sender = "send" /\ task.id # 0 =>
    /\ task.id \in Rows /\ Pending(task.id)
    /\ outbox[task.id].component # NoComponent =>
         \A j \in Rows : j < task.id
             /\ outbox[j].component = outbox[task.id].component => ~Pending(j)

\* A pending row was sent as often as its acknowledgement was lost, except
\* while the sender is about to acknowledge it.
CopiesInv ==
  up => \A i \in Rows : Pending(i) /\ ~(sender = "ack" /\ task.id = i)
                          => outbox[i].copies <= outbox[i].lostAcks

DeliveryInv == SendInv /\ CopiesInv /\ NoUnneededDuplicate

\* A step that sends and acknowledges nothing.
Calm ==
  /\ SameCounts
  /\ \A j \in Rows' \ Rows : outbox'[j].copies = 0 /\ outbox'[j].lostAcks = 0

\* A row below a row of the table is in the table.
LEMMA RowsBelow ==
  ASSUME StoreOK, KeepsRows, NEW i \in Rows, NEW j \in Rows', j < i
  PROVE  j \in Rows
<1>1. /\ outbox \in Seq(Row) /\ Len(outbox) \in Nat /\ Rows = 1 .. Len(outbox)
      /\ i \in 1 .. Len(outbox)
  BY DEF StoreOK, Rows
<1>2. Len(outbox') \in Nat /\ Rows' = 1 .. Len(outbox') /\ j \in Nat /\ j >= 1
  BY DEF KeepsRows, Rows
<1> QED
  BY <1>1, <1>2

LEMMA SendFrame ==
  ASSUME StoreOK, KeepsRows, SendInv, SameCounts,
         sender' # "send" \/ UNCHANGED <<sender, task>>
  PROVE  SendInv'
<1> SUFFICES ASSUME sender = "send", task.id # 0, UNCHANGED <<sender, task>>
             PROVE  SendInv'
  BY DEF SendInv
<1>1. /\ task.id \in Rows /\ Pending(task.id)
      /\ outbox[task.id].component # NoComponent =>
           \A j \in Rows : j < task.id
             /\ outbox[j].component = outbox[task.id].component => ~Pending(j)
  BY DEF SendInv
<1>2. task.id \in Rows' /\ Pending(task.id)'
      /\ outbox'[task.id].component = outbox[task.id].component
  BY <1>1 DEF KeepsRows, SameCounts, Pending
<1>3. \A j \in Rows' : j < task.id =>
        /\ j \in Rows /\ outbox'[j].component = outbox[j].component
        /\ Pending(j)' => Pending(j)
  BY <1>1, RowsBelow DEF KeepsRows
<1> QED
  BY <1>1, <1>2, <1>3 DEF SendInv

LEMMA CopiesFrame ==
  ASSUME CopiesInv, NoUnneededDuplicate, Calm, StoreOK, StoreOK',
         up' => up, sender # "ack" \/ UNCHANGED <<sender, task>> \/ ~up'
  PROVE  CopiesInv' /\ NoUnneededDuplicate'
<1>1. NoUnneededDuplicate'
  BY DEF NoUnneededDuplicate, Calm, SameCounts
<1>2. CopiesInv'
  BY DEF CopiesInv, Calm, SameCounts, Pending
<1> QED
  BY <1>1, <1>2

\* What is left of the invariant to show of a step that is calm.
LEMMA DeliveryFrame ==
  ASSUME StoreOK, StoreOK', KeepsRows, DeliveryInv, Calm,
         up' => up, sender # "ack" \/ UNCHANGED <<sender, task>> \/ ~up',
         sender' # "send" \/ UNCHANGED <<sender, task>> \/ SendInv'
  PROVE  DeliveryInv'
BY SendFrame, CopiesFrame DEF DeliveryInv, Calm

LEMMA SameIsCalm == ASSUME UNCHANGED outbox PROVE Calm
BY DEF Calm, SameCounts, Rows

LEMMA AppendIsCalm ==
  ASSUME StoreOK, NEW name \in Names, NEW c \in Origins, NEW kind \in Kinds,
         Len(outbox) < MaxRows,
         outbox' = Append(outbox, NewRow(name, c, kind))
  PROVE  Calm
<1>1. /\ Rows' = Rows \cup {Len(outbox) + 1}
      /\ \A i \in Rows : outbox'[i] = outbox[i]
      /\ outbox'[Len(outbox) + 1] = NewRow(name, c, kind)
  BY AppendRow
<1>2. NewRow(name, c, kind).copies = 0 /\ NewRow(name, c, kind).lostAcks = 0
  BY DEF NewRow
<1> QED
  BY <1>1, <1>2 DEF Calm, SameCounts

\* A report leaves the rows alone or adds one: under the component's own name
\* with the edge, under a name of _safe_notify apart from it.
LEMMA ReportAppends ==
  ASSUME StoreOK, MemoryOK, NEW t \in Threads, Report(t) \/ ThreadStep(t)
  PROVE  /\ \/ UNCHANGED outbox
            \/ /\ Len(outbox) < MaxRows
               /\ \E c \in Origins, kind \in Kinds, name \in Names :
                    /\ outbox' = Append(outbox, NewRow(name, c, kind))
                    /\ \/ name = c
                       \/ /\ pc[t] = "persist" /\ msg[t].about = c
                          /\ name \in RowNames(c)
         /\ UNCHANGED <<lastSent, sender, task, up>>
         /\ degraded \subseteq degraded'
<1>0. t \in Actors /\ msg[t].about \in Origins /\ msg[t].kind \in Kinds
  BY ActorsOf DEF MemoryOK, Message
<1>1. CASE Report(t)
  <2>1. UNCHANGED <<lastSent, sender, task, up>> /\ degraded \subseteq degraded'
    BY <1>1 DEF Report, Transition, TransitionFails, Notify, MarkUnhealthy
  <2>2. \/ UNCHANGED outbox
        \/ \E c \in Components, kind \in Kinds :
             /\ Len(outbox) < MaxRows
             /\ outbox' = Append(outbox, NewRow(c, c, kind))
    BY <1>1 DEF Report, Transition, TransitionFails, Notify, MarkUnhealthy
  <2> QED
    BY <2>1, <2>2, NamesOf
<1>2. CASE ThreadStep(t)
  <2>1. UNCHANGED <<lastSent, sender, task, up>> /\ degraded \subseteq degraded'
    BY <1>2 DEF ThreadStep, FallbackMark, Persist, QueueAdd, QueuePut
  <2>2. \/ UNCHANGED outbox
        \/ /\ Len(outbox) < MaxRows /\ pc[t] = "persist"
           /\ \E name \in RowNames(msg[t].about) :
                outbox' = Append(outbox, NewRow(name, msg[t].about, msg[t].kind))
    BY <1>2 DEF ThreadStep, FallbackMark, Persist, QueueAdd, QueuePut
  <2> QED
    BY <1>0, <2>1, <2>2, NamesOf
<1> QED
  BY <1>1, <1>2

LEMMA ReportIsCalm ==
  ASSUME StoreOK, MemoryOK, NEW t \in Threads, Report(t) \/ ThreadStep(t)
  PROVE  Calm /\ UNCHANGED <<lastSent, sender, task, up>>
BY ReportAppends, SameIsCalm, AppendIsCalm

\* The row that Send sends: one more copy, and the last about its origin.
LEMMA SendsNext ==
  ASSUME StoreOK, MemoryOK, DeliveryInv, Send, task.id # 0, sender' = "ack"
  PROVE  /\ task.id \in Rows /\ Rows' = Rows
         /\ outbox[task.id].about \in Origins
         /\ lastSent' = [lastSent EXCEPT ![outbox[task.id].about] = task.id]
         /\ outbox'[task.id].copies = outbox[task.id].copies + 1
         /\ outbox'[task.id].lostAcks = outbox[task.id].lostAcks
         /\ outbox[task.id].copies <= outbox[task.id].lostAcks
         /\ \A j \in Rows : j # task.id => outbox'[j] = outbox[j]
<1>1. /\ sender = "send" /\ up
      /\ outbox' = [outbox EXCEPT ![task.id].copies = @ + 1]
      /\ lastSent' = [lastSent EXCEPT ![outbox[task.id].about] = task.id]
  BY DEF Send
<1>2. task.id \in Rows /\ Pending(task.id)
  BY <1>1 DEF DeliveryInv, SendInv
<1>3. outbox[task.id] \in Row /\ outbox[task.id].about \in Origins
  BY <1>2, RowType DEF Row
<1>4. Rows' = Rows
  BY SendShape
<1>5. outbox'[task.id] = [outbox[task.id] EXCEPT !.copies = @ + 1]
      /\ \A j \in Rows : j # task.id => outbox'[j] = outbox[j]
  BY <1>1, <1>2 DEF Rows
<1>6. outbox'[task.id].copies = outbox[task.id].copies + 1
      /\ outbox'[task.id].lostAcks = outbox[task.id].lostAcks
  BY <1>3, <1>5 DEF Row
<1>7. outbox[task.id].copies <= outbox[task.id].lostAcks
  BY <1>1, <1>2 DEF DeliveryInv, CopiesInv
<1> QED
  BY <1>1, <1>2, <1>3, <1>4, <1>5, <1>6, <1>7

LEMMA SendKeeps ==
  ASSUME Shape, DeliveryInv, Send PROVE DeliveryInv'
<1>0. StoreOK /\ MemoryOK /\ StoreOK' /\ KeepsRows /\ Rows' = Rows
  BY SendShape DEF Shape
<1>1. CASE task.id # 0 /\ sender' = "ack"
  <2>1. /\ task.id \in Rows
        /\ outbox[task.id].about \in Origins
        /\ lastSent' = [lastSent EXCEPT ![outbox[task.id].about] = task.id]
        /\ outbox'[task.id].copies = outbox[task.id].copies + 1
        /\ outbox'[task.id].lostAcks = outbox[task.id].lostAcks
        /\ outbox[task.id].copies <= outbox[task.id].lostAcks
        /\ \A j \in Rows : j # task.id => outbox'[j] = outbox[j]
    BY <1>0, <1>1, SendsNext
  <2>2. UNCHANGED <<task, up>> /\ up /\ sender = "send"
    BY DEF Send
  <2>3. SendInv'
    BY <1>1 DEF SendInv
  <2>4. CopiesInv'
    BY <1>0, <1>1, <2>1, <2>2 DEF CopiesInv, DeliveryInv, Pending
  <2>5. NoUnneededDuplicate'
    <3>1. outbox[task.id].copies \in Nat /\ outbox[task.id].lostAcks \in Nat
      BY <1>0, <2>1, RowType DEF Row
    <3>2. outbox'[task.id].copies <= 1 + outbox'[task.id].lostAcks
      BY <2>1, <3>1
    <3> QED
      BY <1>0, <2>1, <3>2 DEF NoUnneededDuplicate, DeliveryInv
  <2> QED
    BY <2>3, <2>4, <2>5 DEF DeliveryInv
<1>2. CASE /\ UNCHANGED <<outbox, lastSent, task, up>>
           /\ sender = "send" /\ sender' \in {"release", "nack"}
  BY <1>0, <1>2, SameIsCalm, DeliveryFrame
<1> QED
  BY <1>1, <1>2 DEF Send

LEMMA AckKeeps ==
  ASSUME Shape, DeliveryInv, Ack PROVE DeliveryInv'
<1>0. StoreOK /\ MemoryOK
  BY DEF Shape
<1>1. /\ StoreOK' /\ KeepsRows /\ Rows' = Rows /\ task.id \in Rows
      /\ \A j \in Rows : j # task.id => outbox'[j] = outbox[j]
      /\ outbox'[task.id].copies = outbox[task.id].copies
      /\ \/ ~Pending(task.id)'
            /\ outbox'[task.id].lostAcks = outbox[task.id].lostAcks
         \/ outbox'[task.id].lostAcks = outbox[task.id].lostAcks + 1
  BY <1>0, AckShape
<1>2. sender' \in {"release", "nack"} /\ UNCHANGED <<lastSent, task, up>>
      /\ sender = "ack" /\ up
  BY DEF Ack
<1>3. SendInv'
  BY <1>2 DEF SendInv
<1>4. outbox[task.id].copies \in Nat /\ outbox[task.id].lostAcks \in Nat
      /\ outbox[task.id].copies <= 1 + outbox[task.id].lostAcks
  BY <1>0, <1>1, RowType DEF Row, DeliveryInv, NoUnneededDuplicate
<1>5. outbox'[task.id].copies <= 1 + outbox'[task.id].lostAcks
      /\ (Pending(task.id)' =>
            outbox'[task.id].copies <= outbox'[task.id].lostAcks)
  BY <1>1, <1>4
<1>6. NoUnneededDuplicate'
  BY <1>1, <1>5 DEF NoUnneededDuplicate, DeliveryInv
<1>7. \A j \in Rows : j # task.id /\ Pending(j)' =>
        Pending(j) /\ outbox[j].copies <= outbox[j].lostAcks
  BY <1>1, <1>2 DEF KeepsRows, CopiesInv, DeliveryInv
<1>8. CopiesInv'
  <2> SUFFICES ASSUME NEW j \in Rows', Pending(j)'
               PROVE  outbox'[j].copies <= outbox'[j].lostAcks
    BY DEF CopiesInv
  <2>1. CASE j = task.id
    BY <1>2, <1>5, <2>1
  <2>2. CASE j # task.id
    <3>1. j \in Rows /\ outbox'[j] = outbox[j]
      BY <1>1, <2>2
    <3> QED
      BY <1>7, <2>2, <3>1
  <2> QED
    BY <2>1, <2>2
<1> QED
  BY <1>3, <1>6, <1>8 DEF DeliveryInv

LEMMA DeliveryKeeps == Shape /\ DeliveryInv /\ [Next]_vars => DeliveryInv'
<1> SUFFICES ASSUME Shape, DeliveryInv, [Next]_vars PROVE DeliveryInv'
  OBVIOUS
<1>0. StoreOK /\ MemoryOK /\ StoreOK' /\ KeepsRows
  BY ShapeKeeps DEF Shape
<1>1. ASSUME NEW t \in Threads, Report(t) \/ Working(t)
      PROVE  DeliveryInv'
  BY <1>0, <1>1, ReportIsCalm, DeliveryFrame DEF Working
<1>2. CASE Sending
  <2>1. CASE Take
    <3>1. /\ UNCHANGED <<outbox, lastSent, up>> /\ sender = "idle"
          /\ sender' = IF task'.id = 0 THEN "send" ELSE "read"
      BY <2>1 DEF Take
    <3>2. SendInv'
      BY <3>1 DEF SendInv
    <3> QED
      BY <1>0, <3>1, <3>2, SameIsCalm, DeliveryFrame
  <2>2. CASE ReadRow
    <3>1. /\ UNCHANGED <<outbox, lastSent, up, task>> /\ sender = "read"
          /\ sender' \in {"send", "release"}
          /\ sender' = "send" => Deliverable(task.id)
      BY <2>2 DEF ReadRow
    <3>2. task.id \in Rows
      BY <1>0, <3>1 DEF MemoryOK
    <3>3. SendInv'
      BY <3>1, <3>2 DEF SendInv, Deliverable, Rows, Pending
    <3> QED
      BY <1>0, <3>1, <3>3, SameIsCalm, DeliveryFrame
  <2>3. CASE Nack
    <3>1. UNCHANGED <<lastSent, up>> /\ sender = "nack" /\ sender' = "release"
      BY <2>3 DEF Nack
    <3>2. Calm
      BY <1>0, <2>3, NackShape DEF Calm
    <3> QED
      BY <1>0, <3>1, <3>2, DeliveryFrame
  <2>4. CASE \/ Release \/ ScanBegin \/ ScanNext \/ ScanDone
             \/ QueueAdd(Sender) \/ QueuePut(Sender)
    <3>1. /\ UNCHANGED <<outbox, lastSent, up>>
          /\ sender \in {"release", "idle", "scan"} \/ UNCHANGED <<sender, task>>
          /\ sender' \in {"idle", "scan"} \/ UNCHANGED <<sender, task>>
      BY <2>4 DEF Release, ScanBegin, ScanNext, ScanDone, QueueAdd, QueuePut
    <3> QED
      BY <1>0, <3>1, SameIsCalm, DeliveryFrame
  <2>5. CASE Send
    BY <2>5, SendKeeps
  <2>6. CASE Ack
    BY <2>6, AckKeeps DEF Ack
  <2> QED
    BY <1>2, <2>1, <2>2, <2>3, <2>4, <2>5, <2>6 DEF Sending, SenderStep
<1>3. CASE Waiting
  <2>1. /\ SameCounts /\ Rows' = Rows
        /\ UNCHANGED <<memory, lastSent, up>>
    BY <1>0, <1>3, RetryShape DEF Waiting
  <2>2. Calm /\ UNCHANGED <<sender, task>>
    BY <2>1 DEF Calm, memory
  <2> QED
    BY <1>0, <2>1, <2>2, DeliveryFrame
<1>4. CASE \/ RoundTimeout \/ MarkAssets \/ FinishDiagnostics \/ Wedge
           \/ EmergencyRestart \/ UNCHANGED vars
  <2>1. UNCHANGED <<outbox, lastSent, up, sender, task>>
    BY <1>4 DEF RoundTimeout, MarkAssets, FinishDiagnostics, Wedge,
                EmergencyRestart, vars, outboxVars
  <2> QED
    BY <1>0, <2>1, SameIsCalm, DeliveryFrame
<1>5. CASE Exit \/ Crash
  <2>1. UNCHANGED <<outbox, lastSent>> /\ up' = FALSE /\ sender' = "idle"
    BY <1>5 DEF Exit, Crash, Stop
  <2> QED
    BY <1>0, <2>1, SameIsCalm, DeliveryFrame
<1>6. CASE Restart
  <2>1. /\ Rows' = Rows
        /\ \A i \in Rows : /\ ~Pending(i)'
                           /\ outbox'[i].copies = outbox[i].copies
                           /\ outbox'[i].lostAcks = outbox[i].lostAcks
    BY <1>0, <1>6, BootShape DEF Restart
  <2>2. UNCHANGED <<lastSent, sender, task>> /\ ~up
    BY <1>6 DEF Restart, Boot
  <2>3. SendInv'
    BY <2>2 DEF Shape, StoppedClean, SendInv
  <2>4. CopiesInv' /\ NoUnneededDuplicate'
    BY <2>1 DEF CopiesInv, NoUnneededDuplicate, DeliveryInv
  <2> QED
    BY <2>3, <2>4 DEF DeliveryInv
<1> QED
  BY <1>1, <1>2, <1>3, <1>4, <1>5, <1>6 DEF Next

LEMMA DeliveryStart == Init => DeliveryInv
<1> SUFFICES ASSUME Init PROVE DeliveryInv
  OBVIOUS
<1>1. Rows = {} /\ sender = "idle"
  BY DEF Init, OutboxInit, Rows
<1> QED
  BY <1>1 DEF DeliveryInv, SendInv, CopiesInv, NoUnneededDuplicate

\* Telegram has a message twice only if an acknowledgement of it was lost
\* (runner.py: _deliver_notification_task; state.py: deliverable_notification),
\* whatever the queue and the scan duplicate.
THEOREM NoDuplicateUnacknowledged == Spec => []NoUnneededDuplicate
<1>1. DeliveryInv => NoUnneededDuplicate
  BY DEF DeliveryInv
<1> QED
  BY <1>1, DeliveryStart, DeliveryKeeps, ShapeStart, ShapeKeeps, PTL DEF Spec

-----------------------------------------------------------------------------
(* The promise of the outbox                                                 *)

\* No acknowledgement is lost of a message that was not sent, and the sender
\* acknowledges a row that Telegram has.
AckInv ==
  /\ \A i \in Rows : outbox[i].lostAcks <= outbox[i].copies
  /\ sender = "ack" => /\ Pending(task.id)
                       /\ outbox[task.id].lostAcks < outbox[task.id].copies

LEMMA FateOf ==
  ASSUME StoreOK, NEW i \in Rows
  PROVE  /\ Pending(i) /\ outbox[i].copies > outbox[i].lostAcks
              => Fate(outbox[i]) = "delivered"
         /\ Pending(i) /\ outbox[i].copies <= outbox[i].lostAcks
              => Fate(outbox[i]) = "waiting"
         /\ Pending(i) <=> Fate(outbox[i]) \in Promise!Open
         /\ outbox[i].status = "sent" => Fate(outbox[i]) = "sent"
         /\ outbox[i].status = "deleted" => Fate(outbox[i]) = "dropped"
         /\ outbox[i].copies \in Nat /\ outbox[i].lostAcks \in Nat
<1>1. /\ outbox[i].status \in {"pending", "sent", "deleted"}
      /\ outbox[i].copies \in Nat /\ outbox[i].lostAcks \in Nat
  BY RowType DEF Row
<1> QED
  BY <1>1 DEF Fate, Promise!Open, Pending

FateRule ==
  \A i \in Rows :
    /\ Pending(i) /\ outbox[i].copies > outbox[i].lostAcks
         => Fate(outbox[i]) = "delivered"
    /\ Pending(i) /\ outbox[i].copies <= outbox[i].lostAcks
         => Fate(outbox[i]) = "waiting"
    /\ outbox[i].status = "sent" => Fate(outbox[i]) = "sent"

LEMMA FateOfNext == StoreOK' => FateRule'
<1>1. StoreOK => FateRule
  BY FateOf DEF FateRule
<1> QED
  BY <1>1, PTL

\* A step that leaves the counts of all rows alone is not seen.
LEMMA PromiseStill ==
  ASSUME KeepsRows, Rows' = Rows, SameCounts
  PROVE  Promised' = Promised
<1>1. \A i \in Rows : /\ outbox'[i].about = outbox[i].about
                      /\ outbox'[i].component = outbox[i].component
                      /\ Fate(outbox'[i]) = Fate(outbox[i])
  BY DEF KeepsRows, SameCounts, Fate
<1> QED
  BY <1>1 DEF Promised

\* A new row is a notification that waits.
LEMMA PromiseAppends ==
  ASSUME StoreOK, NEW name \in Names, NEW c \in Origins, NEW kind \in Kinds,
         Len(outbox) < MaxRows, name \in Lanes[c],
         outbox' = Append(outbox, NewRow(name, c, kind))
  PROVE  Promise!Persist(c)
<1> DEFINE n == Len(outbox)
           item == [origin |-> c, lane |-> name, fate |-> "waiting"]
<1>1. /\ Rows = 1 .. n /\ n \in Nat
      /\ Rows' = Rows \cup {n + 1} /\ n + 1 \notin Rows
      /\ \A i \in Rows : outbox'[i] = outbox[i]
      /\ outbox'[n + 1] = NewRow(name, c, kind)
  BY AppendRow
<1>2. /\ NewRow(name, c, kind).about = c /\ NewRow(name, c, kind).component = name
      /\ Fate(NewRow(name, c, kind)) = "waiting"
  BY DEF NewRow, Fate
<1>3. /\ Promised' = [i \in Rows' |-> Promised'[i]]
      /\ \A i \in Rows : Promised'[i] = Promised[i]
      /\ Promised'[n + 1] = item
  BY <1>1, <1>2 DEF Promised
<1> DEFINE T == {item} \cup {Promised[i] : i \in Rows}
           app == Append(Promised, item)
<1>4. Promised \in Seq(T) /\ Len(Promised) = n /\ item \in T
  BY <1>1 DEF Promised
<1> HIDE DEF item, n, T
<1>5. /\ app \in Seq(T) /\ Len(app) = n + 1 /\ app[n + 1] = item
      /\ \A i \in 1 .. n : app[i] = Promised[i]
  BY <1>1, <1>4
<1> HIDE DEF app
<1>6. app = [i \in 1 .. n + 1 |-> app[i]] /\ 1 .. n + 1 = Rows'
  BY <1>1, <1>5
<1>7. Promised' = app
  <2>1. \A i \in Rows' : Promised'[i] = app[i]
    BY <1>1, <1>3, <1>5
  <2>2. [i \in Rows' |-> Promised'[i]] = [i \in Rows' |-> app[i]]
    BY <2>1
  <2>3. app = [i \in Rows' |-> app[i]]
    BY <1>6
  <2> QED
    BY <1>3, <2>2, <2>3
<1> QED
  BY <1>7, name \in Lanes[c] DEF Promise!Persist, item, app

\* One row moves from one fate to another.
LEMMA PromiseMoves ==
  ASSUME KeepsRows, Rows' = Rows, NEW i \in Rows, NEW from, NEW to,
         \A j \in Rows : j # i => outbox'[j] = outbox[j],
         Fate(outbox[i]) = from, Fate(outbox'[i]) = to
  PROVE  Promise!Moves(i, from, to)
<1> DEFINE Item(fate) ==
             [origin |-> outbox[i].about, lane |-> outbox[i].component,
              fate |-> fate]
<1>1. outbox'[i].about = outbox[i].about /\ outbox'[i].component = outbox[i].component
  BY DEF KeepsRows
<1>2. Promised[i] = Item(from)
  BY DEF Promised
<1>3. Promised' = [j \in Rows |-> IF j = i THEN Item(to) ELSE Promised[j]]
  BY <1>1 DEF Promised
<1>4. [Promised EXCEPT ![i].fate = to] =
        [j \in Rows |-> IF j = i THEN Item(to) ELSE Promised[j]]
  <2>1. [Promised EXCEPT ![i].fate = to] = [j \in Rows |->
          IF j = i THEN [Promised[i] EXCEPT !.fate = to] ELSE Promised[j]]
    BY DEF Promised
  <2> QED
    BY <1>2, <2>1
<1> QED
  BY <1>2, <1>3, <1>4 DEF Promise!Moves

\* The row the sender sends is in the turn of its name.
LEMMA SentInTurn ==
  ASSUME StoreOK, SendInv, sender = "send", task.id # 0
  PROVE  task.id \in Rows /\ Promise!InTurn(task.id)
<1>1. /\ task.id \in Rows
      /\ outbox[task.id].component # NoComponent =>
           \A j \in Rows : j < task.id
             /\ outbox[j].component = outbox[task.id].component => ~Pending(j)
  BY DEF SendInv
<1>2. \A j \in Rows : /\ Promised[j].lane = outbox[j].component
                      /\ Promised[j].fate \in Promise!Open <=> Pending(j)
  BY FateOf DEF Promised
<1> QED
  BY <1>1, <1>2 DEF Promise!InTurn, Promised

LEMMA ReportPromise ==
  ASSUME StoreOK, MemoryOK, KeepsRows, NEW t \in Threads, Report(t) \/ ThreadStep(t)
  PROVE  [Promise!Next]_Promised
<1>1. CASE UNCHANGED outbox
  BY <1>1 DEF Promised, Rows
<1>2. ASSUME NEW c \in Origins, NEW kind \in Kinds, NEW name \in Names,
             Len(outbox) < MaxRows, name = c \/ name \in RowNames(c),
             outbox' = Append(outbox, NewRow(name, c, kind))
      PROVE  Promise!Next
  <2>1. name \in Lanes[c]
    BY <1>2 DEF Lanes
  <2> QED
    BY <1>2, <2>1, PromiseAppends DEF Promise!Next
<1> QED
  BY <1>1, <1>2, ReportAppends

LEMMA SendPromise ==
  ASSUME Shape, DeliveryInv, AckInv, Send
  PROVE  AckInv' /\ [Promise!Next]_Promised
<1>0. StoreOK /\ MemoryOK /\ StoreOK' /\ KeepsRows /\ Rows' = Rows
  BY SendShape DEF Shape
<1>1. CASE task.id # 0 /\ sender' = "ack"
  <2> DEFINE i == task.id
  <2>1. /\ i \in Rows
        /\ outbox'[i].copies = outbox[i].copies + 1
        /\ outbox'[i].lostAcks = outbox[i].lostAcks
        /\ outbox[i].copies <= outbox[i].lostAcks
        /\ \A j \in Rows : j # i => outbox'[j] = outbox[j]
    BY <1>0, <1>1, SendsNext
  <2>2. /\ sender = "send" /\ UNCHANGED task
        /\ outbox' = [outbox EXCEPT ![i].copies = @ + 1]
    BY <1>1 DEF Send
  <2>3. Pending(i) /\ Promise!InTurn(i)
    BY <1>0, <1>1, <2>2, SentInTurn DEF DeliveryInv, SendInv
  <2>4. /\ outbox[i].copies \in Nat /\ outbox[i].lostAcks \in Nat
        /\ outbox[i].lostAcks <= outbox[i].copies
    BY <1>0, <2>1, FateOf DEF AckInv
  <2>5. outbox'[i].lostAcks < outbox'[i].copies
    BY <2>1, <2>4
  <2>6. outbox'[i].status = "pending"
    <3>1. outbox[i] \in Row
      BY <1>0, <2>1, RowType
    <3>2. outbox'[i].status = outbox[i].status
      BY <2>1, <2>2, <3>1 DEF Rows, Row
    <3> QED
      BY <2>2, <2>3, <3>2 DEF Pending
  <2> HIDE DEF i
  <2>7. AckInv'
    <3>1. \A j \in Rows : outbox'[j].lostAcks <= outbox'[j].copies
      BY <2>1, <2>4, <2>5 DEF AckInv
    <3> QED
      BY <1>0, <2>2, <2>5, <2>6, <3>1 DEF AckInv, Pending, i
  <2>8. Fate(outbox[i]) = "waiting" /\ Fate(outbox'[i]) = "delivered"
    <3>1. i \in Rows' /\ FateRule'
      BY <1>0, <2>1, FateOfNext
    <3>2. Fate(outbox'[i]) = "delivered"
      BY <2>5, <2>6, <3>1 DEF FateRule, Pending
    <3> QED
      BY <1>0, <2>1, <2>3, <3>2, FateOf
  <2>9. Promise!Deliver(i) /\ i \in DOMAIN Promised
    BY <1>0, <2>1, <2>3, <2>8, PromiseMoves DEF Promise!Deliver, Promised
  <2> QED
    BY <2>7, <2>9 DEF Promise!Next
<1>2. CASE UNCHANGED outbox /\ sender' # "ack"
  BY <1>0, <1>2 DEF AckInv, Promised
<1> QED
  BY <1>1, <1>2 DEF Send

LEMMA AckPromise ==
  ASSUME Shape, DeliveryInv, AckInv, Ack
  PROVE  AckInv' /\ [Promise!Next]_Promised
<1> DEFINE i == task.id
<1>0. StoreOK /\ MemoryOK
  BY DEF Shape
<1>1. /\ StoreOK' /\ KeepsRows /\ Rows' = Rows /\ i \in Rows
      /\ \A j \in Rows : j # i => outbox'[j] = outbox[j]
      /\ outbox'[i].copies = outbox[i].copies
      /\ \/ ~Pending(i)' /\ sender' = "release"
            /\ outbox'[i].lostAcks = outbox[i].lostAcks
         \/ outbox'[i].lostAcks = outbox[i].lostAcks + 1
  BY <1>0, AckShape
<1>2. /\ sender = "ack" /\ sender' # "ack" /\ UNCHANGED task
      /\ Pending(i) /\ outbox[i].lostAcks < outbox[i].copies
      /\ outbox[i].copies \in Nat /\ outbox[i].lostAcks \in Nat
      /\ outbox[i].copies <= 1 + outbox[i].lostAcks
  BY <1>0, <1>1, FateOf DEF Ack, AckInv, DeliveryInv, NoUnneededDuplicate
<1>3. outbox[i] \in Row
  BY <1>0, <1>1, RowType
<1>4. \/ outbox'[i].status = "sent" /\ outbox'[i].lostAcks = outbox[i].lostAcks
      \/ outbox'[i].status = "pending" /\ outbox'[i].lostAcks = outbox[i].lostAcks + 1
  <2>1. CASE outbox' = [outbox EXCEPT ![i].status =
                          IF @ = "pending" THEN "sent" ELSE @]
    <3> DEFINE row == [outbox[i] EXCEPT !.status = "sent"]
    <3>1. outbox'[i] = row
      BY <1>1, <1>2, <2>1 DEF Rows, Pending
    <3>2. row.status = "sent" /\ row.lostAcks = outbox[i].lostAcks
      BY <1>3 DEF Row
    <3> QED
      BY <3>1, <3>2
  <2>2. CASE outbox' = [outbox EXCEPT ![i].lostAcks = @ + 1]
    <3> DEFINE row == [outbox[i] EXCEPT !.lostAcks = @ + 1]
    <3>1. outbox'[i] = row
      BY <1>1, <2>2 DEF Rows
    <3>2. row.status = outbox[i].status /\ row.lostAcks = outbox[i].lostAcks + 1
      BY <1>3 DEF Row
    <3> QED
      BY <1>2, <3>1, <3>2 DEF Pending
  <2> QED
    BY <2>1, <2>2 DEF Ack
<1> HIDE DEF i
<1>5. AckInv'
  <2>1. \A j \in Rows : outbox'[j].lostAcks <= outbox'[j].copies
    BY <1>1, <1>2, <1>4 DEF AckInv
  <2> QED
    BY <1>1, <1>2, <2>1 DEF AckInv
<1>6. i \in Rows' /\ i \in DOMAIN Promised /\ Fate(outbox[i]) = "delivered"
  BY <1>0, <1>1, <1>2, FateOf DEF Promised
<1>7. CASE outbox'[i].status = "sent"
  <2>1. Fate(outbox'[i]) = "sent"
    BY <1>1, <1>6, <1>7, FateOfNext DEF FateRule
  <2>2. Promise!Confirm(i)
    BY <1>1, <1>6, <2>1, PromiseMoves DEF Promise!Confirm
  <2> QED
    BY <1>5, <1>6, <2>2 DEF Promise!Next
<1>8. CASE outbox'[i].status = "pending" /\ outbox'[i].lostAcks = outbox[i].lostAcks + 1
  <2>1. outbox'[i].copies <= outbox'[i].lostAcks
    BY <1>1, <1>2, <1>8
  <2>2. Fate(outbox'[i]) = "waiting"
    BY <1>1, <1>6, <1>8, <2>1, FateOfNext DEF FateRule, Pending
  <2>3. Promise!LoseAck(i)
    BY <1>1, <1>6, <2>2, PromiseMoves DEF Promise!LoseAck
  <2> QED
    BY <1>5, <1>6, <2>3 DEF Promise!Next
<1> QED
  BY <1>4, <1>7, <1>8

\* The boot drops every notification that is not recorded as sent.
LEMMA BootPromise ==
  ASSUME Shape, AckInv, Restart
  PROVE  AckInv' /\ Promise!Drop
<1>1. /\ StoreOK /\ MemoryOK /\ StoreOK' /\ KeepsRows /\ Rows' = Rows
      /\ \A i \in Rows : /\ outbox'[i].copies = outbox[i].copies
                         /\ outbox'[i].lostAcks = outbox[i].lostAcks
  BY BootShape DEF Restart, Shape
<1>2. /\ sender = "idle" /\ UNCHANGED sender
      /\ outbox' = [i \in Rows |-> BootRow(outbox[i])]
  BY DEF Restart, Boot, Shape, StoppedClean
<1>3. AckInv'
  BY <1>1, <1>2 DEF AckInv
<1>4. ASSUME NEW i \in Rows
      PROVE  Promised'[i] = IF Promised[i].fate \in Promise!Open
                              THEN [Promised[i] EXCEPT !.fate = "dropped"]
                              ELSE Promised[i]
  <2>0. Promised[i] = [origin |-> outbox[i].about, lane |-> outbox[i].component,
                       fate |-> Fate(outbox[i])]
        /\ Promised'[i] = [origin |-> outbox'[i].about,
                           lane |-> outbox'[i].component,
                           fate |-> Fate(outbox'[i])]
        /\ outbox'[i].about = outbox[i].about
        /\ outbox'[i].component = outbox[i].component
        /\ outbox'[i] = BootRow(outbox[i]) /\ outbox[i] \in Row
    BY <1>1, <1>2, RowType DEF Promised, KeepsRows
  <2>1. CASE Pending(i)
    <3> DEFINE row == [outbox[i] EXCEPT !.status = "deleted"]
    <3>1. outbox'[i] = row /\ row.status = "deleted"
      BY <2>0, <2>1 DEF BootRow, Pending, Row
    <3> HIDE DEF row
    <3>2. Fate(outbox'[i]) = "dropped" /\ Fate(outbox[i]) \in Promise!Open
      BY <1>1, <2>1, <3>1, FateOf DEF Fate
    <3> QED
      BY <2>0, <3>2
  <2>2. CASE ~Pending(i)
    <3>1. outbox'[i] = outbox[i] /\ ~(Fate(outbox[i]) \in Promise!Open)
      BY <1>1, <2>0, <2>2, FateOf DEF BootRow, Pending
    <3> QED
      BY <2>0, <3>1
  <2> QED
    BY <2>1, <2>2
<1>5. Promised' = [i \in Rows |-> Promised'[i]] /\ DOMAIN Promised = Rows
  BY <1>1 DEF Promised
<1> QED
  BY <1>3, <1>4, <1>5 DEF Promise!Drop

\* A calm step of the sender or the supervision changes no fate.
LEMMA QuietPromise ==
  ASSUME MemoryOK, KeepsRows, Rows' = Rows, SameCounts, AckInv,
         sender' # "ack" \/ UNCHANGED <<sender, task>>
  PROVE  AckInv' /\ [Promise!Next]_Promised
<1>1. Promised' = Promised
  BY PromiseStill
<1>2. AckInv'
  <2>1. sender = "ack" => task.id \in Rows
    BY DEF MemoryOK
  <2> QED
    BY <2>1 DEF AckInv, SameCounts, Pending
<1> QED
  BY <1>1, <1>2

LEMMA PromiseKeeps ==
  Shape /\ DeliveryInv /\ AckInv /\ [Next]_vars =>
    AckInv' /\ [Promise!Next]_Promised
<1> SUFFICES ASSUME Shape, DeliveryInv, AckInv, [Next]_vars
             PROVE  AckInv' /\ [Promise!Next]_Promised
  OBVIOUS
<1>0. StoreOK /\ MemoryOK /\ KeepsRows
  BY ShapeKeeps DEF Shape
<1>1. ASSUME UNCHANGED outbox PROVE SameCounts /\ Rows' = Rows
  BY <1>1 DEF SameCounts, Rows
<1>2. ASSUME NEW t \in Threads, Report(t) \/ Working(t)
      PROVE  AckInv' /\ [Promise!Next]_Promised
  <2>1. Report(t) \/ ThreadStep(t)
    BY <1>2 DEF Working
  <2>2. Calm /\ UNCHANGED <<sender, task>>
    BY <1>0, <2>1, ReportIsCalm
  <2>3. /\ \A j \in Rows' \ Rows : outbox'[j].lostAcks <= outbox'[j].copies
        /\ sender = "ack" => task.id \in Rows
    BY <1>0, <2>2 DEF Calm, MemoryOK
  <2>4. AckInv'
    BY <2>2, <2>3 DEF AckInv, Calm, SameCounts, Pending
  <2> QED
    BY <1>0, <2>1, <2>4, ReportPromise
<1>3. CASE Sending
  <2>1. CASE \/ Take \/ ReadRow \/ Release \/ ScanBegin \/ ScanNext \/ ScanDone
             \/ QueueAdd(Sender) \/ QueuePut(Sender)
    <3>1. UNCHANGED outbox /\ (sender' # "ack" \/ UNCHANGED <<sender, task>>)
      BY <2>1 DEF Take, ReadRow, Release, ScanBegin, ScanNext, ScanDone,
                  QueueAdd, QueuePut
    <3> QED
      BY <1>0, <1>1, <3>1, QuietPromise
  <2>2. CASE Nack
    <3>1. SameCounts /\ Rows' = Rows /\ sender' # "ack"
      BY <1>0, <2>2, NackShape DEF Nack
    <3> QED
      BY <1>0, <3>1, QuietPromise
  <2> QED
    BY <1>3, <2>1, <2>2, SendPromise, AckPromise DEF Sending, SenderStep
<1>4. CASE Waiting
  <2>1. SameCounts /\ Rows' = Rows /\ UNCHANGED memory
    BY <1>0, <1>4, RetryShape DEF Waiting
  <2> QED
    BY <1>0, <2>1, QuietPromise DEF memory
<1>5. CASE \/ RoundTimeout \/ MarkAssets \/ FinishDiagnostics \/ Wedge
           \/ EmergencyRestart \/ UNCHANGED vars
  <2>1. UNCHANGED <<outbox, sender, task>>
    BY <1>5 DEF RoundTimeout, MarkAssets, FinishDiagnostics, Wedge,
                EmergencyRestart, vars, outboxVars
  <2> QED
    BY <1>0, <1>1, <2>1, QuietPromise
<1>6. CASE Exit \/ Crash
  <2>1. UNCHANGED outbox /\ sender' = "idle"
    BY <1>6 DEF Exit, Crash, Stop
  <2> QED
    BY <1>0, <1>1, <2>1, QuietPromise
<1>7. CASE Restart
  BY <1>7, BootPromise DEF Promise!Next
<1> QED
  BY <1>2, <1>3, <1>4, <1>5, <1>6, <1>7 DEF Next

LEMMA PromiseStart == Init => AckInv /\ Promise!Init
<1> SUFFICES ASSUME Init PROVE AckInv /\ Promise!Init
  OBVIOUS
<1>1. outbox = <<>> /\ Rows = {} /\ sender = "idle"
  BY DEF Init, OutboxInit, Rows
<1>2. Promised = <<>>
  BY <1>1 DEF Promised
<1> QED
  BY <1>1, <1>2 DEF AckInv, Promise!Init

\* Reporting threads, queue, scans, retries, faults, restarts and the
\* supervisor implement Delivery: a row goes out in the turn of the name it is
\* stored under, again only after a lost acknowledgement, and is recorded as
\* sent only after Telegram accepted it, for any number of threads, components
\* and rows.
THEOREM RefinesDelivery == Spec => ImplementsDelivery
<1>1. Shape /\ DeliveryInv /\ AckInv /\ [Next]_vars
        => Shape' /\ DeliveryInv' /\ AckInv' /\ [Promise!Next]_Promised
  BY ShapeKeeps, DeliveryKeeps, PromiseKeeps
<1> QED
  BY <1>1, ShapeStart, DeliveryStart, PromiseStart, PTL
     DEF Spec, ImplementsDelivery, Promise!Spec

-----------------------------------------------------------------------------
(* Health and alerts                                                         *)

\* A report that goes its own way is of a component with a failed write, or of
\* none.
ReportsInv ==
  \A t \in Actors :
    /\ pc[t] = "fallback" => msg[t].about \in degraded
    /\ pc[t] = "persist" =>
         msg[t].about \in degraded \cup Edgeless

LEMMA ComponentsApart ==
  /\ Components \subseteq Origins /\ Edgeless \subseteq Origins
  /\ Components \cap Edgeless = {} /\ Supervisor \in Edgeless
BY NamesOf

\* The last rows of the components in rows that are all there were.
LEMMA SameLast ==
  ASSUME StoreOK, KeepsRows, Rows' = Rows, UNCHANGED firstRow
  PROVE  \A c, i : i \in Rows =>
           /\ IsLast(c, i)' <=> IsLast(c, i)
           /\ outbox'[i].kind = outbox[i].kind
BY DEF KeepsRows, IsLast

LEMMA HealthFrame ==
  ASSUME StoreOK, KeepsRows, Rows' = Rows, UNCHANGED firstRow, HealthHasItsAlert,
         up' => up, degraded \subseteq degraded' \/ ~up',
         \A c \in Components \ degraded' :
           \/ health'[c] = health[c]
           \/ c \in AssetHealth /\ health'[c] = "unhealthy"
  PROVE  HealthHasItsAlert'
<1> SUFFICES ASSUME up', NEW c \in Components \ degraded'
             PROVE  /\ \A i \in Rows' :
                         IsLast(c, i)' /\ outbox'[i].kind = "alert"
                           => health'[c] = "unhealthy"
                    /\ health'[c] = "unhealthy" /\ c \notin AssetHealth
                         => \E i \in Rows' :
                              IsLast(c, i)' /\ outbox'[i].kind = "alert"
  BY DEF HealthHasItsAlert
<1>1. up /\ c \in Components \ degraded
  OBVIOUS
<1>2. /\ \A i \in Rows : IsLast(c, i) /\ outbox[i].kind = "alert"
                           => health[c] = "unhealthy"
      /\ health[c] = "unhealthy" /\ c \notin AssetHealth
           => \E i \in Rows : IsLast(c, i) /\ outbox[i].kind = "alert"
  BY <1>1 DEF HealthHasItsAlert
<1>3. \A i \in Rows : /\ IsLast(c, i)' <=> IsLast(c, i)
                      /\ outbox'[i].kind = outbox[i].kind
  BY SameLast
<1> QED
  BY <1>2, <1>3

\* The step appends row n, which is about d.
Added(n, d, kind) ==
  /\ Rows' = Rows \cup {n} /\ n \notin Rows
  /\ \A i \in Rows : outbox'[i] = outbox[i] /\ n > i /\ ~(i > n)
  /\ outbox'[n].about = d /\ outbox'[n].kind = kind
  /\ firstRow' = firstRow /\ n >= firstRow /\ ~(n > n)

LEMMA AppendAdds ==
  ASSUME StoreOK, NEW name \in Names, NEW d \in Origins, NEW kind \in Kinds,
         Len(outbox) < MaxRows,
         outbox' = Append(outbox, NewRow(name, d, kind)), firstRow' = firstRow
  PROVE  \E n \in Nat : Added(n, d, kind)
<1>0. PICK n \in Nat : n = Len(outbox) + 1
  BY AppendRow
<1>1. /\ Rows' = Rows \cup {n} /\ n \notin Rows
      /\ \A i \in Rows : outbox'[i] = outbox[i]
      /\ outbox'[n] = NewRow(name, d, kind)
      /\ Rows = 1 .. Len(outbox) /\ Len(outbox) \in Nat
  BY <1>0, AppendRow
<1>2. outbox'[n].about = d /\ outbox'[n].kind = kind
  <2>1. outbox'[n] = NewRow(name, d, kind)
    BY <1>1
  <2>2. NewRow(name, d, kind).about = d /\ NewRow(name, d, kind).kind = kind
    BY DEF NewRow
  <2> QED
    BY <2>1, <2>2, Zenon
<1>3. \A i \in Rows : n > i /\ ~(i > n)
  BY <1>0, <1>1
<1>4. firstRow' = firstRow /\ n >= firstRow /\ ~(n > n)
  BY <1>0, <1>1 DEF StoreOK
<1> QED
  BY <1>1, <1>2, <1>3, <1>4 DEF Added

\* Rows of a component that is not looked at leave the last ones as they are.
LEMMA LastAfterAppend ==
  ASSUME NEW n \in Nat, NEW d \in Origins, NEW kind \in Kinds,
         Added(n, d, kind)
  PROVE  /\ \A c \in Origins : c # d =>
              /\ \A i \in Rows : IsLast(c, i)' <=> IsLast(c, i)
              /\ ~IsLast(c, n)'
         /\ \A i \in Rows : ~IsLast(d, i)'
         /\ IsLast(d, n)'
<1>1. /\ Rows' = Rows \cup {n} /\ n \notin Rows
      /\ \A i \in Rows : outbox'[i] = outbox[i]
  BY DEF Added
<1>2. outbox'[n].about = d /\ outbox'[n].kind = kind
  BY DEF Added
<1>3. \A i \in Rows : n > i /\ ~(i > n)
  BY DEF Added
<1>4. firstRow' = firstRow /\ n >= firstRow /\ ~(n > n)
  BY DEF Added
<1>5. ASSUME NEW c \in Origins, c # d
      PROVE  /\ \A i \in Rows : IsLast(c, i)' <=> IsLast(c, i)
             /\ ~IsLast(c, n)'
  <2>1. ~IsLast(c, n)'
    BY <1>2, <1>5 DEF IsLast
  <2>2. ASSUME NEW i \in Rows PROVE IsLast(c, i)' <=> IsLast(c, i)
    <3>1. (i >= firstRow' /\ outbox'[i].about = c)
            <=> (i >= firstRow /\ outbox[i].about = c)
      BY <1>1, <1>4
    <3>2. (\A j \in Rows' : j > i => outbox'[j].about # c)
            <=> (\A j \in Rows : j > i => outbox[j].about # c)
      BY <1>1, <1>2, <1>5
    <3> QED
      BY <3>1, <3>2 DEF IsLast
  <2> QED
    BY <2>1, <2>2
<1>6. \A i \in Rows : ~IsLast(d, i)'
  BY <1>1, <1>2, <1>3 DEF IsLast
<1>7. IsLast(d, n)'
  <2>1. n >= firstRow'
    BY <1>4
  <2>2. \A j \in Rows' : ~(j > n)
    BY <1>1, <1>3, <1>4
  <2> QED
    BY <1>2, <2>1, <2>2 DEF IsLast
<1> QED
  BY <1>5, <1>6, <1>7

LEMMA HealthAfterAppend ==
  ASSUME StoreOK, NEW name \in Names, NEW d \in Origins, NEW kind \in Kinds,
         Len(outbox) < MaxRows,
         outbox' = Append(outbox, NewRow(name, d, kind)), HealthHasItsAlert,
         UNCHANGED <<firstRow, degraded, up>>,
         \A c \in Components \ {d} : health'[c] = health[c],
         d \in Components \ degraded => health'[d] = StatusOf(kind)
  PROVE  HealthHasItsAlert'
<1>0. PICK n \in Nat : Added(n, d, kind)
  BY AppendAdds
<1>1. /\ Rows' = Rows \cup {n} /\ n \notin Rows
      /\ \A i \in Rows : outbox'[i] = outbox[i]
      /\ \A c \in Origins : c # d =>
           /\ \A i \in Rows : IsLast(c, i)' <=> IsLast(c, i)
           /\ ~IsLast(c, n)'
      /\ \A c \in Origins : c = d =>
           (\A i \in Rows : ~IsLast(c, i)') /\ IsLast(c, n)'
      /\ outbox'[n].kind = kind
  <2>1. /\ \A c \in Origins : c # d =>
             /\ \A i \in Rows : IsLast(c, i)' <=> IsLast(c, i)
             /\ ~IsLast(c, n)'
        /\ \A i \in Rows : ~IsLast(d, i)'
        /\ IsLast(d, n)'
    BY <1>0, LastAfterAppend
  <2>2. \A c \in Origins : c = d =>
           (\A i \in Rows : ~IsLast(c, i)') /\ IsLast(c, n)'
    BY <2>1
  <2>3. /\ Rows' = Rows \cup {n} /\ n \notin Rows
        /\ \A i \in Rows : outbox'[i] = outbox[i]
        /\ outbox'[n].kind = kind
    BY <1>0 DEF Added
  <2> QED
    BY <2>1, <2>2, <2>3
<1> SUFFICES ASSUME up', NEW c \in Components \ degraded'
             PROVE  /\ \A i \in Rows' :
                         IsLast(c, i)' /\ outbox'[i].kind = "alert"
                           => health'[c] = "unhealthy"
                    /\ health'[c] = "unhealthy" /\ c \notin AssetHealth
                         => \E i \in Rows' :
                              IsLast(c, i)' /\ outbox'[i].kind = "alert"
  BY DEF HealthHasItsAlert
<1>2. c \in Origins /\ c \in Components \ degraded
  BY ComponentsApart
<1>3. CASE c = d
  <2>1. health'[c] = StatusOf(kind)
    BY <1>2, <1>3
  <2>2. health'[c] = "unhealthy" <=> kind = "alert"
    BY <2>1 DEF StatusOf
  <2>3. \A i \in Rows' : IsLast(c, i)' => i = n
    BY <1>1, <1>2, <1>3
  <2>4. n \in Rows' /\ IsLast(c, n)' /\ outbox'[n].kind = kind
    BY <1>1, <1>2, <1>3
  <2> QED
    BY <2>2, <2>3, <2>4
<1>4. CASE c # d
  <2>1. /\ \A i \in Rows : IsLast(c, i) /\ outbox[i].kind = "alert"
                             => health[c] = "unhealthy"
        /\ health[c] = "unhealthy" /\ c \notin AssetHealth
             => \E i \in Rows : IsLast(c, i) /\ outbox[i].kind = "alert"
    BY <1>2 DEF HealthHasItsAlert
  <2>2. health'[c] = health[c]
    BY <1>2, <1>4
  <2>3. \A i \in Rows : i \in Rows' /\ (IsLast(c, i)' <=> IsLast(c, i))
                         /\ outbox'[i].kind = outbox[i].kind
    BY <1>1, <1>2, <1>4
  <2>4. \A i \in Rows' : IsLast(c, i)' => i \in Rows
    BY <1>1, <1>2, <1>4
  <2> QED
    BY <2>1, <2>2, <2>3, <2>4
<1> QED
  BY <1>3, <1>4

\* A first healthy report and a repeated report leave no row, and need none.
LEMMA TransitionHealth ==
  ASSUME StoreOK, HealthHasItsAlert, NEW t \in Actors, NEW c \in Components,
         NEW kind \in Kinds, NEW force \in BOOLEAN, kind = "alert" => force,
         Transition(t, c, kind, force)
  PROVE  HealthHasItsAlert'
<1>1. /\ health' = [health EXCEPT ![c] = StatusOf(kind)]
      /\ UNCHANGED <<firstRow, degraded, up>>
  BY DEF Transition
<1>2. /\ health'[c] = StatusOf(kind)
      /\ \A d \in Components \ {c} : health'[d] = health[d]
  BY <1>1 DEF StoreOK
<1>3. CASE Transitioned(c, kind) \/ force
  <2>1. Len(outbox) < MaxRows /\ outbox' = Append(outbox, NewRow(c, c, kind))
    BY <1>3 DEF Transition
  <2> QED
    BY <1>1, <1>2, <2>1, NamesOf, HealthAfterAppend
<1>4. CASE ~(Transitioned(c, kind) \/ force)
  <2>1. UNCHANGED outbox /\ KeepsRows /\ Rows' = Rows
    BY <1>4, SameRows DEF Transition
  <2>2. CASE health'[c] = health[c]
    BY <1>1, <1>2, <2>1, <2>2, HealthFrame
  <2>3. CASE health'[c] # health[c]
    <3>1. health[c] = "none" /\ health'[c] = "healthy"
      BY <1>2, <1>4, <2>3 DEF Transitioned, StatusOf, Kinds
    <3> SUFFICES ASSUME up', NEW d \in Components \ degraded'
                 PROVE  /\ \A i \in Rows' :
                             IsLast(d, i)' /\ outbox'[i].kind = "alert"
                               => health'[d] = "unhealthy"
                        /\ health'[d] = "unhealthy" /\ d \notin AssetHealth
                             => \E i \in Rows' :
                                  IsLast(d, i)' /\ outbox'[i].kind = "alert"
      BY DEF HealthHasItsAlert
    <3>2. /\ \A i \in Rows : IsLast(d, i) /\ outbox[i].kind = "alert"
                               => health[d] = "unhealthy"
          /\ health[d] = "unhealthy" /\ d \notin AssetHealth
               => \E i \in Rows : IsLast(d, i) /\ outbox[i].kind = "alert"
      BY <1>1 DEF HealthHasItsAlert
    <3>3. \A i \in Rows : /\ IsLast(d, i)' <=> IsLast(d, i)
                          /\ outbox'[i].kind = outbox[i].kind
      BY <1>1, <2>1, SameLast
    <3>4. d # c => health'[d] = health[d]
      BY <1>2
    <3> QED
      BY <2>1, <3>1, <3>2, <3>3, <3>4
  <2> QED
    BY <2>2, <2>3
<1> QED
  BY <1>3, <1>4

\* A report that goes on in another way is of a component with a failed write.
LEMMA ReportsFrame ==
  ASSUME ReportsInv, degraded \subseteq degraded', NEW t \in Actors,
         \A u \in Actors : u # t => pc'[u] = pc[u] /\ msg'[u] = msg[u],
         \/ pc'[t] \notin {"fallback", "persist"}
         \/ pc'[t] = pc[t] /\ msg'[t] = msg[t]
         \/ pc'[t] = "fallback" /\ msg'[t].about \in degraded'
         \/ pc'[t] = "persist"
            /\ msg'[t].about \in degraded' \cup Edgeless
  PROVE  ReportsInv'
BY DEF ReportsInv

LEMMA ReportsStill ==
  ASSUME ReportsInv, degraded \subseteq degraded', UNCHANGED <<pc, msg>>
  PROVE  ReportsInv'
BY DEF ReportsInv

LEMMA ReportHealth ==
  ASSUME Shape, ReportsInv, HealthHasItsAlert, NEW t \in Threads, Report(t)
  PROVE  ReportsInv' /\ HealthHasItsAlert'
<1>0. /\ StoreOK /\ MemoryOK /\ t \in Actors
      /\ pc \in [Actors -> Steps] /\ msg \in [Actors -> Message]
  BY ActorsOf DEF Shape, MemoryOK
<1>1. ASSUME NEW c \in Components, NEW kind \in Kinds, NEW force \in BOOLEAN,
             kind = "alert" => force, Transition(t, c, kind, force)
      PROVE  ReportsInv' /\ HealthHasItsAlert'
  <2>1. HealthHasItsAlert'
    BY <1>0, <1>1, TransitionHealth
  <2>2. /\ \/ pc'[t] = "queue"
           \/ pc'[t] = pc[t] /\ msg'[t] = msg[t]
        /\ \A u \in Actors : u # t => pc'[u] = pc[u] /\ msg'[u] = msg[u]
        /\ degraded' = degraded
    <3>1. CASE Transitioned(c, kind) \/ force
      <4> DEFINE m == [about |-> c, kind |-> kind, id |-> Len(outbox) + 1,
                       force |-> FALSE]
      <4>1. /\ pc' = [pc EXCEPT ![t] = "queue"] /\ degraded' = degraded
            /\ msg' = [msg EXCEPT ![t] = m]
        BY <1>1, <3>1 DEF Transition
      <4> HIDE DEF m
      <4>2. pc'[t] = "queue" /\ \A u \in Actors : u # t => pc'[u] = pc[u]
        BY <1>0, <4>1
      <4>3. \A u \in Actors : u # t => msg'[u] = msg[u]
        BY <1>0, <4>1
      <4> QED
        BY <4>1, <4>2, <4>3
    <3>2. CASE ~(Transitioned(c, kind) \/ force)
      BY <1>1, <3>2 DEF Transition
    <3> QED
      BY <3>1, <3>2
  <2> QED
    BY <1>0, <2>1, <2>2, ReportsFrame
<1>2. ASSUME NEW c \in Components, NEW kind \in Kinds, NEW force \in BOOLEAN,
             TransitionFails(t, c, kind, force)
      PROVE  ReportsInv' /\ HealthHasItsAlert'
  <2>1. /\ degraded' = degraded \cup {c}
        /\ UNCHANGED <<health, outbox, firstRow, up>>
    BY <1>2 DEF TransitionFails
  <2>2. KeepsRows /\ Rows' = Rows
    BY <1>0, <2>1, SameRows
  <2>3. HealthHasItsAlert'
    BY <1>0, <2>1, <2>2, HealthFrame
  <2>4. /\ pc'[t] = "fallback" /\ msg'[t].about = c
        /\ \A u \in Actors : u # t => pc'[u] = pc[u] /\ msg'[u] = msg[u]
    BY <1>0, <1>2 DEF TransitionFails
  <2> QED
    BY <1>0, <2>1, <2>3, <2>4, ReportsFrame
<1>3. ASSUME NEW c \in Edgeless, Notify(t, c)
      PROVE  ReportsInv' /\ HealthHasItsAlert'
  <2>1. UNCHANGED <<health, outbox, firstRow, up, degraded>>
    BY <1>3 DEF Notify
  <2>2. KeepsRows /\ Rows' = Rows
    BY <1>0, <2>1, SameRows
  <2>3. HealthHasItsAlert'
    BY <1>0, <2>1, <2>2, HealthFrame
  <2>4. /\ pc'[t] = "persist" /\ msg'[t].about = c
        /\ \A u \in Actors : u # t => pc'[u] = pc[u] /\ msg'[u] = msg[u]
    BY <1>0, <1>3 DEF Notify
  <2> QED
    BY <1>0, <2>1, <2>3, <2>4, ReportsFrame
<1>4. ASSUME NEW c \in AssetHealth, MarkUnhealthy(t, c)
      PROVE  ReportsInv' /\ HealthHasItsAlert'
  <2>1. /\ UNCHANGED <<outbox, firstRow, up, degraded, pc, msg>>
        /\ health' = [health EXCEPT ![c] = "unhealthy"]
    BY <1>4 DEF MarkUnhealthy
  <2>2. \A d \in Components : \/ health'[d] = health[d]
                              \/ d \in AssetHealth /\ health'[d] = "unhealthy"
    BY <1>0, <2>1 DEF StoreOK
  <2>3. KeepsRows /\ Rows' = Rows
    BY <1>0, <2>1, SameRows
  <2> QED
    BY <1>0, <2>1, <2>2, <2>3, HealthFrame, ReportsStill
<1> QED
  BY <1>1, <1>2, <1>3, <1>4 DEF Report

LEMMA WorkHealth ==
  ASSUME Shape, ReportsInv, HealthHasItsAlert, NEW t \in Threads, ThreadStep(t)
  PROVE  ReportsInv' /\ HealthHasItsAlert'
<1>0. /\ StoreOK /\ MemoryOK /\ t \in Actors
      /\ pc \in [Actors -> Steps] /\ msg \in [Actors -> Message]
      /\ msg[t].about \in Origins /\ msg[t].kind \in Kinds
  BY ActorsOf DEF Shape, MemoryOK, Message
<1>1. \A u \in Actors : u # t => pc'[u] = pc[u] /\ msg'[u] = msg[u]
  BY <1>0, OthersStill DEF ThreadStep
<1>2. CASE FallbackMark(t)
  <2>1. /\ pc[t] = "fallback" /\ UNCHANGED <<outbox, firstRow, degraded, up>>
        /\ \A c \in Components : c # msg[t].about => health'[c] = health[c]
        /\ \/ pc'[t] = "idle"
           \/ pc'[t] = "persist" /\ msg'[t] = msg[t]
    BY <1>0, <1>2 DEF FallbackMark, NotifyIf, Done, StoreOK
  <2>2. msg[t].about \in degraded
    BY <1>0, <2>1 DEF ReportsInv
  <2>3. KeepsRows /\ Rows' = Rows
    BY <1>0, <2>1, SameRows
  <2>4. HealthHasItsAlert'
    BY <1>0, <2>1, <2>2, <2>3, HealthFrame
  <2> QED
    BY <1>0, <1>1, <2>1, <2>2, <2>4, ReportsFrame
<1>3. CASE Persist(t)
  <2>1. /\ pc[t] = "persist" /\ pc'[t] = "queue" /\ UNCHANGED <<health, firstRow, up>>
        /\ degraded \subseteq degraded'
    BY <1>0, <1>3 DEF Persist
  <2>2. msg[t].about \in degraded \cup Edgeless
    BY <1>0, <2>1 DEF ReportsInv
  <2>3. HealthHasItsAlert'
    <3>1. CASE UNCHANGED outbox
      <4>1. KeepsRows /\ Rows' = Rows
        BY <1>0, <3>1, SameRows
      <4> QED
        BY <1>0, <2>1, <4>1, HealthFrame
    <3>2. ASSUME Len(outbox) < MaxRows, NEW name \in RowNames(msg[t].about),
                 outbox' = Append(outbox, NewRow(name, msg[t].about, msg[t].kind)),
                 UNCHANGED degraded
          PROVE  HealthHasItsAlert'
      <4>1. msg[t].about \notin Components \ degraded
        BY <2>2, ComponentsApart
      <4> QED
        BY <1>0, <2>1, <3>2, <4>1, NamesOf, HealthAfterAppend
    <3> QED
      BY <1>3, <3>1, <3>2 DEF Persist
  <2> QED
    BY <1>0, <1>1, <2>1, <2>3, ReportsFrame
<1>4. CASE QueueAdd(t) \/ QueuePut(t)
  <2>1. UNCHANGED <<health, outbox, firstRow, degraded, up>>
        /\ pc'[t] \in {"idle", "put"}
    BY <1>0, <1>4 DEF QueueAdd, QueuePut, Done
  <2>2. KeepsRows /\ Rows' = Rows
    BY <1>0, <2>1, SameRows
  <2>3. HealthHasItsAlert'
    BY <1>0, <2>1, <2>2, HealthFrame
  <2> QED
    BY <1>0, <1>1, <2>1, <2>3, ReportsFrame
<1> QED
  BY <1>2, <1>3, <1>4 DEF ThreadStep

LEMMA SenderHealth ==
  ASSUME Shape, ReportsInv, HealthHasItsAlert, SenderStep
  PROVE  ReportsInv' /\ HealthHasItsAlert'
<1>0. /\ StoreOK /\ MemoryOK /\ Sender \in Actors
      /\ pc \in [Actors -> Steps] /\ msg \in [Actors -> Message]
  BY ActorsOf DEF Shape, MemoryOK
<1>1. UNCHANGED <<health, firstRow, degraded, up>>
  BY DEF SenderStep, Take, ReadRow, Send, Ack, Nack, Release, ScanBegin,
         ScanNext, ScanDone, QueueAdd, QueuePut
<1>2. KeepsRows /\ Rows' = Rows
  <2>1. CASE Send \/ Ack \/ Nack
    BY <1>0, <2>1, SendShape, AckShape, NackShape
  <2>2. CASE ~(Send \/ Ack \/ Nack)
    <3>1. UNCHANGED outbox
      BY <2>2 DEF SenderStep, Take, ReadRow, Release, ScanBegin, ScanNext,
                  ScanDone, QueueAdd, QueuePut
    <3> QED
      BY <1>0, <3>1, SameRows
  <2> QED
    BY <2>1, <2>2
<1>3. HealthHasItsAlert'
  BY <1>0, <1>1, <1>2, HealthFrame
<1>4. ReportsInv'
  <2>1. \A u \in Actors : u # Sender => pc'[u] = pc[u] /\ msg'[u] = msg[u]
    BY <1>0, SenderLeavesReports
  <2>2. \/ pc'[Sender] \in {"queue", "put", "idle"}
        \/ pc'[Sender] = pc[Sender] /\ msg'[Sender] = msg[Sender]
    BY <1>0 DEF SenderStep, Take, ReadRow, Send, Ack, Nack, Release, ScanBegin,
                ScanNext, ScanDone, QueueAdd, QueuePut, Done
  <2> QED
    BY <1>0, <1>1, <2>1, <2>2, ReportsFrame
<1> QED
  BY <1>3, <1>4

LEMMA HealthKeeps ==
  Shape /\ ReportsInv /\ HealthHasItsAlert /\ [Next]_vars
    => ReportsInv' /\ HealthHasItsAlert'
<1> SUFFICES ASSUME Shape, ReportsInv, HealthHasItsAlert, [Next]_vars
             PROVE  ReportsInv' /\ HealthHasItsAlert'
  OBVIOUS
<1>0. /\ StoreOK /\ MemoryOK /\ Loop \in Actors
      /\ pc \in [Actors -> Steps] /\ msg \in [Actors -> Message]
  BY ActorsOf DEF Shape, MemoryOK
<1>1. CASE Waiting
  <2>1. /\ KeepsRows /\ Rows' = Rows /\ UNCHANGED memory
        /\ UNCHANGED <<health, up>>
    BY <1>0, <1>1, RetryShape DEF Waiting
  <2>2. UNCHANGED <<firstRow, degraded, pc, msg>>
    BY <2>1 DEF memory
  <2> QED
    BY <1>0, <2>1, <2>2, HealthFrame, ReportsStill
<1>2. CASE \/ RoundTimeout \/ FinishDiagnostics \/ Wedge
           \/ EmergencyRestart \/ UNCHANGED vars
  <2>1. UNCHANGED <<health, outbox, firstRow, degraded, up, pc, msg>>
    BY <1>2 DEF RoundTimeout, FinishDiagnostics, Wedge, EmergencyRestart, vars,
                outboxVars
  <2>2. KeepsRows /\ Rows' = Rows
    BY <1>0, <2>1, SameRows
  <2> QED
    BY <1>0, <2>1, <2>2, HealthFrame, ReportsStill
<1>3. CASE MarkAssets
  <2>1. /\ UNCHANGED <<outbox, firstRow, degraded, up>>
        /\ pc'[Loop] = "persist"
        /\ msg'[Loop] = [Blank EXCEPT !.about = Supervisor]
        /\ \A u \in Actors : u # Loop => pc'[u] = pc[u] /\ msg'[u] = msg[u]
        /\ \A c \in Components : \/ health'[c] = health[c]
                                 \/ c \in AssetHealth /\ health'[c] = "unhealthy"
    BY <1>0, <1>3 DEF MarkAssets
  <2>2. msg'[Loop].about = Supervisor
    BY <2>1 DEF Blank
  <2>3. KeepsRows /\ Rows' = Rows
    BY <1>0, <2>1, SameRows
  <2> QED
    BY <1>0, <2>1, <2>2, <2>3, HealthFrame, ReportsFrame
<1>4. CASE Exit \/ Crash
  <2>1. /\ up' = FALSE /\ pc' = [t \in Actors |-> "idle"]
    BY <1>4 DEF Exit, Crash, Stop
  <2> QED
    BY <2>1 DEF ReportsInv, HealthHasItsAlert
<1>5. CASE Restart
  <2>1. /\ ~up /\ UNCHANGED <<pc, msg, degraded>>
        /\ health' = [c \in Components |-> "none"]
    BY <1>5 DEF Restart, Boot
  <2>2. Rows' = Rows /\ \A i \in Rows : ~(i >= firstRow')
    BY <1>0, <1>5, BootShape DEF Restart
  <2>3. \A c : \A i \in Rows' : ~IsLast(c, i)'
    BY <2>2 DEF IsLast
  <2>4. \A c \in Components : health'[c] # "unhealthy"
    BY <2>1
  <2> QED
    BY <2>1, <2>3, <2>4, ReportsStill DEF HealthHasItsAlert
<1> QED
  BY <1>1, <1>2, <1>3, <1>4, <1>5, ReportHealth, WorkHealth, SenderHealth
  DEF Next, Working, Sending

\* The last row of a component and its health say the same thing (state.py:
\* transition_component_and_enqueue_notification), in any order of reports of
\* any number of threads, unless a write of the component failed.
THEOREM HealthAndAlertsAgree == Spec => []HealthHasItsAlert
<1>1. Init => ReportsInv /\ HealthHasItsAlert
  BY DEF Init, OutboxInit, ReportsInv, HealthHasItsAlert, Rows
<1> QED
  BY <1>1, ShapeStart, ShapeKeeps, HealthKeeps, PTL DEF Spec

-----------------------------------------------------------------------------
(* The order in which the operator reads                                     *)

\* A pending row about an ordered origin is stored under that origin's name.
NameInv ==
  up => \A i \in Rows : Pending(i) /\ Ordered(outbox[i].about)
                          => outbox[i].component = outbox[i].about

\* Nothing about an ordered origin is pending before the last row that was sent
\* about it.
LastInv ==
  \A c \in Origins :
    /\ lastSent[c] # 0 => lastSent[c] \in Rows
    /\ up /\ Ordered(c) /\ lastSent[c] # 0 =>
         \A i \in Rows : i < lastSent[c] /\ outbox[i].about = c => ~Pending(i)

OrderInv == NameInv /\ LastInv

LEMMA LastFrame ==
  ASSUME StoreOK, KeepsRows, LastInv, UNCHANGED lastSent,
         up' => up /\ degraded \subseteq degraded'
  PROVE  LastInv'
<1> SUFFICES ASSUME NEW c \in Origins, lastSent[c] # 0
             PROVE  /\ lastSent[c] \in Rows'
                    /\ up' /\ Ordered(c)' => \A i \in Rows' : i < lastSent[c]
                         /\ outbox'[i].about = c => ~Pending(i)'
  BY DEF LastInv
<1>1. /\ lastSent[c] \in Rows
      /\ up /\ Ordered(c) => \A i \in Rows :
           i < lastSent[c] /\ outbox[i].about = c => ~Pending(i)
  BY DEF LastInv
<1>2. \A i \in Rows' : i < lastSent[c] => i \in Rows
  BY <1>1, RowsBelow
<1>3. up' /\ Ordered(c)' => up /\ Ordered(c)
  BY DEF Ordered
<1> QED
  BY <1>1, <1>2, <1>3 DEF KeepsRows

LEMMA NameFrame ==
  ASSUME KeepsRows, Rows' = Rows, NameInv, up' => up /\ degraded \subseteq degraded'
  PROVE  NameInv'
BY DEF NameInv, KeepsRows, Ordered

\* A row that is stored apart from its edge has another name only if its
\* component is no longer ordered.
LEMMA ReportOrder ==
  ASSUME Shape, ReportsInv, OrderInv, KeepsRows, NEW t \in Threads,
         Report(t) \/ ThreadStep(t)
  PROVE  OrderInv' /\ UNCHANGED lastSent
<1>0. StoreOK /\ MemoryOK /\ t \in Actors
  BY ActorsOf DEF Shape
<1>1. UNCHANGED <<lastSent, up>> /\ degraded \subseteq degraded'
  BY <1>0, ReportAppends
<1>2. LastInv'
  BY <1>0, <1>1, LastFrame DEF OrderInv
<1>3. CASE UNCHANGED outbox
  BY <1>0, <1>1, <1>2, <1>3, SameRows, NameFrame DEF OrderInv
<1>4. ASSUME NEW c \in Origins, NEW kind \in Kinds, NEW name \in Names,
             Len(outbox) < MaxRows, outbox' = Append(outbox, NewRow(name, c, kind)),
             \/ name = c
             \/ /\ pc[t] = "persist" /\ msg[t].about = c
                /\ name \in RowNames(c)
      PROVE  NameInv'
  <2>1. /\ Rows' = Rows \cup {Len(outbox) + 1}
        /\ \A i \in Rows : outbox'[i] = outbox[i]
        /\ outbox'[Len(outbox) + 1] = NewRow(name, c, kind)
    BY <1>0, <1>4, AppendRow
  <2>2. NewRow(name, c, kind).component = name /\ NewRow(name, c, kind).about = c
    BY DEF NewRow
  <2>3. Ordered(c)' => name = c
    <3> SUFFICES ASSUME Ordered(c)', name # c PROVE FALSE
      OBVIOUS
    <3>1. c \in degraded \cup Edgeless /\ name \in RowNames(c)
      BY <1>0, <1>4 DEF ReportsInv
    <3>2. CASE c \in degraded
      BY <1>1, <3>1, <3>2 DEF Ordered
    <3>3. CASE c \in Edgeless
      BY <3>1, <3>3, ComponentsApart DEF RowNames
    <3> QED
      BY <3>1, <3>2, <3>3
  <2> SUFFICES ASSUME up', NEW i \in Rows', Pending(i)', Ordered(outbox[i].about)'
               PROVE  outbox'[i].component = outbox'[i].about
    BY DEF NameInv
  <2>4. CASE i \in Rows
    <3>1. outbox'[i] = outbox[i] /\ up
      BY <1>1, <2>1, <2>4
    <3>2. Pending(i)
      BY <3>1 DEF Pending
    <3>3. Ordered(outbox[i].about)
      BY <1>1, <3>1 DEF Ordered
    <3> QED
      BY <2>4, <3>1, <3>2, <3>3 DEF OrderInv, NameInv
  <2>5. CASE i = Len(outbox) + 1
    <3>1. outbox'[i].component = name /\ outbox'[i].about = c
      BY <2>1, <2>2, <2>5
    <3>2. Ordered(c)'
      BY <3>1
    <3> QED
      BY <2>3, <3>1, <3>2
  <2> QED
    BY <2>1, <2>4, <2>5
<1> QED
  BY <1>0, <1>1, <1>2, <1>3, <1>4, ReportAppends DEF OrderInv

LEMMA SendOrder ==
  ASSUME Shape, DeliveryInv, OrderInv, Send
  PROVE  /\ OrderInv'
         /\ \A c \in Origins : Ordered(c) => lastSent'[c] >= lastSent[c]
<1>0. /\ StoreOK /\ MemoryOK /\ KeepsRows /\ Rows' = Rows
      /\ up /\ UNCHANGED <<up, degraded>> /\ sender = "send"
      /\ \A c \in Origins : lastSent[c] \in Nat
  BY SendShape DEF Shape, StoreOK, Send
<1>1. NameInv'
  BY <1>0, NameFrame DEF OrderInv
<1>2. CASE UNCHANGED lastSent
  BY <1>0, <1>1, <1>2, LastFrame DEF OrderInv
<1>3. CASE ~UNCHANGED lastSent
  <2>1. task.id # 0 /\ sender' = "ack"
    BY <1>3 DEF Send
  <2>2. /\ task.id \in Rows /\ outbox[task.id].about \in Origins
        /\ lastSent' = [lastSent EXCEPT ![outbox[task.id].about] = task.id]
        /\ task.id \in Nat
    BY <1>0, <2>1, SendsNext, RowType
  <2> DEFINE o == outbox[task.id].about
  <2>3. /\ lastSent'[o] = task.id
        /\ \A c \in Origins : c # o => lastSent'[c] = lastSent[c]
    BY <1>0, <2>2 DEF StoreOK
  <2>4. /\ Pending(task.id)
        /\ outbox[task.id].component # NoComponent =>
             \A j \in Rows : j < task.id
               /\ outbox[j].component = outbox[task.id].component => ~Pending(j)
    BY <1>0, <2>1 DEF DeliveryInv, SendInv
  <2>5. Ordered(o) =>
          \A j \in Rows : j < task.id /\ outbox[j].about = o => ~Pending(j)
    <3> SUFFICES ASSUME Ordered(o), NEW j \in Rows, j < task.id,
                        outbox[j].about = o, Pending(j)
                 PROVE  FALSE
      OBVIOUS
    <3>1. outbox[task.id].component = o /\ outbox[j].component = o
      BY <1>0, <2>2, <2>4 DEF OrderInv, NameInv
    <3>2. o # NoComponent
      BY DEF Ordered
    <3> QED
      BY <2>4, <3>1, <3>2
  <2>6. \A i \in Rows : outbox'[i].about = outbox[i].about /\ (Pending(i)' => Pending(i))
    BY <1>0 DEF KeepsRows
  <2>7. \A c \in Origins : Ordered(c)' <=> Ordered(c)
    BY <1>0 DEF Ordered
  <2> HIDE DEF o
  <2>8. LastInv'
    <3> SUFFICES ASSUME NEW c \in Origins, lastSent'[c] # 0
                 PROVE  /\ lastSent'[c] \in Rows'
                        /\ up' /\ Ordered(c)' => \A i \in Rows' :
                             i < lastSent'[c] /\ outbox'[i].about = c => ~Pending(i)'
      BY DEF LastInv
    <3>1. CASE c = o
      BY <1>0, <2>2, <2>3, <2>5, <2>6, <2>7, <3>1
    <3>2. CASE c # o
      BY <1>0, <2>3, <2>6, <2>7, <3>2 DEF OrderInv, LastInv
    <3> QED
      BY <3>1, <3>2
  <2>9. ASSUME NEW c \in Origins, Ordered(c) PROVE lastSent'[c] >= lastSent[c]
    <3>1. CASE c = o
      <4>1. ~(lastSent[c] # 0 /\ task.id < lastSent[c])
        BY <1>0, <2>2, <2>4, <2>9, <3>1 DEF OrderInv, LastInv, o
      <4> QED
        BY <1>0, <2>2, <2>3, <3>1, <4>1
    <3>2. CASE c # o
      BY <1>0, <2>3, <3>2
    <3> QED
      BY <3>1, <3>2
  <2> QED
    BY <1>1, <2>8, <2>9 DEF OrderInv
<1> QED
  BY <1>2, <1>3

LEMMA OrderKeeps ==
  Shape /\ DeliveryInv /\ ReportsInv /\ OrderInv /\ [Next]_vars =>
    /\ OrderInv'
    /\ \A c \in Origins : Ordered(c) => lastSent'[c] >= lastSent[c]
<1> SUFFICES ASSUME Shape, DeliveryInv, ReportsInv, OrderInv, [Next]_vars
             PROVE  /\ OrderInv'
                    /\ \A c \in Origins : Ordered(c) => lastSent'[c] >= lastSent[c]
  OBVIOUS
<1>0. StoreOK /\ MemoryOK /\ KeepsRows /\ \A c \in Origins : lastSent[c] \in Nat
  BY ShapeKeeps DEF Shape, StoreOK
<1>1. ASSUME UNCHANGED lastSent
      PROVE  \A c \in Origins : Ordered(c) => lastSent'[c] >= lastSent[c]
  BY <1>0, <1>1
<1>2. ASSUME NEW t \in Threads, Report(t) \/ Working(t)
      PROVE  OrderInv' /\ UNCHANGED lastSent
  BY <1>0, <1>2, ReportOrder DEF Working
\* A step that stores, sends and boots nothing.
<1>3. ASSUME Rows' = Rows, UNCHANGED lastSent,
             up' => up /\ degraded \subseteq degraded'
      PROVE  OrderInv' /\ UNCHANGED lastSent
  BY <1>0, <1>3, LastFrame, NameFrame DEF OrderInv
<1>4. CASE Sending
  <2>1. CASE Send
    BY <2>1, SendOrder
  <2>2. CASE ~Send
    <3>1. UNCHANGED <<lastSent, degraded, up>>
      BY <1>4, <2>2 DEF Sending, SenderStep, Take, ReadRow, Ack, Nack, Release,
                        ScanBegin, ScanNext, ScanDone, QueueAdd, QueuePut
    <3>2. Rows' = Rows
      <4>1. CASE Ack \/ Nack
        BY <1>0, <4>1, AckShape, NackShape
      <4>2. CASE ~(Ack \/ Nack)
        BY <1>4, <2>2, <4>2
        DEF Sending, SenderStep, Take, ReadRow, Release, ScanBegin, ScanNext,
            ScanDone, QueueAdd, QueuePut, Rows
      <4> QED
        BY <4>1, <4>2
    <3> QED
      BY <1>1, <1>3, <3>1, <3>2
  <2> QED
    BY <2>1, <2>2
<1>5. CASE Waiting
  <2>1. Rows' = Rows /\ UNCHANGED <<memory, lastSent, up>>
    BY <1>0, <1>5, RetryShape DEF Waiting
  <2> QED
    BY <1>1, <1>3, <2>1 DEF memory
<1>6. CASE \/ RoundTimeout \/ MarkAssets \/ FinishDiagnostics \/ Wedge
           \/ EmergencyRestart \/ UNCHANGED vars
  <2>1. UNCHANGED <<outbox, lastSent, up, degraded>>
    BY <1>6 DEF RoundTimeout, MarkAssets, FinishDiagnostics, Wedge,
                EmergencyRestart, vars, outboxVars
  <2> QED
    BY <1>1, <1>3, <2>1 DEF Rows
<1>7. CASE Exit \/ Crash
  <2>1. UNCHANGED <<outbox, lastSent>> /\ up' = FALSE
    BY <1>7 DEF Exit, Crash, Stop
  <2> QED
    BY <1>1, <1>3, <2>1 DEF Rows
<1>8. CASE Restart
  <2>1. Rows' = Rows /\ (\A i \in Rows : ~Pending(i)') /\ UNCHANGED lastSent
    BY <1>0, <1>8, BootShape DEF Restart, Boot
  <2>2. OrderInv'
    BY <2>1 DEF OrderInv, NameInv, LastInv
  <2> QED
    BY <1>1, <2>1, <2>2
<1> QED
  BY <1>1, <1>2, <1>4, <1>5, <1>6, <1>7, <1>8 DEF Next

\* The messages about one thing arrive in the order of their rows (state.py:
\* deliverable_notification), as long as they carry its own name: always for an
\* asset, for a component without a slug and for a message without an edge, and
\* for a component with a slug until a write of it fails.
THEOREM DeliveredInOrder == Spec => FifoDelivery
<1>1. Init => ReportsInv /\ HealthHasItsAlert /\ OrderInv
  BY DEF Init, OutboxInit, ReportsInv, HealthHasItsAlert, OrderInv, NameInv,
         LastInv, Rows
<1>2. Shape /\ DeliveryInv /\ ReportsInv /\ HealthHasItsAlert /\ OrderInv
        /\ [Next]_vars
      => /\ Shape' /\ DeliveryInv' /\ ReportsInv' /\ HealthHasItsAlert' /\ OrderInv'
         /\ [\A c \in Origins : Ordered(c) => lastSent'[c] >= lastSent[c]]_vars
  BY ShapeKeeps, DeliveryKeeps, HealthKeeps, OrderKeeps
<1> QED
  BY <1>1, <1>2, DeliveryStart, ShapeStart, PTL DEF Spec, FifoDelivery
=============================================================================
