------------------------------ MODULE Delivery ------------------------------
(* What the outbox promises of a persisted notification, without queue, sender *)
(* thread or process: it waits in one of the lanes of what it is about until   *)
(* the notifications of that lane that came before it are out of the way, goes *)
(* to Telegram, and is recorded as sent only after Telegram has it. A lost     *)
(* acknowledgement makes it wait again, and a boot drops what is not recorded  *)
(* as sent.                                                                    *)
EXTENDS Integers, Sequences

CONSTANTS
  Origins,     \* what notifications are about
  Lanes,       \* the lanes of each origin; another lane does not hold it up
  NoComponent  \* the lane in which none waits for another

VARIABLE log   \* the notifications in the order in which they were persisted

Open == {"waiting", "delivered"}

\* Nothing of the lane that came before is still open.
InTurn(i) ==
  \/ log[i].lane = NoComponent
  \/ \A j \in DOMAIN log : j < i /\ log[j].lane = log[i].lane
                             => log[j].fate \notin Open

Moves(i, from, to) ==
  /\ log[i].fate = from
  /\ log' = [log EXCEPT ![i].fate = to]

Init == log = <<>>

Persist(c) ==
  \E lane \in Lanes[c] :
    log' = Append(log, [origin |-> c, lane |-> lane, fate |-> "waiting"])

Deliver(i) == InTurn(i) /\ Moves(i, "waiting", "delivered")

Confirm(i) == Moves(i, "delivered", "sent")

LoseAck(i) == Moves(i, "delivered", "waiting")

Drop ==
  log' = [i \in DOMAIN log |->
            IF log[i].fate \in Open THEN [log[i] EXCEPT !.fate = "dropped"]
                                    ELSE log[i]]

Next ==
  \/ \E c \in Origins : Persist(c)
  \/ \E i \in DOMAIN log : Deliver(i) \/ Confirm(i) \/ LoseAck(i)
  \/ Drop

Spec == Init /\ [][Next]_log
=============================================================================
