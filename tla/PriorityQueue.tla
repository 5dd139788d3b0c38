--------------------------- MODULE PriorityQueue ---------------------------
(***************************************************************************)
(* What a message queue promises: at most maxmsg messages; the one         *)
(* received is the oldest of those of the highest priority.  MyMq          *)
(* implements it.                                                          *)
(***************************************************************************)
EXTENDS Naturals, Sequences

CONSTANTS maxmsg, Msgs      \* a message is [prio |-> ..., data |-> ...]

VARIABLE queue              \* the messages in the order they will be received

Init == queue = <<>>

(* A new message goes behind every message of its own or a higher priority.*)
Insert(m) ==
    /\ Len(queue) < maxmsg
    /\ queue' = SelectSeq(queue, LAMBDA n : n.prio >= m.prio) \o <<m>>
                  \o SelectSeq(queue, LAMBDA n : n.prio < m.prio)

Remove == queue # <<>> /\ queue' = Tail(queue)

Next == Remove \/ \E m \in Msgs : Insert(m)

Spec == Init /\ [][Next]_queue

=============================================================================
