-------------------------------- MODULE MyMq --------------------------------
(***************************************************************************)
(* The message queue of src/unixipc/my_pxmsg_mmap, created and shared by   *)
(* processes that open, use and close it.  A queue is a mapped file: a     *)
(* header, and maxmsg slots that are on the list of messages or on the     *)
(* free list.  Slots are numbered 1..maxmsg and 0 ends a list; the code    *)
(* treats mqh_head as the msg_next of a slot before the first one, so here *)
(* it is msg_next[0].  A stretch of code under mqh_lock is one action.     *)
(* Senders and receivers wait on the same condition variable, mqh_wait.    *)
(***************************************************************************)
EXTENDS Naturals, Sequences, FiniteSets

CONSTANTS
    MqProcs,      \* processes, each with one open of the queue at a time
    MqMortal,     \* the processes that may be killed
    NoPid,      \* the 0 of mqh_pid
    maxmsg,     \* mq_maxmsg
    Prios, Data

ASSUME MqAssumption ==
    /\ maxmsg \in Nat \ {0}
    /\ Prios \subseteq Nat
    /\ NoPid \notin MqProcs /\ MqMortal \subseteq MqProcs

Slots == 1..maxmsg
Msgs == [prio : Prios, data : Data]
NoMsg == [prio |-> 0, data |-> NoPid]       \* what an unused slot holds

VARIABLES
    mq_curmsgs, mqh_free, mqh_nwait, mqh_pid, msg_next,
    msg,        \* the priority and contents of each slot
    nonblock,   \* O_NONBLOCK in mqi_flags of each process
    place,      \* where each process is
    sending,    \* the message of a process blocked in mymq_send
    sigs        \* processes with the signal of mqh_event pending

queuevars == <<mq_curmsgs, mqh_free, msg_next, msg>>
mqvars == <<queuevars, mqh_nwait, mqh_pid, nonblock, place, sending, sigs>>

mqh_head == msg_next[0]

(* "open" is a process with the queue open and in none of its functions;   *)
(* "...wait" is on mqh_wait, "...woken" off it, about to take mqh_lock;    *)
(* "killed" died inside mymq_receive and "dead" anywhere else.             *)
Places == {"closed", "open", "sendwait", "sendwoken", "recvwait", "recvwoken",
           "killed", "dead"}

In(S) == {p \in MqProcs : place[p] \in S}
Gone == In({"killed", "dead"})

MqTypeOK ==
    /\ mq_curmsgs \in 0..maxmsg
    /\ mqh_free \in 0..maxmsg
    /\ msg_next \in [0..maxmsg -> 0..maxmsg]
    /\ msg \in [Slots -> Msgs \cup {NoMsg}]
    /\ mqh_nwait \in 0..Cardinality(MqProcs)
    /\ mqh_pid \in MqProcs \cup {NoPid}
    /\ nonblock \in [MqProcs -> BOOLEAN]
    /\ place \in [MqProcs -> Places]
    /\ sending \in [MqProcs -> Msgs \cup {NoMsg}]
    /\ sigs \subseteq MqProcs

(* The links mymq_open creates: no message, every slot on the free list.   *)
free_list == [k \in 0..maxmsg |-> IF k \in 1..(maxmsg - 1) THEN k + 1 ELSE 0]

MqInit ==
    /\ mq_curmsgs = 0 /\ mqh_nwait = 0 /\ mqh_pid = NoPid
    /\ mqh_free = 1
    /\ msg_next = free_list
    /\ msg = [k \in Slots |-> NoMsg]
    /\ nonblock = [p \in MqProcs |-> FALSE]
    /\ place = [p \in MqProcs |-> "closed"]
    /\ sending = [p \in MqProcs |-> NoMsg]
    /\ sigs = {}

-----------------------------------------------------------------------------
wakes(w) == IF w = "sendwait" THEN "sendwoken" ELSE "recvwoken"

(* pthread_cond_signal on mqh_wait: one of the waiters, if there is one.   *)
signal(pl) ==
    LET waiters == {p \in MqProcs : pl[p] \in {"sendwait", "recvwait"}}
    IN  IF waiters = {} THEN {pl} ELSE {[pl EXCEPT ![w] = wakes(@)] : w \in waiters}

mq_spurious(p) ==
    /\ place[p] \in {"sendwait", "recvwait"}
    /\ place' = [place EXCEPT ![p] = wakes(@)]
    /\ UNCHANGED <<queuevars, mqh_nwait, mqh_pid, nonblock, sending, sigs>>

-----------------------------------------------------------------------------
(* mymq_send.                                                              *)

(* Mutant: the new message goes before those of its own priority.          *)
mut_insertion(prio) ==
    LET walk[k \in 0..maxmsg] ==
            IF msg_next[k] = 0 \/ prio >= msg[msg_next[k]].prio
              THEN k ELSE walk[msg_next[k]]
    IN  walk[0]

(* The slot (or the header) the new message is linked behind.              *)
insertion(prio) ==
    LET walk[k \in 0..maxmsg] ==
            IF msg_next[k] = 0 \/ prio > msg[msg_next[k]].prio
              THEN k ELSE walk[msg_next[k]]
    IN  walk[0]

(* Lines 55 to 85: fill the first free slot, link it, signal if the queue  *)
(* was empty.  mqh_free = 0 is the err_dump.                               *)
put(p, m) ==
    LET new == mqh_free
        before == insertion(m.prio)
    IN  /\ mqh_free # 0
        /\ msg' = [msg EXCEPT ![new] = m]
        /\ mqh_free' = msg_next[new]
        /\ msg_next' = [msg_next EXCEPT ![new] = msg_next[before], ![before] = new]
        /\ mq_curmsgs' = mq_curmsgs + 1
        /\ place' \in IF mq_curmsgs = 0 THEN signal([place EXCEPT ![p] = "open"])
                                        ELSE {[place EXCEPT ![p] = "open"]}

(* Mutant: a blocked receiver does not keep the signal back.               *)
mut_notify_arrival ==
    IF mq_curmsgs = 0 /\ mqh_pid # NoPid
      THEN /\ sigs' = sigs \cup ({mqh_pid} \ Gone)
           /\ mqh_pid' = NoPid
      ELSE UNCHANGED <<sigs, mqh_pid>>

(* A message for an empty queue: the registered process is signalled,      *)
(* unless some receiver is blocked, and is registered no more.  The event  *)
(* registered is SIGEV_SIGNAL; any other kind is dropped without a signal. *)
notify_arrival ==
    IF mq_curmsgs = 0 /\ mqh_pid # NoPid /\ mqh_nwait = 0
      THEN /\ sigs' = sigs \cup ({mqh_pid} \ Gone)
           /\ mqh_pid' = NoPid
      ELSE UNCHANGED <<sigs, mqh_pid>>

(* EMSGSIZE, and EAGAIN on a full queue, change nothing.                   *)
mymq_send(p, m) ==
    /\ place[p] = "open"
    /\ \/ /\ mq_curmsgs < maxmsg
          /\ notify_arrival
          /\ put(p, m)
          /\ UNCHANGED sending
       \/ /\ mq_curmsgs >= maxmsg /\ ~nonblock[p]
          /\ place' = [place EXCEPT ![p] = "sendwait"]
          /\ sending' = [sending EXCEPT ![p] = m]
          /\ UNCHANGED <<queuevars, mqh_pid, sigs>>
    /\ UNCHANGED <<mqh_nwait, nonblock>>

(* Back from pthread_cond_wait: wait again, or go on with the message.     *)
(* The test for a notification is not repeated.                            *)
send_resume(p) ==
    /\ place[p] = "sendwoken"
    /\ \/ /\ mq_curmsgs >= maxmsg
          /\ place' = [place EXCEPT ![p] = "sendwait"]
          /\ UNCHANGED <<queuevars, sending>>
       \/ /\ mq_curmsgs < maxmsg
          /\ put(p, sending[p])
          /\ sending' = [sending EXCEPT ![p] = NoMsg]
    /\ UNCHANGED <<mqh_nwait, mqh_pid, nonblock, sigs>>

-----------------------------------------------------------------------------
(* mymq_receive.                                                           *)

(* Mutant: the count of messages is not decremented.                       *)
mut_get(p) ==
    LET index == mqh_head
    IN  /\ index # 0
        /\ msg_next' = [msg_next EXCEPT ![0] = msg_next[index], ![index] = mqh_free]
        /\ mqh_free' = index
        /\ place' = [place EXCEPT ![p] = "open"]
        /\ UNCHANGED <<msg, mq_curmsgs>>

(* Lines 47 to 65: unlink the first message, put its slot on the free      *)
(* list, signal if the queue was full.  mqh_head = 0 is the err_dump.      *)
get(p) ==
    LET index == mqh_head
    IN  /\ index # 0
        /\ msg_next' = [msg_next EXCEPT ![0] = msg_next[index], ![index] = mqh_free]
        /\ mqh_free' = index
        /\ mq_curmsgs' = mq_curmsgs - 1
        /\ place' \in IF mq_curmsgs = maxmsg THEN signal([place EXCEPT ![p] = "open"])
                                             ELSE {[place EXCEPT ![p] = "open"]}
        /\ UNCHANGED msg

(* EMSGSIZE, and EAGAIN on an empty queue, change nothing.                 *)
mymq_receive(p) ==
    /\ place[p] = "open"
    /\ \/ mq_curmsgs > 0 /\ get(p) /\ UNCHANGED mqh_nwait
       \/ /\ mq_curmsgs = 0 /\ ~nonblock[p]
          /\ mqh_nwait' = mqh_nwait + 1
          /\ place' = [place EXCEPT ![p] = "recvwait"]
          /\ UNCHANGED queuevars
    /\ UNCHANGED <<mqh_pid, nonblock, sending, sigs>>

(* Mutant: only the first wait is undone, not every one of the loop.       *)
mut_receive_resume(p) ==
    /\ place[p] = "recvwoken"
    /\ \/ /\ mq_curmsgs = 0
          /\ place' = [place EXCEPT ![p] = "recvwait"]
          /\ mqh_nwait' = mqh_nwait + 1
          /\ UNCHANGED queuevars
       \/ mq_curmsgs > 0 /\ mqh_nwait' = mqh_nwait - 1 /\ get(p)
    /\ UNCHANGED <<mqh_pid, nonblock, sending, sigs>>

receive_resume(p) ==
    /\ place[p] = "recvwoken"
    /\ \/ /\ mq_curmsgs = 0
          /\ place' = [place EXCEPT ![p] = "recvwait"]
          /\ UNCHANGED <<queuevars, mqh_nwait>>
       \/ mq_curmsgs > 0 /\ mqh_nwait' = mqh_nwait - 1 /\ get(p)
    /\ UNCHANGED <<mqh_pid, nonblock, sending, sigs>>

-----------------------------------------------------------------------------
(* Registration: refused (EBUSY) while the registered process exists.      *)
mymq_notify(p) ==
    /\ place[p] = "open"
    /\ mqh_pid = NoPid \/ mqh_pid \in Gone
    /\ mqh_pid' = p
    /\ UNCHANGED <<queuevars, mqh_nwait, nonblock, place, sending, sigs>>

unregister(p) == mqh_pid' = IF mqh_pid = p THEN NoPid ELSE mqh_pid

(* mymq_notify with a null notification.                                   *)
mymq_notify_null(p) ==
    /\ place[p] = "open" /\ unregister(p)
    /\ UNCHANGED <<queuevars, mqh_nwait, nonblock, place, sending, sigs>>

mymq_setattr(p) ==
    /\ place[p] = "open"
    /\ \E b \in BOOLEAN : nonblock' = [nonblock EXCEPT ![p] = b]
    /\ UNCHANGED <<queuevars, mqh_nwait, mqh_pid, place, sending, sigs>>

(* mymq_open of the existing queue; the O_NONBLOCK of its flags.           *)
mymq_open(p) ==
    /\ place[p] = "closed"
    /\ place' = [place EXCEPT ![p] = "open"]
    /\ \E b \in BOOLEAN : nonblock' = [nonblock EXCEPT ![p] = b]
    /\ UNCHANGED <<queuevars, mqh_nwait, mqh_pid, sending, sigs>>

mymq_close(p) ==
    /\ place[p] = "open"
    /\ unregister(p)
    /\ place' = [place EXCEPT ![p] = "closed"]
    /\ nonblock' = [nonblock EXCEPT ![p] = FALSE]
    /\ UNCHANGED <<queuevars, mqh_nwait, sending, sigs>>

(* The signal handler of the process runs.                                 *)
take_signal(p) ==
    /\ p \in sigs /\ sigs' = sigs \ {p}
    /\ UNCHANGED <<queuevars, mqh_nwait, mqh_pid, nonblock, place, sending>>

(* The process is killed, in a call that waits or outside of any.          *)
mq_die(p) ==
    /\ p \in MqMortal \ Gone
    /\ place' = [place EXCEPT ![p] =
                    IF @ \in {"recvwait", "recvwoken"} THEN "killed" ELSE "dead"]
    /\ sending' = [sending EXCEPT ![p] = NoMsg]
    /\ nonblock' = [nonblock EXCEPT ![p] = FALSE]
    /\ sigs' = sigs \ {p}
    /\ UNCHANGED <<queuevars, mqh_nwait, mqh_pid>>

Call(p) ==
    \/ mymq_open(p) \/ mymq_close(p) \/ mymq_setattr(p)
    \/ mymq_notify(p) \/ mymq_notify_null(p)
    \/ mymq_receive(p) \/ \E m \in Msgs : mymq_send(p, m)

Resume(p) == send_resume(p) \/ receive_resume(p)

MqNext ==
    \E p \in MqProcs : Call(p) \/ Resume(p) \/ take_signal(p) \/ mq_spurious(p) \/ mq_die(p)

MqSpec == MqInit /\ [][MqNext]_mqvars

-----------------------------------------------------------------------------
(* The slots of the list that starts at k.                                 *)
Listed(k) ==
    LET on[n \in 0..maxmsg] == IF n = 0 THEN {k} ELSE on[n - 1] \cup {msg_next[j] : j \in on[n - 1] \ {0}}
    IN  on[maxmsg] \ {0}

(* Every slot is on exactly one of the two lists, and mq_curmsgs counts    *)
(* the messages: neither err_dump is ever reached, no slot is lost or used *)
(* twice, whatever order messages are linked in and slots freed in.        *)
SlotsPartitioned ==
    /\ Listed(mqh_head) \cup Listed(mqh_free) = Slots
    /\ Listed(mqh_head) \cap Listed(mqh_free) = {}
    /\ mq_curmsgs = Cardinality(Listed(mqh_head))

(* mqh_nwait counts the receivers that wait or have been woken, and for    *)
(* ever those that were killed there.                                      *)
NwaitCounts == mqh_nwait = Cardinality(In({"recvwait", "recvwoken", "killed"}))

(* A process that has closed the queue is not registered any more: its     *)
(* signal would reach a process that does not expect it.                   *)
RegisteredIsOpen == mqh_pid # NoPid => place[mqh_pid] # "closed"

(* testmq.c:379: a call of mq_receive "prevents notification": a signal is *)
(* queued only when no live receiver is waiting for the message.           *)
ReceiverBeforeSignal ==
    [][sigs' \subseteq sigs \/ In({"recvwait", "recvwoken"}) = {}]_mqvars

(* The queue is a bounded priority queue, first in first out within a      *)
(* priority, also for a sender that inserts after a wait.                  *)
chain ==
    LET from[n \in 0..maxmsg] == \* the first n messages
            IF n = 0 THEN <<>>
            ELSE LET nth[j \in 1..n] == IF j = 1 THEN mqh_head ELSE msg_next[nth[j - 1]]
                 IN  Append(from[n - 1], msg[nth[n]])
    IN  from[mq_curmsgs]

AbstractQueue == INSTANCE PriorityQueue WITH queue <- chain

MqImplements == AbstractQueue!Spec

-----------------------------------------------------------------------------
Woken == In({"sendwoken", "recvwoken"})

(* mq_receive.c:62, "wake up anyone blocked in mq_send waiting for room":  *)
(* with room in the queue no sender sleeps on unless some process is about *)
(* to run.                                                                 *)
SendersWoken == mq_curmsgs < maxmsg /\ In({"sendwait"}) # {} => Woken # {}

\* What the mapped file remembers about processes is right: mqh_nwait counts
\* those that wait to receive and those killed while they did, and mqh_pid is a
\* process that has the queue open.
MqBookkeeping == MqTypeOK /\ NwaitCounts /\ RegisteredIsOpen
=============================================================================
