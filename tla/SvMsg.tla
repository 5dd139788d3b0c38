------------------------------- MODULE SvMsg -------------------------------
(***************************************************************************)
(* The System V message clients and servers of src/unixipc: svmsgmpx1q, in *)
(* which requests (type 1) and answers (type: the client's pid) share one  *)
(* queue, and svmsgmpxnq, in which every client has a queue of its own and *)
(* the server forks a child for each request.  An answer is the lines of a *)
(* file, or one line that says why not, and an empty message; msgsnd       *)
(* blocks while the queue is full.                                         *)
(***************************************************************************)
EXTENDS Naturals, Sequences

CONSTANTS
    MsgClients,
    FileLines,      \* the lines of the file a client asks for
    QBYTES,         \* messages a queue holds
    MsgMortal       \* the clients that may be killed while they wait

Req == "1"          \* mesg_type of a request

(* No client's process id is 1.                                            *)
ASSUME SvMsgAssumption == Req \notin MsgClients /\ FileLines \in Nat /\ QBYTES \in Nat

VARIABLES
    multi,      \* TRUE: svmsgmpxnq
    mqueue,     \* the well-known queue: records [type, body]
    own,        \* own[c]: the client's private queue (svmsgmpxnq)
    cstate,     \* start, waiting, done, killed
    got,        \* the messages the client has read, the empty one included
    serving,    \* the clients an answer is being written to, by whom
    written     \* how much of its answer each client has been sent

svmvars == <<multi, mqueue, own, cstate, got, serving, written>>

(* The answer: line numbers, then 0 for the empty message.                 *)
answer == [i \in 1..FileLines + 1 |-> IF i <= FileLines THEN i ELSE 0]

MsgTypeOK ==
    /\ multi \in BOOLEAN
    /\ Len(mqueue) <= QBYTES /\ \A c \in MsgClients : Len(own[c]) <= QBYTES
    /\ cstate \in [MsgClients -> {"start", "waiting", "done", "killed"}]
    /\ got \in [MsgClients -> Seq(0..FileLines)]
    /\ serving \subseteq MsgClients /\ (multi \/ \A c, d \in serving : c = d)
    /\ written \in [MsgClients -> 0..FileLines + 1]

MsgInit(ms) ==
    /\ multi \in ms
    /\ mqueue = <<>> /\ own = [c \in MsgClients |-> <<>>]
    /\ cstate = [c \in MsgClients |-> "start"]
    /\ got = [c \in MsgClients |-> <<>>]
    /\ serving = {} /\ written = [c \in MsgClients |-> 0]

room(q) == Len(q) < QBYTES

(* Where the first message of a type is, if there is one: what msgrcv      *)
(* takes.                                                                  *)
first_of(q, t) == {i \in 1..Len(q) : q[i].type = t /\ \A j \in 1..i - 1 : q[j].type # t}

(* What msgrcv leaves of a queue when it takes the i-th message.           *)
without(q, i) == SubSeq(q, 1, i - 1) \o SubSeq(q, i + 1, Len(q))

(* client: the request with the pid or the queue's identifier in it.       *)
client_send(c) ==
    /\ cstate[c] = "start" /\ room(mqueue)
    /\ mqueue' = Append(mqueue, [type |-> Req, body |-> c])
    /\ cstate' = [cstate EXCEPT ![c] = "waiting"]
    /\ UNCHANGED <<multi, own, got, serving, written>>

(* client: read until the empty message; svmsgmpxnq's main then removes    *)
(* the private queue.                                                      *)
take_answer(c, n) ==
    /\ got' = [got EXCEPT ![c] = Append(@, n)]
    /\ cstate' = IF n = 0 THEN [cstate EXCEPT ![c] = "done"] ELSE cstate

(* Mutant: msgrcv with type 0, the first message of the queue.             *)
mut_my_type(q, c) == IF q # <<>> /\ Head(q).type # Req THEN {1} ELSE {}

my_type(q, c) == first_of(q, c)

client_recv(c) ==
    /\ cstate[c] = "waiting"
    /\ \/ /\ ~multi
          /\ \E i \in my_type(mqueue, c) :
                 take_answer(c, mqueue[i].body) /\ mqueue' = without(mqueue, i)
          /\ UNCHANGED own
       \/ /\ multi /\ own[c] # <<>>
          /\ take_answer(c, Head(own[c])) /\ own' = [own EXCEPT ![c] = Tail(@)]
          /\ UNCHANGED mqueue
    /\ UNCHANGED <<multi, serving, written>>

(* A client is killed while it waits; what is sent to it stays.            *)
client_killed(c) ==
    /\ c \in MsgMortal /\ cstate[c] = "waiting"
    /\ cstate' = [cstate EXCEPT ![c] = "killed"]
    /\ UNCHANGED <<multi, mqueue, own, got, serving, written>>

(* The server is back at msgrcv: svmsgmpx1q's when it has answered,        *)
(* svmsgmpxnq's always (the children answer, SIGCHLD restarts the call).   *)
may_read == multi \/ serving = {}

server_recv ==
    /\ may_read
    /\ \E i \in first_of(mqueue, Req) :
           serving' = serving \cup {mqueue[i].body} /\ mqueue' = without(mqueue, i)
    /\ UNCHANGED <<multi, own, cstate, got, written>>

ended(c) == written'[c] = FileLines + 1

(* The next line, or the empty message, to the client.                     *)
server_send(c) ==
    /\ c \in serving
    /\ written' = [written EXCEPT ![c] = @ + 1]
    /\ LET n == answer[written[c] + 1]
       IN  \/ /\ ~multi /\ room(mqueue)
              /\ mqueue' = Append(mqueue, [type |-> c, body |-> n])
              /\ UNCHANGED own
           \/ /\ multi /\ room(own[c])
              /\ own' = [own EXCEPT ![c] = Append(@, n)]
              /\ UNCHANGED mqueue
    /\ serving' = IF ended(c) THEN serving \ {c} ELSE serving
    /\ UNCHANGED <<multi, cstate, got>>

MsgNext ==
    \/ server_recv
    \/ \E c \in MsgClients :
           client_send(c) \/ client_recv(c) \/ client_killed(c) \/ server_send(c)

MsgSpec == MsgInit(BOOLEAN) /\ [][MsgNext]_svmvars

(* The server, its children and the clients that live run on; a blocked    *)
(* msgsnd that again and again finds room gets it.                         *)
MsgFair ==
    /\ WF_svmvars(server_recv)
    /\ \A c \in MsgClients :
        WF_svmvars(client_send(c)) /\ WF_svmvars(client_recv(c)) /\ WF_svmvars(server_send(c))

MsgFairSpec == MsgSpec /\ MsgFair

(* A client reads the lines of its own file in their order and nothing     *)
(* else, whoever it shares the queue with and whoever is killed.           *)
OwnAnswer ==
    \A c \in MsgClients :
        Len(got[c]) <= FileLines + 1 /\ got[c] = SubSeq(answer, 1, Len(got[c]))

(* Nobody will ever take a message out of the one queue: the server is     *)
(* blocked in msgsnd, and what fills the queue are requests, which only it *)
(* would read, and answers to the dead.                                    *)
Wedged ==
    /\ ~multi /\ serving # {} /\ Len(mqueue) = QBYTES
    /\ \A i \in 1..Len(mqueue) :
           mqueue[i].type = Req \/ cstate[mqueue[i].type] = "killed"

(* A client that is not killed is answered in full.  With svmsgmpxnq       *)
(* always, even when another dies with its queue full: only that one's     *)
(* child hangs.  With svmsgmpx1q, unless the server and every client wait  *)
(* on the one full queue for good.                                         *)
ServedOrWedged ==
    \A c \in MsgClients :
        cstate[c] = "waiting" ~> (cstate[c] \in {"done", "killed"} \/ Wedged)

\* A client of the System V message servers reads the lines of its own file in
\* order, and a queue never holds more than it has room for.
SvMsgSafe == MsgTypeOK /\ OwnAnswer
=============================================================================
