----------------------------- MODULE MCPrograms -----------------------------
(***************************************************************************)
(* The programs and libraries of the repository outside unixipc and        *)
(* unixNetV1, each with its small instance.  They do not interact:         *)
(* scenario chooses the component a behaviour is about, and the variables  *)
(* of the others keep their initial values.                                *)
(***************************************************************************)
EXTENDS QueueH, FindStr, Attachment, ChatServer, Rcu, TwoThreads

VARIABLE scenario

Scenarios == {"queue", "find", "attach", "chat", "rcu", "turns"}

progvars ==
    <<qvars, fsvars, b64vars, chatvars, rcuvars, ttvars, scenario>>

(* A component that is not chosen has one initial state.                   *)
ProgInit ==
    /\ scenario \in Scenarios
    /\ QueueInit(IF scenario = "queue" THEN Kinds ELSE {"LIST"})
    /\ IF scenario = "find" THEN FindInit([Cells -> Letters], Words)
       ELSE FindInit({[c \in Cells |-> "a"]}, {<<"a">>})
    /\ AttachInit(IF scenario = "attach" THEN BoundedSeq(ByteVals, MaxFile) ELSE {<<>>})
    /\ ChatInit
    /\ RcuInit
    /\ TTInit

Only(name) == scenario = name /\ UNCHANGED scenario

ProgNext ==
    \/ /\ Only("queue") /\ QueueNext
       /\ UNCHANGED <<fsvars, b64vars, chatvars, rcuvars, ttvars>>
    \/ /\ Only("find") /\ FindNext
       /\ UNCHANGED <<qvars, b64vars, chatvars, rcuvars, ttvars>>
    \/ /\ Only("attach") /\ AttachNext
       /\ UNCHANGED <<qvars, fsvars, chatvars, rcuvars, ttvars>>
    \/ /\ Only("chat") /\ ChatNext
       /\ UNCHANGED <<qvars, fsvars, b64vars, rcuvars, ttvars>>
    \/ /\ Only("rcu") /\ RcuNext
       /\ UNCHANGED <<qvars, fsvars, b64vars, chatvars, ttvars>>
    \/ /\ Only("turns") /\ TTNext
       /\ UNCHANGED <<qvars, fsvars, b64vars, chatvars, rcuvars>>

ProgSpec == ProgInit /\ [][ProgNext]_progvars

-----------------------------------------------------------------------------
(* The liveness of each component, under its own fairness.                 *)

(* MessagesHandled of ChatServer: every message is taken from the queue.   *)
FairMessagesHandled == scenario = "chat" /\ ChatFair => MessagesHandled

(* ReplacedAreFreed of Rcu: every replaced structure is freed.             *)
FairReplacedAreFreed == scenario = "rcu" /\ RcuFair => ReplacedAreFreed

(* JoinsOrLeftWaiting of TwoThreads: main joins both threads, or one is    *)
(* left waiting in the known way.                                          *)
FairJoinsOrLeftWaiting == scenario = "turns" /\ TTFair => JoinsOrLeftWaiting

(* Messages of the chat server are handled, what rcu.c replaced is freed,  *)
(* and the threads of multiThread are joined but for the known race.       *)
FairProgress == FairMessagesHandled /\ FairReplacedAreFreed /\ FairJoinsOrLeftWaiting

=============================================================================
