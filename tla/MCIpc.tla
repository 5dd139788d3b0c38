------------------------------- MODULE MCIpc --------------------------------
(***************************************************************************)
(* The synchronisation programs of src/unixipc, each with its small        *)
(* instance.  They do not interact: scenario chooses the component a       *)
(* behaviour is about, and the variables of the others keep their initial  *)
(* values.                                                                 *)
(***************************************************************************)
EXTENDS ProdCons1, SemOpen, SvSemOpen, FifoSem, LockSeqno, ProdConsCond,
        ProdConsSem, MqNotify, ShmRing, SvMsg, MqTransfer

CONSTANT LoopTwice      \* processes of LockSeqno that increment twice

VARIABLE scenario

LoopTurns == [p \in LockProcs |-> IF p \in LoopTwice THEN 2 ELSE 1]

Scenarios == {"prodcons1", "open", "svopen", "fifo", "lock", "cond", "sem", "notify", "shm", "svmsg", "transfer"}

ipcvars ==
    <<vars, openvars, svvars, fifovars, lockvars, pc6vars, pc4vars,
      notifyvars, shmvars, svmvars, transfervars, scenario>>

(* A component that is not chosen has one initial state.                   *)
IpcInit ==
    /\ scenario \in Scenarios
    /\ ProdConsInit
    /\ OpenInit
    /\ SvInit /\ (scenario = "svopen" \/ ~svfile)
    /\ FifoInit
    /\ LockInit /\ (scenario = "lock" \/ mech = "none")
    /\ PC6Init /\ (scenario = "cond" \/ variant6 = "prodcons3")
    /\ PC4Init /\ (scenario = "sem" \/ variant4 = "prodcons4")
    /\ NotifyInit /\ (scenario = "notify" \/ prog = "sig2")
    /\ ShmInit
    /\ MsgInit(IF scenario = "svmsg" THEN BOOLEAN ELSE {FALSE})
    /\ TransferInit

Only(name) == scenario = name /\ UNCHANGED scenario

IpcNext ==
    \/ /\ Only("prodcons1") /\ ProdConsNext
       /\ UNCHANGED <<openvars, svvars, fifovars, lockvars, pc6vars, pc4vars,
                      notifyvars, shmvars, svmvars, transfervars>>
    \/ /\ Only("open") /\ OpenNext
       /\ UNCHANGED <<vars, svvars, fifovars, lockvars, pc6vars, pc4vars,
                      notifyvars, shmvars, svmvars, transfervars>>
    \/ /\ Only("svopen") /\ SvNext
       /\ UNCHANGED <<vars, openvars, fifovars, lockvars, pc6vars, pc4vars,
                      notifyvars, shmvars, svmvars, transfervars>>
    \/ /\ Only("fifo") /\ FifoNext
       /\ UNCHANGED <<vars, openvars, svvars, lockvars, pc6vars, pc4vars,
                      notifyvars, shmvars, svmvars, transfervars>>
    \/ /\ Only("lock") /\ LockNext
       /\ UNCHANGED <<vars, openvars, svvars, fifovars, pc6vars, pc4vars,
                      notifyvars, shmvars, svmvars, transfervars>>
    \/ /\ Only("cond") /\ PC6Next
       /\ UNCHANGED <<vars, openvars, svvars, fifovars, lockvars, pc4vars,
                      notifyvars, shmvars, svmvars, transfervars>>
    \/ /\ Only("sem") /\ PC4Next
       /\ UNCHANGED <<vars, openvars, svvars, fifovars, lockvars, pc6vars,
                      notifyvars, shmvars, svmvars, transfervars>>
    \/ /\ Only("notify") /\ NotifyNext
       /\ UNCHANGED <<vars, openvars, svvars, fifovars, lockvars, pc6vars,
                      pc4vars, shmvars, svmvars, transfervars>>
    \/ /\ Only("shm") /\ ShmNext
       /\ UNCHANGED <<vars, openvars, svvars, fifovars, lockvars, pc6vars,
                      pc4vars, notifyvars, svmvars, transfervars>>
    \/ /\ Only("svmsg") /\ MsgNext
       /\ UNCHANGED <<vars, openvars, svvars, fifovars, lockvars, pc6vars,
                      pc4vars, notifyvars, shmvars, transfervars>>
    \/ /\ Only("transfer") /\ TransferNext
       /\ UNCHANGED <<vars, openvars, svvars, fifovars, lockvars, pc6vars,
                      pc4vars, notifyvars, shmvars, svmvars>>

IpcSpec == IpcInit /\ [][IpcNext]_ipcvars

-----------------------------------------------------------------------------
(* The liveness of each component, under its own fairness.                 *)

(* AllTransferred of MqTransfer: every message gets across.                *)
FairAllTransferred == scenario = "transfer" /\ TransferFair => AllTransferred

(* Termination of ProdCons1: produce and consume run all their loops.      *)
FairTermination == scenario = "prodcons1" /\ ProdConsFair => Termination

(* WaitEnds of SemOpen: no process waits for the execute bit for good.     *)
FairWaitEnds == scenario = "open" /\ OpenFair => WaitEnds

(* HalfMadeRemoved of SvSemOpen: whoever finds a semaphore that nobody     *)
(* initialises removes it or gives up.                                     *)
FairHalfMadeRemoved == scenario = "svopen" /\ SvFair => HalfMadeRemoved

(* WaitersGetIn of FifoSem: a waiter of the FIFO semaphore gets its byte,  *)
(* unless a process was killed or the FIFO was emptied.                    *)
FairWaitersGetIn == scenario = "fifo" /\ FifoFair => WaitersGetIn

(* LocksEnd of LockSeqno: every process finishes, unless a killed one left *)
(* its lock file or unit behind.                                           *)
FairLocksEnd == scenario = "lock" /\ LockFair => LocksEnd

(* AllEnd6 of ProdConsCond: producers and consumer all end.                *)
FairAllEnd6 == scenario = "cond" /\ PC6Fair => AllEnd6

(* AllEnd4 of ProdConsSem: producers and consumers all end.                *)
FairAllEnd4 == scenario = "sem" /\ PC4Fair => AllEnd4

(* AllRead of MqNotify: every message is read.                             *)
FairAllRead == scenario = "notify" /\ NotifyFair => AllRead

(* AllCounted of ShmRing: every message is printed or counted lost.        *)
FairAllCounted == scenario = "shm" /\ ShmFair => AllCounted

(* ServedOrWedged of SvMsg: every client is answered in full, or the server *)
(* and all clients wait on the one full queue of svmsgmpx1q for good.      *)
FairServedOrWedged == scenario = "svmsg" /\ MsgFair => ServedOrWedged

(* Every producer, consumer and locking process comes to its end, unless   *)
(* a killed process kept its lock.                                         *)
FairProgramsEnd == FairTermination /\ FairAllEnd6 /\ FairAllEnd4 /\ FairLocksEnd

(* Nobody waits for good to open or to get one of the semaphores that are  *)
(* made of files, FIFOs and System V semaphores, unless a kill or a last   *)
(* close took what it waits for.                                           *)
FairOpensEnd == FairWaitEnds /\ FairHalfMadeRemoved /\ FairWaitersGetIn

(* Every message is read, printed, answered or counted as lost, unless     *)
(* server and clients of svmsgmpx1q fill their one queue.                  *)
FairMessagesRead == FairAllRead /\ FairAllCounted /\ FairServedOrWedged /\ FairAllTransferred

=============================================================================
