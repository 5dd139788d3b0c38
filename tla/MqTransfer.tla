----------------------------- MODULE MqTransfer -----------------------------
(***************************************************************************)
(* The last parts of src/unixipc/my_pxmsg_mmap/testmq.c: one process sends *)
(* to another through the queue, which may fill up and run empty.          *)
(***************************************************************************)
EXTENDS MyMq

CONSTANTS parent, child, nmsgs

ASSUME TransferAssumption == MqProcs = {parent, child} /\ nmsgs \in Nat

VARIABLE left       \* calls each process has still to make

transfervars == <<mqvars, left>>

TransferInit ==
    /\ MqInit
    /\ left = [p \in MqProcs |-> nmsgs]

(* One call less to make once the process is back from it.                 *)
counted(p) == left' = IF place'[p] = "open" THEN [left EXCEPT ![p] = @ - 1] ELSE left

attach(p) == mymq_open(p) /\ ~nonblock'[p] /\ UNCHANGED left

parent_sends ==
    /\ left[parent] > 0
    /\ (\E m \in Msgs : mymq_send(parent, m)) \/ send_resume(parent)
    /\ counted(parent)

child_receives ==
    /\ left[child] > 0
    /\ mymq_receive(child) \/ receive_resume(child)
    /\ counted(child)

transferred == \A p \in MqProcs : left[p] = 0

waited == transferred /\ UNCHANGED transfervars

TransferNext ==
    \/ parent_sends \/ child_receives \/ waited
    \/ \E p \in MqProcs : attach(p) \/ (mq_spurious(p) /\ UNCHANGED left)

TransferFair ==
    /\ WF_transfervars(parent_sends) /\ WF_transfervars(child_receives)
    /\ \A p \in MqProcs : WF_transfervars(attach(p))

TransferSpec == TransferInit /\ [][TransferNext]_transfervars /\ TransferFair

(* The messages in the queue are those sent and not yet received: a sender *)
(* or a receiver that waits and is woken neither loses nor doubles one.    *)
NothingLost == mq_curmsgs + left[parent] = left[child]

(* Every message gets across: with one sender and one receiver, who are    *)
(* never both asleep, one signal at the empty and at the full queue is     *)
(* enough although both sides share mqh_wait.                              *)
AllTransferred == <>transferred

\* While messages go from one process to the other every slot of the mapped file
\* is on exactly one list and no message is lost or invented.
TransferSafe == MqTypeOK /\ SlotsPartitioned /\ NothingLost
=============================================================================
