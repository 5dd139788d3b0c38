--------------------------- MODULE ReadWriteLock ---------------------------
(***************************************************************************)
(* What a read-write lock with preference for writers promises, without    *)
(* counters or condition variables: who holds the lock, who waits for it,  *)
(* and when it may be granted.  PthreadRwlock and PthreadRwlockCancel      *)
(* implement it.                                                           *)
(***************************************************************************)
CONSTANT Threads

VARIABLE lock       \* what each thread has to do with the lock

Standing == {"none", "waitread", "waitwrite", "read", "write", "gone"}

TypeOK == lock \in [Threads -> Standing]

Some(S) == \E u \in Threads : lock[u] \in S

Init == lock = [t \in Threads |-> "none"]

(* A reader is made to wait only behind a writer, holding or waiting.      *)
WaitRead(t) ==
    /\ lock[t] = "none"
    /\ Some({"write", "waitwrite"})
    /\ lock' = [lock EXCEPT ![t] = "waitread"]

(* A writer is made to wait only while somebody holds the lock.            *)
WaitWrite(t) ==
    /\ lock[t] = "none"
    /\ Some({"read", "write"})
    /\ lock' = [lock EXCEPT ![t] = "waitwrite"]

GrantRead(t) ==
    /\ lock[t] \in {"none", "waitread"}
    /\ ~Some({"write", "waitwrite"})
    /\ lock' = [lock EXCEPT ![t] = "read"]

GrantWrite(t) ==
    /\ lock[t] \in {"none", "waitwrite"}
    /\ ~Some({"read", "write"})
    /\ lock' = [lock EXCEPT ![t] = "write"]

Release(t) ==
    /\ lock[t] \in {"read", "write"}
    /\ lock' = [lock EXCEPT ![t] = "none"]

(* A thread cancelled while it waits stops existing for the lock.          *)
Leave(t) ==
    /\ lock[t] \in {"waitread", "waitwrite"}
    /\ lock' = [lock EXCEPT ![t] = "gone"]

Use(t) ==
    \/ WaitRead(t)
    \/ WaitWrite(t)
    \/ GrantRead(t)
    \/ GrantWrite(t)
    \/ Release(t)

Next == \E t \in Threads : Use(t)

Spec == Init /\ [][Next]_lock

CancelNext == \E t \in Threads : Use(t) \/ Leave(t)

CancelSpec == Init /\ [][CancelNext]_lock

(* A writer has the lock alone.                                            *)
Exclusion ==
    \A t, u \in Threads :
        lock[t] = "write" /\ lock[u] \in {"read", "write"} => t = u

=============================================================================
