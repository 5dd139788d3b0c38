------------------------ MODULE PthreadRwlockCancel ------------------------
(***************************************************************************)
(* src/unixipc/my_rwlock_cancel: the read-write lock whose blocked callers *)
(* may be cancelled.  rdlock and wrlock push a cleanup handler around      *)
(* pthread_cond_wait; unlock signals a waiting writer without looking      *)
(* whether readers are left; the rest is the lock of PthreadRwlock.        *)
(***************************************************************************)
EXTENDS PthreadRwlock

CancelTypeOK ==
    /\ rw_magic \in BOOLEAN
    /\ rw_refcount \in Nat \cup {-1}
    /\ rw_nwaitreaders \in Nat
    /\ rw_nwaitwriters \in Nat
    /\ pc \in [Threads -> States \cup {"cancelled"}]

-----------------------------------------------------------------------------
(* pthread_cancel acts on a thread inside pthread_cond_wait: it reacquires *)
(* the mutex, runs the handler, which takes it off the count and unlocks,  *)
(* and ends.  A signal it had been sent goes to another waiting thread     *)
(* (POSIX: a cancelled thread does not consume a signal that others wait   *)
(* for).                                                                   *)

rwlock_cancelrdwait(t) ==
    /\ pc[t] \in RdWaiters
    /\ rw_magic
    /\ rw_nwaitreaders' = rw_nwaitreaders - 1
    /\ pc' = [pc EXCEPT ![t] = "cancelled"]
    /\ UNCHANGED <<rw_magic, rw_refcount, rw_nwaitwriters>>

rwlock_cancelwrwait(t) ==
    LET p == [pc EXCEPT ![t] = "cancelled"]
    IN  /\ pc[t] \in WrWaiters
        /\ rw_magic
        /\ rw_nwaitwriters' = rw_nwaitwriters - 1
        /\ \/ pc[t] = "wrwait" /\ pc' = p
           \/ pc[t] = "wrwoken" /\ pc' \in signal_writers(p)
        /\ UNCHANGED <<rw_magic, rw_refcount, rw_nwaitreaders>>

(* Mutant: a waiting reader hides the waiting writers from unlock.         *)
mut_cancel_readers_first(t) ==
    /\ pc[t] \in {"reading", "writing"}
    /\ rw_magic
    /\ rw_refcount' = IF rw_refcount > 0 THEN rw_refcount - 1 ELSE 0
    /\ pc' \in mut_readers_first(rw_refcount', [pc EXCEPT ![t] = "idle"])
    /\ UNCHANGED <<rw_magic, rw_nwaitreaders, rw_nwaitwriters>>

cancel_unlock(t) ==
    LET p == [pc EXCEPT ![t] = "idle"]
    IN  /\ pc[t] \in {"reading", "writing"}
        /\ rw_magic
        /\ rw_refcount > 0 \/ rw_refcount = -1
        /\ rw_refcount' = IF rw_refcount > 0 THEN rw_refcount - 1 ELSE 0
        /\ \/ rw_nwaitwriters > 0 /\ pc' \in signal_writers(p)
           \/ rw_nwaitwriters = 0 /\ rw_nwaitreaders > 0 /\ pc' = broadcast_readers(p)
           \/ rw_nwaitwriters = 0 /\ rw_nwaitreaders = 0 /\ pc' = p
        /\ UNCHANGED <<rw_magic, rw_nwaitreaders, rw_nwaitwriters>>

(* The same text as in my_rwlock.                                          *)
cancel_rdlock(t) == pthread_rwlock_rdlock(t) \/ rdlock_resume(t)
cancel_wrlock(t) == pthread_rwlock_wrlock(t) \/ wrlock_resume(t)
cancel_destroy(t) == pthread_rwlock_destroy(t)
cancel_init(t) == pthread_rwlock_init(t)
cancel_trywrlock(t) == pthread_rwlock_trywrlock(t)

(* Mutant: waiting writers are overlooked.                                 *)
mut_cancel_tryrdlock(t) ==
    /\ pc[t] = "idle"
    /\ rw_magic
    /\ rw_refcount # -1
    /\ rw_refcount' = rw_refcount + 1
    /\ pc' = [pc EXCEPT ![t] = "reading"]
    /\ UNCHANGED <<rw_magic, rw_nwaitreaders, rw_nwaitwriters>>

cancel_tryrdlock(t) ==
    /\ pc[t] = "idle"
    /\ rw_magic
    /\ ~(rw_refcount = -1 \/ rw_nwaitwriters > 0)
    /\ rw_refcount' = rw_refcount + 1
    /\ pc' = [pc EXCEPT ![t] = "reading"]
    /\ UNCHANGED <<rw_magic, rw_nwaitreaders, rw_nwaitwriters>>

CancelStep(t) ==
    \/ cancel_rdlock(t)
    \/ cancel_wrlock(t)
    \/ cancel_tryrdlock(t)
    \/ cancel_trywrlock(t)
    \/ cancel_unlock(t)
    \/ cancel_destroy(t)
    \/ cancel_init(t)
    \/ returns_EINVAL(t)
    \/ rwlock_cancelrdwait(t)
    \/ rwlock_cancelwrwait(t)
    \/ spurious_wakeup(t)

(* Every thread has been cancelled.                                        *)
AllCancelled ==
    /\ \A t \in Threads : pc[t] = "cancelled"
    /\ UNCHANGED vars

CancelNext == ((\E t \in Threads : CancelStep(t)) /\ NoteArrivals) \/ AllCancelled

CancelSpec == Init /\ [][CancelNext]_vars

-----------------------------------------------------------------------------
(* The lock implements ReadWriteLock with threads that may leave while     *)
(* they wait: the handlers keep writers exclusive and preferred.  Without  *)
(* cancelled threads this is Implements of PthreadRwlock.                  *)
cancelstanding ==
    [t \in Threads |-> IF pc[t] = "cancelled" THEN "gone" ELSE Standing[pc[t]]]

AbstractC == INSTANCE ReadWriteLock WITH lock <- cancelstanding

CancelImplements == AbstractC!CancelSpec

(* "Implement cancelation handling" (README of the directory): the lock    *)
(* goes on working for the threads that are left, so no reader sleeps on   *)
(* rw_condreaders beside a lock that nobody holds and nobody waits to      *)
(* write.  Nothing would wake it: only unlock broadcasts.                  *)
CancelWakesReaders ==
    rw_refcount = 0 /\ In(WrWaiters) = {} => rw_condreaders = {}

=============================================================================
