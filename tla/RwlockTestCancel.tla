-------------------------- MODULE RwlockTestCancel --------------------------
(***************************************************************************)
(* my_rwlock/testcancel.c: a writer is cancelled while it waits for the    *)
(* lock of my_rwlock, whose functions push no cleanup handler.  The sleeps  *)
(* of the program are taken to be long enough: thread1 has the lock before *)
(* thread2 asks for it, thread2 waits before it is cancelled, and it has   *)
(* ended before thread1 unlocks.                                           *)
(***************************************************************************)
EXTENDS PthreadRwlock

CONSTANTS thread1, thread2      \* Threads is the set of these two

VARIABLES
    rw_mutex,       \* "free", or "lost" when its owner has ended
    at1,            \* the statement of thread1()
    pending,        \* pthread_cancel(tid2) has been called
    main,           \* the statement of main()
    ret             \* what pthread_rwlock_destroy returned

tcvars == <<vars, rw_mutex, at1, pending, main, ret>>

TCInit ==
    /\ Init
    /\ rw_mutex = "free"
    /\ at1 = "rdlock"
    /\ pending = FALSE
    /\ main = "join2"
    /\ ret = "none"

thread1_rdlock ==
    /\ at1 = "rdlock" /\ rw_mutex = "free"
    /\ pthread_rwlock_rdlock(thread1)
    /\ at1' = "cancel"
    /\ UNCHANGED <<rw_mutex, pending, main, ret>>

thread1_cancel ==
    /\ at1 = "cancel" /\ pc[thread2] = "wrwait"
    /\ pending' = TRUE
    /\ at1' = "unlock"
    /\ UNCHANGED <<vars, rw_mutex, main, ret>>

thread1_unlock ==
    /\ at1 = "unlock" /\ pc[thread2] = "cancelled"
    /\ rw_mutex = "free"
    /\ pthread_rwlock_unlock(thread1)
    /\ at1' = "done"
    /\ UNCHANGED <<rw_mutex, pending, main, ret>>

thread2_wrlock ==
    /\ at1 # "rdlock" /\ rw_mutex = "free"
    /\ pthread_rwlock_wrlock(thread2)
    /\ UNCHANGED <<rw_mutex, at1, pending, main, ret>>

(* pthread_cond_wait reacquires rw_mutex before the cancelled thread ends; *)
(* without a handler nobody releases it or mends rw_nwaitwriters.          *)
thread2_cancelled ==
    /\ pending /\ pc[thread2] = "wrwait" /\ rw_mutex = "free"
    /\ pc' = [pc EXCEPT ![thread2] = "cancelled"]
    /\ rw_mutex' = "lost"
    /\ UNCHANGED <<rw, at1, pending, main, ret>>

main_join2 ==
    /\ main = "join2" /\ pc[thread2] = "cancelled"
    /\ main' = "join1"
    /\ UNCHANGED <<vars, rw_mutex, at1, pending, ret>>

main_join1 ==
    /\ main = "join1" /\ at1 = "done"
    /\ main' = "destroy"
    /\ UNCHANGED <<vars, rw_mutex, at1, pending, ret>>

main_destroy ==
    /\ main = "destroy"
    /\ ret' = IF rw_refcount # 0 \/ rw_nwaitreaders # 0 \/ rw_nwaitwriters # 0
              THEN "EBUSY" ELSE "0"
    /\ main' = "exit"
    /\ UNCHANGED <<vars, rw_mutex, at1, pending>>

TCNext ==
    /\ \/ thread1_rdlock \/ thread1_cancel \/ thread1_unlock
       \/ thread2_wrlock \/ thread2_cancelled
       \/ main_join2 \/ main_join1 \/ main_destroy
    /\ UNCHANGED came

(* Every statement that can run does.                                      *)
TCSpec == TCInit /\ [][TCNext]_tcvars /\ WF_tcvars(TCNext)

(* testcancel.c, after its call of pthread_rwlock_destroy: "returns EBUSY  *)
(* error if cancelled thread does not cleanup".                            *)
DestroyReturnsEBUSY == <>(ret = "EBUSY")

=============================================================================
