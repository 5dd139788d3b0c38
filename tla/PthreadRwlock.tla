--------------------------- MODULE PthreadRwlock ---------------------------
(***************************************************************************)
(* The read-write lock of src/unixipc/my_rwlock: a mutex, two condition    *)
(* variables and three counters.                                           *)
(*                                                                         *)
(* Every function runs from pthread_mutex_lock(&rw->rw_mutex) to the        *)
(* matching unlock, or to the pthread_cond_wait that releases the mutex,    *)
(* without another thread touching the structure.  Each such stretch is     *)
(* one action, so the mutex needs no variable: it is free between actions.  *)
(* A call that blocks is two actions, the second one starting when          *)
(* pthread_cond_wait has reacquired the mutex; anything may happen between  *)
(* the signal and that moment, another thread taking the lock included.     *)
(* pthread_rwlock_destroy takes no mutex: each of its reads is an action.   *)
(***************************************************************************)
EXTENDS Integers, FiniteSets

CONSTANT Threads

ASSUME ThreadsAssumption == IsFiniteSet(Threads)

VARIABLES
    rw_magic,           \* TRUE when the field holds RW_MAGIC
    rw_refcount,        \* -1 if a writer has the lock, else # readers
    rw_nwaitreaders,
    rw_nwaitwriters,
    pc,                 \* where each thread is, see States
    came                \* history: the threads that have come to hold or await the
                        \* lock since a thread that destroys it read rw_refcount

rw == <<rw_magic, rw_refcount, rw_nwaitreaders, rw_nwaitwriters>>
vars == <<rw, pc, came>>

(***************************************************************************)
(* "rdwait"/"wrwait": blocked on rw_condreaders/rw_condwriters.            *)
(* "rdwoken"/"wrwoken": taken off the condition variable, the mutex not     *)
(* yet reacquired.  "reading"/"writing": the call returned 0.  "destroy1"   *)
(* to "destroy3": in pthread_rwlock_destroy, with so many of the three      *)
(* counters found to be zero.                                               *)
(***************************************************************************)
States == {"idle", "rdwait", "rdwoken", "reading", "wrwait", "wrwoken", "writing",
           "destroy1", "destroy2", "destroy3"}

Destroying == {"destroy1", "destroy2", "destroy3"}
Readers == {"reading"}
Writers == {"writing"}
RdWaiters == {"rdwait", "rdwoken"}      \* inside the loop of rdlock
WrWaiters == {"wrwait", "wrwoken"}      \* inside the loop of wrlock
Users == Readers \cup Writers \cup RdWaiters \cup WrWaiters

At(p, S) == {t \in Threads : p[t] \in S}
In(S) == At(pc, S)

rw_condreaders == In({"rdwait"})
rw_condwriters == In({"wrwait"})

TypeOK ==
    /\ rw_magic \in BOOLEAN
    /\ rw_refcount \in Nat \cup {-1}
    /\ rw_nwaitreaders \in Nat
    /\ rw_nwaitwriters \in Nat
    /\ pc \in [Threads -> States]

Init ==
    /\ rw_magic = TRUE
    /\ rw_refcount = 0
    /\ rw_nwaitreaders = 0
    /\ rw_nwaitwriters = 0
    /\ pc = [t \in Threads |-> "idle"]
    /\ came = [t \in Threads |-> {}]

-----------------------------------------------------------------------------
(* The condition variables.  A signal takes one waiting thread, whichever,  *)
(* and is lost when there is none; a broadcast takes them all.              *)

signal_writers(p) ==
    IF rw_condwriters = {} THEN {p}
    ELSE {[p EXCEPT ![w] = "wrwoken"] : w \in rw_condwriters}

broadcast_readers(p) ==
    [t \in Threads |-> IF t \in rw_condreaders THEN "rdwoken" ELSE p[t]]

(* POSIX lets pthread_cond_wait return without a signal.                    *)
spurious_wakeup(t) ==
    /\ pc[t] \in {"rdwait", "wrwait"}
    /\ pc' = [pc EXCEPT ![t] = IF @ = "rdwait" THEN "rdwoken" ELSE "wrwoken"]
    /\ UNCHANGED rw

-----------------------------------------------------------------------------

must_wait_rd == rw_refcount < 0 \/ rw_nwaitwriters > 0
must_wait_wr == rw_refcount # 0

(* The loop of pthread_rwlock_rdlock from its test on, with rw_nwaitreaders *)
(* at n: block again, or take a read lock.                                  *)
rdlock_loop(t, n) ==
    \/ /\ must_wait_rd
       /\ rw_nwaitreaders' = n + 1
       /\ pc' = [pc EXCEPT ![t] = "rdwait"]
       /\ UNCHANGED rw_refcount
    \/ /\ ~must_wait_rd
       /\ rw_nwaitreaders' = n
       /\ rw_refcount' = rw_refcount + 1
       /\ pc' = [pc EXCEPT ![t] = "reading"]

wrlock_loop(t, n) ==
    \/ /\ must_wait_wr
       /\ rw_nwaitwriters' = n + 1
       /\ pc' = [pc EXCEPT ![t] = "wrwait"]
       /\ UNCHANGED rw_refcount
    \/ /\ ~must_wait_wr
       /\ rw_nwaitwriters' = n
       /\ rw_refcount' = -1
       /\ pc' = [pc EXCEPT ![t] = "writing"]

(* The functions.  What a thread meets that is inside the lock while it is  *)
(* destroyed is undefined, and the model does not follow it further.        *)
pthread_rwlock_rdlock(t) ==
    /\ pc[t] = "idle"
    /\ rw_magic
    /\ rdlock_loop(t, rw_nwaitreaders)
    /\ UNCHANGED <<rw_magic, rw_nwaitwriters>>

rdlock_resume(t) ==
    /\ pc[t] = "rdwoken"
    /\ rw_magic
    /\ rdlock_loop(t, rw_nwaitreaders - 1)
    /\ UNCHANGED <<rw_magic, rw_nwaitwriters>>

pthread_rwlock_wrlock(t) ==
    /\ pc[t] = "idle"
    /\ rw_magic
    /\ wrlock_loop(t, rw_nwaitwriters)
    /\ UNCHANGED <<rw_magic, rw_nwaitreaders>>

wrlock_resume(t) ==
    /\ pc[t] = "wrwoken"
    /\ rw_magic
    /\ wrlock_loop(t, rw_nwaitwriters - 1)
    /\ UNCHANGED <<rw_magic, rw_nwaitreaders>>

(* EBUSY, and no change, when the lock cannot be had at once.               *)
pthread_rwlock_tryrdlock(t) ==
    /\ pc[t] = "idle"
    /\ rw_magic
    /\ ~must_wait_rd
    /\ rw_refcount' = rw_refcount + 1
    /\ pc' = [pc EXCEPT ![t] = "reading"]
    /\ UNCHANGED <<rw_magic, rw_nwaitreaders, rw_nwaitwriters>>

pthread_rwlock_trywrlock(t) ==
    /\ pc[t] = "idle"
    /\ rw_magic
    /\ rw_refcount = 0
    /\ rw_refcount' = -1
    /\ pc' = [pc EXCEPT ![t] = "writing"]
    /\ UNCHANGED <<rw_magic, rw_nwaitreaders, rw_nwaitwriters>>

(* Mutant: readers are given preference over writers.                       *)
mut_readers_first(count, p) ==
    IF rw_nwaitreaders > 0 THEN {broadcast_readers(p)}
    ELSE IF rw_nwaitwriters > 0 /\ count = 0 THEN signal_writers(p)
    ELSE {p}

(* Whom unlock wakes, once rw_refcount is count and the caller is out: the  *)
(* possible places of all threads after that.                               *)
unlock_wakes(count, p) ==
    IF rw_nwaitwriters > 0
    THEN IF count = 0 THEN signal_writers(p) ELSE {p}
    ELSE IF rw_nwaitreaders > 0 THEN {broadcast_readers(p)} ELSE {p}

(* A thread unlocks a lock it holds.  The err_dump for a count that is      *)
(* neither positive nor -1 is the branch that RefcountExact rules out.      *)
pthread_rwlock_unlock(t) ==
    LET count == IF rw_refcount > 0 THEN rw_refcount - 1 ELSE 0
        p     == [pc EXCEPT ![t] = "idle"]
    IN  /\ pc[t] \in {"reading", "writing"}
        /\ rw_magic
        /\ rw_refcount > 0 \/ rw_refcount = -1
        /\ rw_refcount' = count
        /\ pc' \in unlock_wakes(count, p)
        /\ UNCHANGED <<rw_magic, rw_nwaitreaders, rw_nwaitwriters>>

(* A wrong rw_magic makes every function return EINVAL and change nothing.  *)
returns_EINVAL(t) ==
    /\ pc[t] \in {"idle", "reading", "writing"}
    /\ ~rw_magic
    /\ UNCHANGED <<rw, pc>>

(* A counter is read: EBUSY unless it is zero.                              *)
finds_zero(t, counter, next) ==
    /\ pc' = [pc EXCEPT ![t] = IF counter = 0 THEN next ELSE "idle"]
    /\ UNCHANGED rw

clears_magic(t) ==
    /\ rw_magic' = FALSE
    /\ pc' = [pc EXCEPT ![t] = "idle"]
    /\ UNCHANGED <<rw_refcount, rw_nwaitreaders, rw_nwaitwriters>>

(* Mutant: the waiting writers are not looked at.                           *)
mut_destroy(t) ==
    \/ pc[t] = "idle" /\ rw_magic /\ finds_zero(t, rw_refcount, "destroy1")
    \/ pc[t] = "destroy1" /\ finds_zero(t, rw_nwaitreaders, "destroy3")
    \/ pc[t] = "destroy3" /\ clears_magic(t)

(* The three counters are read one after the other, without the mutex.      *)
(* Once the mutex is destroyed a new call fails as it does when rw_magic is *)
(* cleared, so that these statements are one step.                          *)
pthread_rwlock_destroy(t) ==
    \/ pc[t] = "idle" /\ rw_magic /\ finds_zero(t, rw_refcount, "destroy1")
    \/ pc[t] = "destroy1" /\ finds_zero(t, rw_nwaitreaders, "destroy2")
    \/ pc[t] = "destroy2" /\ finds_zero(t, rw_nwaitwriters, "destroy3")
    \/ pc[t] = "destroy3" /\ clears_magic(t)

(* The function looks at nothing: its caller knows that the lock is not in  *)
(* use.                                                                     *)
pthread_rwlock_init(t) ==
    /\ pc[t] = "idle"
    /\ ~rw_magic /\ In(Users) = {}
    /\ rw_nwaitreaders' = 0
    /\ rw_nwaitwriters' = 0
    /\ rw_refcount' = 0
    /\ rw_magic' = TRUE
    /\ UNCHANGED pc

Step(t) ==
    \/ pthread_rwlock_rdlock(t)
    \/ rdlock_resume(t)
    \/ pthread_rwlock_wrlock(t)
    \/ wrlock_resume(t)
    \/ pthread_rwlock_tryrdlock(t)
    \/ pthread_rwlock_trywrlock(t)
    \/ pthread_rwlock_unlock(t)
    \/ pthread_rwlock_destroy(t)
    \/ pthread_rwlock_init(t)
    \/ returns_EINVAL(t)
    \/ spurious_wakeup(t)

(* Who takes the lock, or starts to wait for it, in this step.              *)
Arriving ==
    {u \in Threads : \E S \in {Readers, Writers, RdWaiters, WrWaiters} : pc[u] \notin S /\ pc'[u] \in S}

NoteArrivals ==
    came' = [d \in Threads |-> IF pc'[d] \in Destroying THEN came[d] \cup Arriving ELSE {}]

Next == (\E t \in Threads : Step(t)) /\ NoteArrivals

Spec == Init /\ [][Next]_vars

-----------------------------------------------------------------------------
(* rw_refcount says who holds the lock, as its comment in pthread_rwlock.h  *)
(* promises: -1 for one writer and nobody else, else the number of readers. *)
(* It rules out the err_dump of pthread_rwlock_unlock.                      *)
RefcountExact ==
    \/ /\ rw_refcount = -1
       /\ In(Readers) = {}
       /\ \E w \in Threads : In(Writers) = {w}
    \/ /\ rw_refcount = Cardinality(In(Readers))
       /\ In(Writers) = {}

(* The two waiting counts are the numbers of threads inside the loops of    *)
(* rdlock and wrlock: no path forgets its decrement, however often a        *)
(* thread is woken in vain.                                                 *)
WaitersCounted ==
    /\ rw_nwaitreaders = Cardinality(In(RdWaiters))
    /\ rw_nwaitwriters = Cardinality(In(WrWaiters))

(* No writer sleeps on rw_condwriters beside a free lock, unless another    *)
(* writer has been woken and is about to take it.                           *)
NoStrandedWriter ==
    rw_refcount = 0 /\ rw_condwriters # {} => In({"wrwoken"}) # {}

(* No reader sleeps on rw_condreaders when a read lock could be granted:    *)
(* unlock broadcasts whenever the last obstacle to readers goes away.       *)
NoStrandedReader ==
    rw_condreaders # {} => rw_refcount = -1 \/ rw_nwaitwriters > 0

(* pthread_rwlock_destroy succeeds only if every thread that holds the lock *)
(* or waits for it has come to do so since the destroyer read rw_refcount:  *)
(* nobody who held the lock all the time, or waited all the time, is        *)
(* overlooked.  A thread that calls between the reads, or that was woken    *)
(* and takes the lock between them, may lose the lock under its feet.       *)
DestroyMissesOnlyArrivals ==
    \A d \in Threads : pc[d] = "destroy3" => In(Users) \subseteq came[d]

(* The lock implements ReadWriteLock: writers exclude everybody, a reader   *)
(* never overtakes a waiting writer, and nobody is made to wait for a lock  *)
(* that could be granted.                                                   *)
Standing ==
    [idle |-> "none", rdwait |-> "waitread", rdwoken |-> "waitread",
     reading |-> "read", wrwait |-> "waitwrite", wrwoken |-> "waitwrite",
     writing |-> "write",
     destroy1 |-> "none", destroy2 |-> "none", destroy3 |-> "none"]

standing == [t \in Threads |-> Standing[pc[t]]]

Abstract == INSTANCE ReadWriteLock WITH lock <- standing

Implements == Abstract!Spec

=============================================================================
