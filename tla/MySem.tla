------------------------------- MODULE MySem -------------------------------
(***************************************************************************)
(* The semaphores of src/unixipc/my_pxsem_mmap once they are open: a mutex,*)
(* a condition variable and a count in shared memory.  As in PthreadRwlock *)
(* a stretch of code under sem_mutex is one action.  Programs that use     *)
(* semaphores conjoin these actions with their own; Spec lets any thread   *)
(* call anything.                                                          *)
(***************************************************************************)
EXTENDS Naturals, FiniteSets

CONSTANTS
    Threads,
    Sems,
    InitValue,      \* the value each semaphore was opened with
    MaxCount        \* bound: nobody posts a semaphore beyond this value

ASSUME SemAssumption ==
    /\ MaxCount \in Nat
    /\ InitValue \in [Sems -> 0..MaxCount]

VARIABLES
    sem_count,
    blocked,        \* threads waiting on sem_cond of each semaphore
    woken           \* threads off sem_cond, about to reacquire sem_mutex

semvars == <<sem_count, blocked, woken>>

TypeOK ==
    /\ sem_count \in [Sems -> 0..MaxCount]
    /\ blocked \in [Sems -> SUBSET Threads]
    /\ woken \in [Sems -> SUBSET Threads]
    /\ \A s \in Sems : blocked[s] \cap woken[s] = {}

Init ==
    /\ sem_count = InitValue
    /\ blocked = [s \in Sems |-> {}]
    /\ woken = [s \in Sems |-> {}]

-----------------------------------------------------------------------------
(* Mutant: do ... while instead of while.                                  *)
mut_sem_block(t, s) ==
    /\ sem_count[s] = 0 \/ t \notin woken[s]
    /\ blocked' = [blocked EXCEPT ![s] = @ \cup {t}]
    /\ woken' = [woken EXCEPT ![s] = @ \ {t}]
    /\ UNCHANGED sem_count

(* The loop test of mysem_wait, on entry and after each return of          *)
(* pthread_cond_wait: wait again, or take a unit and return.               *)
sem_block(t, s) ==
    /\ sem_count[s] = 0
    /\ blocked' = [blocked EXCEPT ![s] = @ \cup {t}]
    /\ woken' = [woken EXCEPT ![s] = @ \ {t}]
    /\ UNCHANGED sem_count

sem_take(t, s) ==
    /\ sem_count[s] > 0
    /\ sem_count' = [sem_count EXCEPT ![s] = @ - 1]
    /\ woken' = [woken EXCEPT ![s] = @ \ {t}]
    /\ UNCHANGED blocked

(* The call has returned when its thread waits no more: ~waits(t, s)'.     *)
waits(t, s) == t \in blocked[s] \cup woken[s]

mysem_wait(t, s) ==
    /\ t \notin blocked[s]
    /\ sem_block(t, s) \/ sem_take(t, s)

(* EAGAIN, and no change, when the count is zero.                          *)
mysem_trywait(t, s) ==
    /\ sem_count[s] > 0
    /\ sem_count' = [sem_count EXCEPT ![s] = @ - 1]
    /\ UNCHANGED <<blocked, woken>>

(* A signal is sent only when the count was zero.                          *)
mysem_post(s) ==
    /\ sem_count[s] < MaxCount
    /\ sem_count' = [sem_count EXCEPT ![s] = @ + 1]
    /\ \/ /\ sem_count[s] = 0 /\ blocked[s] # {}
          /\ \E w \in blocked[s] :
                /\ blocked' = [blocked EXCEPT ![s] = @ \ {w}]
                /\ woken' = [woken EXCEPT ![s] = @ \cup {w}]
       \/ /\ sem_count[s] # 0 \/ blocked[s] = {}
          /\ UNCHANGED <<blocked, woken>>

spurious_wakeup(t, s) ==
    /\ t \in blocked[s]
    /\ blocked' = [blocked EXCEPT ![s] = @ \ {t}]
    /\ woken' = [woken EXCEPT ![s] = @ \cup {t}]
    /\ UNCHANGED sem_count

-----------------------------------------------------------------------------
Free(t) == \A s \in Sems : ~waits(t, s)

Next ==
    \E s \in Sems, t \in Threads :
        \/ (Free(t) \/ waits(t, s)) /\ mysem_wait(t, s)
        \/ Free(t) /\ mysem_trywait(t, s)
        \/ Free(t) /\ mysem_post(s)
        \/ spurious_wakeup(t, s)

Spec == Init /\ [][Next]_semvars

(* The semaphores implement CountingSemaphore: no unit is lost or made up, *)
(* and no wait returns without one.                                        *)
Abstract == INSTANCE CountingSemaphore WITH
    value <- sem_count,
    waiting <- [s \in Sems |-> blocked[s] \cup woken[s]]

Implements == Abstract!Spec

-----------------------------------------------------------------------------
(* Semaphores opened with 0.                                               *)
zero == [s \in Sems |-> 0]

(* A thread that is off the condition variable gets the mutex in the end.  *)
WaitersSpec ==
    Spec /\ \A s \in Sems, t \in Threads : WF_semvars(t \in woken[s] /\ mysem_wait(t, s))

(* README:6 says the functions of my_pxsem_mmap "implement Posix           *)
(* semaphores": a thread does not sleep on beside units nobody takes.      *)
EveryWaiterServed ==
    \A s \in Sems, t \in Threads :
        t \in blocked[s] /\ sem_count[s] > 0 ~> t \notin blocked[s] \/ sem_count[s] = 0

=============================================================================
