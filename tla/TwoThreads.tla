----------------------------- MODULE TwoThreads -----------------------------
(***************************************************************************)
(* src/multiThread: two threads take turns with two semaphores until a     *)
(* time is up (TwoSemCtrlTwoThread.c, and thread_sem/sem_thread.c, which   *)
(* also adds to a shared variable with no other lock), and main joins      *)
(* them.  Thread 1 waits on s2 and posts s1, thread 2 the other way round; *)
(* s1 starts at 1.  The time is up at any moment.                          *)
(***************************************************************************)
EXTENDS Naturals

CONSTANT MaxVar     \* bound: by then the time is up

ASSUME VarAssumption == MaxVar \in Nat

VARIABLES
    sem,        \* sem[1] and sem[2]: the values of s1 and s2
    var,        \* thiz->var
    copy,       \* the value a thread has read and is adding to
    tpc,        \* loop, wait, read, write, post, end
    rounds,     \* how often each thread has added
    timeup,     \* time(NULL) has reached end_time
    joined      \* main is past the two pthread_join

ttvars == <<sem, var, copy, tpc, rounds, timeup, joined>>

TT == {1, 2}
waits_on(t) == 3 - t
posts_to(t) == t

TTTypeOK ==
    /\ sem \in [TT -> 0..1] /\ var \in 0..MaxVar + 2 /\ copy \in [TT -> 0..MaxVar + 2]
    /\ tpc \in [TT -> {"loop", "wait", "read", "write", "post", "end"}]
    /\ rounds \in [TT -> 0..MaxVar + 2] /\ timeup \in BOOLEAN /\ joined \in BOOLEAN

(* Mutant: both semaphores start open.                                     *)
mut_sem_init == [t \in TT |-> 1]

(* info_init.                                                              *)
sem_init == [t \in TT |-> IF t = 1 THEN 1 ELSE 0]

TTInit ==
    /\ sem = sem_init /\ var = 0 /\ copy = [t \in TT |-> 0]
    /\ tpc = [t \in TT |-> "loop"] /\ rounds = [t \in TT |-> 0]
    /\ timeup = FALSE /\ joined = FALSE

tgoto(t, from, to) == tpc[t] = from /\ tpc' = [tpc EXCEPT ![t] = to]

(* while (time(NULL) < end_time)                                           *)
test_time(t) ==
    /\ timeup \/ var < MaxVar
    /\ tgoto(t, "loop", IF timeup THEN "end" ELSE "wait")
    /\ UNCHANGED <<sem, var, copy, rounds, timeup, joined>>

sem_wait_other(t) ==
    /\ sem[waits_on(t)] > 0 /\ tgoto(t, "wait", "read")
    /\ sem' = [sem EXCEPT ![waits_on(t)] = @ - 1]
    /\ UNCHANGED <<var, copy, rounds, timeup, joined>>

(* var += 1, a read and a write.                                           *)
read_var(t) ==
    /\ tgoto(t, "read", "write")
    /\ copy' = [copy EXCEPT ![t] = var]
    /\ UNCHANGED <<sem, var, rounds, timeup, joined>>

write_var(t) ==
    /\ tgoto(t, "write", "post")
    /\ var' = copy[t] + 1 /\ rounds' = [rounds EXCEPT ![t] = @ + 1]
    /\ copy' = [copy EXCEPT ![t] = 0]
    /\ UNCHANGED <<sem, timeup, joined>>

posted_sem(t) == [sem EXCEPT ![posts_to(t)] = @ + 1]

sem_post_own(t) ==
    /\ tgoto(t, "post", "loop")
    /\ sem' = posted_sem(t)
    /\ UNCHANGED <<var, copy, rounds, timeup, joined>>

clock ==
    /\ ~timeup /\ timeup' = TRUE
    /\ UNCHANGED <<sem, var, copy, tpc, rounds, joined>>

pthread_joins ==
    /\ \A t \in TT : tpc[t] = "end"
    /\ ~joined /\ joined' = TRUE
    /\ UNCHANGED <<sem, var, copy, tpc, rounds, timeup>>

thread_step(t) ==
    test_time(t) \/ sem_wait_other(t) \/ read_var(t) \/ write_var(t) \/ sem_post_own(t)

TTNext == clock \/ pthread_joins \/ \E t \in TT : thread_step(t)

TTSpec == TTInit /\ [][TTNext]_ttvars

TTFair == WF_ttvars(clock) /\ WF_ttvars(pthread_joins) /\ \A t \in TT : WF_ttvars(thread_step(t))

TTFairSpec == TTSpec /\ TTFair

(* The unlocked addition loses nothing and the threads take turns, thread  *)
(* 2 first: the semaphores alone order them, also around the time's end.   *)
TurnsKept ==
    /\ var = rounds[1] + rounds[2]
    /\ rounds[2] \in {rounds[1], rounds[1] + 1}

(* main gets past its joins, or one thread has ended and the other, which  *)
(* tested the time just before it was up, waits for a post that will never *)
(* come.                                                                   *)
JoinsOrLeftWaiting ==
    <>(joined \/ \E t \in TT : [](tpc[t] = "wait" /\ tpc[3 - t] = "end"))

(* The two threads of multiThread alternate and lose no addition, and a    *)
(* semaphore is never above 1.                                             *)
TurnsSafe == TTTypeOK /\ TurnsKept
=============================================================================
