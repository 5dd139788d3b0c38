----------------------------- MODULE ProdCons1 -----------------------------
(***************************************************************************)
(* src/unixipc/my_pxsem_mmap/prodcons1.c: a producer and a consumer share  *)
(* a circular buffer guarded by three of the semaphores of MySem.  Each    *)
(* semaphore call, and each access to the buffer, is a step.               *)
(***************************************************************************)
EXTENDS MySem

CONSTANTS
    NBUFF,      \* slots of the buffer (10 in the code)
    nitems      \* items to pass through it

(* The values the semaphores are created with.                             *)
opened == [mutex |-> 1, nempty |-> NBUFF, nstored |-> 0]

ASSUME ProdConsAssumption ==
    /\ NBUFF \in Nat \ {0} /\ nitems \in Nat
    /\ Threads = {"produce", "consume"}
    /\ Sems = {"mutex", "nempty", "nstored"}
    /\ InitValue = opened
    /\ MaxCount > NBUFF     \* so that the bound never holds up a post

VARIABLES
    buff,       \* shared.buff
    i,          \* the loop counter of each thread
    pc          \* where each thread is in its loop

vars == <<semvars, buff, i, pc>>

ProdConsInit ==
    /\ Init
    /\ buff = [k \in 0..(NBUFF - 1) |-> 0]
    /\ i = [t \in Threads |-> 0]
    /\ pc = [t \in Threads |-> "slot"]

(* The semaphore a thread waits on first, and the one it posts last.       *)
supply(t) == IF t = "produce" THEN "nempty" ELSE "nstored"
demand(t) == IF t = "produce" THEN "nstored" ELSE "nempty"

goto(t, from, to) == pc[t] = from /\ pc' = [pc EXCEPT ![t] = to]

(* A Mysem_wait: the thread goes on once the call returns.                 *)
Mysem_wait(t, s, from, to) ==
    /\ mysem_wait(t, s)
    /\ goto(t, from, IF waits(t, s)' THEN from ELSE to)
    /\ UNCHANGED <<buff, i>>

Mysem_post(s) == mysem_post(s) /\ UNCHANGED buff

(* Mutant: the loop goes on without waiting for a slot or an item.         *)
mut_wait_slot(t) ==
    /\ i[t] < nitems
    /\ goto(t, "slot", "mutex")
    /\ UNCHANGED <<semvars, buff, i>>

wait_slot(t) == i[t] < nitems /\ Mysem_wait(t, supply(t), "slot", "mutex")

wait_mutex(t) == Mysem_wait(t, "mutex", "mutex", "body")

(* The producer stores its item; the consumer only compares.               *)
body(t) ==
    /\ goto(t, "body", "unlock")
    /\ buff' = IF t = "produce" THEN [buff EXCEPT ![i[t] % NBUFF] = i[t]] ELSE buff
    /\ UNCHANGED <<semvars, i>>

post_mutex(t) ==
    /\ goto(t, "unlock", "post")
    /\ Mysem_post("mutex")
    /\ UNCHANGED i

post_slot(t) ==
    /\ goto(t, "post", "slot")
    /\ Mysem_post(demand(t))
    /\ i' = [i EXCEPT ![t] = @ + 1]

loop(t) ==
    wait_slot(t) \/ wait_mutex(t) \/ body(t) \/ post_mutex(t) \/ post_slot(t)

finished == \A t \in Threads : pc[t] = "slot" /\ i[t] = nitems

main_exit == finished /\ UNCHANGED vars

wakeup(t) == \E s \in Sems : spurious_wakeup(t, s) /\ UNCHANGED <<buff, i, pc>>

ProdConsNext == main_exit \/ \E t \in Threads : loop(t) \/ wakeup(t)

ProdConsFair == \A t \in Threads : WF_vars(loop(t))

ProdConsSpec == ProdConsInit /\ [][ProdConsNext]_vars /\ ProdConsFair

-----------------------------------------------------------------------------
ProdConsTypeOK ==
    /\ TypeOK
    /\ buff \in [0..(NBUFF - 1) -> 0..nitems]
    /\ i \in [Threads -> 0..nitems]
    /\ pc \in [Threads -> {"slot", "mutex", "body", "unlock", "post"}]

(* The printf of line 74 never runs: whenever the consumer looks at a slot *)
(* the slot holds the item it is due, never a later one the producer       *)
(* has put there after a whole turn of the buffer.                         *)
InOrder == pc["consume"] = "body" => buff[i["consume"] % NBUFF] = i["consume"]

(* Every slot is counted once: it is free, or filled, or in the hands of a *)
(* thread between its first wait and its last post.                        *)
SlotsCounted ==
    sem_count["nempty"] + sem_count["nstored"]
        + Cardinality({t \in Threads : pc[t] # "slot"}) = NBUFF

(* The mutex semaphore, opened with 1, keeps one thread at a time in the   *)
(* buffer although a woken waiter may be overtaken by a fresh call.        *)
BufferExclusive ==
    sem_count["mutex"] + Cardinality({t \in Threads : pc[t] \in {"body", "unlock"}}) = 1

(* Both threads run all their loops: with one thread at most waiting on a  *)
(* semaphore, signalling only when the count leaves zero loses no wakeup.  *)
Termination == <>finished

\* prodcons1.c is right: the consumer finds the items in order, the producer
\* never laps it, the semaphores account for every slot and one thread at a time
\* is in the buffer.
ProdConsSafe == ProdConsTypeOK /\ InOrder /\ SlotsCounted /\ BufferExclusive
=============================================================================
