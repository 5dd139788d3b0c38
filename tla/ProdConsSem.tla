---------------------------- MODULE ProdConsSem -----------------------------
(***************************************************************************)
(* Producers and consumers over a ring with three Posix semaphores:        *)
(* src/unixipc/pxsem/prodcons3.c (several producers, one consumer with its *)
(* own index) and prodcons4.c (several consumers; the producers let them   *)
(* terminate with extra posts of nstored).  Each semaphore call is a step; *)
(* what is done with the mutex held goes with the wait that obtained it.   *)
(***************************************************************************)
EXTENDS Integers, FiniteSets

CONSTANTS Producers4, Consumers4,
          NBUFF4, nitems4

ASSUME Sem4Assumption ==
    /\ IsFiniteSet(Producers4) /\ IsFiniteSet(Consumers4)
    /\ NBUFF4 \in Nat \ {0} /\ nitems4 \in Nat

VARIABLES variant4,     \* "prodcons3", "prodcons4"
          sem4,         \* [mutex, nempty, nstored]: the values
          buff4, nput4, nget4,
          ppc4,         \* producer -> "nempty", "mutex", "unlock", "stored", "end1", "end2", "end3", "done"
          cpc4,         \* consumer -> "nstored", "mutex", "unlock", "empty", "end1", "end2", "done"
          wrong4        \* printf("error: buff[%d] = %d\n") was called

pc4vars == <<variant4, sem4, buff4, nput4, nget4, ppc4, cpc4, wrong4>>

\* prodcons3.c has one consumer.
PC4Init ==
    /\ variant4 \in {"prodcons3", "prodcons4"}
    /\ sem4 = [mutex |-> 1, nempty |-> NBUFF4, nstored |-> 0]
    /\ buff4 = [k \in 0..NBUFF4 - 1 |-> 0] /\ nput4 = 0 /\ nget4 = 0
    /\ ppc4 = [p \in Producers4 |-> "nempty"]
    /\ \/ variant4 = "prodcons4" /\ cpc4 = [c \in Consumers4 |-> "nstored"]
       \/ variant4 = "prodcons3" /\ \E one \in Consumers4 :
              cpc4 = [c \in Consumers4 |-> IF c = one THEN "nstored" ELSE "done"]
    /\ wrong4 = FALSE

sem_wait4(s) == sem4[s] > 0 /\ sem4' = [sem4 EXCEPT ![s] = @ - 1]
sem_post4(s) == sem4' = [sem4 EXCEPT ![s] = @ + 1]

pgoto4(p, from, to) == ppc4[p] = from /\ ppc4' = [ppc4 EXCEPT ![p] = to] /\ UNCHANGED <<variant4, nget4, cpc4, wrong4>>
cgoto4(c, from, to) == cpc4[c] = from /\ cpc4' = [cpc4 EXCEPT ![c] = to] /\ UNCHANGED <<variant4, buff4, nput4, ppc4>>

mut_slot4(k) == k % (NBUFF4 - 1)
slot4(k) == k % NBUFF4

-----------------------------------------------------------------------------
(* produce *)

wait_nempty(p) == pgoto4(p, "nempty", "mutex") /\ sem_wait4("nempty") /\ UNCHANGED <<buff4, nput4>>

store_item(p) ==
    /\ sem_wait4("mutex")
    /\ IF nput4 >= nitems4 THEN pgoto4(p, "mutex", "end1") /\ UNCHANGED <<buff4, nput4>>
       ELSE /\ pgoto4(p, "mutex", "unlock")
            /\ buff4' = [buff4 EXCEPT ![slot4(nput4)] = nput4]     \* nputval equals nput throughout
            /\ nput4' = nput4 + 1

put_unlock(p) == pgoto4(p, "unlock", "stored") /\ sem_post4("mutex") /\ UNCHANGED <<buff4, nput4>>
post_nstored(p) == pgoto4(p, "stored", "nempty") /\ sem_post4("nstored") /\ UNCHANGED <<buff4, nput4>>

\* "let consumers terminate": in prodcons4.c only.
put_end1(p) ==
    /\ pgoto4(p, "end1", "end2") /\ UNCHANGED <<buff4, nput4>>
    /\ IF variant4 = "prodcons4" THEN sem_post4("nstored") ELSE UNCHANGED sem4
put_end2(p) == pgoto4(p, "end2", "end3") /\ sem_post4("nempty") /\ UNCHANGED <<buff4, nput4>>
put_end3(p) == pgoto4(p, "end3", "done") /\ sem_post4("mutex") /\ UNCHANGED <<buff4, nput4>>

produce4(p) == wait_nempty(p) \/ store_item(p) \/ put_unlock(p) \/ post_nstored(p)
               \/ put_end1(p) \/ put_end2(p) \/ put_end3(p)

-----------------------------------------------------------------------------
(* consume: nget is the loop variable in prodcons3.c *)

\* The loop of prodcons3.c ends here, that of prodcons4.c with the mutex held.
wait_nstored(c) ==
    /\ IF variant4 = "prodcons3" /\ nget4 = nitems4 THEN cgoto4(c, "nstored", "done") /\ UNCHANGED sem4
       ELSE cgoto4(c, "nstored", "mutex") /\ sem_wait4("nstored")
    /\ UNCHANGED <<nget4, wrong4>>

fetch_item(c) ==
    /\ sem_wait4("mutex")
    /\ IF nget4 >= nitems4 THEN cgoto4(c, "mutex", "end1") /\ UNCHANGED <<nget4, wrong4>>
       ELSE /\ cgoto4(c, "mutex", "unlock")
            /\ wrong4' = (wrong4 \/ buff4[slot4(nget4)] # nget4)
            /\ nget4' = nget4 + 1

get_unlock(c) == cgoto4(c, "unlock", "empty") /\ sem_post4("mutex") /\ UNCHANGED <<nget4, wrong4>>
post_nempty(c) == cgoto4(c, "empty", "nstored") /\ sem_post4("nempty") /\ UNCHANGED <<nget4, wrong4>>
mut_get_end1(c) == cgoto4(c, "end1", "end2") /\ UNCHANGED <<sem4, nget4, wrong4>>
get_end1(c) == cgoto4(c, "end1", "end2") /\ sem_post4("nstored") /\ UNCHANGED <<nget4, wrong4>>
get_end2(c) == cgoto4(c, "end2", "done") /\ sem_post4("mutex") /\ UNCHANGED <<nget4, wrong4>>

consume4(c) == wait_nstored(c) \/ fetch_item(c) \/ get_unlock(c) \/ post_nempty(c) \/ get_end1(c) \/ get_end2(c)

PC4Next == (\E p \in Producers4 : produce4(p)) \/ \E c \in Consumers4 : consume4(c)
PC4Spec == PC4Init /\ [][PC4Next]_pc4vars

-----------------------------------------------------------------------------
PC4TypeOK ==
    /\ sem4.mutex \in 0..1 /\ sem4.nempty \in 0..NBUFF4
    /\ sem4.nstored \in 0..NBUFF4 + Cardinality(Producers4)
    /\ buff4 \in [0..NBUFF4 - 1 -> 0..nitems4]
    /\ nput4 \in 0..nitems4 /\ nget4 \in 0..nitems4

\* No consumer finds a slot that holds anything but the next value: a slot is
\* not overwritten before it is read nor read before it is written, and the
\* extra posts at the end do not let a consumer past the items.
NoWrongItem == ~wrong4

\* Every producer and every consumer ends, with fewer producers than consumers
\* too: a consumer that ends passes the extra post on.
AllEnd4 == <>((\A p \in Producers4 : ppc4[p] = "done") /\ \A c \in Consumers4 : cpc4[c] = "done")

\* A semaphore wakes waiters in the order they came or by priority; a thread that
\* can pass infinitely often does.
PC4Fair == /\ \A p \in Producers4 : WF_pc4vars(produce4(p))
           /\ \A c \in Consumers4 : WF_pc4vars(consume4(c))
PC4FairSpec == PC4Spec /\ PC4Fair

\* The consumers of src/unixipc/pxsem never find a wrong item in a slot, also
\* while others are let go by extra posts.
SemSafe == PC4TypeOK /\ NoWrongItem
=============================================================================
