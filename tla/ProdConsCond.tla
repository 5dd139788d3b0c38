---------------------------- MODULE ProdConsCond ----------------------------
(***************************************************************************)
(* Several producers and one consumer over an array, with mutexes and a    *)
(* condition variable: src/unixipc/mutex/prodcons3.c (the consumer spins), *)
(* prodcons5.c (one mutex; each put signals) and prodcons6.c (a second     *)
(* mutex for the count of ready items; a signal only when it was 0).       *)
(* A critical section is one step; a wait may end spuriously.              *)
(***************************************************************************)
EXTENDS Integers, FiniteSets

CONSTANTS Producers6,
          nitems6

ASSUME Producers6Assumption == IsFiniteSet(Producers6) /\ nitems6 \in Nat

VARIABLES variant6,     \* "prodcons3", "prodcons5", "prodcons6"
          buff6,        \* index -> value; -1: not written
          nput6, nready6,
          ppc6,         \* producer -> "put", "ready", "done"
          cpc6,         \* consumer: "get", "cond_wait", "signalled", "check", "done"
          i6,           \* the consumer's loop variable
          wrong6        \* printf("buff[%d] = %d\n") was called

pc6vars == <<variant6, buff6, nput6, nready6, ppc6, cpc6, i6, wrong6>>

PC6Init ==
    /\ variant6 \in {"prodcons3", "prodcons5", "prodcons6"}
    /\ buff6 = [k \in 0..nitems6 - 1 |-> -1] /\ nput6 = 0 /\ nready6 = 0
    /\ ppc6 = [p \in Producers6 |-> "put"]
    /\ cpc6 = "get" /\ i6 = 0 /\ wrong6 = FALSE

\* pthread_cond_signal: the consumer goes on if it is waiting.
signalled6 == IF cpc6 = "cond_wait" THEN "signalled" ELSE cpc6

\* "array is full, we're done"
array_full6 == nput6 >= nitems6

\* The critical section that stores an item.  In prodcons5.c it also counts the
\* item and signals; in prodcons6.c that is the second section.
put6(p) ==
    /\ ppc6[p] = "put"
    /\ IF array_full6 THEN ppc6' = [ppc6 EXCEPT ![p] = "done"] /\ UNCHANGED <<buff6, nput6, nready6, cpc6>>
       ELSE /\ buff6' = [buff6 EXCEPT ![nput6] = nput6]      \* nval equals nput throughout
            /\ nput6' = nput6 + 1
            /\ ppc6' = [ppc6 EXCEPT ![p] = IF variant6 = "prodcons6" THEN "ready" ELSE "put"]
            /\ IF variant6 = "prodcons5" THEN nready6' = nready6 + 1 /\ cpc6' = signalled6
               ELSE UNCHANGED <<nready6, cpc6>>
    /\ UNCHANGED <<variant6, i6, wrong6>>

\* Is the consumer signalled by the producer that makes an item ready?
signals6 == nready6 = 0

make_ready6(p) ==
    /\ ppc6[p] = "ready"
    /\ nready6' = nready6 + 1
    /\ cpc6' = IF signals6 THEN signalled6 ELSE cpc6
    /\ ppc6' = [ppc6 EXCEPT ![p] = "put"]
    /\ UNCHANGED <<variant6, buff6, nput6, i6, wrong6>>

\* The condition of consume_wait (prodcons3.c) and of the while loop.
mut_item_ready6 == IF variant6 = "prodcons3" THEN i6 <= nput6 ELSE nready6 > 0
item_ready6 == IF variant6 = "prodcons3" THEN i6 < nput6 ELSE nready6 > 0

get6 ==
    /\ cpc6 \in {"get", "signalled"}
    /\ IF i6 >= nitems6 THEN cpc6' = "done" /\ UNCHANGED nready6
       ELSE IF item_ready6 THEN cpc6' = "check" /\ nready6' = IF variant6 = "prodcons3" THEN nready6 ELSE nready6 - 1
       ELSE cpc6' = (IF variant6 = "prodcons3" THEN "get" ELSE "cond_wait") /\ UNCHANGED nready6
    /\ UNCHANGED <<variant6, buff6, nput6, ppc6, i6, wrong6>>

spurious6 ==
    /\ cpc6 = "cond_wait" /\ cpc6' = "signalled"
    /\ UNCHANGED <<variant6, buff6, nput6, nready6, ppc6, i6, wrong6>>

check6 ==
    /\ cpc6 = "check"
    /\ wrong6' = (wrong6 \/ buff6[i6] # i6)
    /\ i6' = i6 + 1 /\ cpc6' = "get"
    /\ UNCHANGED <<variant6, buff6, nput6, nready6, ppc6>>

produce6(p) == put6(p) \/ make_ready6(p)
consume6 == get6 \/ check6
PC6Next == consume6 \/ spurious6 \/ \E p \in Producers6 : produce6(p)
PC6Spec == PC6Init /\ [][PC6Next]_pc6vars

-----------------------------------------------------------------------------
PC6TypeOK ==
    /\ nput6 \in 0..nitems6 /\ nready6 \in 0..nitems6 /\ i6 \in 0..nitems6
    /\ buff6 \in [0..nitems6 - 1 -> -1..nitems6 - 1]
    /\ ppc6 \in [Producers6 -> {"put", "ready", "done"}]
    /\ cpc6 \in {"get", "cond_wait", "signalled", "check", "done"}

\* The consumer, which reads the array without a mutex, never finds a value other
\* than the index, whichever producers overtake each other between the section
\* that stores an item and the one that counts it.
ItemsInOrder6 == ~wrong6

\* All threads end: the signal sent only when the count was 0 is enough for the
\* one consumer, and prodcons3.c spins no longer than the producers run.
AllEnd6 == <>(cpc6 = "done" /\ \A p \in Producers6 : ppc6[p] = "done")

PC6Fair == WF_pc6vars(consume6) /\ \A p \in Producers6 : WF_pc6vars(produce6(p))
PC6FairSpec == PC6Spec /\ PC6Fair

\* The consumer of src/unixipc/mutex finds every item in its place, although an
\* item is stored under one mutex and announced under another.
CondSafe == PC6TypeOK /\ ItemsInOrder6
=============================================================================
