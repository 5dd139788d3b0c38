------------------------- MODULE SharedMemoryProofs -------------------------
(***************************************************************************)
(* Posix semaphores, shared memory and message queues of src/unixipc:      *)
(* producers and consumers over a ring of slots, the ring of messages in   *)
(* shared memory, and notification by signal.                              *)
(*                                                                         *)
(* Each section has a component's inductive invariant, the lemmas that it  *)
(* holds at first and that every step keeps it, and the theorem that       *)
(* follows.                                                                *)
(***************************************************************************)
EXTENDS ProdConsSem, ShmRing, MqNotify, CountingLemmas

(* The default of every leaf that names no prover: Z3 with twenty seconds, *)
(* then Zenon with thirty.                                                 *)
USE SMTT(20), ZenonT(30)

-----------------------------------------------------------------------------
(* ProdConsSem. Units of the semaphores are counted against the threads at *)
(* each step, the extra posts at the end included, so that the slots       *)
(* between the two indices hold the next items.                            *)

PSteps4 == {"nempty", "mutex", "unlock", "stored", "end1", "end2", "end3", "done"}
CSteps4 == {"nstored", "mutex", "unlock", "empty", "end1", "end2", "done"}

NP(A) == Cardinality(Those(Producers4, ppc4, A))
NC(A) == Cardinality(Those(Consumers4, cpc4, A))

Claimed == NP({"mutex", "end1", "end2"})
Storing == NP({"unlock", "stored"})
Ended == NP({"end2", "end3", "done"})
PLocked == NP({"unlock", "end1", "end2", "end3"})
Reading == NC({"unlock", "empty"})
Due == NC({"mutex", "end1"})
CLocked == NC({"unlock", "end1", "end2"})
Extra == IF variant4 = "prodcons4" THEN Ended ELSE 0

Types4 ==
    /\ variant4 \in {"prodcons3", "prodcons4"}
    /\ sem4 \in [{"mutex", "nempty", "nstored"} -> Nat]
    /\ ppc4 \in [Producers4 -> PSteps4] /\ cpc4 \in [Consumers4 -> CSteps4]
    /\ nput4 \in 0..nitems4 /\ nget4 \in 0..nitems4
    /\ buff4 \in [0..NBUFF4 - 1 -> 0..nitems4]
    /\ \A p \in Producers4 : ppc4[p] \in {"end1", "end2", "end3", "done"} => nput4 = nitems4

Counted4 ==
    /\ sem4["mutex"] + PLocked + CLocked = 1
    /\ sem4["nempty"] + Claimed + Reading + nput4 = NBUFF4 + nget4
    /\ sem4["nstored"] + Due + Storing + nget4 = nput4 + Extra
    /\ nget4 <= nput4

Stored4 == \A k \in nget4..nput4 - 1 : buff4[slot4(k)] = k

SemInv == Types4 /\ Counted4 /\ Stored4 /\ NoWrongItem

(* The numbers of threads at the places of the two loops.                  *)
LEMMA Counts4 ==
    /\ Claimed \in Nat /\ Storing \in Nat /\ Ended \in Nat /\ PLocked \in Nat
    /\ Reading \in Nat /\ Due \in Nat /\ CLocked \in Nat
    /\ Ended <= Cardinality(Producers4) /\ Cardinality(Producers4) \in Nat
    /\ Ended = 0 <=> \A p \in Producers4 : ppc4[p] \notin {"end2", "end3", "done"}
    /\ Claimed = 0 <=> \A p \in Producers4 : ppc4[p] \notin {"mutex", "end1", "end2"}
    /\ Due = 0 <=> \A c \in Consumers4 : cpc4[c] \notin {"mutex", "end1"}
<1>1. IsFiniteSet(Producers4) /\ IsFiniteSet(Consumers4)
  BY Sem4Assumption, Zenon
<1>2. Cardinality(Producers4) \in Nat
  BY <1>1, FS_CardinalityType, Zenon
<1>3. \A A : /\ NP(A) \in Nat /\ NP(A) <= Cardinality(Producers4)
             /\ NP(A) = 0 <=> \A p \in Producers4 : ppc4[p] \notin A
  BY <1>1, Number, Zenon DEF NP
<1>4. \A A : /\ NC(A) \in Nat
             /\ NC(A) = 0 <=> \A c \in Consumers4 : cpc4[c] \notin A
  BY <1>1, Number, Zenon DEF NC
<1> QED
  BY <1>2, <1>3, <1>4, Zenon DEF Claimed, Storing, Ended, PLocked, Reading, Due, CLocked

(* What the invariant says of the semaphores and the buffer.               *)
LEMMA SemBounds == SemInv => SemSafe
<1> SUFFICES ASSUME SemInv PROVE SemSafe
  BY Zenon
<1>1. Types4 /\ Counted4 /\ NoWrongItem /\ NBUFF4 \in Nat
  BY Sem4Assumption, Zenon DEF SemInv
<1>2. Extra \in Nat /\ Extra <= Cardinality(Producers4) /\ Cardinality(Producers4) \in Nat
  BY Counts4 DEF Extra
<1>3. /\ sem4["mutex"] \in Nat /\ sem4["nempty"] \in Nat /\ sem4["nstored"] \in Nat
      /\ nput4 \in Nat /\ nget4 \in Nat /\ nget4 <= nput4
  BY <1>1, Sem4Assumption DEF Types4, Counted4
<1>4. /\ Claimed \in Nat /\ Storing \in Nat /\ PLocked \in Nat
      /\ Reading \in Nat /\ Due \in Nat /\ CLocked \in Nat
  BY Counts4, Zenon
<1>5. sem4["mutex"] \in 0..1
  BY <1>1, <1>3, <1>4 DEF Counted4
<1>6. sem4["nempty"] \in 0..NBUFF4
  BY <1>1, <1>3, <1>4 DEF Counted4
<1>7. nput4 <= nget4 + NBUFF4
  BY <1>1, <1>3, <1>4 DEF Counted4
<1>8. sem4["nstored"] \in 0..NBUFF4 + Cardinality(Producers4)
  BY <1>1, <1>2, <1>3, <1>4, <1>7 DEF Counted4
<1> QED
  BY <1>1, <1>5, <1>6, <1>8, Zenon DEF Types4, SemSafe, PC4TypeOK

(* It holds at the start.                                                  *)
LEMMA SemInitially == PC4Init => SemInv
<1> SUFFICES ASSUME PC4Init PROVE SemInv
  BY Zenon
<1>0. NBUFF4 \in Nat \ {0} /\ nitems4 \in Nat
  BY Sem4Assumption, Zenon
<1>1. /\ sem4 \in [{"mutex", "nempty", "nstored"} -> Nat]
      /\ sem4["mutex"] = 1 /\ sem4["nempty"] = NBUFF4 /\ sem4["nstored"] = 0
      /\ nput4 = 0 /\ nget4 = 0 /\ buff4 = [k \in 0..NBUFF4 - 1 |-> 0]
      /\ \A p \in Producers4 : ppc4[p] = "nempty"
      /\ \A c \in Consumers4 : cpc4[c] \in {"nstored", "done"}
      /\ ppc4 \in [Producers4 -> PSteps4] /\ cpc4 \in [Consumers4 -> CSteps4]
      /\ variant4 \in {"prodcons3", "prodcons4"}
  BY <1>0 DEF PC4Init, PSteps4, CSteps4
<1>2. IsFiniteSet(Producers4) /\ IsFiniteSet(Consumers4)
  BY Sem4Assumption, Zenon
<1>3. Claimed = 0 /\ Storing = 0 /\ Ended = 0 /\ PLocked = 0
  BY <1>1, <1>2, Number DEF NP, Claimed, Storing, Ended, PLocked
<1>4. Reading = 0 /\ Due = 0 /\ CLocked = 0
  BY <1>1, <1>2, Number DEF NC, Reading, Due, CLocked
<1>5. Types4
  BY <1>0, <1>1 DEF Types4
<1>6. Counted4 /\ Stored4
  BY <1>0, <1>1, <1>3, <1>4 DEF Counted4, Stored4, Extra
<1>7. NoWrongItem
  BY Zenon DEF PC4Init, NoWrongItem
<1> QED
  BY <1>5, <1>6, <1>7, Zenon DEF SemInv

(* How a step of producer p changes the numbers.                           *)
LEMMA ProducerMoves ==
    ASSUME NEW p \in Producers4, \A q \in Producers4 : q # p => ppc4'[q] = ppc4[q],
           cpc4' = cpc4
    PROVE  /\ Claimed' = Claimed + (IF ppc4'[p] \in {"mutex", "end1", "end2"} THEN 1 ELSE 0)
                                 - (IF ppc4[p] \in {"mutex", "end1", "end2"} THEN 1 ELSE 0)
           /\ Storing' = Storing + (IF ppc4'[p] \in {"unlock", "stored"} THEN 1 ELSE 0)
                                 - (IF ppc4[p] \in {"unlock", "stored"} THEN 1 ELSE 0)
           /\ Ended' = Ended + (IF ppc4'[p] \in {"end2", "end3", "done"} THEN 1 ELSE 0)
                             - (IF ppc4[p] \in {"end2", "end3", "done"} THEN 1 ELSE 0)
           /\ PLocked' = PLocked + (IF ppc4'[p] \in {"unlock", "end1", "end2", "end3"} THEN 1 ELSE 0)
                                 - (IF ppc4[p] \in {"unlock", "end1", "end2", "end3"} THEN 1 ELSE 0)
           /\ Reading' = Reading /\ Due' = Due /\ CLocked' = CLocked
<1>0. IsFiniteSet(Producers4)
  BY Sem4Assumption, Zenon
<1>1. ASSUME NEW A
      PROVE  Cardinality(Those(Producers4, ppc4', A)) = Cardinality(Those(Producers4, ppc4, A))
                + (IF ppc4'[p] \in A THEN 1 ELSE 0) - (IF ppc4[p] \in A THEN 1 ELSE 0)
  BY <1>0, OneMoves, SMTT(20)
<1>2. /\ Claimed' = Cardinality(Those(Producers4, ppc4', {"mutex", "end1", "end2"}))
      /\ Storing' = Cardinality(Those(Producers4, ppc4', {"unlock", "stored"}))
      /\ Ended' = Cardinality(Those(Producers4, ppc4', {"end2", "end3", "done"}))
      /\ PLocked' = Cardinality(Those(Producers4, ppc4', {"unlock", "end1", "end2", "end3"}))
  BY Zenon DEF Claimed, Storing, Ended, PLocked, NP
<1>3. Reading' = Reading /\ Due' = Due /\ CLocked' = CLocked
  BY Zenon DEF Reading, Due, CLocked, NC, Those
<1> QED
  BY <1>1, <1>2, <1>3, Zenon DEF Claimed, Storing, Ended, PLocked, NP

(* How a step of consumer c changes them.                                  *)
LEMMA ConsumerMoves ==
    ASSUME NEW c \in Consumers4, \A q \in Consumers4 : q # c => cpc4'[q] = cpc4[q],
           ppc4' = ppc4
    PROVE  /\ Reading' = Reading + (IF cpc4'[c] \in {"unlock", "empty"} THEN 1 ELSE 0)
                                 - (IF cpc4[c] \in {"unlock", "empty"} THEN 1 ELSE 0)
           /\ Due' = Due + (IF cpc4'[c] \in {"mutex", "end1"} THEN 1 ELSE 0)
                         - (IF cpc4[c] \in {"mutex", "end1"} THEN 1 ELSE 0)
           /\ CLocked' = CLocked + (IF cpc4'[c] \in {"unlock", "end1", "end2"} THEN 1 ELSE 0)
                                 - (IF cpc4[c] \in {"unlock", "end1", "end2"} THEN 1 ELSE 0)
           /\ Claimed' = Claimed /\ Storing' = Storing /\ Ended' = Ended /\ PLocked' = PLocked
<1>0. IsFiniteSet(Consumers4)
  BY Sem4Assumption, Zenon
<1>1. ASSUME NEW A
      PROVE  Cardinality(Those(Consumers4, cpc4', A)) = Cardinality(Those(Consumers4, cpc4, A))
                + (IF cpc4'[c] \in A THEN 1 ELSE 0) - (IF cpc4[c] \in A THEN 1 ELSE 0)
  BY <1>0, OneMoves, SMTT(20)
<1>2. /\ Reading' = Cardinality(Those(Consumers4, cpc4', {"unlock", "empty"}))
      /\ Due' = Cardinality(Those(Consumers4, cpc4', {"mutex", "end1"}))
      /\ CLocked' = Cardinality(Those(Consumers4, cpc4', {"unlock", "end1", "end2"}))
  BY Zenon DEF Reading, Due, CLocked, NC
<1>3. Claimed' = Claimed /\ Storing' = Storing /\ Ended' = Ended /\ PLocked' = PLocked
  BY Zenon DEF Claimed, Storing, Ended, PLocked, NP, Those
<1> QED
  BY <1>1, <1>2, <1>3, Zenon DEF Reading, Due, CLocked, NC

(* One more fetched, one more counted.                                     *)
LEMMA OneMoreFetched ==
    \A a, b, c, d, e, f \in Nat : a + b + c + d = e + f => a + b + (c + 1) + d = e + (f + 1)
OBVIOUS

(* Every step keeps the invariant.                                         *)
LEMMA SemInductive == SemInv /\ [PC4Next]_pc4vars => SemInv'
<1> SUFFICES ASSUME SemInv, [PC4Next]_pc4vars PROVE SemInv'
  BY Zenon
<1> DEFINE Names == {"mutex", "nempty", "nstored"}
<1>0. /\ Types4 /\ Counted4 /\ Stored4 /\ NoWrongItem
      /\ NBUFF4 \in Nat \ {0} /\ nitems4 \in Nat
      /\ nput4 \in Nat /\ nget4 \in Nat /\ nget4 <= nput4
      /\ sem4["mutex"] \in Nat /\ sem4["nempty"] \in Nat /\ sem4["nstored"] \in Nat
  BY Sem4Assumption DEF SemInv, Types4, Counted4
<1>00. /\ Claimed \in Nat /\ Storing \in Nat /\ Ended \in Nat /\ PLocked \in Nat
       /\ Reading \in Nat /\ Due \in Nat /\ CLocked \in Nat
  BY Counts4, Zenon
(* A step in which nothing is stored or fetched.                           *)
<1>1. ASSUME Counted4', sem4' \in [Names -> Nat], ppc4' \in [Producers4 -> PSteps4], cpc4' \in [Consumers4 -> CSteps4],
             UNCHANGED <<variant4, buff4, nput4, nget4, wrong4>>,
             \A p \in Producers4 : ppc4'[p] \in {"end1", "end2", "end3", "done"} => nput4 = nitems4
      PROVE  SemInv'
  <2>1. NoWrongItem'
    BY <1>0, <1>1, Zenon DEF NoWrongItem
  <2>2. Types4' /\ Stored4'
    BY <1>0, <1>1, Zenon DEF Types4, Stored4, slot4
  <2> QED
    BY <1>1, <2>1, <2>2, Zenon DEF SemInv
<1>2. ASSUME NEW p \in Producers4, wait_nempty(p) PROVE SemInv'
  <2>1. /\ ppc4[p] = "nempty" /\ ppc4'[p] = "mutex" /\ \A q \in Producers4 : q # p => ppc4'[q] = ppc4[q]
        /\ ppc4' \in [Producers4 -> PSteps4] /\ UNCHANGED <<variant4, buff4, nput4, nget4, wrong4, cpc4>>
        /\ sem4' \in [Names -> Nat]
        /\ sem4'["mutex"] = sem4["mutex"] /\ sem4'["nempty"] = sem4["nempty"] - 1 /\ sem4'["nstored"] = sem4["nstored"]
    BY <1>0, <1>2 DEF wait_nempty, pgoto4, sem_wait4, Types4, PSteps4
  <2>2. /\ Claimed' = Claimed + 1 /\ Storing' = Storing /\ Ended' = Ended
        /\ PLocked' = PLocked /\ Reading' = Reading /\ Due' = Due /\ CLocked' = CLocked
    BY <1>00, <2>1, ProducerMoves
  <2>3. Counted4'
    BY <1>0, <1>00, <2>1, <2>2 DEF Counted4, Extra
  <2> QED
    BY <1>0, <1>1, <2>1, <2>3, Zenon DEF Types4
<1>3. ASSUME NEW p \in Producers4, put_unlock(p) PROVE SemInv'
  <2>1. /\ ppc4[p] = "unlock" /\ ppc4'[p] = "stored" /\ \A q \in Producers4 : q # p => ppc4'[q] = ppc4[q]
        /\ ppc4' \in [Producers4 -> PSteps4] /\ UNCHANGED <<variant4, buff4, nput4, nget4, wrong4, cpc4>>
        /\ sem4' \in [Names -> Nat]
        /\ sem4'["mutex"] = sem4["mutex"] + 1 /\ sem4'["nempty"] = sem4["nempty"] /\ sem4'["nstored"] = sem4["nstored"]
    BY <1>0, <1>3 DEF put_unlock, pgoto4, sem_post4, Types4, PSteps4
  <2>2. /\ Claimed' = Claimed /\ Storing' = Storing /\ Ended' = Ended
        /\ PLocked' = PLocked - 1 /\ Reading' = Reading /\ Due' = Due /\ CLocked' = CLocked
    BY <1>00, <2>1, ProducerMoves
  <2>3. Counted4'
    BY <1>0, <1>00, <2>1, <2>2 DEF Counted4, Extra
  <2> QED
    BY <1>0, <1>1, <2>1, <2>3, Zenon DEF Types4
<1>4. ASSUME NEW p \in Producers4, post_nstored(p) PROVE SemInv'
  <2>1. /\ ppc4[p] = "stored" /\ ppc4'[p] = "nempty" /\ \A q \in Producers4 : q # p => ppc4'[q] = ppc4[q]
        /\ ppc4' \in [Producers4 -> PSteps4] /\ UNCHANGED <<variant4, buff4, nput4, nget4, wrong4, cpc4>>
        /\ sem4' \in [Names -> Nat]
        /\ sem4'["mutex"] = sem4["mutex"] /\ sem4'["nempty"] = sem4["nempty"] /\ sem4'["nstored"] = sem4["nstored"] + 1
    BY <1>0, <1>4 DEF post_nstored, pgoto4, sem_post4, Types4, PSteps4
  <2>2. /\ Claimed' = Claimed /\ Storing' = Storing - 1 /\ Ended' = Ended
        /\ PLocked' = PLocked /\ Reading' = Reading /\ Due' = Due /\ CLocked' = CLocked
    BY <1>00, <2>1, ProducerMoves
  <2>3. Counted4'
    BY <1>0, <1>00, <2>1, <2>2 DEF Counted4, Extra
  <2> QED
    BY <1>0, <1>1, <2>1, <2>3, Zenon DEF Types4
<1>5. ASSUME NEW p \in Producers4, put_end1(p) PROVE SemInv'
  <2>1. /\ ppc4[p] = "end1" /\ ppc4'[p] = "end2" /\ \A q \in Producers4 : q # p => ppc4'[q] = ppc4[q]
        /\ ppc4' \in [Producers4 -> PSteps4] /\ UNCHANGED <<variant4, buff4, nput4, nget4, wrong4, cpc4>>
        /\ sem4' \in [Names -> Nat]
        /\ sem4'["mutex"] = sem4["mutex"] /\ sem4'["nempty"] = sem4["nempty"] /\ sem4'["nstored"] = sem4["nstored"] + (IF variant4 = "prodcons4" THEN 1 ELSE 0)
    BY <1>0, <1>5 DEF put_end1, pgoto4, sem_post4, Types4, PSteps4
  <2>2. /\ Claimed' = Claimed /\ Storing' = Storing /\ Ended' = Ended + 1
        /\ PLocked' = PLocked /\ Reading' = Reading /\ Due' = Due /\ CLocked' = CLocked
    BY <1>00, <2>1, ProducerMoves
  <2>3. Counted4'
    <3>1. CASE variant4 = "prodcons4"
      BY <1>0, <1>00, <2>1, <2>2, <3>1 DEF Counted4, Extra
    <3>2. CASE variant4 # "prodcons4"
      BY <1>0, <1>00, <2>1, <2>2, <3>2 DEF Counted4, Extra
    <3> QED
      BY <3>1, <3>2, Zenon
  <2> QED
    BY <1>0, <1>1, <2>1, <2>3, Zenon DEF Types4
<1>6. ASSUME NEW p \in Producers4, put_end2(p) PROVE SemInv'
  <2>1. /\ ppc4[p] = "end2" /\ ppc4'[p] = "end3" /\ \A q \in Producers4 : q # p => ppc4'[q] = ppc4[q]
        /\ ppc4' \in [Producers4 -> PSteps4] /\ UNCHANGED <<variant4, buff4, nput4, nget4, wrong4, cpc4>>
        /\ sem4' \in [Names -> Nat]
        /\ sem4'["mutex"] = sem4["mutex"] /\ sem4'["nempty"] = sem4["nempty"] + 1 /\ sem4'["nstored"] = sem4["nstored"]
    BY <1>0, <1>6 DEF put_end2, pgoto4, sem_post4, Types4, PSteps4
  <2>2. /\ Claimed' = Claimed - 1 /\ Storing' = Storing /\ Ended' = Ended
        /\ PLocked' = PLocked /\ Reading' = Reading /\ Due' = Due /\ CLocked' = CLocked
    BY <1>00, <2>1, ProducerMoves
  <2>3. Counted4'
    BY <1>0, <1>00, <2>1, <2>2 DEF Counted4, Extra
  <2> QED
    BY <1>0, <1>1, <2>1, <2>3, Zenon DEF Types4
<1>7. ASSUME NEW p \in Producers4, put_end3(p) PROVE SemInv'
  <2>1. /\ ppc4[p] = "end3" /\ ppc4'[p] = "done" /\ \A q \in Producers4 : q # p => ppc4'[q] = ppc4[q]
        /\ ppc4' \in [Producers4 -> PSteps4] /\ UNCHANGED <<variant4, buff4, nput4, nget4, wrong4, cpc4>>
        /\ sem4' \in [Names -> Nat]
        /\ sem4'["mutex"] = sem4["mutex"] + 1 /\ sem4'["nempty"] = sem4["nempty"] /\ sem4'["nstored"] = sem4["nstored"]
    BY <1>0, <1>7 DEF put_end3, pgoto4, sem_post4, Types4, PSteps4
  <2>2. /\ Claimed' = Claimed /\ Storing' = Storing /\ Ended' = Ended
        /\ PLocked' = PLocked - 1 /\ Reading' = Reading /\ Due' = Due /\ CLocked' = CLocked
    BY <1>00, <2>1, ProducerMoves
  <2>3. Counted4'
    BY <1>0, <1>00, <2>1, <2>2 DEF Counted4, Extra
  <2> QED
    BY <1>0, <1>1, <2>1, <2>3, Zenon DEF Types4
<1>8. ASSUME NEW c \in Consumers4, get_unlock(c) PROVE SemInv'
  <2>1. /\ cpc4[c] = "unlock" /\ cpc4'[c] = "empty" /\ \A q \in Consumers4 : q # c => cpc4'[q] = cpc4[q]
        /\ cpc4' \in [Consumers4 -> CSteps4] /\ UNCHANGED <<variant4, buff4, nput4, nget4, wrong4, ppc4>>
        /\ sem4' \in [Names -> Nat]
        /\ sem4'["mutex"] = sem4["mutex"] + 1 /\ sem4'["nempty"] = sem4["nempty"] /\ sem4'["nstored"] = sem4["nstored"]
    BY <1>0, <1>8 DEF get_unlock, cgoto4, sem_post4, Types4, CSteps4
  <2>2. /\ Reading' = Reading /\ Due' = Due /\ CLocked' = CLocked - 1
        /\ Claimed' = Claimed /\ Storing' = Storing /\ Ended' = Ended /\ PLocked' = PLocked
    BY <1>00, <2>1, ConsumerMoves
  <2>3. Counted4'
    BY <1>0, <1>00, <2>1, <2>2 DEF Counted4, Extra
  <2> QED
    BY <1>0, <1>1, <2>1, <2>3, Zenon DEF Types4
<1>9. ASSUME NEW c \in Consumers4, post_nempty(c) PROVE SemInv'
  <2>1. /\ cpc4[c] = "empty" /\ cpc4'[c] = "nstored" /\ \A q \in Consumers4 : q # c => cpc4'[q] = cpc4[q]
        /\ cpc4' \in [Consumers4 -> CSteps4] /\ UNCHANGED <<variant4, buff4, nput4, nget4, wrong4, ppc4>>
        /\ sem4' \in [Names -> Nat]
        /\ sem4'["mutex"] = sem4["mutex"] /\ sem4'["nempty"] = sem4["nempty"] + 1 /\ sem4'["nstored"] = sem4["nstored"]
    BY <1>0, <1>9 DEF post_nempty, cgoto4, sem_post4, Types4, CSteps4
  <2>2. /\ Reading' = Reading - 1 /\ Due' = Due /\ CLocked' = CLocked
        /\ Claimed' = Claimed /\ Storing' = Storing /\ Ended' = Ended /\ PLocked' = PLocked
    BY <1>00, <2>1, ConsumerMoves
  <2>3. Counted4'
    BY <1>0, <1>00, <2>1, <2>2 DEF Counted4, Extra
  <2> QED
    BY <1>0, <1>1, <2>1, <2>3, Zenon DEF Types4
<1>10. ASSUME NEW c \in Consumers4, get_end1(c) PROVE SemInv'
  <2>1. /\ cpc4[c] = "end1" /\ cpc4'[c] = "end2" /\ \A q \in Consumers4 : q # c => cpc4'[q] = cpc4[q]
        /\ cpc4' \in [Consumers4 -> CSteps4] /\ UNCHANGED <<variant4, buff4, nput4, nget4, wrong4, ppc4>>
        /\ sem4' \in [Names -> Nat]
        /\ sem4'["mutex"] = sem4["mutex"] /\ sem4'["nempty"] = sem4["nempty"] /\ sem4'["nstored"] = sem4["nstored"] + 1
    BY <1>0, <1>10 DEF get_end1, cgoto4, sem_post4, Types4, CSteps4
  <2>2. /\ Reading' = Reading /\ Due' = Due - 1 /\ CLocked' = CLocked
        /\ Claimed' = Claimed /\ Storing' = Storing /\ Ended' = Ended /\ PLocked' = PLocked
    BY <1>00, <2>1, ConsumerMoves
  <2>3. Counted4'
    BY <1>0, <1>00, <2>1, <2>2 DEF Counted4, Extra
  <2> QED
    BY <1>0, <1>1, <2>1, <2>3, Zenon DEF Types4
<1>11. ASSUME NEW c \in Consumers4, get_end2(c) PROVE SemInv'
  <2>1. /\ cpc4[c] = "end2" /\ cpc4'[c] = "done" /\ \A q \in Consumers4 : q # c => cpc4'[q] = cpc4[q]
        /\ cpc4' \in [Consumers4 -> CSteps4] /\ UNCHANGED <<variant4, buff4, nput4, nget4, wrong4, ppc4>>
        /\ sem4' \in [Names -> Nat]
        /\ sem4'["mutex"] = sem4["mutex"] + 1 /\ sem4'["nempty"] = sem4["nempty"] /\ sem4'["nstored"] = sem4["nstored"]
    BY <1>0, <1>11 DEF get_end2, cgoto4, sem_post4, Types4, CSteps4
  <2>2. /\ Reading' = Reading /\ Due' = Due /\ CLocked' = CLocked - 1
        /\ Claimed' = Claimed /\ Storing' = Storing /\ Ended' = Ended /\ PLocked' = PLocked
    BY <1>00, <2>1, ConsumerMoves
  <2>3. Counted4'
    BY <1>0, <1>00, <2>1, <2>2 DEF Counted4, Extra
  <2> QED
    BY <1>0, <1>1, <2>1, <2>3, Zenon DEF Types4
<1>12. ASSUME NEW p \in Producers4, store_item(p) PROVE SemInv'
  <2>1. CASE nput4 >= nitems4
    <3>1. /\ ppc4[p] = "mutex" /\ ppc4'[p] = "end1" /\ \A q \in Producers4 : q # p => ppc4'[q] = ppc4[q]
          /\ ppc4' \in [Producers4 -> PSteps4] /\ UNCHANGED <<variant4, buff4, nput4, nget4, wrong4, cpc4>>
          /\ sem4' \in [Names -> Nat] /\ nput4 = nitems4
          /\ sem4'["mutex"] = sem4["mutex"] - 1 /\ sem4'["nempty"] = sem4["nempty"] /\ sem4'["nstored"] = sem4["nstored"]
      <4>1. pgoto4(p, "mutex", "end1") /\ sem_wait4("mutex") /\ UNCHANGED <<buff4, nput4>>
        BY <1>0, <1>12, <2>1, Zenon DEF store_item
      <4>2. /\ ppc4[p] = "mutex" /\ ppc4'[p] = "end1" /\ \A q \in Producers4 : q # p => ppc4'[q] = ppc4[q]
            /\ ppc4' \in [Producers4 -> PSteps4] /\ UNCHANGED <<variant4, buff4, nput4, nget4, wrong4, cpc4>>
        BY <1>0, <4>1, Zenon DEF pgoto4, Types4, PSteps4
      <4>3. sem4' \in [Names -> Nat] /\ sem4'["mutex"] = sem4["mutex"] - 1 /\ sem4'["nempty"] = sem4["nempty"] /\ sem4'["nstored"] = sem4["nstored"]
        BY <1>0, <4>1 DEF sem_wait4, Types4
      <4> QED
        BY <1>0, <2>1, <4>2, <4>3 DEF Types4
    <3>2. /\ Claimed' = Claimed /\ Storing' = Storing /\ Ended' = Ended
          /\ PLocked' = PLocked + 1 /\ Reading' = Reading /\ Due' = Due /\ CLocked' = CLocked
      BY <1>00, <3>1, ProducerMoves
    <3>3. Counted4'
      BY <1>0, <1>00, <3>1, <3>2 DEF Counted4, Extra
    <3> QED
      BY <1>0, <1>1, <3>1, <3>3, Zenon DEF Types4
  <2>2. CASE ~(nput4 >= nitems4)
    <3>1. /\ ppc4[p] = "mutex" /\ ppc4'[p] = "unlock" /\ \A q \in Producers4 : q # p => ppc4'[q] = ppc4[q]
          /\ ppc4' \in [Producers4 -> PSteps4] /\ UNCHANGED <<variant4, nget4, cpc4>>
          /\ sem4' \in [Names -> Nat] /\ nput4' = nput4 + 1 /\ nput4 < nitems4
          /\ sem4'["mutex"] = sem4["mutex"] - 1 /\ sem4'["nempty"] = sem4["nempty"] /\ sem4'["nstored"] = sem4["nstored"]
          /\ buff4' = [buff4 EXCEPT ![slot4(nput4)] = nput4]
      <4>1. /\ pgoto4(p, "mutex", "unlock") /\ sem_wait4("mutex")
            /\ buff4' = [buff4 EXCEPT ![slot4(nput4)] = nput4] /\ nput4' = nput4 + 1
        BY <1>12, <2>2, Zenon DEF store_item
      <4>2. /\ ppc4[p] = "mutex" /\ ppc4'[p] = "unlock" /\ \A q \in Producers4 : q # p => ppc4'[q] = ppc4[q]
            /\ ppc4' \in [Producers4 -> PSteps4] /\ UNCHANGED <<variant4, nget4, cpc4>>
        BY <1>0, <4>1, Zenon DEF pgoto4, Types4, PSteps4
      <4>3. /\ sem4' \in [Names -> Nat]
            /\ sem4'["mutex"] = sem4["mutex"] - 1 /\ sem4'["nempty"] = sem4["nempty"] /\ sem4'["nstored"] = sem4["nstored"]
        BY <1>0, <4>1 DEF sem_wait4, Types4
      <4> QED
        BY <1>0, <2>2, <4>1, <4>2, <4>3
    <3>2. /\ Claimed' = Claimed - 1 /\ Storing' = Storing + 1 /\ Ended' = Ended
          /\ PLocked' = PLocked + 1 /\ Reading' = Reading /\ Due' = Due /\ CLocked' = CLocked
      BY <1>00, <3>1, ProducerMoves
    <3>3. Counted4'
      <4>0. sem4'["mutex"] + PLocked' + CLocked' = 1
        BY <1>0, <1>00, <3>1, <3>2 DEF Counted4
      <4>1. sem4'["nempty"] + Claimed' + Reading' + nput4' = NBUFF4 + nget4'
        BY <1>0, <1>00, <3>1, <3>2 DEF Counted4
      <4>2. Extra' = Extra /\ Extra \in Nat
        BY <1>00, <3>1, <3>2, Zenon DEF Extra
      <4>3. sem4'["nstored"] + Due' + Storing' + nget4' = nput4' + Extra'
        BY <1>0, <1>00, <3>1, <3>2, <4>2 DEF Counted4
      <4>4. nget4 <= nput4 + 1
        BY <1>0
      <4> QED
        BY <3>1, <4>0, <4>1, <4>3, <4>4, Zenon DEF Counted4
    <3>4. Claimed # 0
      BY <3>1, Counts4, Zenon
    <3>5. nput4 < nget4 + NBUFF4
      BY <1>0, <1>00, <3>4 DEF Counted4
    <3>6. slot4(nput4) \in 0..NBUFF4 - 1
      BY <1>0, ModRange DEF slot4
    <3>7. Stored4'
      <4>1. ASSUME NEW k \in nget4..nput4 PROVE buff4'[slot4(k)] = k
        <5>1. CASE k = nput4
          BY <1>0, <3>1, <3>6, <5>1, Zenon DEF Types4
        <5>2. CASE k # nput4
          <6>1. k \in Nat /\ k < nput4 /\ nput4 < k + NBUFF4 /\ k \in nget4..nput4 - 1
            BY <1>0, <3>5, <5>2
          <6>2. slot4(nput4) # slot4(k)
            BY <1>0, <6>1, Apart, Zenon DEF slot4
          <6>3. slot4(k) \in 0..NBUFF4 - 1
            BY <1>0, <6>1, ModRange DEF slot4
          <6> QED
            BY <1>0, <3>1, <3>6, <6>1, <6>2, <6>3, Zenon DEF Types4, Stored4
        <5> QED
          BY <5>1, <5>2, Zenon
      <4>2. \A k : slot4(k)' = slot4(k)
        BY Zenon DEF slot4
      <4>3. nget4' = nget4 /\ nput4' - 1 = nput4
        BY <1>0, <3>1
      <4> QED
        BY <4>1, <4>2, <4>3, Zenon DEF Stored4, slot4
    <3>8. \A q \in Producers4 : ppc4'[q] \notin {"end1", "end2", "end3", "done"}
      BY <1>0, <3>1 DEF Types4
    <3>9. nput4' \in 0..nitems4 /\ buff4' \in [0..NBUFF4 - 1 -> 0..nitems4]
      BY <1>0, <3>1, <3>6 DEF Types4
    <3>10. Types4'
      BY <1>0, <3>1, <3>8, <3>9, Zenon DEF Types4
    <3>11. NoWrongItem'
      BY <1>0, <1>12, <2>2, Zenon DEF NoWrongItem, store_item, pgoto4
    <3> QED
      BY <3>3, <3>7, <3>10, <3>11, Zenon DEF SemInv
  <2> QED
    BY <2>1, <2>2, Zenon
<1>13. ASSUME NEW c \in Consumers4, wait_nstored(c) PROVE SemInv'
  <2>1. CASE variant4 = "prodcons3" /\ nget4 = nitems4
    <3>1. /\ cpc4[c] = "nstored" /\ cpc4'[c] = "done" /\ \A q \in Consumers4 : q # c => cpc4'[q] = cpc4[q]
          /\ cpc4' \in [Consumers4 -> CSteps4] /\ UNCHANGED <<variant4, buff4, nput4, nget4, wrong4, ppc4>>
          /\ sem4' \in [Names -> Nat]
          /\ sem4'["mutex"] = sem4["mutex"] /\ sem4'["nempty"] = sem4["nempty"] /\ sem4'["nstored"] = sem4["nstored"]
      <4>1. cgoto4(c, "nstored", "done") /\ UNCHANGED sem4 /\ UNCHANGED <<nget4, wrong4>>
        BY <1>0, <1>13, <2>1, Zenon DEF wait_nstored
      <4>2. /\ cpc4[c] = "nstored" /\ cpc4'[c] = "done" /\ \A q \in Consumers4 : q # c => cpc4'[q] = cpc4[q]
            /\ cpc4' \in [Consumers4 -> CSteps4] /\ UNCHANGED <<variant4, buff4, nput4, nget4, wrong4, ppc4>>
        BY <1>0, <4>1, Zenon DEF cgoto4, Types4, CSteps4
      <4>3. sem4' \in [Names -> Nat] /\ sem4'["mutex"] = sem4["mutex"] /\ sem4'["nempty"] = sem4["nempty"] /\ sem4'["nstored"] = sem4["nstored"]
        BY <1>0, <4>1, Zenon DEF sem_wait4, Types4
      <4> QED
        BY <1>0, <2>1, <4>2, <4>3, Zenon DEF Types4
    <3>2. /\ Reading' = Reading /\ Due' = Due /\ CLocked' = CLocked
          /\ Claimed' = Claimed /\ Storing' = Storing /\ Ended' = Ended /\ PLocked' = PLocked
      BY <1>00, <3>1, ConsumerMoves
    <3>3. Counted4'
      BY <1>0, <1>00, <3>1, <3>2, Zenon DEF Counted4, Extra
    <3> QED
      BY <1>0, <1>1, <3>1, <3>3, Zenon DEF Types4
  <2>2. CASE ~(variant4 = "prodcons3" /\ nget4 = nitems4)
    <3>1. /\ cpc4[c] = "nstored" /\ cpc4'[c] = "mutex" /\ \A q \in Consumers4 : q # c => cpc4'[q] = cpc4[q]
          /\ cpc4' \in [Consumers4 -> CSteps4] /\ UNCHANGED <<variant4, buff4, nput4, nget4, wrong4, ppc4>>
          /\ sem4' \in [Names -> Nat]
          /\ sem4'["mutex"] = sem4["mutex"] /\ sem4'["nempty"] = sem4["nempty"] /\ sem4'["nstored"] = sem4["nstored"] - 1
      <4>1. cgoto4(c, "nstored", "mutex") /\ sem_wait4("nstored") /\ UNCHANGED <<nget4, wrong4>>
        BY <1>0, <1>13, <2>2, Zenon DEF wait_nstored
      <4>2. /\ cpc4[c] = "nstored" /\ cpc4'[c] = "mutex" /\ \A q \in Consumers4 : q # c => cpc4'[q] = cpc4[q]
            /\ cpc4' \in [Consumers4 -> CSteps4] /\ UNCHANGED <<variant4, buff4, nput4, nget4, wrong4, ppc4>>
        BY <1>0, <4>1, Zenon DEF cgoto4, Types4, CSteps4
      <4>3. sem4' \in [Names -> Nat] /\ sem4'["mutex"] = sem4["mutex"] /\ sem4'["nempty"] = sem4["nempty"] /\ sem4'["nstored"] = sem4["nstored"] - 1
        BY <1>0, <4>1 DEF sem_wait4, Types4
      <4> QED
        BY <1>0, <2>2, <4>2, <4>3, Zenon DEF Types4
    <3>2. /\ Reading' = Reading /\ Due' = Due + 1 /\ CLocked' = CLocked
          /\ Claimed' = Claimed /\ Storing' = Storing /\ Ended' = Ended /\ PLocked' = PLocked
      BY <1>00, <3>1, ConsumerMoves
    <3>3. Counted4'
      BY <1>0, <1>00, <3>1, <3>2 DEF Counted4, Extra
    <3> QED
      BY <1>0, <1>1, <3>1, <3>3, Zenon DEF Types4
  <2> QED
    BY <2>1, <2>2, Zenon
<1>14. ASSUME NEW c \in Consumers4, fetch_item(c) PROVE SemInv'
  <2>1. CASE nget4 >= nitems4
    <3>1. /\ cpc4[c] = "mutex" /\ cpc4'[c] = "end1" /\ \A q \in Consumers4 : q # c => cpc4'[q] = cpc4[q]
          /\ cpc4' \in [Consumers4 -> CSteps4] /\ UNCHANGED <<variant4, buff4, nput4, nget4, wrong4, ppc4>>
          /\ sem4' \in [Names -> Nat]
          /\ sem4'["mutex"] = sem4["mutex"] - 1 /\ sem4'["nempty"] = sem4["nempty"] /\ sem4'["nstored"] = sem4["nstored"]
      <4>1. cgoto4(c, "mutex", "end1") /\ sem_wait4("mutex") /\ UNCHANGED <<nget4, wrong4>>
        BY <1>0, <1>14, <2>1, Zenon DEF fetch_item
      <4>2. /\ cpc4[c] = "mutex" /\ cpc4'[c] = "end1" /\ \A q \in Consumers4 : q # c => cpc4'[q] = cpc4[q]
            /\ cpc4' \in [Consumers4 -> CSteps4] /\ UNCHANGED <<variant4, buff4, nput4, nget4, wrong4, ppc4>>
        BY <1>0, <4>1, Zenon DEF cgoto4, Types4, CSteps4
      <4>3. sem4' \in [Names -> Nat] /\ sem4'["mutex"] = sem4["mutex"] - 1 /\ sem4'["nempty"] = sem4["nempty"] /\ sem4'["nstored"] = sem4["nstored"]
        BY <1>0, <4>1 DEF sem_wait4, Types4
      <4> QED
        BY <1>0, <2>1, <4>2, <4>3, Zenon DEF Types4
    <3>2. /\ Reading' = Reading /\ Due' = Due /\ CLocked' = CLocked + 1
          /\ Claimed' = Claimed /\ Storing' = Storing /\ Ended' = Ended /\ PLocked' = PLocked
      BY <1>00, <3>1, ConsumerMoves
    <3>3. Counted4'
      BY <1>0, <1>00, <3>1, <3>2 DEF Counted4, Extra
    <3> QED
      BY <1>0, <1>1, <3>1, <3>3, Zenon DEF Types4
  <2>2. CASE ~(nget4 >= nitems4)
    <3>1. /\ cpc4[c] = "mutex" /\ cpc4'[c] = "unlock" /\ \A q \in Consumers4 : q # c => cpc4'[q] = cpc4[q]
          /\ cpc4' \in [Consumers4 -> CSteps4] /\ UNCHANGED <<variant4, buff4, nput4, ppc4>>
          /\ sem4' \in [Names -> Nat] /\ nget4' = nget4 + 1 /\ nget4 < nitems4
          /\ sem4'["mutex"] = sem4["mutex"] - 1 /\ sem4'["nempty"] = sem4["nempty"] /\ sem4'["nstored"] = sem4["nstored"]
      <4>1. cgoto4(c, "mutex", "unlock") /\ sem_wait4("mutex") /\ nget4' = nget4 + 1
        BY <1>14, <2>2, Zenon DEF fetch_item
      <4>2. /\ cpc4[c] = "mutex" /\ cpc4'[c] = "unlock" /\ \A q \in Consumers4 : q # c => cpc4'[q] = cpc4[q]
            /\ cpc4' \in [Consumers4 -> CSteps4] /\ UNCHANGED <<variant4, buff4, nput4, ppc4>>
        BY <1>0, <4>1, Zenon DEF cgoto4, Types4, CSteps4
      <4>3. /\ sem4' \in [Names -> Nat]
            /\ sem4'["mutex"] = sem4["mutex"] - 1 /\ sem4'["nempty"] = sem4["nempty"] /\ sem4'["nstored"] = sem4["nstored"]
        BY <1>0, <4>1 DEF sem_wait4, Types4
      <4> QED
        BY <1>0, <2>2, <4>1, <4>2, <4>3
    <3>2. /\ Reading' = Reading + 1 /\ Due' = Due - 1 /\ CLocked' = CLocked + 1
          /\ Claimed' = Claimed /\ Storing' = Storing /\ Ended' = Ended /\ PLocked' = PLocked
      BY <1>00, <3>1, ConsumerMoves
    <3>3. nget4 < nput4
      <4>1. Due # 0
        BY <3>1, Counts4, Zenon
      <4>2. CASE Extra = 0
        BY <1>0, <1>00, <4>1, <4>2 DEF Counted4
      <4>3. CASE Extra # 0
        <5>1. \E p \in Producers4 : ppc4[p] \in {"end2", "end3", "done"}
          BY <4>3, Counts4, Zenon DEF Extra
        <5> QED
          BY <1>0, <3>1, <5>1, Zenon DEF Types4
      <4> QED
        BY <4>2, <4>3, Zenon
    <3>4. Counted4'
      <4>0. sem4'["mutex"] + PLocked' + CLocked' = 1
        BY <1>0, <1>00, <3>1, <3>2 DEF Counted4
      <4>1. sem4'["nempty"] + Claimed' + Reading' + nput4' = NBUFF4 + nget4'
        <5> DEFINE e == sem4["nempty"]
        <5>1. e \in Nat /\ Claimed \in Nat /\ Reading \in Nat /\ nput4 \in Nat /\ nget4 \in Nat /\ NBUFF4 \in Nat
          BY <1>0, <1>00, Zenon
        <5>2. e + Claimed + Reading + nput4 = NBUFF4 + nget4
          BY <1>0, Zenon DEF Counted4
        <5> HIDE DEF e
        <5>3. e + Claimed + (Reading + 1) + nput4 = NBUFF4 + (nget4 + 1)
          BY <5>1, <5>2, OneMoreFetched
        <5> QED
          BY <3>1, <3>2, <5>3, Zenon DEF e
      <4>2. Extra' = Extra /\ Extra \in Nat
        BY <1>00, <3>1, <3>2, Zenon DEF Extra
      <4>3. sem4'["nstored"] + Due' + Storing' + nget4' = nput4' + Extra'
        BY <1>0, <1>00, <3>1, <3>2, <4>2 DEF Counted4
      <4>4. nget4 + 1 <= nput4
        BY <1>0, <3>3
      <4> QED
        BY <3>1, <4>0, <4>1, <4>3, <4>4, Zenon DEF Counted4
    <3>5. buff4[slot4(nget4)] = nget4
      BY <1>0, <3>3 DEF Stored4
    <3>6. NoWrongItem'
      BY <1>0, <1>14, <2>2, <3>5, Zenon DEF NoWrongItem, fetch_item
    <3>7. Types4'
      BY <1>0, <3>1 DEF Types4
    <3>8. Stored4'
      BY <1>0, <3>1, <3>3 DEF Stored4, slot4
    <3> QED
      BY <3>4, <3>6, <3>7, <3>8, Zenon DEF SemInv
  <2> QED
    BY <2>1, <2>2
<1>15. CASE UNCHANGED pc4vars
  <2>1. UNCHANGED <<variant4, sem4, buff4, nput4, nget4, ppc4, cpc4, wrong4>>
    BY <1>15, Zenon DEF pc4vars
  <2>2. /\ Claimed' = Claimed /\ Storing' = Storing /\ Ended' = Ended /\ PLocked' = PLocked
        /\ Reading' = Reading /\ Due' = Due /\ CLocked' = CLocked
    BY <2>1, Zenon DEF Claimed, Storing, Ended, PLocked, Reading, Due, CLocked, NP, NC, Those
  <2>3. Counted4'
    BY <1>0, <2>1, <2>2, Zenon DEF Counted4, Extra
  <2> QED
    BY <1>0, <1>1, <2>1, <2>3, Zenon DEF Types4
<1> QED
  BY <1>2, <1>3, <1>4, <1>5, <1>6, <1>7, <1>8, <1>9, <1>10, <1>11, <1>12, <1>13, <1>14, <1>15, Zenon DEF PC4Next, produce4, consume4

(* No consumer of prodcons3.c and prodcons4.c finds a slot that holds      *)
(* anything but the next value: for every set of producers and of          *)
(* consumers, every number of slots and of items.                          *)
THEOREM NoConsumerIsWrong == PC4Spec => []SemSafe
<1>1. PC4Init => SemInv
  BY SemInitially, Zenon
<1>2. SemInv /\ [PC4Next]_pc4vars => SemInv'
  BY SemInductive, Zenon
<1>3. SemInv => SemSafe
  BY SemBounds, Zenon
<1> QED
  BY <1>1, <1>2, <1>3, PTL DEF PC4Spec

-----------------------------------------------------------------------------
(* ShmRing. The reservations made form a log, and a slot of the ring       *)
(* stands for the only entry of the log that can still be in it.           *)

ClientSteps == {"trywait", "overflow", "mutex", "copy", "stored", "exit"}
Mesgs == (ShmClients \cup {"none"}) \X Nat

(* Clients between their reservation and their post of nstored.            *)
Busy == Cardinality(Those(ShmClients, kpc, {"copy", "stored"}))
Printing == IF spc = "mutex" THEN 1 ELSE 0

(* How many slots have been reserved so far.  A reservation is known by    *)
(* its number; number p is slot p % NMESG.                                 *)
Taken == Len(printed) + (shmsem.nstored + Busy + Printing)

(* What the reservations have become: a line that the server has printed,  *)
(* or what is in the slot; and those whose message is there.               *)
Log == [p \in 0..Taken - 1 |-> IF p < Len(printed) THEN printed[p + 1] ELSE msgdata[p % NMESG]]
Copying(s) == \E k \in ShmClients : kpc[k] = "copy" /\ koff[k] = s
Copied == {p \in 0..Taken - 1 : p < Len(printed) \/ ~Copying(p % NMESG)}

Written(m, i, l) ==
    m[1] \in ShmClients /\ (m[2] < i[m[1]] \/ (m[2] = i[m[1]] /\ l[m[1]] = "stored"))

ShmTypes ==
    /\ shmsem \in [{"nempty", "nstored"} -> Nat]
    /\ msgdata \in [ShmSlots -> Mesgs] /\ printed \in Seq(Mesgs)
    /\ kpc \in [ShmClients -> ClientSteps] /\ ki \in [ShmClients -> Nat] /\ koff \in [ShmClients -> ShmSlots]
    /\ spc \in {"nstored", "mutex", "empty"}
    /\ raced \in BOOLEAN
    /\ nput = Taken % NMESG /\ sindex = Len(printed) % NMESG

(* While the server has read no slot too early: each client that copies    *)
(* has a reservation of its own, after which it has written nothing, and   *)
(* the messages of a client are in the order of their reservations.        *)
InOrder ==
    /\ \A k, l \in ShmClients : kpc[k] = "copy" /\ kpc[l] = "copy" /\ koff[k] = koff[l] => k = l
    /\ \A k \in ShmClients : kpc[k] = "copy" =>
          \E p \in Len(printed)..Taken - 1 :
             koff[k] = p % NMESG /\ \A q \in Copied : q > p => Log[q][1] # k
    /\ \A p \in Copied : Written(Log[p], ki, kpc)
    /\ \A p, q \in Copied : p < q /\ Log[p][1] = Log[q][1] => Log[p][2] < Log[q][2]

ShmInv == ShmTypes /\ SlotsAccounted /\ (raced = FALSE => InOrder)

(* How a step of k changes the number of clients with a reservation.       *)
LEMMA BusyMoves ==
    ASSUME NEW k \in ShmClients, \A l \in ShmClients : l # k => kpc'[l] = kpc[l]
    PROVE  /\ Busy' = Busy + (IF kpc'[k] \in {"copy", "stored"} THEN 1 ELSE 0)
                           - (IF kpc[k] \in {"copy", "stored"} THEN 1 ELSE 0)
           /\ Reserved' = Reserved + (IF kpc'[k] \in {"mutex", "copy", "stored"} THEN 1 ELSE 0)
                                   - (IF kpc[k] \in {"mutex", "copy", "stored"} THEN 1 ELSE 0)
<1>0. IsFiniteSet(ShmClients)
  BY ShmAssumption, Zenon
<1>1. Busy = Cardinality(Those(ShmClients, kpc, {"copy", "stored"}))
      /\ Busy' = Cardinality(Those(ShmClients, kpc', {"copy", "stored"}))
  BY Zenon DEF Busy
<1>2. Reserved = Cardinality(Those(ShmClients, kpc, {"mutex", "copy", "stored"}))
      /\ Reserved' = Cardinality(Those(ShmClients, kpc', {"mutex", "copy", "stored"}))
  BY Zenon DEF Reserved, Those
<1>3. Busy' = Busy + (IF kpc'[k] \in {"copy", "stored"} THEN 1 ELSE 0)
                   - (IF kpc[k] \in {"copy", "stored"} THEN 1 ELSE 0)
  BY <1>0, <1>1, OneStep, SMTT(20)
<1>4. Reserved' = Reserved + (IF kpc'[k] \in {"mutex", "copy", "stored"} THEN 1 ELSE 0)
                           - (IF kpc[k] \in {"mutex", "copy", "stored"} THEN 1 ELSE 0)
  BY <1>0, <1>2, OneStep, SMTT(20)
<1> QED
  BY <1>3, <1>4, Zenon

(* These numbers are natural numbers, and in order.                        *)
LEMMA ShmCounts ==
    /\ Busy \in Nat /\ Reserved \in Nat /\ Busy <= Reserved
    /\ \A k \in ShmClients : kpc[k] = "mutex" => Busy < Reserved
<1>0. IsFiniteSet(ShmClients)
  BY ShmAssumption, Zenon
<1> DEFINE B == Those(ShmClients, kpc, {"copy", "stored"})
           R == Those(ShmClients, kpc, {"mutex", "copy", "stored"})
<1>1. IsFiniteSet(B) /\ IsFiniteSet(R) /\ Cardinality(B) \in Nat /\ Cardinality(R) \in Nat
  BY <1>0, Number, Zenon
<1>2. B \in SUBSET R
  BY Zenon DEF Those
<1>3. Cardinality(B) <= Cardinality(R) /\ (Cardinality(R) = Cardinality(B) => R = B)
  BY <1>1, <1>2, FS_Subset, Zenon
<1>4. \A k \in ShmClients : kpc[k] = "mutex" => k \in R /\ k \notin B
  BY Zenon DEF Those
<1>5. Busy = Cardinality(B) /\ Reserved = Cardinality(R)
  BY Zenon DEF Busy, Reserved, Those
<1> HIDE DEF B, R
<1> QED
  BY <1>1, <1>3, <1>4, <1>5

(* The ring is never asked to hold more than its slots.                    *)
LEMMA ShmFacts ==
    ASSUME ShmTypes, SlotsAccounted
    PROVE  /\ NMESG \in Nat \ {0} /\ Len(printed) \in Nat /\ Taken \in Nat /\ Len(printed) <= Taken
           /\ shmsem["nempty"] \in Nat /\ shmsem["nstored"] \in Nat /\ Printing \in 0..1
           /\ shmsem["nempty"] <= NMESG /\ shmsem["nstored"] <= NMESG
           /\ Taken <= Len(printed) + NMESG
           /\ \A k \in ShmClients : kpc[k] = "mutex" => Taken < Len(printed) + NMESG
<1> DEFINE e == shmsem["nempty"]
           t == shmsem["nstored"]
           b == IF spc = "nstored" THEN 0 ELSE 1
<1>1. NMESG \in Nat \ {0} /\ e \in Nat /\ t \in Nat /\ Len(printed) \in Nat /\ Printing \in 0..1 /\ b \in 0..1 /\ Printing <= b
  BY ShmAssumption DEF ShmTypes, Printing
<1>2. e + t + Reserved + b = NMESG /\ Taken = Len(printed) + (t + Busy + Printing)
  BY Zenon DEF SlotsAccounted, Taken
<1> HIDE DEF e, t, b
<1>3. Taken \in Nat /\ Len(printed) <= Taken /\ Taken <= Len(printed) + NMESG /\ e <= NMESG /\ t <= NMESG
  BY <1>1, <1>2, ShmCounts
<1>4. Busy < Reserved => Taken < Len(printed) + NMESG
  BY <1>1, <1>2, ShmCounts
<1> QED
  BY <1>1, <1>3, <1>4, ShmCounts, Zenon DEF e, t

(* What the invariant says of the lines printed.                           *)
LEMMA ShmBounds == ShmInv => ShmSafe
<1> SUFFICES ASSUME ShmInv PROVE ShmSafe
  BY Zenon
<1>0. ShmTypes /\ SlotsAccounted /\ (raced = FALSE => InOrder) /\ raced \in BOOLEAN
  BY Zenon DEF ShmInv, ShmTypes
<1>f. /\ NMESG \in Nat \ {0} /\ Len(printed) \in Nat /\ Taken \in Nat /\ Len(printed) <= Taken
      /\ shmsem["nempty"] \in Nat /\ shmsem["nstored"] \in Nat
      /\ shmsem["nempty"] <= NMESG /\ shmsem["nstored"] <= NMESG
  BY <1>0, ShmFacts, Zenon
<1>1. nput \in ShmSlots /\ sindex \in ShmSlots
  BY <1>0, <1>f, ModRange DEF ShmTypes, ShmSlots
<1>2. ShmTypeOK
  BY <1>0, <1>1, <1>f DEF ShmTypes, ShmTypeOK, ClientSteps
<1>3. ASSUME InOrder, NEW a \in DOMAIN printed, NEW b \in DOMAIN printed, a < b, printed[a][1] = printed[b][1]
      PROVE  printed[a][2] < printed[b][2]
  <2>0. printed \in Seq(Mesgs)
    BY <1>0, Zenon DEF ShmTypes
  <2>1. a \in 1..Len(printed) /\ b \in 1..Len(printed)
    BY <2>0
  <2>2. /\ a - 1 \in 0..Taken - 1 /\ a - 1 < Len(printed) /\ (a - 1) + 1 = a
        /\ b - 1 \in 0..Taken - 1 /\ b - 1 < Len(printed) /\ (b - 1) + 1 = b /\ a - 1 < b - 1
    BY <1>3, <1>f, <2>1
  <2>3. Log[a - 1] = printed[a] /\ Log[b - 1] = printed[b]
    BY <2>2, Zenon DEF Log
  <2>4. a - 1 \in Copied /\ b - 1 \in Copied
    BY <2>2, Zenon DEF Copied
  <2>5. Log[a - 1][1] = Log[b - 1][1]
    BY <1>3, <2>3, Zenon
  <2>6. Log[a - 1][2] < Log[b - 1][2]
    BY <1>3, <2>2, <2>4, <2>5, Zenon DEF InOrder
  <2> QED
    BY <2>3, <2>6, Zenon
<1>4. PrintedOnce
  <2>1. raced \/ raced = FALSE
    BY <1>0, Zenon
  <2> QED
    BY <1>0, <1>3, <2>1, Zenon DEF PrintedOnce
<1> QED
  BY <1>0, <1>2, <1>4, Zenon DEF ShmSafe

(* It holds at the start.                                                  *)
LEMMA ShmInitially == ShmInit => ShmInv
<1> SUFFICES ASSUME ShmInit PROVE ShmInv
  BY Zenon
<1>0. NMESG \in Nat \ {0} /\ IsFiniteSet(ShmClients)
  BY ShmAssumption, Zenon
<1>1. Busy = 0 /\ Reserved = 0
  <2>1. \A k \in ShmClients : kpc[k] \notin {"copy", "stored"} /\ kpc[k] \notin {"mutex", "copy", "stored"}
    BY Zenon DEF ShmInit
  <2>2. Reserved = Cardinality(Those(ShmClients, kpc, {"mutex", "copy", "stored"}))
    BY Zenon DEF Reserved, Those
  <2> QED
    BY <1>0, <2>1, <2>2, Number, Zenon DEF Busy
<1>2. shmsem["nempty"] = NMESG /\ shmsem["nstored"] = 0 /\ shmsem \in [{"nempty", "nstored"} -> Nat]
  BY <1>0 DEF ShmInit
<1>3. Len(printed) = 0 /\ Printing = 0
  BY Zenon DEF ShmInit, Printing
<1>4. Taken = 0
  BY <1>1, <1>2, <1>3 DEF Taken
<1>5. 0 % NMESG = 0
  <2>1. 0 = NMESG * 0 + 0 /\ 0 \in 0..NMESG - 1
    BY <1>0
  <2> QED
    BY <1>0, <2>1, ModUnique
<1>6. ShmTypes
  <2>1. NoMesg \in Mesgs
    BY Zenon DEF NoMesg, Mesgs
  <2>2. raced \in BOOLEAN
    BY Zenon DEF ShmInit
  <2>3. msgdata \in [ShmSlots -> Mesgs] /\ koff \in [ShmClients -> ShmSlots]
    BY <1>0, <2>1 DEF ShmInit, ShmSlots
  <2> QED
    BY <1>2, <1>3, <1>4, <1>5, <2>2, <2>3 DEF ShmInit, ShmTypes, ClientSteps
<1>7. SlotsAccounted
  BY <1>0, <1>1, <1>2 DEF ShmInit, SlotsAccounted
<1>8. InOrder
  <2>1. Copied = {}
    BY <1>4 DEF Copied
  <2> QED
    BY <2>1, Zenon DEF ShmInit, InOrder
<1> QED
  BY <1>6, <1>7, <1>8, Zenon DEF ShmInv

(* A step that reserves, copies and prints nothing.                        *)
LEMMA OrderKept ==
    ASSUME InOrder, Taken' = Taken, UNCHANGED <<msgdata, printed, koff>>, ki \in [ShmClients -> Nat],
           Log \in [0..Taken - 1 -> Mesgs],
           \A k \in ShmClients : kpc'[k] = "copy" <=> kpc[k] = "copy",
           \A k \in ShmClients : ki'[k] \in Nat /\ ki[k] <= ki'[k] /\ (kpc[k] = "stored" => kpc'[k] = "stored" \/ ki[k] < ki'[k])
    PROVE  InOrder'
<1>1. Log' = Log
  BY Zenon DEF Log
<1>2. Copied' = Copied
  BY Zenon DEF Copied, Copying
<1>3. ASSUME NEW p \in Copied PROVE Written(Log[p], ki', kpc')
  <2>1. Log[p][2] \in Nat
    BY Zenon DEF Copied, Mesgs
  <2>2. Written(Log[p], ki, kpc)
    BY Zenon DEF InOrder
  <2>3. Log[p][1] \in ShmClients /\ ki[Log[p][1]] \in Nat
    BY <2>2, Zenon DEF Written
  <2> QED
    BY <2>1, <2>2, <2>3 DEF Written
<1>4. \A k, l \in ShmClients : kpc'[k] = "copy" /\ kpc'[l] = "copy" /\ koff'[k] = koff'[l] => k = l
  BY Zenon DEF InOrder
<1>5. \A p, q \in Copied : p < q /\ Log[p][1] = Log[q][1] => Log[p][2] < Log[q][2]
  BY Zenon DEF InOrder
<1>6. \A k \in ShmClients : kpc'[k] = "copy" =>
          \E p \in Len(printed')..Taken' - 1 :
             koff'[k] = p % NMESG /\ \A q \in Copied' : q > p => Log'[q][1] # k
  BY <1>1, <1>2 DEF InOrder
<1> QED
  BY <1>1, <1>2, <1>3, <1>4, <1>5, <1>6, Zenon DEF InOrder

(* The reservations become messages.                                       *)
LEMMA LogType ==
    ASSUME ShmTypes, SlotsAccounted
    PROVE  Log \in [0..Taken - 1 -> Mesgs]
<1>1. /\ NMESG \in Nat \ {0} /\ Len(printed) \in Nat /\ Taken \in Nat /\ printed \in Seq(Mesgs)
      /\ msgdata \in [0..NMESG - 1 -> Mesgs]
  BY ShmFacts, Zenon DEF ShmTypes, ShmSlots
<1>2. ASSUME NEW p \in 0..Taken - 1
      PROVE  (IF p < Len(printed) THEN printed[p + 1] ELSE msgdata[p % NMESG]) \in Mesgs
  <2>1. CASE p < Len(printed)
    <3>1. p + 1 \in 1..Len(printed)
      BY <1>1, <2>1
    <3> QED
      BY <1>1, <2>1, <3>1
  <2>2. CASE ~(p < Len(printed))
    <3>1. p % NMESG \in 0..NMESG - 1
      BY <1>1, ModRange
    <3> QED
      BY <1>1, <2>2, <3>1, Zenon
  <2> QED
    BY <2>1, <2>2, Zenon
<1> QED
  BY <1>2, Zenon DEF Log

(* Reservations that are not printed yet have slots of their own.          *)
LEMMA SlotsApart ==
    ASSUME ShmTypes, SlotsAccounted, NEW p \in Len(printed)..Taken - 1, NEW q \in Len(printed)..Taken - 1, p # q
    PROVE  p % NMESG # q % NMESG
<1>1. NMESG \in Nat \ {0} /\ Len(printed) \in Nat /\ Taken \in Nat /\ Taken <= Len(printed) + NMESG
  BY ShmFacts, Zenon
<1>2. p \in Nat /\ q \in Nat /\ p < q + NMESG /\ q < p + NMESG /\ (p < q \/ q < p)
  BY <1>1
<1> QED
  BY <1>1, <1>2, Apart, Zenon

(* A reservation keeps the order: its slot is free and its number the      *)
(* last.                                                                   *)
LEMMA ReserveKeepsOrder ==
    ASSUME ShmTypes, SlotsAccounted, InOrder, NEW k \in ShmClients, reserve(k), Taken' = Taken + 1
    PROVE  InOrder'
<1>0. /\ NMESG \in Nat \ {0} /\ Len(printed) \in Nat /\ Taken \in Nat /\ Len(printed) <= Taken
      /\ Taken < Len(printed) + NMESG
  BY ShmFacts, Zenon DEF reserve
<1>1. /\ kpc[k] = "mutex" /\ kpc'[k] = "copy" /\ koff'[k] = Taken % NMESG
      /\ \A l \in ShmClients : l # k => kpc'[l] = kpc[l] /\ koff'[l] = koff[l]
      /\ UNCHANGED <<msgdata, printed, ki>>
  BY Zenon DEF reserve, kgoto, ShmTypes
<1>2. \A p \in 0..Taken - 1 : Log'[p] = Log[p]
  BY <1>0, <1>1 DEF Log
<1>3. ASSUME NEW p \in Len(printed)..Taken - 1 PROVE Taken % NMESG # p % NMESG
  <2>1. p \in Nat /\ p < Taken /\ Taken < p + NMESG
    BY <1>0
  <2> QED
    BY <1>0, <2>1, Apart, Zenon
<1>4. ASSUME NEW p \in Len(printed)..Taken - 1 PROVE Copying(p % NMESG)' <=> Copying(p % NMESG)
  <2>1. Taken % NMESG # p % NMESG
    BY <1>3, Zenon
  <2> QED
    BY <1>1, <2>1, Zenon DEF Copying
<1>5. \E l \in ShmClients : kpc'[l] = "copy" /\ koff'[l] = Taken % NMESG
  BY <1>1, Zenon
<1>6. Copied' = Copied
  <2>1. \A p \in 0..Taken - 1 : p \in Copied' <=> p \in Copied
    <3> SUFFICES ASSUME NEW p \in 0..Taken - 1 PROVE p \in Copied' <=> p \in Copied
      BY Zenon
    <3>1. p \in 0..Taken' - 1
      BY <1>0
    <3>2. CASE p < Len(printed)
      BY <1>1, <3>1, <3>2, Zenon DEF Copied
    <3>3. CASE ~(p < Len(printed))
      <4>1. p \in Len(printed)..Taken - 1
        BY <1>0, <3>3
      <4>2. Copying(p % NMESG)' <=> Copying(p % NMESG)
        BY <1>4, <4>1, Zenon
      <4>3. p \in Copied <=> ~Copying(p % NMESG)
        BY <3>3, Zenon DEF Copied
      <4>4. p \in Copied' <=> ~Copying(p % NMESG)'
        BY <1>1, <3>1, <3>3, Zenon DEF Copied
      <4> QED
        BY <4>2, <4>3, <4>4, Zenon
    <3> QED
      BY <3>2, <3>3, Zenon
  <2>2. Taken \notin Copied'
    <3>1. ~(Taken < Len(printed'))
      BY <1>0, <1>1
    <3> QED
      BY <1>5, <3>1, Zenon DEF Copied, Copying
  <2>3. Copied \subseteq 0..Taken - 1
    BY Zenon DEF Copied
  <2>4. Copied' \subseteq 0..Taken
    <3>1. Copied' \subseteq 0..Taken' - 1
      BY Zenon DEF Copied
    <3> QED
      BY <1>0, <3>1
  <2>5. \A p \in 0..Taken : p # Taken => p \in 0..Taken - 1
    BY <1>0
  <2> QED
    BY <2>1, <2>2, <2>3, <2>4, <2>5, Zenon
<1>7. \A p \in Copied : p \in 0..Taken - 1 /\ Log'[p] = Log[p]
  BY <1>2, Zenon DEF Copied
<1>8. \A l \in ShmClients : l # k /\ kpc[l] = "copy" => koff[l] # Taken % NMESG
  BY <1>3, Zenon DEF InOrder
<1>9. \A h, l \in ShmClients : kpc'[h] = "copy" /\ kpc'[l] = "copy" /\ koff'[h] = koff'[l] => h = l
  BY <1>1, <1>8 DEF InOrder
<1>10. ASSUME NEW l \in ShmClients, kpc'[l] = "copy"
       PROVE  \E p \in Len(printed')..Taken' - 1 :
                 koff'[l] = p % NMESG /\ \A q \in Copied' : q > p => Log'[q][1] # l
  <2>1. CASE l = k
    <3>1. Taken \in Len(printed')..Taken' - 1
      BY <1>0, <1>1
    <3>2. \A q \in Copied' : ~(q > Taken)
      BY <1>0, <1>6, <1>7
    <3> QED
      BY <1>1, <2>1, <3>1, <3>2, Zenon
  <2>2. CASE l # k
    <3>1. kpc[l] = "copy" /\ koff'[l] = koff[l]
      BY <1>1, <1>10, <2>2, Zenon
    <3>2. PICK p \in Len(printed)..Taken - 1 : koff[l] = p % NMESG /\ \A q \in Copied : q > p => Log[q][1] # l
      BY <3>1, Zenon DEF InOrder
    <3>3. p \in Len(printed')..Taken' - 1
      BY <1>0, <1>1
    <3>4. \A q \in Copied' : q > p => Log'[q][1] # l
      BY <1>6, <1>7, <3>2, Zenon
    <3> QED
      BY <3>1, <3>2, <3>3, <3>4, Zenon
  <2> QED
    BY <2>1, <2>2, Zenon
<1>11. ASSUME NEW p \in Copied PROVE Written(Log'[p], ki', kpc')
  <2>1. Written(Log[p], ki, kpc) /\ Log'[p] = Log[p]
    BY <1>7, Zenon DEF InOrder
  <2> QED
    BY <1>1, <2>1, Zenon DEF Written
<1>12. \A p, q \in Copied : p < q /\ Log'[p][1] = Log'[q][1] => Log'[p][2] < Log'[q][2]
  BY <1>7, Zenon DEF InOrder
<1> QED
  BY <1>6, <1>9, <1>10, <1>11, <1>12, Zenon DEF InOrder

(* A copy into a reserved slot keeps the order.                            *)
LEMMA CopyKeepsOrder ==
    ASSUME ShmTypes, SlotsAccounted, InOrder, NEW k \in ShmClients, copy_mesg(k), Taken' = Taken
    PROVE  InOrder'
<1>0. /\ NMESG \in Nat \ {0} /\ Len(printed) \in Nat /\ Taken \in Nat /\ Len(printed) <= Taken
      /\ msgdata \in [0..NMESG - 1 -> Mesgs] /\ ki[k] \in Nat
  BY ShmFacts, Zenon DEF ShmTypes, ShmSlots
<1>1. /\ kpc[k] = "copy" /\ kpc'[k] = "stored" /\ msgdata' = [msgdata EXCEPT ![koff[k]] = <<k, ki[k]>>]
      /\ \A l \in ShmClients : l # k => kpc'[l] = kpc[l]
      /\ UNCHANGED <<printed, ki, koff>>
  BY Zenon DEF copy_mesg, kgoto, ShmTypes
<1>2. PICK p \in Len(printed)..Taken - 1 : koff[k] = p % NMESG /\ \A q \in Copied : q > p => Log[q][1] # k
  BY <1>1, Zenon DEF InOrder
<1>3. p \in 0..Taken - 1 /\ ~(p < Len(printed)) /\ p % NMESG \in 0..NMESG - 1
  <2>1. p \in 0..Taken - 1 /\ ~(p < Len(printed)) /\ p \in Int
    BY <1>0
  <2> QED
    BY <1>0, <2>1, ModRange, Zenon
<1>4. ASSUME NEW q \in 0..Taken - 1, q # p, ~(q < Len(printed)) PROVE q % NMESG # p % NMESG /\ q % NMESG \in 0..NMESG - 1
  <2>1. q \in Len(printed)..Taken - 1
    BY <1>0, <1>4
  <2>2. q % NMESG # p % NMESG
    BY <1>4, <2>1, SlotsApart, Zenon
  <2> QED
    BY <1>0, <2>2, ModRange
<1>5. Log'[p] = <<k, ki[k]>>
  <2>1. msgdata'[p % NMESG] = <<k, ki[k]>>
    BY <1>0, <1>1, <1>2, <1>3, Zenon
  <2> QED
    BY <1>1, <1>3, <2>1, Zenon DEF Log
<1>6. ASSUME NEW q \in 0..Taken - 1, q # p PROVE Log'[q] = Log[q]
  <2>1. CASE q < Len(printed)
    BY <1>1, <2>1, Zenon DEF Log
  <2>2. CASE ~(q < Len(printed))
    <3>1. msgdata'[q % NMESG] = msgdata[q % NMESG]
      BY <1>0, <1>1, <1>2, <1>4, <1>6, <2>2, Zenon
    <3> QED
      BY <1>1, <2>2, <3>1, Zenon DEF Log
  <2> QED
    BY <2>1, <2>2, Zenon
<1>7. p \in Copied'
  <2>1. ~Copying(p % NMESG)'
    BY <1>1, <1>2, ZenonT(60) DEF Copying, InOrder
  <2> QED
    BY <1>3, <2>1, Zenon DEF Copied
<1>8. ASSUME NEW q \in 0..Taken - 1, q # p PROVE q \in Copied' <=> q \in Copied
  <2>1. CASE q < Len(printed)
    BY <1>1, <2>1, Zenon DEF Copied
  <2>2. CASE ~(q < Len(printed))
    <3>1. q % NMESG # p % NMESG
      BY <1>4, <1>8, <2>2, Zenon
    <3>2. Copying(q % NMESG)' <=> Copying(q % NMESG)
      BY <1>1, <1>2, <3>1, Zenon DEF Copying
    <3>3. q \in Copied <=> ~Copying(q % NMESG)
      BY <2>2, Zenon DEF Copied
    <3>4. q \in Copied' <=> ~Copying(q % NMESG)'
      BY <1>1, <2>2, Zenon DEF Copied
    <3> QED
      BY <3>2, <3>3, <3>4, Zenon
  <2> QED
    BY <2>1, <2>2, Zenon
<1>9. Copied \subseteq 0..Taken - 1 /\ Copied' \subseteq 0..Taken - 1
  BY Zenon DEF Copied
<1>10. \A q \in Copied' : q \in Int /\ (q # p => q \in Copied /\ Log'[q] = Log[q])
  BY <1>6, <1>8, <1>9
<1>11. \A h, l \in ShmClients : kpc'[h] = "copy" /\ kpc'[l] = "copy" /\ koff'[h] = koff'[l] => h = l
  BY <1>1, ZenonT(60) DEF InOrder
<1>12. ASSUME NEW l \in ShmClients, kpc'[l] = "copy"
       PROVE  \E r \in Len(printed')..Taken' - 1 :
                 koff'[l] = r % NMESG /\ \A q \in Copied' : q > r => Log'[q][1] # l
  <2>1. l # k /\ kpc[l] = "copy" /\ koff'[l] = koff[l]
    BY <1>1, <1>12, Zenon
  <2>2. PICK r \in Len(printed)..Taken - 1 : koff[l] = r % NMESG /\ \A q \in Copied : q > r => Log[q][1] # l
    BY <2>1, Zenon DEF InOrder
  <2>3. \A q \in Copied' : q > r => Log'[q][1] # l
    BY <1>5, <1>10, <2>1, <2>2
  <2>4. r \in Len(printed')..Taken' - 1
    BY <1>1, Zenon
  <2> QED
    BY <2>1, <2>2, <2>3, <2>4, Zenon
<1>13. ASSUME NEW q \in Copied' PROVE Written(Log'[q], ki', kpc')
  <2>1. CASE q = p
    BY <1>1, <1>5, <2>1 DEF Written
  <2>2. CASE q # p
    <3>1. Log'[q] = Log[q] /\ Written(Log[q], ki, kpc)
      BY <1>10, <2>2, Zenon DEF InOrder
    <3> QED
      BY <1>1, <3>1, Zenon DEF Written
  <2> QED
    BY <2>1, <2>2, Zenon
<1>14. ASSUME NEW q \in Copied', NEW r \in Copied', q < r, Log'[q][1] = Log'[r][1] PROVE Log'[q][2] < Log'[r][2]
  <2>1. CASE q # p /\ r # p
    BY <1>10, <1>14, <2>1, Zenon DEF InOrder
  <2>2. CASE q = p
    <3>1. r # p /\ r > p
      BY <1>3, <1>10, <1>14, <2>2
    <3>2. Log'[r][1] # k
      BY <1>2, <1>10, <3>1, Zenon
    <3> QED
      BY <1>5, <1>14, <2>2, <3>2
  <2>3. CASE r = p /\ q # p
    <3>1. q \in Copied /\ Log'[q] = Log[q] /\ Log[q][1] = k
      BY <1>5, <1>10, <1>14, <2>3
    <3>2. Written(Log[q], ki, kpc)
      BY <3>1, Zenon DEF InOrder
    <3>3. Log[q][2] < ki[k]
      BY <1>1, <3>1, <3>2, Zenon DEF Written
    <3> QED
      BY <1>5, <2>3, <3>1, <3>3
  <2> QED
    BY <2>1, <2>2, <2>3, Zenon
<1> QED
  BY <1>11, <1>12, <1>13, <1>14, Zenon DEF InOrder

(* A slot that is printed when its client has copied keeps the order.      *)
LEMMA PrintKeepsOrder ==
    ASSUME ShmTypes, SlotsAccounted, InOrder, print_mesg, ~Copying(sindex), Taken' = Taken
    PROVE  InOrder'
<1>0. /\ NMESG \in Nat \ {0} /\ Len(printed) \in Nat /\ Taken \in Nat /\ printed \in Seq(Mesgs)
      /\ sindex = Len(printed) % NMESG /\ msgdata[sindex] \in Mesgs
  <2>1. /\ NMESG \in Nat \ {0} /\ Len(printed) \in Nat /\ Taken \in Nat /\ printed \in Seq(Mesgs)
        /\ sindex = Len(printed) % NMESG /\ msgdata \in [0..NMESG - 1 -> Mesgs]
    BY ShmFacts, Zenon DEF ShmTypes, ShmSlots
  <2>2. sindex \in 0..NMESG - 1
    BY <2>1, ModRange
  <2> QED
    BY <2>1, <2>2, Zenon
<1>1. printed' = Append(printed, msgdata[sindex]) /\ UNCHANGED <<msgdata, kpc, ki, koff>>
  BY Zenon DEF print_mesg
<1>2. /\ Len(printed') = Len(printed) + 1 /\ printed'[Len(printed) + 1] = msgdata[sindex]
      /\ \A a \in 1..Len(printed) : printed'[a] = printed[a]
  BY <1>0, <1>1
<1>3. Log' = Log
  <2>1. ASSUME NEW p \in 0..Taken - 1
        PROVE  (IF p < Len(printed') THEN printed'[p + 1] ELSE msgdata[p % NMESG])
                 = (IF p < Len(printed) THEN printed[p + 1] ELSE msgdata[p % NMESG])
    <3>1. CASE p = Len(printed)
      BY <1>0, <1>2, <3>1
    <3>2. CASE p < Len(printed)
      <4>1. p + 1 \in 1..Len(printed) /\ p < Len(printed')
        BY <1>0, <1>2, <3>2
      <4> QED
        BY <1>2, <3>2, <4>1, Zenon
    <3>3. CASE p > Len(printed)
      BY <1>0, <1>2, <3>3
    <3> QED
      BY <1>0, <3>1, <3>2, <3>3
  <2> QED
    BY <1>1, <2>1, Zenon DEF Log
<1>4. Copied' = Copied
  <2>1. ASSUME NEW p \in 0..Taken - 1
        PROVE  (p < Len(printed') \/ ~Copying(p % NMESG)) <=> (p < Len(printed) \/ ~Copying(p % NMESG))
    <3>1. CASE p = Len(printed)
      BY <1>0, <1>2, <3>1, Zenon
    <3>2. CASE p # Len(printed)
      BY <1>0, <1>2, <3>2
    <3> QED
      BY <3>1, <3>2, Zenon
  <2> QED
    BY <1>1, <2>1, Zenon DEF Copied, Copying
<1>5. ASSUME NEW l \in ShmClients, kpc[l] = "copy"
      PROVE  \E p \in Len(printed')..Taken - 1 : koff[l] = p % NMESG /\ \A q \in Copied : q > p => Log[q][1] # l
  <2>1. PICK p \in Len(printed)..Taken - 1 : koff[l] = p % NMESG /\ \A q \in Copied : q > p => Log[q][1] # l
    BY <1>5, Zenon DEF InOrder
  <2>2. p # Len(printed)
    BY <1>0, <1>5, <2>1, Zenon DEF Copying
  <2>3. p \in Len(printed')..Taken - 1
    BY <1>0, <1>2, <2>2
  <2> QED
    BY <2>1, <2>3, Zenon
<1> QED
  BY <1>1, <1>3, <1>4, <1>5 DEF InOrder

(* Every step keeps the invariant.                                         *)
LEMMA ShmInductive == ShmInv /\ [ShmNext]_shmvars => ShmInv'
<1> SUFFICES ASSUME ShmInv, [ShmNext]_shmvars PROVE ShmInv'
  BY Zenon
<1> DEFINE e == shmsem["nempty"]
           t == shmsem["nstored"]
           e1 == shmsem'["nempty"]
           t1 == shmsem'["nstored"]
           Sems == [{"nempty", "nstored"} -> Nat]
<1>0. /\ ShmTypes /\ SlotsAccounted /\ (raced = FALSE => InOrder) /\ raced \in BOOLEAN
      /\ NMESG \in Nat \ {0} /\ Len(printed) \in Nat /\ Taken \in Nat /\ Len(printed) <= Taken /\ Taken <= Len(printed) + NMESG
      /\ e \in Nat /\ t \in Nat /\ Printing \in 0..1 /\ Busy \in Nat /\ Reserved \in Nat
      /\ shmsem \in Sems /\ Log \in [0..Taken - 1 -> Mesgs]
  BY ShmFacts, ShmCounts, LogType, Zenon DEF ShmInv, ShmTypes
<1>a. e + t + Reserved + (IF spc = "nstored" THEN 0 ELSE 1) = NMESG /\ Taken = Len(printed) + (t + Busy + Printing)
  BY <1>0, Zenon DEF SlotsAccounted, Taken
<1>t. Taken' = Len(printed') + (t1 + Busy' + Printing')
  BY Zenon DEF Taken
<1> HIDE DEF e, t, e1, t1
<1>b. nput = Taken % NMESG /\ sindex = Len(printed) % NMESG
  BY <1>0, Zenon DEF ShmTypes
<1>c. kpc \in [ShmClients -> ClientSteps] /\ ki \in [ShmClients -> Nat] /\ koff \in [ShmClients -> ShmSlots]
      /\ spc \in {"nstored", "mutex", "empty"}
  BY <1>0, Zenon DEF ShmTypes
(* A step that reserves, copies and prints nothing.                        *)
<1>1. ASSUME UNCHANGED <<msgdata, nput, sindex, koff, printed, raced>>, Taken' = Taken, SlotsAccounted',
             shmsem' \in Sems, kpc' \in [ShmClients -> ClientSteps], ki' \in [ShmClients -> Nat],
             spc' \in {"nstored", "mutex", "empty"},
             \A k \in ShmClients : kpc'[k] = "copy" <=> kpc[k] = "copy",
             \A k \in ShmClients : ki[k] <= ki'[k] /\ (kpc[k] = "stored" => kpc'[k] = "stored" \/ ki[k] < ki'[k])
      PROVE  ShmInv'
  <2>1. ShmTypes'
    <3>1. raced' \in BOOLEAN
      BY <1>0, <1>1, Zenon
    <3> QED
      BY <1>0, <1>1, <3>1, Zenon DEF ShmTypes
  <2>2. InOrder => InOrder'
    <3>1. \A k \in ShmClients : ki'[k] \in Nat /\ ki[k] <= ki'[k] /\ (kpc[k] = "stored" => kpc'[k] = "stored" \/ ki[k] < ki'[k])
      BY <1>1, Zenon
    <3> QED
      BY <1>0, <1>1, <1>c, <3>1, OrderKept, Zenon
  <2>3. raced' = FALSE => raced = FALSE
    BY <1>1, Zenon
  <2> QED
    BY <1>0, <1>1, <2>1, <2>2, <2>3, Zenon DEF ShmInv
<1>2. ASSUME NEW k \in ShmClients, sem_trywait(k) PROVE ShmInv'
  <2>1. kpc[k] = "trywait" /\ UNCHANGED <<msgdata, nput, sindex, noverflow, ki, koff, spc, printed, raced>>
    BY <1>2, Zenon DEF sem_trywait
  <2>2. PICK l \in {"exit", "mutex", "overflow"} :
          /\ kpc' = [kpc EXCEPT ![k] = l]
          /\ shmsem' \in Sems /\ t1 = t
          /\ e1 = e - (IF l = "mutex" THEN 1 ELSE 0)
    <3>1. CASE ki[k] = ShmLoops
      <4>1. kpc' = [kpc EXCEPT ![k] = "exit"] /\ shmsem' = shmsem
        BY <1>2, <3>1, Zenon DEF sem_trywait, kgoto
      <4> QED
        BY <1>0, <4>1 DEF e, t, e1, t1
    <3>2. CASE ki[k] # ShmLoops /\ shmsem.nempty > 0
      <4>1. kpc' = [kpc EXCEPT ![k] = "mutex"] /\ shmsem' = [shmsem EXCEPT !["nempty"] = @ - 1] /\ e > 0
        BY <1>2, <3>2, Zenon DEF sem_trywait, kgoto, P, e
      <4> QED
        BY <1>0, <4>1 DEF e, t, e1, t1
    <3>3. CASE ki[k] # ShmLoops /\ ~(shmsem.nempty > 0)
      <4>1. kpc' = [kpc EXCEPT ![k] = "overflow"] /\ shmsem' = shmsem
        BY <1>2, <3>3, Zenon DEF sem_trywait, kgoto
      <4> QED
        BY <1>0, <4>1 DEF e, t, e1, t1
    <3> QED
      BY <3>1, <3>2, <3>3, Zenon
  <2>3. /\ kpc' \in [ShmClients -> ClientSteps] /\ kpc'[k] = l /\ \A j \in ShmClients : j # k => kpc'[j] = kpc[j]
    BY <1>c, <2>2, Zenon DEF ClientSteps
  <2>4. Busy' = Busy /\ Reserved' = Reserved + (IF l = "mutex" THEN 1 ELSE 0)
    <3>1. /\ Busy' = Busy + (IF kpc'[k] \in {"copy", "stored"} THEN 1 ELSE 0)
                         - (IF kpc[k] \in {"copy", "stored"} THEN 1 ELSE 0)
          /\ Reserved' = Reserved + (IF kpc'[k] \in {"mutex", "copy", "stored"} THEN 1 ELSE 0)
                                 - (IF kpc[k] \in {"mutex", "copy", "stored"} THEN 1 ELSE 0)
      BY <2>3, BusyMoves, Zenon
    <3> QED
      BY <1>0, <2>1, <2>3, <3>1
  <2>5. SlotsAccounted'
    <3>1. e1 + t1 + Reserved' + (IF spc' = "nstored" THEN 0 ELSE 1) = NMESG
      BY <1>0, <1>a, <2>1, <2>2, <2>4
    <3> QED
      BY <3>1, Zenon DEF SlotsAccounted, e1, t1
  <2>6. Taken' = Taken
    BY <2>1, <2>2, <2>4, Zenon DEF Taken, Printing, t, t1
  <2> QED
    BY <1>1, <1>c, <2>1, <2>2, <2>3, <2>5, <2>6
<1>3. ASSUME NEW k \in ShmClients, count_overflow(k) PROVE ShmInv'
  <2>1. /\ kpc[k] = "overflow" /\ kpc' = [kpc EXCEPT ![k] = "trywait"] /\ ki' = [ki EXCEPT ![k] = @ + 1]
        /\ UNCHANGED <<shmsem, msgdata, nput, sindex, koff, spc, printed, raced>>
    BY <1>3, Zenon DEF count_overflow, next_loop, kgoto
  <2>2. /\ kpc' \in [ShmClients -> ClientSteps] /\ kpc'[k] = "trywait" /\ \A j \in ShmClients : j # k => kpc'[j] = kpc[j]
        /\ ki' \in [ShmClients -> Nat] /\ ki'[k] = ki[k] + 1 /\ \A j \in ShmClients : j # k => ki'[j] = ki[j]
    BY <1>c, <2>1 DEF ClientSteps
  <2>3. Busy' = Busy /\ Reserved' = Reserved
    <3>1. /\ Busy' = Busy + (IF kpc'[k] \in {"copy", "stored"} THEN 1 ELSE 0)
                         - (IF kpc[k] \in {"copy", "stored"} THEN 1 ELSE 0)
          /\ Reserved' = Reserved + (IF kpc'[k] \in {"mutex", "copy", "stored"} THEN 1 ELSE 0)
                                 - (IF kpc[k] \in {"mutex", "copy", "stored"} THEN 1 ELSE 0)
      BY <2>2, BusyMoves, Zenon
    <3> QED
      BY <1>0, <2>1, <2>2, <3>1
  <2>4. SlotsAccounted' /\ Taken' = Taken
    BY <1>0, <2>1, <2>3, Zenon DEF SlotsAccounted, Taken, Printing
  <2> QED
    BY <1>0, <1>1, <1>c, <2>1, <2>2, <2>4
<1>4. ASSUME NEW k \in ShmClients, reserve(k) PROVE ShmInv'
  <2>1. /\ kpc[k] = "mutex" /\ kpc' = [kpc EXCEPT ![k] = "copy"] /\ koff' = [koff EXCEPT ![k] = nput]
        /\ nput' = circular(nput) /\ UNCHANGED <<shmsem, msgdata, sindex, ki, spc, printed, raced>>
    BY <1>4, Zenon DEF reserve, kgoto
  <2>2. /\ kpc' \in [ShmClients -> ClientSteps] /\ kpc'[k] = "copy" /\ \A j \in ShmClients : j # k => kpc'[j] = kpc[j]
    BY <1>c, <2>1, Zenon DEF ClientSteps
  <2>3. Busy' = Busy + 1 /\ Reserved' = Reserved
    <3>1. /\ Busy' = Busy + (IF kpc'[k] \in {"copy", "stored"} THEN 1 ELSE 0)
                         - (IF kpc[k] \in {"copy", "stored"} THEN 1 ELSE 0)
          /\ Reserved' = Reserved + (IF kpc'[k] \in {"mutex", "copy", "stored"} THEN 1 ELSE 0)
                                 - (IF kpc[k] \in {"mutex", "copy", "stored"} THEN 1 ELSE 0)
      BY <2>2, BusyMoves, Zenon
    <3> QED
      BY <1>0, <2>1, <2>2, <3>1
  <2>4. Taken' = Taken + 1
    <3>1. t1 = t /\ Printing' = Printing /\ Len(printed') = Len(printed)
      BY <2>1, Zenon DEF Printing, t, t1
    <3> QED
      BY <1>0, <1>a, <1>t, <2>3, <3>1
  <2>5. SlotsAccounted'
    BY <1>0, <2>1, <2>3, Zenon DEF SlotsAccounted
  <2>6. nput' = Taken' % NMESG
    BY <1>0, <1>b, <2>1, <2>4, NextMod, Zenon DEF circular
  <2>7. koff' \in [ShmClients -> ShmSlots]
    <3>1. nput \in ShmSlots
      BY <1>0, <1>b, ModRange DEF ShmSlots
    <3> QED
      BY <1>c, <2>1, <3>1, Zenon
  <2>8. ShmTypes'
    <3>1. raced' \in BOOLEAN
      BY <1>0, <2>1, Zenon
    <3> QED
      BY <1>0, <2>1, <2>2, <2>6, <2>7, <3>1, Zenon DEF ShmTypes
  <2>9. raced' = FALSE => InOrder'
    <3>1. InOrder => InOrder'
      BY <1>0, <1>4, <2>4, ReserveKeepsOrder, Zenon
    <3> QED
      BY <1>0, <2>1, <3>1, Zenon
  <2> QED
    BY <2>5, <2>8, <2>9, Zenon DEF ShmInv
<1>5. ASSUME NEW k \in ShmClients, copy_mesg(k) PROVE ShmInv'
  <2>1. /\ kpc[k] = "copy" /\ kpc' = [kpc EXCEPT ![k] = "stored"] /\ msgdata' = [msgdata EXCEPT ![koff[k]] = <<k, ki[k]>>]
        /\ UNCHANGED <<shmsem, nput, sindex, ki, koff, spc, printed, raced>>
    BY <1>5, Zenon DEF copy_mesg, kgoto
  <2>2. /\ kpc' \in [ShmClients -> ClientSteps] /\ kpc'[k] = "stored" /\ \A j \in ShmClients : j # k => kpc'[j] = kpc[j]
    BY <1>c, <2>1, Zenon DEF ClientSteps
  <2>3. Busy' = Busy /\ Reserved' = Reserved
    <3>1. /\ Busy' = Busy + (IF kpc'[k] \in {"copy", "stored"} THEN 1 ELSE 0)
                         - (IF kpc[k] \in {"copy", "stored"} THEN 1 ELSE 0)
          /\ Reserved' = Reserved + (IF kpc'[k] \in {"mutex", "copy", "stored"} THEN 1 ELSE 0)
                                 - (IF kpc[k] \in {"mutex", "copy", "stored"} THEN 1 ELSE 0)
      BY <2>2, BusyMoves, Zenon
    <3> QED
      BY <1>0, <2>1, <2>2, <3>1
  <2>4. Taken' = Taken /\ SlotsAccounted'
    BY <1>0, <2>1, <2>3, Zenon DEF Taken, Printing, SlotsAccounted
  <2>5. msgdata' \in [ShmSlots -> Mesgs]
    <3>1. <<k, ki[k]>> \in Mesgs
      BY <1>c, Zenon DEF Mesgs
    <3> QED
      BY <1>0, <1>c, <2>1, <3>1, Zenon DEF ShmTypes
  <2>6. ShmTypes'
    <3>1. raced' \in BOOLEAN
      BY <1>0, <2>1, Zenon
    <3> QED
      BY <1>0, <2>1, <2>2, <2>4, <2>5, <3>1, Zenon DEF ShmTypes
  <2>7. raced' = FALSE => InOrder'
    <3>1. InOrder => InOrder'
      BY <1>0, <1>5, <2>4, CopyKeepsOrder, Zenon
    <3> QED
      BY <1>0, <2>1, <3>1, Zenon
  <2> QED
    BY <2>4, <2>6, <2>7, Zenon DEF ShmInv
<1>6. ASSUME NEW k \in ShmClients, post_stored(k) PROVE ShmInv'
  <2>1. /\ kpc[k] = "stored" /\ kpc' = [kpc EXCEPT ![k] = "trywait"] /\ ki' = [ki EXCEPT ![k] = @ + 1]
        /\ shmsem' = [shmsem EXCEPT !["nstored"] = @ + 1]
        /\ UNCHANGED <<msgdata, nput, sindex, koff, spc, printed, raced>>
    BY <1>6, Zenon DEF post_stored, next_loop, kgoto, V
  <2>2. /\ kpc' \in [ShmClients -> ClientSteps] /\ kpc'[k] = "trywait" /\ \A j \in ShmClients : j # k => kpc'[j] = kpc[j]
        /\ ki' \in [ShmClients -> Nat] /\ ki'[k] = ki[k] + 1 /\ \A j \in ShmClients : j # k => ki'[j] = ki[j]
    BY <1>c, <2>1 DEF ClientSteps
  <2>3. shmsem' \in Sems /\ e1 = e /\ t1 = t + 1
    BY <1>0, <2>1 DEF e, t, e1, t1
  <2>4. Busy' = Busy - 1 /\ Reserved' = Reserved - 1
    <3>1. /\ Busy' = Busy + (IF kpc'[k] \in {"copy", "stored"} THEN 1 ELSE 0)
                         - (IF kpc[k] \in {"copy", "stored"} THEN 1 ELSE 0)
          /\ Reserved' = Reserved + (IF kpc'[k] \in {"mutex", "copy", "stored"} THEN 1 ELSE 0)
                                 - (IF kpc[k] \in {"mutex", "copy", "stored"} THEN 1 ELSE 0)
      BY <2>2, BusyMoves, Zenon
    <3> QED
      BY <1>0, <2>1, <2>2, <3>1
  <2>5. SlotsAccounted'
    <3>1. e1 + t1 + Reserved' + (IF spc' = "nstored" THEN 0 ELSE 1) = NMESG
      BY <1>0, <1>a, <2>1, <2>3, <2>4
    <3> QED
      BY <3>1, Zenon DEF SlotsAccounted, e1, t1
  <2>6. Taken' = Taken
    BY <1>0, <1>a, <2>1, <2>3, <2>4 DEF Taken, Printing, t, t1
  <2> QED
    BY <1>1, <1>c, <2>1, <2>2, <2>3, <2>5, <2>6
<1>7. CASE Sem_wait_nstored
  <2>1. /\ spc = "nstored" /\ spc' = "mutex" /\ t > 0 /\ shmsem' = [shmsem EXCEPT !["nstored"] = @ - 1]
        /\ UNCHANGED <<msgdata, nput, sindex, kpc, ki, koff, printed, raced>>
    BY <1>7, Zenon DEF Sem_wait_nstored, P, t
  <2>2. shmsem' \in Sems /\ e1 = e /\ t1 = t - 1
    BY <1>0, <2>1 DEF e, t, e1, t1
  <2>3. Busy' = Busy /\ Reserved' = Reserved
    BY <2>1, Zenon DEF Busy, Reserved
  <2>4. SlotsAccounted'
    <3>1. e1 + t1 + Reserved' + (IF spc' = "nstored" THEN 0 ELSE 1) = NMESG
      BY <1>0, <1>a, <2>1, <2>2, <2>3
    <3> QED
      BY <3>1, Zenon DEF SlotsAccounted, e1, t1
  <2>5. Taken' = Taken
    BY <1>0, <1>a, <2>1, <2>2, <2>3 DEF Taken, Printing, t, t1
  <2> QED
    BY <1>1, <1>c, <2>1, <2>2, <2>4, <2>5
<1>8. CASE print_mesg
  <2>1. /\ spc = "mutex" /\ spc' = "empty" /\ printed' = Append(printed, msgdata[sindex]) /\ sindex' = circular(sindex)
        /\ UNCHANGED <<shmsem, msgdata, nput, kpc, ki, koff>>
    BY <1>8, Zenon DEF print_mesg
  <2>2. printed \in Seq(Mesgs) /\ msgdata[sindex] \in Mesgs
    <3>1. sindex \in ShmSlots
      <4>0. Len(printed) \in Int /\ NMESG \in Nat \ {0}
        BY <1>0
      <4>1. Len(printed) % NMESG \in 0..NMESG - 1
        BY <4>0, ModRange, Zenon
      <4> QED
        BY <1>b, <4>1, Zenon DEF ShmSlots
    <3> QED
      BY <1>0, <3>1, Zenon DEF ShmTypes
  <2>3. printed' \in Seq(Mesgs) /\ Len(printed') = Len(printed) + 1
    BY <2>1, <2>2
  <2>4. Busy' = Busy /\ Reserved' = Reserved
    BY <2>1, Zenon DEF Busy, Reserved
  <2>5. Taken' = Taken /\ SlotsAccounted'
    <3>1. SlotsAccounted'
      BY <1>0, <2>1, <2>4, Zenon DEF SlotsAccounted
    <3>2. Taken' = Taken
      <4>1. t1 = t /\ Printing = 1 /\ Printing' = 0
        BY <2>1, Zenon DEF Printing, t, t1
      <4> QED
        BY <1>0, <1>a, <1>t, <2>3, <2>4, <4>1
    <3> QED
      BY <3>1, <3>2, Zenon
  <2>6. sindex' = Len(printed') % NMESG
    <3>1. (Len(printed) + 1) % NMESG =
            IF (Len(printed) % NMESG) + 1 >= NMESG THEN 0 ELSE (Len(printed) % NMESG) + 1
      BY <1>0, NextMod, Zenon
    <3> QED
      BY <1>b, <2>1, <2>3, <3>1, Zenon DEF circular
  <2>7. raced' \in BOOLEAN /\ (raced' = FALSE => raced = FALSE /\ ~Copying(sindex))
    BY <1>0, <1>8, Zenon DEF print_mesg, Copying
  <2>8. ShmTypes'
    BY <1>0, <1>b, <2>1, <2>3, <2>5, <2>6, <2>7, Zenon DEF ShmTypes
  <2>9. raced' = FALSE => InOrder'
    BY <1>0, <1>8, <2>5, <2>7, PrintKeepsOrder, Zenon
  <2> QED
    BY <2>5, <2>8, <2>9, Zenon DEF ShmInv
<1>9. CASE Sem_post_nempty
  <2>1. /\ spc = "empty" /\ spc' = "nstored" /\ shmsem' = [shmsem EXCEPT !["nempty"] = @ + 1]
        /\ UNCHANGED <<msgdata, nput, sindex, kpc, ki, koff, printed, raced>>
    BY <1>9, Zenon DEF Sem_post_nempty, V
  <2>2. shmsem' \in Sems /\ e1 = e + 1 /\ t1 = t
    BY <1>0, <2>1 DEF e, t, e1, t1
  <2>3. Busy' = Busy /\ Reserved' = Reserved
    BY <2>1, Zenon DEF Busy, Reserved
  <2>4. SlotsAccounted'
    <3>1. e1 + t1 + Reserved' + (IF spc' = "nstored" THEN 0 ELSE 1) = NMESG
      BY <1>0, <1>a, <2>1, <2>2, <2>3
    <3> QED
      BY <3>1 DEF SlotsAccounted, e1, t1
  <2>5. Taken' = Taken
    BY <1>0, <1>a, <2>1, <2>2, <2>3, Zenon DEF Taken, Printing, t, t1
  <2> QED
    BY <1>1, <1>c, <2>1, <2>2, <2>4, <2>5
<1>10. CASE UNCHANGED shmvars
  <2>1. UNCHANGED <<shmsem, msgdata, nput, sindex, kpc, ki, koff, spc, printed, raced>>
    BY <1>10, Zenon DEF shmvars
  <2>2. Busy' = Busy /\ Reserved' = Reserved
    BY <2>1, Zenon DEF Busy, Reserved
  <2>3. SlotsAccounted' /\ Taken' = Taken
    BY <1>0, <2>1, <2>2, Zenon DEF SlotsAccounted, Taken, Printing
  <2> QED
    BY <1>0, <1>1, <1>c, <2>1, <2>3
<1> QED
  BY <1>2, <1>3, <1>4, <1>5, <1>6, <1>7, <1>8, <1>9, <1>10 DEF ShmNext, shm_client, shm_server

(* Every slot of the ring is empty, reserved, stored or with the server,   *)
(* and each message is printed once and those of a client in order unless  *)
(* the server has read a slot between its reservation and its copy: for    *)
(* every set of clients and every size of the ring.                        *)
THEOREM ShmRingIsSafe == ShmSpec => []ShmSafe
<1>1. ShmInit => ShmInv
  BY ShmInitially, Zenon
<1>2. ShmInv /\ [ShmNext]_shmvars => ShmInv'
  BY ShmInductive, Zenon
<1>3. ShmInv => ShmSafe
  BY ShmBounds, Zenon
<1> QED
  BY <1>1, <1>2, <1>3, PTL DEF ShmSpec

-----------------------------------------------------------------------------
(* MqNotify. The registration is in exactly one place at any time.         *)

(* The registration, wherever it is, keeps a second one out: with it the   *)
(* program is never turned away by EBUSY.                                  *)
NotBusy == mpc # "ebusy"

NotifyInv == NotifySafe /\ NotBusy /\ prog \in Programs /\ nread \in Nat

(* It holds at the start.                                                  *)
LEMMA NotifyInitially == NotifyInit => NotifyInv
<1> SUFFICES ASSUME NotifyInit PROVE NotifyInv
  BY Zenon
<1>1. registered /\ ~sigpend /\ registered \in BOOLEAN /\ sigpend \in BOOLEAN
  BY Zenon DEF NotifyInit
<1> QED
  BY <1>1, SentAssumption DEF NotifyInit, NotifyInv, NotifySafe, NotifyTypeOK, OneRegistration, NotBusy

(* Every step keeps the invariant.                                         *)
LEMMA NotifyInductive == NotifyInv /\ [NotifyNext]_notifyvars => NotifyInv'
<1> SUFFICES ASSUME NotifyInv, [NotifyNext]_notifyvars PROVE NotifyInv'
  BY Zenon
<1> USE SentAssumption DEF NotifyInv, NotifySafe, NotifyTypeOK, OneRegistration, NotBusy
<1>1. CASE UNCHANGED notifyvars
  BY <1>1, Zenon DEF notifyvars
<1>2. CASE mq_send
  <2>1. CASE mpc = "blocked"
    BY <1>2, <2>1 DEF mq_send
  <2>2. CASE mpc # "blocked" /\ mqcurmsgs = 0 /\ registered
    <3>1. /\ registered /\ ~registered' /\ registered' \in BOOLEAN
          /\ sigpend' /\ sigpend' \in BOOLEAN
      BY <1>2, <2>2, Zenon DEF mq_send
    <3>2. ~sigpend /\ mqflag = 0 /\ mpc # "reregister"
      BY <2>2
    <3> QED
      BY <1>2, <2>2, <3>1, <3>2 DEF mq_send
  <2>3. CASE mpc # "blocked" /\ ~(mqcurmsgs = 0 /\ registered)
    BY <1>2, <2>3 DEF mq_send
  <2> QED
    BY <2>1, <2>2, <2>3, Zenon
<1>3. CASE sig_usr1
  <2>1. sigpend /\ ~sigpend' /\ sigpend' \in BOOLEAN
    BY <1>3, Zenon DEF sig_usr1
  <2>2. mqflag' = 1
    BY <1>3, <2>1 DEF sig_usr1, flagged
  <2> QED
    BY <1>3, <2>1, <2>2 DEF sig_usr1
<1>4. CASE notified
  <2>1. CASE prog \in {"sig1", "sig4"}
    <3>1. sigpend /\ ~sigpend' /\ sigpend' \in BOOLEAN
      BY <1>4, <2>1, Zenon DEF notified
    <3> QED
      BY <1>4, <2>1, <3>1 DEF notified
  <2>2. CASE prog \notin {"sig1", "sig4"}
    BY <1>4, <2>2 DEF notified
  <2> QED
    BY <2>1, <2>2, Zenon
<1>5. CASE reregister
  <2>1. ~registered
    BY <1>5 DEF reregister
  <2>2. registered' /\ registered' \in BOOLEAN
    BY <1>5, <2>1, Zenon DEF reregister
  <2> QED
    BY <1>5, <2>1, <2>2 DEF reregister
<1>6. CASE mq_receive
  BY <1>6 DEF mq_receive, after_receive, on_empty
<1> QED
  BY <1>1, <1>2, <1>3, <1>4, <1>5, <1>6, Zenon DEF NotifyNext, reader

(* The registration is in exactly one place, the kernel, the pending       *)
(* signal, the flag or pipe, or the program about to register again: in    *)
(* every program of the mq_notify series, for every number of messages.    *)
THEOREM RegistrationSafe == NotifySpec => []NotifySafe
BY NotifyInitially, NotifyInductive, PTL DEF NotifySpec, NotifyInv

(* mq_notify never finds the queue taken (EBUSY).                          *)
THEOREM NeverBusy == NotifySpec => []NotBusy
BY NotifyInitially, NotifyInductive, PTL DEF NotifySpec, NotifyInv

=============================================================================
