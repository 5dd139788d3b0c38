---------------------------- MODULE ThreadProofs ----------------------------
(***************************************************************************)
(* Threads over shared memory: producers and consumers with semaphores and *)
(* with condition variables, RCU, two threads that take turns, and the     *)
(* ring of serv08.c.                                                       *)
(*                                                                         *)
(* Each section has a component's inductive invariant, the lemmas that it  *)
(* holds at first and that every step keeps it, and the theorem that       *)
(* follows.                                                                *)
(***************************************************************************)
EXTENDS ProdCons1, Rcu, ProdConsCond, TwoThreads, Serv08, CountingLemmas

(* The default of every leaf that names no prover: Z3 with twenty seconds, *)
(* then Zenon with thirty.                                                 *)
USE SMTT(20), ZenonT(30)

-----------------------------------------------------------------------------
(* ProdCons1. The three semaphores, the places of the two threads and the  *)
(* contents of the slots account for one another.                          *)

Inside1 == {"body", "unlock"}

(* How many of the two threads are in A.                                   *)
LEMMA OfTwo ==
    ASSUME NEW f, NEW A
    PROVE  Cardinality(Those({"produce", "consume"}, f, A)) =
             (IF f["produce"] \in A THEN 1 ELSE 0) + (IF f["consume"] \in A THEN 1 ELSE 0)
<1> DEFINE S == Those({"produce", "consume"}, f, A)
<1>0. IsFiniteSet({}) /\ Cardinality({}) = 0
  BY FS_EmptySet, Zenon
<1>1. Cardinality({"produce"}) = 1 /\ Cardinality({"consume"}) = 1 /\ IsFiniteSet({"produce"})
  BY FS_Singleton, Zenon
<1>2. Cardinality({"produce"} \cup {"consume"}) = 2
  <2>1. "consume" \notin {"produce"}
    BY Zenon
  <2> QED
    BY <1>1, <2>1, FS_AddElement
<1>3. CASE f["produce"] \in A /\ f["consume"] \in A
  <2>1. S = {"produce"} \cup {"consume"}
    BY <1>3, Zenon DEF Those
  <2> QED
    BY <1>2, <1>3, <2>1
<1>4. CASE f["produce"] \in A /\ f["consume"] \notin A
  <2>1. S = {"produce"}
    BY <1>4, Zenon DEF Those
  <2> QED
    BY <1>1, <1>4, <2>1
<1>5. CASE f["produce"] \notin A /\ f["consume"] \in A
  <2>1. S = {"consume"}
    BY <1>5, Zenon DEF Those
  <2> QED
    BY <1>1, <1>5, <2>1
<1>6. CASE f["produce"] \notin A /\ f["consume"] \notin A
  <2>1. S = {}
    BY <1>6, Zenon DEF Those
  <2> QED
    BY <1>0, <1>6, <2>1
<1> QED
  BY <1>3, <1>4, <1>5, <1>6, Zenon

(* Where each item and each slot is. *)
Passed1 ==
    /\ sem_count["nstored"] + (IF pc["consume"] # "slot" THEN 1 ELSE 0) + i["consume"] = i["produce"]
    /\ sem_count["nempty"] + (IF pc["produce"] # "slot" THEN 1 ELSE 0) + i["produce"] = NBUFF + i["consume"]
    /\ sem_count["mutex"] + (IF pc["produce"] \in Inside1 THEN 1 ELSE 0) + (IF pc["consume"] \in Inside1 THEN 1 ELSE 0) = 1
    /\ \A t \in Threads : pc[t] # "slot" => i[t] < nitems

Stored1 ==
    /\ \A k \in i["consume"]..i["produce"] - 1 : buff[k % NBUFF] = k
    /\ pc["produce"] \in {"unlock", "post"} => buff[i["produce"] % NBUFF] = i["produce"]

PC1Inv == ProdConsTypeOK /\ Passed1 /\ Stored1

(* The threads and the semaphores of prodcons1.c.                          *)
LEMMA PC1Facts ==
    /\ NBUFF \in Nat \ {0} /\ nitems \in Nat /\ MaxCount \in Nat
    /\ Threads = {"produce", "consume"} /\ Sems = {"mutex", "nempty", "nstored"}
BY ProdConsAssumption, SemAssumption, Zenon

(* What the invariant says of the items.                                   *)
LEMMA PC1Bounds == PC1Inv => ProdConsSafe
<1> SUFFICES ASSUME PC1Inv PROVE ProdConsSafe
  BY Zenon
<1>0. /\ ProdConsTypeOK /\ Passed1 /\ Stored1
      /\ sem_count["mutex"] \in Nat /\ sem_count["nempty"] \in Nat /\ sem_count["nstored"] \in Nat
      /\ i["produce"] \in Nat /\ i["consume"] \in Nat /\ NBUFF \in Nat
      /\ pc["produce"] \in {"slot", "mutex", "body", "unlock", "post"} /\ pc["consume"] \in {"slot", "mutex", "body", "unlock", "post"}
  BY PC1Facts DEF PC1Inv, ProdConsTypeOK, TypeOK
<1>1. InOrder
  <2> SUFFICES ASSUME pc["consume"] = "body" PROVE buff[i["consume"] % NBUFF] = i["consume"]
    BY Zenon DEF InOrder
  <2>1. i["consume"] <= i["produce"] - 1
    BY <1>0 DEF Passed1
  <2> QED
    BY <1>0, <2>1 DEF Stored1
<1>2. SlotsCounted
  <2> DEFINE A == {"mutex", "body", "unlock", "post"}
  <2>1. {t \in Threads : pc[t] # "slot"} = Those({"produce", "consume"}, pc, A)
    BY <1>0, PC1Facts, Zenon DEF Those
  <2>2. Cardinality(Those({"produce", "consume"}, pc, A)) =
             (IF pc["produce"] \in A THEN 1 ELSE 0) + (IF pc["consume"] \in A THEN 1 ELSE 0)
    BY OfTwo, Zenon
  <2>3. sem_count["nempty"] + sem_count["nstored"] + ((IF pc["produce"] # "slot" THEN 1 ELSE 0) + (IF pc["consume"] # "slot" THEN 1 ELSE 0)) = NBUFF
    BY <1>0 DEF Passed1
  <2>4. (pc["produce"] \in A <=> pc["produce"] # "slot") /\ (pc["consume"] \in A <=> pc["consume"] # "slot")
    BY <1>0, Zenon
  <2> QED
    BY <2>1, <2>2, <2>3, <2>4, Zenon DEF SlotsCounted
<1>3. BufferExclusive
  <2>1. {t \in Threads : pc[t] \in {"body", "unlock"}} = Those({"produce", "consume"}, pc, Inside1)
    BY <1>0, PC1Facts, Zenon DEF Those, Inside1
  <2>2. Cardinality(Those({"produce", "consume"}, pc, Inside1)) =
             (IF pc["produce"] \in Inside1 THEN 1 ELSE 0) + (IF pc["consume"] \in Inside1 THEN 1 ELSE 0)
    BY OfTwo, Zenon
  <2>3. sem_count["mutex"] + ((IF pc["produce"] \in Inside1 THEN 1 ELSE 0) + (IF pc["consume"] \in Inside1 THEN 1 ELSE 0)) = 1
    BY <1>0 DEF Passed1
  <2> QED
    BY <2>1, <2>2, <2>3, Zenon DEF BufferExclusive
<1> QED
  BY <1>0, <1>1, <1>2, <1>3, Zenon DEF ProdConsSafe

(* It holds at the start.                                                  *)
LEMMA PC1Initially == ProdConsInit => PC1Inv
<1> SUFFICES ASSUME ProdConsInit PROVE PC1Inv
  BY Zenon
<1>1. /\ i["produce"] = 0 /\ i["consume"] = 0 /\ pc["produce"] = "slot" /\ pc["consume"] = "slot"
      /\ i \in [Threads -> 0..nitems] /\ pc \in [Threads -> {"slot", "mutex", "body", "unlock", "post"}]
      /\ \A t \in Threads : pc[t] = "slot"
  BY PC1Facts DEF ProdConsInit
<1>2. sem_count["mutex"] = 1 /\ sem_count["nempty"] = NBUFF /\ sem_count["nstored"] = 0
  BY ProdConsAssumption, Zenon DEF ProdConsInit, Init, opened
<1>3. TypeOK
  BY SemAssumption, Zenon DEF ProdConsInit, Init, TypeOK
<1>4. buff \in [0..(NBUFF - 1) -> 0..nitems]
  BY PC1Facts DEF ProdConsInit
<1> QED
  BY <1>1, <1>2, <1>3, <1>4, PC1Facts DEF PC1Inv, ProdConsTypeOK, Passed1, Stored1, Inside1

(* What a step of Sem_wait does: it waits, or it returns and takes one.    *)
LEMMA WaitReturns ==
    ASSUME TypeOK, NEW t \in Threads, NEW s \in Sems, mysem_wait(t, s)
    PROVE  /\ TypeOK'
           /\ \/ waits(t, s)' /\ sem_count' = sem_count
              \/ ~waits(t, s)' /\ sem_count[s] > 0 /\ sem_count' = [sem_count EXCEPT ![s] = @ - 1]
<1>1. CASE sem_block(t, s)
  <2>1. TypeOK'
    BY <1>1, Zenon DEF mysem_wait, sem_block, TypeOK
  <2>2. waits(t, s)' /\ sem_count' = sem_count
    BY <1>1, Zenon DEF mysem_wait, sem_block, TypeOK, waits
  <2> QED
    BY <2>1, <2>2, Zenon
<1>2. CASE sem_take(t, s)
  <2>1. TypeOK'
    BY <1>2, SemAssumption DEF mysem_wait, sem_take, TypeOK
  <2>2. t \notin blocked'[s] /\ t \notin woken'[s]
    BY <1>2, Zenon DEF mysem_wait, sem_take, TypeOK
  <2>3. ~waits(t, s)' /\ sem_count[s] > 0 /\ sem_count' = [sem_count EXCEPT ![s] = @ - 1]
    BY <1>2, <2>2, Zenon DEF sem_take, waits
  <2> QED
    BY <2>1, <2>3, Zenon
<1> QED
  BY <1>1, <1>2, Zenon DEF mysem_wait

(* What Sem_post does: it adds one.                                        *)
LEMMA PostAdds ==
    ASSUME TypeOK, NEW s \in Sems, mysem_post(s)
    PROVE  TypeOK' /\ sem_count' = [sem_count EXCEPT ![s] = @ + 1]
BY SemAssumption DEF mysem_post, TypeOK

(* Every step keeps the invariant.                                         *)
LEMMA PC1Inductive == PC1Inv /\ [ProdConsNext]_vars => PC1Inv'
<1> SUFFICES ASSUME PC1Inv, [ProdConsNext]_vars PROVE PC1Inv'
  BY Zenon
<1> DEFINE Steps1 == {"slot", "mutex", "body", "unlock", "post"}
           P == "produce"
           C == "consume"
<1>0. /\ ProdConsTypeOK /\ TypeOK /\ Passed1 /\ Stored1
      /\ sem_count["mutex"] \in Nat /\ sem_count["nempty"] \in Nat /\ sem_count["nstored"] \in Nat
      /\ i[P] \in Nat /\ i[C] \in Nat /\ NBUFF \in Nat \ {0} /\ nitems \in Nat
      /\ pc[P] \in Steps1 /\ pc[C] \in Steps1
  BY PC1Facts DEF PC1Inv, ProdConsTypeOK, TypeOK
<1>00. /\ i \in [Threads -> 0..nitems] /\ pc \in [Threads -> Steps1]
       /\ buff \in [0..(NBUFF - 1) -> 0..nitems]
       /\ Threads = {P, C} /\ Sems = {"mutex", "nempty", "nstored"}
       /\ sem_count \in [Sems -> 0..MaxCount]
  BY <1>0, PC1Facts, Zenon DEF ProdConsTypeOK, TypeOK
(* A step that changes the semaphores and one program counter.             *)
<1>1. ASSUME TypeOK', Passed1', NEW t \in Threads, NEW s \in Steps1, pc' = [pc EXCEPT ![t] = s],
             UNCHANGED <<buff, i>>,
             t = P /\ s \in {"unlock", "post"} => pc[P] \in {"unlock", "post"}
      PROVE  PC1Inv'
  <2>1. pc' \in [Threads -> Steps1] /\ (pc'[P] \in {"unlock", "post"} => pc[P] \in {"unlock", "post"})
    BY <1>0, <1>00, <1>1, Zenon
  <2>2. ProdConsTypeOK'
    BY <1>00, <1>1, <2>1, Zenon DEF ProdConsTypeOK
  <2>3. Stored1'
    BY <1>0, <1>1, <2>1, Zenon DEF Stored1
  <2> QED
    BY <1>1, <2>2, <2>3, Zenon DEF PC1Inv
<1>2. ASSUME UNCHANGED <<sem_count, buff, i, pc>>, TypeOK' PROVE PC1Inv'
  BY <1>0, <1>2, Zenon DEF PC1Inv, ProdConsTypeOK, Passed1, Stored1
<1>3. ASSUME NEW t \in Threads, wait_slot(t) PROVE PC1Inv'
  <2>0. supply(t) \in Sems /\ mysem_wait(t, supply(t)) /\ i[t] < nitems /\ UNCHANGED <<buff, i>> /\ pc[t] = "slot"
    BY <1>00, <1>3, Zenon DEF wait_slot, Mysem_wait, supply, goto
  <2>1. /\ TypeOK'
        /\ \/ waits(t, supply(t))' /\ sem_count' = sem_count
           \/ /\ ~waits(t, supply(t))' /\ sem_count[supply(t)] > 0
              /\ sem_count' = [sem_count EXCEPT ![supply(t)] = @ - 1]
    BY <1>0, <2>0, WaitReturns, Zenon
  <2>2. CASE waits(t, supply(t))' /\ sem_count' = sem_count
    <3>1. pc' = pc
      BY <1>00, <1>3, <2>0, <2>2, Zenon DEF wait_slot, Mysem_wait, goto
    <3> QED
      BY <1>2, <2>0, <2>1, <2>2, <3>1, Zenon
  <2>3. CASE ~waits(t, supply(t))' /\ sem_count[supply(t)] > 0 /\ sem_count' = [sem_count EXCEPT ![supply(t)] = @ - 1]
    <3>1. pc' = [pc EXCEPT ![t] = "mutex"] /\ pc'[t] = "mutex"
      BY <1>00, <1>3, <2>0, <2>3, Zenon DEF wait_slot, Mysem_wait, goto
    <3>2. CASE t = P
      <4>1. /\ sem_count'["nempty"] = sem_count["nempty"] - 1 /\ sem_count["nempty"] > 0
            /\ sem_count'["mutex"] = sem_count["mutex"] /\ sem_count'["nstored"] = sem_count["nstored"]
            /\ pc'[P] = "mutex" /\ pc'[C] = pc[C] /\ pc[P] = "slot" /\ i[P] < nitems
        BY <1>00, <2>0, <2>3, <3>1, <3>2, Zenon DEF supply
      <4>2. Passed1'
        <5>1. sem_count'["nstored"] + (IF pc'["consume"] # "slot" THEN 1 ELSE 0) + i'["consume"] = i'["produce"]
          BY <1>0, <1>00, <2>0, <4>1, Zenon DEF Passed1, Inside1
        <5>2. sem_count'["nempty"] + (IF pc'["produce"] # "slot" THEN 1 ELSE 0) + i'["produce"] = NBUFF + i'["consume"]
          BY <1>0, <1>00, <2>0, <4>1 DEF Passed1, Inside1
        <5>3. sem_count'["mutex"] + (IF pc'["produce"] \in Inside1 THEN 1 ELSE 0) + (IF pc'["consume"] \in Inside1 THEN 1 ELSE 0) = 1
          BY <1>0, <1>00, <2>0, <4>1, Zenon DEF Passed1, Inside1
        <5>4. \A q \in Threads : pc'[q] # "slot" => i'[q] < nitems
          BY <1>0, <1>00, <2>0, <4>1, Zenon DEF Passed1, Inside1
        <5> QED
          BY <5>1, <5>2, <5>3, <5>4, Zenon DEF Passed1
      <4> QED
        BY <1>1, <2>0, <2>1, <3>1, <4>2, Zenon
    <3>3. CASE t = C
      <4>1. /\ sem_count'["nstored"] = sem_count["nstored"] - 1 /\ sem_count["nstored"] > 0
            /\ sem_count'["mutex"] = sem_count["mutex"] /\ sem_count'["nempty"] = sem_count["nempty"]
            /\ pc'[C] = "mutex" /\ pc'[P] = pc[P] /\ pc[C] = "slot" /\ i[C] < nitems
        BY <1>00, <2>0, <2>3, <3>1, <3>3, Zenon DEF supply
      <4>2. Passed1'
        BY <1>0, <1>00, <2>0, <4>1 DEF Passed1, Inside1
      <4> QED
        BY <1>1, <2>0, <2>1, <3>1, <4>2, Zenon
    <3> QED
      BY <1>00, <3>2, <3>3, Zenon
  <2> QED
    BY <2>1, <2>2, <2>3, Zenon
<1>4. ASSUME NEW t \in Threads, wait_mutex(t) PROVE PC1Inv'
  <2>0. "mutex" \in Sems /\ mysem_wait(t, "mutex") /\ UNCHANGED <<buff, i>> /\ pc[t] = "mutex"
    BY <1>00, <1>4, Zenon DEF wait_mutex, Mysem_wait, goto
  <2>1. /\ TypeOK'
        /\ \/ waits(t, "mutex")' /\ sem_count' = sem_count
           \/ ~waits(t, "mutex")' /\ sem_count["mutex"] > 0 /\ sem_count' = [sem_count EXCEPT !["mutex"] = @ - 1]
    BY <1>0, <2>0, WaitReturns, Zenon
  <2>2. CASE waits(t, "mutex")' /\ sem_count' = sem_count
    <3>1. pc' = pc
      BY <1>00, <1>4, <2>0, <2>2, Zenon DEF wait_mutex, Mysem_wait, goto
    <3> QED
      BY <1>2, <2>0, <2>1, <2>2, <3>1, Zenon
  <2>3. CASE ~waits(t, "mutex")' /\ sem_count["mutex"] > 0 /\ sem_count' = [sem_count EXCEPT !["mutex"] = @ - 1]
    <3>1. pc' = [pc EXCEPT ![t] = "body"] /\ pc'[t] = "body"
      BY <1>00, <1>4, <2>0, <2>3, Zenon DEF wait_mutex, Mysem_wait, goto
    <3>2. /\ sem_count'["mutex"] = sem_count["mutex"] - 1
          /\ sem_count'["nempty"] = sem_count["nempty"] /\ sem_count'["nstored"] = sem_count["nstored"]
          /\ \A q \in Threads : pc'[q] = IF q = t THEN "body" ELSE pc[q]
      BY <1>00, <2>0, <2>3, <3>1
    <3>3. Passed1'
      <4>1. sem_count'["nstored"] + (IF pc'["consume"] # "slot" THEN 1 ELSE 0) + i'["consume"] = i'["produce"]
        BY <1>0, <1>00, <2>0, <3>2, Zenon DEF Passed1, Inside1
      <4>2. sem_count'["nempty"] + (IF pc'["produce"] # "slot" THEN 1 ELSE 0) + i'["produce"] = NBUFF + i'["consume"]
        BY <1>0, <1>00, <2>0, <3>2, Zenon DEF Passed1, Inside1
      <4>3. sem_count'["mutex"] + (IF pc'["produce"] \in Inside1 THEN 1 ELSE 0) + (IF pc'["consume"] \in Inside1 THEN 1 ELSE 0) = 1
        <5>1. CASE t = P
          <6>1. pc'[P] = "body" /\ pc[P] = "mutex" /\ pc'[C] = pc[C]
            BY <1>00, <2>0, <3>2, <5>1, Zenon
          <6>2. sem_count["mutex"] + (IF pc[C] \in Inside1 THEN 1 ELSE 0) = 1
            BY <1>0, <6>1 DEF Passed1, Inside1
          <6> QED
            BY <1>0, <3>2, <6>1, <6>2 DEF Inside1
        <5>2. CASE t = C
          <6>1. pc'[C] = "body" /\ pc[C] = "mutex" /\ pc'[P] = pc[P]
            BY <1>00, <2>0, <3>2, <5>2, Zenon
          <6>2. sem_count["mutex"] + (IF pc[P] \in Inside1 THEN 1 ELSE 0) = 1
            BY <1>0, <6>1 DEF Passed1, Inside1
          <6> QED
            BY <1>0, <3>2, <6>1, <6>2 DEF Inside1
        <5> QED
          BY <1>00, <5>1, <5>2, Zenon
      <4>4. \A q \in Threads : pc'[q] # "slot" => i'[q] < nitems
        BY <1>0, <1>00, <2>0, <3>2, Zenon DEF Passed1, Inside1
      <4> QED
        BY <4>1, <4>2, <4>3, <4>4 DEF Passed1
    <3> QED
      BY <1>1, <2>0, <2>1, <3>1, <3>3, Zenon
  <2> QED
    BY <2>1, <2>2, <2>3, Zenon
<1>5. ASSUME NEW t \in Threads, post_mutex(t) PROVE PC1Inv'
  <2>1. /\ TypeOK' /\ sem_count' = [sem_count EXCEPT !["mutex"] = @ + 1]
        /\ pc[t] = "unlock" /\ pc' = [pc EXCEPT ![t] = "post"] /\ UNCHANGED <<buff, i>>
    BY <1>0, <1>00, <1>5, PostAdds, Zenon DEF post_mutex, Mysem_post, goto
  <2>2. /\ sem_count'["mutex"] = sem_count["mutex"] + 1
        /\ sem_count'["nempty"] = sem_count["nempty"] /\ sem_count'["nstored"] = sem_count["nstored"]
        /\ \A q \in Threads : pc'[q] = IF q = t THEN "post" ELSE pc[q]
    BY <1>00, <2>1, Zenon
  <2>3. Passed1'
    BY <1>0, <1>00, <2>1, <2>2 DEF Passed1, Inside1
  <2> QED
    BY <1>00, <1>1, <2>1, <2>3, Zenon
<1>6. ASSUME NEW t \in Threads, post_slot(t) PROVE PC1Inv'
  <2>1. /\ TypeOK' /\ sem_count' = [sem_count EXCEPT ![demand(t)] = @ + 1]
        /\ pc[t] = "post" /\ pc' = [pc EXCEPT ![t] = "slot"] /\ buff' = buff
        /\ i' = [i EXCEPT ![t] = @ + 1] /\ i[t] < nitems
    BY <1>0, <1>00, <1>6, PostAdds, Zenon DEF post_slot, Mysem_post, goto, demand, Passed1
  <2>2. ProdConsTypeOK'
    <3>1. i'\in [Threads -> 0..nitems] /\ pc' \in [Threads -> Steps1]
      BY <1>0, <1>00, <2>1
    <3> QED
      BY <1>00, <2>1, <3>1, Zenon DEF ProdConsTypeOK
  <2>3. CASE t = P
    <3>1. /\ sem_count'["nstored"] = sem_count["nstored"] + 1
          /\ sem_count'["mutex"] = sem_count["mutex"] /\ sem_count'["nempty"] = sem_count["nempty"]
          /\ pc'[P] = "slot" /\ pc'[C] = pc[C] /\ pc[P] = "post" /\ i'[P] = i[P] + 1 /\ i'[C] = i[C]
      BY <1>00, <2>1, <2>3, Zenon DEF demand
    <3>2. Passed1'
      <4>1. sem_count'["nstored"] + (IF pc'["consume"] # "slot" THEN 1 ELSE 0) + i'["consume"] = i'["produce"]
        <5> DEFINE e == sem_count["nstored"]
                   b == IF pc[C] # "slot" THEN 1 ELSE 0
                   x == i[P]
                   y == i[C]
        <5>1. e \in Nat /\ b \in Nat /\ x \in Nat /\ y \in Nat
          BY <1>0, Zenon
        <5>2. e + b + y = x
          BY <1>0, Zenon DEF Passed1
        <5> HIDE DEF e, b, x, y
        <5>3. (e + 1) + b + y = x + 1
          BY <5>1, <5>2
        <5> QED
          BY <3>1, <5>3, Zenon DEF e, b, x, y
      <4>2. sem_count'["nempty"] + (IF pc'["produce"] # "slot" THEN 1 ELSE 0) + i'["produce"] = NBUFF + i'["consume"]
        BY <1>0, <1>00, <3>1 DEF Passed1, Inside1
      <4>3. sem_count'["mutex"] + (IF pc'["produce"] \in Inside1 THEN 1 ELSE 0) + (IF pc'["consume"] \in Inside1 THEN 1 ELSE 0) = 1
        BY <1>0, <1>00, <3>1, Zenon DEF Passed1, Inside1
      <4>4. \A q \in Threads : pc'[q] # "slot" => i'[q] < nitems
        BY <1>0, <1>00, <3>1, Zenon DEF Passed1, Inside1
      <4> QED
        BY <4>1, <4>2, <4>3, <4>4 DEF Passed1
    <3>3. Stored1'
      BY <1>0, <2>1, <3>1 DEF Stored1
    <3> QED
      BY <2>2, <3>2, <3>3, Zenon DEF PC1Inv
  <2>4. CASE t = C
    <3>1. /\ sem_count'["nempty"] = sem_count["nempty"] + 1
          /\ sem_count'["mutex"] = sem_count["mutex"] /\ sem_count'["nstored"] = sem_count["nstored"]
          /\ pc'[C] = "slot" /\ pc'[P] = pc[P] /\ pc[C] = "post" /\ i'[C] = i[C] + 1 /\ i'[P] = i[P]
      BY <1>00, <2>1, <2>4, Zenon DEF demand
    <3>2. Passed1'
      <4>1. sem_count'["nstored"] + (IF pc'["consume"] # "slot" THEN 1 ELSE 0) + i'["consume"] = i'["produce"]
        BY <1>0, <1>00, <3>1 DEF Passed1, Inside1
      <4>2. sem_count'["nempty"] + (IF pc'["produce"] # "slot" THEN 1 ELSE 0) + i'["produce"] = NBUFF + i'["consume"]
        <5> DEFINE e == sem_count["nempty"]
                   b == IF pc[P] # "slot" THEN 1 ELSE 0
                   x == i[P]
                   y == i[C]
        <5>1. e \in Nat /\ b \in Nat /\ x \in Nat /\ y \in Nat /\ NBUFF \in Nat
          BY <1>0, Zenon
        <5>2. e + b + x = NBUFF + y
          BY <1>0, Zenon DEF Passed1
        <5> HIDE DEF e, b, x, y
        <5>3. (e + 1) + b + x = NBUFF + (y + 1)
          BY <5>1, <5>2
        <5> QED
          BY <3>1, <5>3, Zenon DEF e, b, x, y
      <4>3. sem_count'["mutex"] + (IF pc'["produce"] \in Inside1 THEN 1 ELSE 0) + (IF pc'["consume"] \in Inside1 THEN 1 ELSE 0) = 1
        BY <1>0, <1>00, <3>1, Zenon DEF Passed1, Inside1
      <4>4. \A q \in Threads : pc'[q] # "slot" => i'[q] < nitems
        BY <1>0, <1>00, <3>1, Zenon DEF Passed1, Inside1
      <4> QED
        BY <4>1, <4>2, <4>3, <4>4 DEF Passed1
    <3>3. Stored1'
      BY <1>0, <2>1, <3>1 DEF Stored1
    <3> QED
      BY <2>2, <3>2, <3>3 DEF PC1Inv
  <2> QED
    BY <1>00, <2>3, <2>4
<1>7. ASSUME NEW t \in Threads, body(t) PROVE PC1Inv'
  <2>1. /\ pc[t] = "body" /\ pc' = [pc EXCEPT ![t] = "unlock"] /\ UNCHANGED <<sem_count, blocked, woken, i>>
        /\ \A q \in Threads : pc'[q] = IF q = t THEN "unlock" ELSE pc[q]
    BY <1>00, <1>7, Zenon DEF body, goto, semvars
  <2>2. TypeOK'
    BY <1>0, <2>1, Zenon DEF TypeOK
  <2>3. Passed1'
    BY <1>0, <1>00, <2>1, Zenon DEF Passed1, Inside1
  <2>4. CASE t = C
    <3>1. buff' = buff
      BY <1>7, <2>4, Zenon DEF body
    <3> QED
      BY <1>1, <2>1, <2>2, <2>3, <2>4, <3>1, Zenon
  <2>5. CASE t = P
    <3>1. buff' = [buff EXCEPT ![i[P] % NBUFF] = i[P]]
      BY <1>7, <2>5, Zenon DEF body
    <3>2. i[P] % NBUFF \in 0..NBUFF - 1 /\ i[P] < nitems
      <4>1. i[P] \in Int /\ NBUFF \in Nat \ {0}
        BY <1>0
      <4>2. i[P] % NBUFF \in 0..NBUFF - 1
        BY <4>1, ModRange, Zenon
      <4>3. i[P] < nitems
        BY <1>0, <1>00, <2>1, <2>5, Zenon DEF Passed1
      <4> QED
        BY <4>2, <4>3, Zenon
    <3>3. ProdConsTypeOK'
      <4>1. buff' \in [0..(NBUFF - 1) -> 0..nitems] /\ pc' \in [Threads -> Steps1]
        BY <1>0, <1>00, <2>1, <3>1, <3>2, Zenon
      <4> QED
        BY <1>00, <2>1, <2>2, <4>1, Zenon DEF ProdConsTypeOK
    <3>4. i[P] < i[C] + NBUFF
      BY <1>0, <2>1, <2>5 DEF Passed1
    <3>5. ASSUME NEW k \in i[C]..i[P] - 1 PROVE buff'[k % NBUFF] = k
      <4>1. k \in Nat /\ k < i[P] /\ i[P] < k + NBUFF
        BY <1>0, <3>4
      <4>2. i[P] % NBUFF # k % NBUFF
        BY <1>0, <4>1, Apart, Zenon
      <4>3. k % NBUFF \in 0..NBUFF - 1
        <5>1. k \in Int /\ NBUFF \in Nat \ {0}
          BY <1>0, <4>1
        <5> QED
          BY <5>1, ModRange, Zenon
      <4> QED
        BY <1>0, <1>00, <3>1, <3>2, <4>2, <4>3, Zenon DEF Stored1
    <3>6. buff'[i[P] % NBUFF] = i[P]
      BY <1>00, <3>1, <3>2, Zenon
    <3>7. Stored1'
      BY <2>1, <3>5, <3>6, Zenon DEF Stored1
    <3> QED
      BY <2>3, <3>3, <3>7, Zenon DEF PC1Inv
  <2> QED
    BY <1>00, <2>4, <2>5, Zenon
<1>8. ASSUME NEW t \in Threads, wakeup(t) PROVE PC1Inv'
  BY <1>0, <1>2, <1>8 DEF wakeup, spurious_wakeup, TypeOK
<1>9. CASE UNCHANGED vars
  BY <1>0, <1>2, <1>9, Zenon DEF vars, semvars, TypeOK
<1> QED
  BY <1>3, <1>4, <1>5, <1>6, <1>7, <1>8, <1>9, Zenon DEF ProdConsNext, loop, main_exit

(* The consumer of prodcons1.c finds item i in the slot it looks at,       *)
(* producer and consumer are never both inside, and no slot is overwritten *)
(* before it is read: for every number of slots and of items, on           *)
(* semaphores made of a mutex and a condition variable.                    *)
THEOREM ProdCons1Safe == ProdConsSpec => []ProdConsSafe
<1>1. ProdConsInit => PC1Inv
  BY PC1Initially, Zenon
<1>2. PC1Inv /\ [ProdConsNext]_vars => PC1Inv'
  BY PC1Inductive, Zenon
<1>3. PC1Inv => ProdConsSafe
  BY PC1Bounds, Zenon
<1> QED
  BY <1>1, <1>2, <1>3, PTL DEF ProdConsSpec

-----------------------------------------------------------------------------
(* Rcu. The readers of rcu.c are safe and no update is lost, for every     *)
(* finite set of updaters, blocking or not, and any readers.               *)

Published == {"grace", "kfree", "done"}     \* rcu_assign_pointer is behind

Allocated == {u \in Updaters : upc[u] # "kmalloc"}

RcuTypes ==
    /\ nalloc \in Nat /\ gbl_foo \in 0..nalloc /\ freed \subseteq 0..nalloc
    /\ nalloc = Cardinality(Allocated)
    /\ foo \in [Structs -> SUBSET Updaters]
    /\ upc \in [Updaters -> {"kmalloc", "lock", "assign", "grace", "kfree", "done"}]
    /\ new_fp \in [Updaters -> 0..nalloc] /\ old_fp \in [Updaters -> 0..nalloc]
    /\ rcupc \in [Readers -> {"out", "locked", "deref"}] /\ fp \in [Readers -> 0..nalloc]
    /\ grace \in [Updaters -> SUBSET Readers]

(* A structure that is not yet published belongs to one updater alone: it  *)
(* is neither published, nor replaced, nor freed.                          *)
Private ==
    \A u \in Updaters : upc[u] \in {"lock", "assign"} =>
        /\ new_fp[u] # gbl_foo /\ new_fp[u] \notin freed
        /\ \A v \in Updaters : upc[v] \notin {"kmalloc", "lock"} => old_fp[v] # new_fp[u]
        /\ \A v \in Updaters : upc[v] \in {"lock", "assign"} /\ new_fp[v] = new_fp[u] => v = u

(* The holder of the lock replaces what is published, with a copy that has *)
(* its own update besides.                                                 *)
Holder ==
    \A u \in Updaters : upc[u] = "assign" =>
        /\ foo_mutex = {u} /\ old_fp[u] = gbl_foo
        /\ foo[new_fp[u]] = foo[gbl_foo] \cup {u}

(* What has been replaced is never published again, and its grace period   *)
(* waits for every reader that still has it.                               *)
Replaced ==
    \A u \in Updaters :
        /\ upc[u] \in Published => old_fp[u] # gbl_foo
        /\ upc[u] = "kfree" =>
               \A r \in Readers : rcupc[r] = "deref" /\ fp[r] = old_fp[u] => r \in grace[u]

RcuInv == RcuTypes /\ Private /\ Holder /\ Replaced /\ NoReadAfterFree /\ NoLostUpdate

(* Nothing has been published or read at first.                            *)
LEMMA RcuInitially == RcuInit => RcuInv
<1> SUFFICES ASSUME RcuInit PROVE RcuInv
  BY Zenon
<1>1. Allocated = {}
  BY Zenon DEF RcuInit, Allocated
<1>2. Cardinality(Allocated) = 0
  BY <1>1, FS_EmptySet, Zenon
<1>3. Structs = 0..Cardinality(Updaters) /\ Cardinality(Updaters) \in Nat
  BY RcuAssumption, FS_CardinalityType, Zenon DEF Structs
<1>4. RcuTypes
  BY <1>2, <1>3 DEF RcuInit, RcuTypes
<1> QED
  BY <1>3, <1>4 DEF RcuInit, RcuInv, Private, Holder, Replaced, Published, NoReadAfterFree, NoLostUpdate

(* Each updater allocates one structure: there is room for every one.      *)
LEMMA RoomForAll ==
    ASSUME RcuTypes
    PROVE  /\ nalloc <= Cardinality(Updaters) /\ Structs = 0..Cardinality(Updaters)
           /\ Cardinality(Updaters) \in Nat /\ 0..nalloc \subseteq Structs
<1>1. Allocated \subseteq Updaters
  BY Zenon DEF Allocated
<1>2. Cardinality(Allocated) <= Cardinality(Updaters)
  BY <1>1, RcuAssumption, FS_Subset, Zenon
<1>3. Cardinality(Updaters) \in Nat
  BY RcuAssumption, FS_CardinalityType, Zenon
<1> QED
  BY <1>2, <1>3 DEF RcuTypes, Structs

(* Every step of an updater or a reader keeps the invariant.               *)
LEMMA RcuInductive == RcuInv /\ [RcuNext]_rcuvars => RcuInv'
<1> SUFFICES ASSUME RcuInv, [RcuNext]_rcuvars PROVE RcuInv'
  BY Zenon
<1>0. /\ nalloc <= Cardinality(Updaters) /\ Structs = 0..Cardinality(Updaters)
      /\ Cardinality(Updaters) \in Nat /\ 0..nalloc \subseteq Structs
  BY RoomForAll, Zenon DEF RcuInv
<1> USE DEF RcuInv, ugoto, rcugoto, Published
<1>1. CASE UNCHANGED rcuvars
  BY <1>1, Zenon DEF rcuvars, RcuTypes, Allocated, Private, Holder, Replaced, NoReadAfterFree, NoLostUpdate
<1>2. ASSUME NEW u \in Updaters, kmalloc(u) PROVE RcuInv'
  <2>1. Allocated' = Allocated \cup {u} /\ u \notin Allocated
    BY <1>2, Zenon DEF kmalloc, Allocated, RcuTypes
  <2>2. IsFiniteSet(Allocated)
    <3>1. Allocated \subseteq Updaters
      BY Zenon DEF Allocated
    <3> QED
      BY <3>1, RcuAssumption, FS_Subset, Zenon
  <2>3. Cardinality(Allocated') = nalloc + 1
    BY <2>1, <2>2, FS_AddElement, Zenon DEF RcuTypes
  <2>4. RcuTypes'
    BY <1>2, <2>3 DEF kmalloc, RcuTypes
  <2>5. Private'
    BY <1>2 DEF kmalloc, RcuTypes, Private
  <2>6. Holder' /\ Replaced'
    BY <1>2, Zenon DEF kmalloc, RcuTypes, Private, Holder, Replaced
  <2>7. NoReadAfterFree' /\ NoLostUpdate'
    BY <1>2, Zenon DEF kmalloc, RcuTypes, NoReadAfterFree, NoLostUpdate
  <2> QED
    BY <2>4, <2>5, <2>6, <2>7, Zenon
<1>3. ASSUME NEW u \in Updaters, copy_old(u) PROVE RcuInv'
  <2>1. Allocated' = Allocated
    BY <1>3, Zenon DEF copy_old, Allocated, RcuTypes
  <2>2. RcuTypes'
    BY <1>0, <1>3, <2>1, Zenon DEF copy_old, RcuTypes
  <2>3. Private'
    BY <1>3, Zenon DEF copy_old, RcuTypes, Private
  <2>4. Holder'
    BY <1>0, <1>3, Zenon DEF copy_old, lock_free, RcuTypes, Private, Holder
  <2>5. Replaced' /\ NoReadAfterFree'
    BY <1>3, Zenon DEF copy_old, RcuTypes, Replaced, NoReadAfterFree
  <2>6. NoLostUpdate'
    BY <1>0, <1>3, Zenon DEF copy_old, RcuTypes, Private, NoLostUpdate
  <2> QED
    BY <2>2, <2>3, <2>4, <2>5, <2>6, Zenon
<1>4. ASSUME NEW u \in Updaters, rcu_assign_pointer(u) PROVE RcuInv'
  <2>1. Allocated' = Allocated
    BY <1>4, Zenon DEF rcu_assign_pointer, Allocated, RcuTypes
  <2>2. RcuTypes'
    BY <1>4, <2>1, Zenon DEF rcu_assign_pointer, RcuTypes
  <2>3. \A v \in Updaters : upc[v] = "assign" => v = u
    BY <1>4, Zenon DEF rcu_assign_pointer, Holder
  <2>4. Private'
    BY <1>4, <2>3 DEF rcu_assign_pointer, RcuTypes, Private
  <2>5. Holder'
    BY <1>4, <2>3, Zenon DEF rcu_assign_pointer, RcuTypes, Holder
  <2>6. Replaced' /\ NoReadAfterFree'
    BY <1>4 DEF rcu_assign_pointer, RcuTypes, Private, Holder, Replaced, NoReadAfterFree
  <2>7. NoLostUpdate'
    BY <1>4 DEF rcu_assign_pointer, RcuTypes, Private, Holder, NoLostUpdate
  <2> QED
    BY <2>2, <2>4, <2>5, <2>6, <2>7
<1>5. ASSUME NEW u \in Updaters, begin_grace(u) PROVE RcuInv'
  <2>1. Allocated' = Allocated
    BY <1>5, Zenon DEF begin_grace, Allocated, RcuTypes
  <2>2. RcuTypes'
    BY <1>5, <2>1, Zenon DEF begin_grace, in_section, RcuTypes
  <2>3. Private' /\ Holder'
    BY <1>5, Zenon DEF begin_grace, RcuTypes, Private, Holder
  <2>4. Replaced'
    BY <1>5, Zenon DEF begin_grace, in_section, RcuTypes, Replaced
  <2>5. NoReadAfterFree' /\ NoLostUpdate'
    BY <1>5, Zenon DEF begin_grace, RcuTypes, NoReadAfterFree, NoLostUpdate
  <2> QED
    BY <2>2, <2>3, <2>4, <2>5, Zenon
<1>6. ASSUME NEW u \in Updaters, kfree_old(u) \/ foo_reclaim(u) PROVE RcuInv'
  <2>1. Allocated' = Allocated
    BY <1>6, Zenon DEF kfree_old, foo_reclaim, Allocated, RcuTypes
  <2>0. /\ freed' = freed \cup {old_fp[u]} /\ upc' = [upc EXCEPT ![u] = "done"]
        /\ UNCHANGED <<gbl_foo, foo, nalloc, new_fp, old_fp, rcupc, fp, grace>>
    BY <1>6, Zenon DEF kfree_old, foo_reclaim, reclaim
  <2>2. RcuTypes'
    BY <2>0, <2>1, Zenon DEF RcuTypes
  <2>3. Private' /\ Holder'
    <3>1. foo_mutex' = foo_mutex /\ upc[u] = "kfree"
      BY <1>6, Zenon DEF kfree_old, foo_reclaim
    <3>2. Private'
      BY <2>0, <3>1 DEF RcuTypes, Private
    <3>3. Holder'
      BY <2>0, <3>1, Zenon DEF RcuTypes, Holder
    <3> QED
      BY <3>2, <3>3, Zenon
  <2>4. Replaced' /\ NoReadAfterFree'
    BY <1>6, Zenon DEF kfree_old, foo_reclaim, reclaim, RcuTypes, Replaced, NoReadAfterFree
  <2>5. NoLostUpdate'
    BY <1>6 DEF kfree_old, foo_reclaim, reclaim, RcuTypes, Replaced, NoLostUpdate
  <2> QED
    BY <2>2, <2>3, <2>4, <2>5, Zenon
<1>7. ASSUME NEW r \in Readers, rcu_read_lock(r) PROVE RcuInv'
  BY <1>7, Zenon DEF rcu_read_lock, RcuTypes, Allocated, Private, Holder, Replaced, NoReadAfterFree, NoLostUpdate
<1>8. ASSUME NEW r \in Readers, rcu_dereference(r) PROVE RcuInv'
  BY <1>8, Zenon DEF rcu_dereference, RcuTypes, Allocated, Private, Holder, Replaced, NoReadAfterFree, NoLostUpdate
<1>9. ASSUME NEW r \in Readers, rcu_read_unlock(r) PROVE RcuInv'
  <2>1. RcuTypes'
    BY <1>9 DEF rcu_read_unlock, leaves, RcuTypes, Allocated
  <2>2. Private' /\ Holder' /\ NoLostUpdate'
    BY <1>9, Zenon DEF rcu_read_unlock, Private, Holder, NoLostUpdate
  <2>3. Replaced'
    BY <1>9, Zenon DEF rcu_read_unlock, leaves, RcuTypes, Replaced
  <2>4. NoReadAfterFree'
    BY <1>9, Zenon DEF rcu_read_unlock, RcuTypes, NoReadAfterFree
  <2> QED
    BY <2>1, <2>2, <2>3, <2>4, Zenon
<1> QED
  BY <1>1, <1>2, <1>3, <1>4, <1>5, <1>6, <1>7, <1>8, <1>9, Zenon DEF RcuNext, update_step, section_step

(* A reader never reads a structure that has been freed, whatever grace    *)
(* periods overlap.                                                        *)
THEOREM ReadersSafe == RcuSpec => []NoReadAfterFree
  BY RcuInitially, RcuInductive, PTL DEF RcuSpec, RcuInv

(* The published structure carries every update and is not freed.          *)
THEOREM UpdatesKept == RcuSpec => []NoLostUpdate
  BY RcuInitially, RcuInductive, PTL DEF RcuSpec, RcuInv

(* rcu.c is safe for its readers and its updaters.                         *)
THEOREM ReadersAndUpdatersSafe == RcuSpec => []RcuSafe
  BY ReadersSafe, UpdatesKept, PTL DEF RcuSafe

-----------------------------------------------------------------------------
(* ProdConsCond. Every item stored is taken, announced, or with a producer *)
(* between its two critical sections.                                      *)

(* Every item stored is counted once: taken by the consumer, announced, or *)
(* with a producer between its two critical sections.  In prodcons3.c the  *)
(* consumer looks at nput itself.                                          *)
Announcing == Cardinality(Those(Producers6, ppc6, {"ready"}))

Taken6 == i6 + (IF cpc6 = "check" THEN 1 ELSE 0)

ItemsCounted ==
    /\ variant6 \in {"prodcons3", "prodcons5", "prodcons6"}
    /\ variant6 = "prodcons3" => Taken6 <= nput6 /\ nready6 = 0
    /\ variant6 # "prodcons3" => Taken6 + nready6 + Announcing = nput6
    /\ variant6 # "prodcons6" => Announcing = 0

Stored6 == \A k \in 0..nput6 - 1 : buff6[k] = k

CondInv == CondSafe /\ ItemsCounted /\ Stored6

(* How a step of p changes the number of producers that have stored an     *)
(* item and not yet announced it.                                          *)
LEMMA AnnouncingMoves ==
    ASSUME NEW p \in Producers6, NEW s, ppc6'[p] = s, \A q \in Producers6 : q # p => ppc6'[q] = ppc6[q]
    PROVE  Announcing' = Announcing + (IF s = "ready" THEN 1 ELSE 0) - (IF ppc6[p] = "ready" THEN 1 ELSE 0)
<1>0. IsFiniteSet(Producers6)
  BY Producers6Assumption, Zenon
<1>1. Cardinality(Those(Producers6, ppc6', {"ready"})) =
        Cardinality(Those(Producers6, ppc6, {"ready"}))
          + (IF s \in {"ready"} THEN 1 ELSE 0) - (IF ppc6[p] \in {"ready"} THEN 1 ELSE 0)
  BY <1>0, OneMoves, SMTT(20)
<1>2. Announcing' = Cardinality(Those(Producers6, ppc6', {"ready"}))
  BY Zenon DEF Announcing
<1> QED
  BY <1>1, <1>2, Zenon DEF Announcing

(* It is a natural number, zero when there is none.                        *)
LEMMA AnnouncingNat ==
    /\ Announcing \in Nat
    /\ Announcing = 0 <=> \A p \in Producers6 : ppc6[p] # "ready"
BY Number, Producers6Assumption, Zenon DEF Announcing

(* It holds at the start.                                                  *)
LEMMA CondInitially == PC6Init => CondInv
<1> SUFFICES ASSUME PC6Init PROVE CondInv
  BY Zenon
<1>1. Announcing = 0
  BY AnnouncingNat, Zenon DEF PC6Init
<1>2. ~wrong6
  BY Zenon DEF PC6Init
<1> QED
  BY <1>1, <1>2, Producers6Assumption DEF PC6Init, CondInv, CondSafe, PC6TypeOK, ItemsInOrder6,
     ItemsCounted, Stored6, Taken6

(* Every step keeps the invariant.                                         *)
LEMMA CondInductive == CondInv /\ [PC6Next]_pc6vars => CondInv'
<1> SUFFICES ASSUME CondInv, [PC6Next]_pc6vars PROVE CondInv'
  BY Zenon
<1>0. PC6TypeOK /\ ItemsInOrder6 /\ ItemsCounted /\ Stored6 /\ Announcing \in Nat /\ nitems6 \in Nat
  BY AnnouncingNat, Producers6Assumption, Zenon DEF CondInv, CondSafe
<1>1. ASSUME NEW p \in Producers6, put6(p) PROVE CondInv'
  <2>1. CASE array_full6
    <3>1. Announcing' = Announcing
      <4>1. ppc6'[p] = "done" /\ ppc6[p] = "put" /\ \A q \in Producers6 : q # p => ppc6'[q] = ppc6[q]
        BY <1>0, <1>1, <2>1, Zenon DEF put6, PC6TypeOK
      <4>2. Announcing' = Announcing + (IF "done" = "ready" THEN 1 ELSE 0) - (IF ppc6[p] = "ready" THEN 1 ELSE 0)
        BY <1>0, <4>1, AnnouncingMoves, Zenon
      <4> QED
        BY <1>0, <4>1, <4>2
    <3> QED
      BY <1>0, <1>1, <2>1, <3>1, Zenon DEF put6, CondInv, CondSafe, PC6TypeOK, ItemsInOrder6, ItemsCounted, Stored6, Taken6
  <2>2. CASE ~array_full6
    <3> DEFINE s == IF variant6 = "prodcons6" THEN "ready" ELSE "put"
    <3>1. Announcing' = Announcing + (IF s = "ready" THEN 1 ELSE 0)
      <4>1. ppc6'[p] = s /\ ppc6[p] = "put" /\ \A q \in Producers6 : q # p => ppc6'[q] = ppc6[q]
        BY <1>0, <1>1, <2>2, Zenon DEF put6, PC6TypeOK
      <4>2. Announcing' = Announcing + (IF s = "ready" THEN 1 ELSE 0) - (IF ppc6[p] = "ready" THEN 1 ELSE 0)
        BY <1>0, <4>1, AnnouncingMoves, Zenon
      <4> QED
        BY <1>0, <4>1, <4>2
    <3>2. /\ nput6 < nitems6 /\ nput6' = nput6 + 1
          /\ buff6' = [buff6 EXCEPT ![nput6] = nput6]
          /\ variant6' = variant6 /\ i6' = i6 /\ wrong6' = wrong6
          /\ ppc6' = [ppc6 EXCEPT ![p] = s]
          /\ nready6' = IF variant6 = "prodcons5" THEN nready6 + 1 ELSE nready6
          /\ cpc6' = cpc6 \/ (cpc6 = "cond_wait" /\ cpc6' = "signalled")
      BY <1>0, <1>1, <2>2 DEF put6, array_full6, PC6TypeOK, signalled6
    <3>3. Taken6' = Taken6 /\ Taken6 \in Nat
      BY <1>0, <3>2 DEF Taken6, PC6TypeOK
    <3>4. ItemsCounted'
      BY <1>0, <3>1, <3>2, <3>3 DEF ItemsCounted, PC6TypeOK
    <3>5. PC6TypeOK'
      BY <1>0, <3>2, <3>3, <3>4 DEF PC6TypeOK, ItemsCounted, Taken6
    <3>6. Stored6' /\ ItemsInOrder6'
      BY <1>0, <3>2 DEF Stored6, ItemsInOrder6, PC6TypeOK
    <3> QED
      BY <3>4, <3>5, <3>6, Zenon DEF CondInv, CondSafe
  <2> QED
    BY <2>1, <2>2, Zenon
<1>2. ASSUME NEW p \in Producers6, make_ready6(p) PROVE CondInv'
  <2>1. Announcing' = Announcing - 1
    <3>1. ppc6'[p] = "put" /\ ppc6[p] = "ready" /\ \A q \in Producers6 : q # p => ppc6'[q] = ppc6[q]
      BY <1>0, <1>2, Zenon DEF make_ready6, PC6TypeOK
    <3>2. Announcing' = Announcing + (IF "put" = "ready" THEN 1 ELSE 0) - (IF ppc6[p] = "ready" THEN 1 ELSE 0)
      BY <1>0, <3>1, AnnouncingMoves, Zenon
    <3> QED
      BY <1>0, <3>1, <3>2
  <2>2. variant6 = "prodcons6"
    BY <1>0, <1>2, AnnouncingNat, Zenon DEF ItemsCounted, make_ready6
  <2>3. nready6' = nready6 + 1 /\ cpc6' \in {cpc6, signalled6} /\ Taken6' = Taken6
    BY <1>0, <1>2, Zenon DEF make_ready6, Taken6, signalled6
  <2>4. ItemsCounted'
    BY <1>0, <1>2, <2>1, <2>2, <2>3 DEF make_ready6, ItemsCounted, PC6TypeOK, Taken6
  <2>5. PC6TypeOK'
    BY <1>0, <1>2, <2>1, <2>2, <2>3, <2>4, AnnouncingNat DEF make_ready6, ItemsCounted, PC6TypeOK, Taken6, signalled6
  <2> QED
    BY <1>0, <1>2, <2>4, <2>5, Zenon DEF make_ready6, CondInv, CondSafe, Stored6, ItemsInOrder6
<1>3. CASE get6
  <2>0. Announcing' = Announcing /\ UNCHANGED <<variant6, buff6, nput6, ppc6, i6, wrong6>>
    BY <1>3, Zenon DEF get6, Announcing
  <2>1. CASE i6 < nitems6 /\ item_ready6
    <3>1. cpc6 # "check" /\ cpc6' = "check" /\ nready6' = IF variant6 = "prodcons3" THEN nready6 ELSE nready6 - 1
      BY <1>0, <1>3, <2>1 DEF get6, PC6TypeOK
    <3> QED
      BY <1>0, <2>0, <2>1, <3>1 DEF item_ready6, CondInv, CondSafe, PC6TypeOK, ItemsInOrder6, ItemsCounted, Stored6, Taken6
  <2>2. CASE ~(i6 < nitems6 /\ item_ready6)
    <3>1. cpc6 # "check" /\ cpc6' \in {"done", "get", "cond_wait"} /\ nready6' = nready6
      BY <1>0, <1>3, <2>2 DEF get6, PC6TypeOK
    <3> QED
      BY <1>0, <2>0, <3>1, Zenon DEF CondInv, CondSafe, PC6TypeOK, ItemsInOrder6, ItemsCounted, Stored6, Taken6
  <2> QED
    BY <2>1, <2>2, Zenon
<1>4. CASE check6
  <2>1. Announcing' = Announcing
    BY <1>4, Zenon DEF check6, Announcing
  <2>2. i6 \in 0..nput6 - 1
    BY <1>0, <1>4 DEF check6, PC6TypeOK, ItemsCounted, Taken6
  <2>3. ~wrong6'
    BY <1>0, <1>4, <2>2, Zenon DEF check6, ItemsInOrder6, Stored6
  <2> QED
    BY <1>0, <1>4, <2>1, <2>2, <2>3 DEF check6, CondInv, CondSafe, PC6TypeOK, ItemsInOrder6, ItemsCounted, Stored6, Taken6
<1>5. CASE spurious6
  <2>1. Announcing' = Announcing
    BY <1>5, Zenon DEF spurious6, Announcing
  <2> QED
    BY <1>0, <1>5, <2>1, Zenon DEF spurious6, CondInv, CondSafe, PC6TypeOK, ItemsInOrder6, ItemsCounted, Stored6, Taken6
<1>6. CASE UNCHANGED pc6vars
  <2>1. Announcing' = Announcing
    BY <1>6, Zenon DEF pc6vars, Announcing
  <2> QED
    BY <1>0, <1>6, <2>1, Zenon DEF pc6vars, CondInv, CondSafe, PC6TypeOK, ItemsInOrder6, ItemsCounted, Stored6, Taken6
<1> QED
  BY <1>1, <1>2, <1>3, <1>4, <1>5, <1>6, Zenon DEF PC6Next, produce6, consume6

(* The consumer, which reads the array without the mutex of the producers, *)
(* never finds a value other than the index: for every set of producers    *)
(* and every number of items.                                              *)
THEOREM ItemsFoundInPlace == PC6Spec => []CondSafe
BY CondInitially, CondInductive, PTL DEF PC6Spec, CondInv

-----------------------------------------------------------------------------
(* TwoThreads. One unit goes round between the two semaphores and the two  *)
(* threads.                                                                *)

(* Between the wait that returns and the post a thread has the one unit    *)
(* that goes round between s1 and s2.                                      *)
Has(t) == IF tpc[t] \in {"read", "write", "post"} THEN 1 ELSE 0
Admitted(t) == IF tpc[t] \in {"wait", "read", "write"} THEN 1 ELSE 0

OneUnit == sem[1] + sem[2] + Has(1) + Has(2) = 1

(* Whose turn it is says which of the two has added once more.             *)
TurnOf ==
    /\ sem[1] = 1 \/ tpc[2] \in {"read", "write"} \/ tpc[1] = "post" => rounds[2] = rounds[1]
    /\ sem[2] = 1 \/ tpc[1] \in {"read", "write"} \/ tpc[2] = "post" => rounds[2] = rounds[1] + 1

(* What a thread is about to write is one more than what is there.         *)
Fresh == \A t \in TT : tpc[t] = "write" => copy[t] = var

Bounded == var + Admitted(1) + Admitted(2) <= MaxVar + 1

TurnsInv == TTTypeOK /\ TurnsKept /\ OneUnit /\ TurnOf /\ Fresh /\ Bounded

(* It holds at the start.                                                  *)
LEMMA TurnsInitially == TTInit => TurnsInv
<1> SUFFICES ASSUME TTInit PROVE TurnsInv
  BY Zenon
<1>1. timeup \in BOOLEAN /\ joined \in BOOLEAN
  BY Zenon DEF TTInit
<1>2. TTTypeOK
  BY <1>1, VarAssumption DEF TTInit, TTTypeOK, TT, sem_init
<1>3. TurnsKept /\ OneUnit /\ TurnOf /\ Fresh /\ Bounded
  BY VarAssumption DEF TTInit, TurnsKept, OneUnit, TurnOf, Fresh, Bounded, sem_init, TT, Has, Admitted
<1> QED
  BY <1>2, <1>3, Zenon DEF TurnsInv

(* Every step keeps the invariant.                                         *)
LEMMA TurnsInductive == TurnsInv /\ [TTNext]_ttvars => TurnsInv'
<1> SUFFICES ASSUME TurnsInv, [TTNext]_ttvars PROVE TurnsInv'
  BY Zenon
<1> USE VarAssumption DEF TurnsInv, TTTypeOK, TurnsKept, OneUnit, TurnOf, Fresh, Bounded, TT, Has, Admitted
<1>1. CASE UNCHANGED ttvars
  BY <1>1, Zenon DEF ttvars
<1>2. CASE clock
  BY <1>2, Zenon DEF clock
<1>3. CASE pthread_joins
  BY <1>3, Zenon DEF pthread_joins
<1>4. ASSUME NEW t \in TT, test_time(t) PROVE TurnsInv'
  BY <1>4 DEF test_time, tgoto
<1>5. ASSUME NEW t \in TT, sem_wait_other(t) PROVE TurnsInv'
  BY <1>5 DEF sem_wait_other, tgoto, waits_on
<1>6. ASSUME NEW t \in TT, read_var(t) PROVE TurnsInv'
  BY <1>6, Zenon DEF read_var, tgoto
<1>7. ASSUME NEW t \in TT, write_var(t) PROVE TurnsInv'
  BY <1>7 DEF write_var, tgoto
<1>8. ASSUME NEW t \in TT, sem_post_own(t) PROVE TurnsInv'
  BY <1>8 DEF sem_post_own, tgoto, posted_sem, posts_to
<1> QED
  BY <1>1, <1>2, <1>3, <1>4, <1>5, <1>6, <1>7, <1>8, Zenon DEF TTNext, thread_step

(* The two threads take turns and no addition to var is lost, whatever the *)
(* bound on var.                                                           *)
THEOREM TurnsAreSafe == TTSpec => []TurnsSafe
BY TurnsInitially, TurnsInductive, PTL DEF TTSpec, TurnsInv, TurnsSafe

-----------------------------------------------------------------------------
(* Serv08. The ring between the accepting thread and the pool, for every   *)
(* number of slots, of threads and of connections.                         *)

(* How many slots after iget8 slot k is.                                   *)
Offset(k) == IF k >= iget8 THEN k - iget8 ELSE k - iget8 + MAXNCLI

RingTypes ==
    /\ accepting \in BOOLEAN
    /\ clifd \in [0..MAXNCLI - 1 -> Nat]
    /\ iget8 \in 0..MAXNCLI - 1 /\ iput8 \in 0..MAXNCLI - 1
    /\ naccepted \in Nat /\ started \in Seq(Nat)

(* A filled slot holds the connection that is as many after the last one   *)
(* started as the slot is after iget8: without this, the order in which    *)
(* threads take connections does not follow from the step before.          *)
Filled ==
    accepting => \A k \in 0..MAXNCLI - 1 :
        Offset(k) < Queued => clifd[k] = Len(started) + 1 + Offset(k)

RingInv == RingTypes /\ Filled /\ RingInOrder /\ QuitsOnlyFull

(* The ring is empty at first.                                             *)
LEMMA RingInitially == Serv08Init => RingInv
<1> SUFFICES ASSUME Serv08Init PROVE RingInv
  BY Zenon
<1>1. RingTypes
  BY RingAssumption DEF Serv08Init, RingTypes
<1>2. Len(started) = 0 /\ Queued = 0 /\ \A k \in 0..MAXNCLI - 1 : Offset(k) \in Nat
  BY RingAssumption DEF Serv08Init, Queued, Offset
<1>3. Filled
  BY <1>2 DEF Filled
<1>4. RingInOrder /\ QuitsOnlyFull
  <2>1. accepting /\ naccepted = 0
    BY Zenon DEF Serv08Init
  <2>2. naccepted - Len(started) = Queued
    BY <1>2, <2>1
  <2>3. \A k \in 1..Len(started) : started[k] = k
    BY <1>2
  <2> QED
    BY <2>1, <2>2, <2>3, Zenon DEF RingInOrder, QuitsOnlyFull
<1> QED
  BY <1>1, <1>3, <1>4, Zenon DEF RingInv

(* Accepting fills the next slot, or finds the ring full and gives up.     *)
LEMMA AcceptKeepsRing == RingInv /\ main_accept => RingInv'
<1> SUFFICES ASSUME RingInv, main_accept PROVE RingInv'
  BY Zenon
<1> USE RingAssumption
<1>0. /\ accepting /\ naccepted' = naccepted + 1 /\ iget8' = iget8 /\ started' = started
      /\ clifd' = [clifd EXCEPT ![iput8] = naccepted + 1] /\ iput8' = next_iput(iput8)
      /\ next_iput(iput8) = iget8 => accepting' = FALSE
      /\ next_iput(iput8) # iget8 => accepting' = accepting
  BY Zenon DEF main_accept, ring_overrun
<1>1. RingTypes'
  <2>1. accepting' \in BOOLEAN
    BY <1>0, Zenon DEF RingInv, RingTypes
  <2>2. clifd' \in [0..MAXNCLI - 1 -> Nat] /\ naccepted' \in Nat /\ started' \in Seq(Nat)
    BY <1>0 DEF RingInv, RingTypes
  <2>3. iget8' \in 0..MAXNCLI - 1 /\ iput8' \in 0..MAXNCLI - 1
    BY <1>0 DEF RingInv, RingTypes, next_iput
  <2> QED
    BY <2>1, <2>2, <2>3, Zenon DEF RingTypes
<1>2. Len(started) \in Nat /\ naccepted - Len(started) = Queued
  BY <1>0 DEF RingInv, RingTypes, RingInOrder
<1>3. CASE next_iput(iput8) = iget8
  <2>1. accepting' = FALSE
    BY <1>0, <1>3, Zenon
  <2>2. Queued + 1 = MAXNCLI
    BY <1>3 DEF RingInv, RingTypes, Queued, next_iput
  <2>3. naccepted' - Len(started') = MAXNCLI
    BY <1>0, <1>2, <2>2 DEF RingInv, RingTypes
  <2> QED
    BY <1>0, <1>1, <2>1, <2>3, Zenon DEF RingInv, Filled, RingInOrder, QuitsOnlyFull
<1>4. CASE next_iput(iput8) # iget8
  <2>1. accepting' /\ Queued' = Queued + 1
    <3>1. accepting'
      BY <1>0, <1>4, Zenon
    <3>2. Queued' = Queued + 1
      <4> DEFINE nx == next_iput(iput8)
      <4>1. nx # iget8 /\ iput8' = nx /\ iget8' = iget8
        BY <1>0, <1>4, Zenon
      <4>2. nx = IF iput8 + 1 = MAXNCLI THEN 0 ELSE iput8 + 1
        BY Zenon DEF next_iput
      <4>3. MAXNCLI \in Nat /\ iget8 \in 0..MAXNCLI - 1 /\ iput8 \in 0..MAXNCLI - 1
        BY Zenon DEF RingInv, RingTypes
      <4> HIDE DEF nx
      <4> QED
        BY <4>1, <4>2, <4>3 DEF Queued
    <3> QED
      BY <3>1, <3>2, Zenon
  <2>2. RingInOrder' /\ QuitsOnlyFull'
    BY <1>0, <1>2, <2>1 DEF RingInv, RingTypes, RingInOrder, QuitsOnlyFull
  <2>3. Offset(iput8) = Queued
    BY Zenon DEF RingInv, RingTypes, Queued, Offset
  <2>4. ASSUME NEW k \in 0..MAXNCLI - 1, Offset(k) < Queued + 1
        PROVE  clifd'[k] = Len(started) + 1 + Offset(k)
    <3>1. CASE k = iput8
      BY <1>0, <1>2, <2>3, <3>1 DEF RingInv, RingTypes
    <3>2. CASE k # iput8
      <4>1. Offset(k) # Queued
        BY <3>2 DEF RingInv, RingTypes, Queued, Offset
      <4>2. Offset(k) < Queued
        BY <2>4, <4>1 DEF RingInv, RingTypes, Queued, Offset
      <4> QED
        BY <1>0, <3>2, <4>2, Zenon DEF RingInv, RingTypes, Filled
    <3> QED
      BY <3>1, <3>2, Zenon
  <2>5. Filled'
    BY <1>0, <2>1, <2>4, Zenon DEF Filled, Offset
  <2> QED
    BY <1>1, <2>2, <2>5, Zenon DEF RingInv
<1> QED
  BY <1>3, <1>4, Zenon

(* A thread takes the oldest connection, or waits on an empty ring.        *)
LEMMA GetKeepsRing == ASSUME NEW t \in Threads8 PROVE RingInv /\ thread_get(t) => RingInv'
<1> SUFFICES ASSUME RingInv, thread_get(t) PROVE RingInv'
  BY Zenon
<1> USE RingAssumption
<1>1. CASE must_wait
  BY <1>1, Zenon DEF thread_get, RingInv, RingTypes, Filled, Queued, Offset, RingInOrder, QuitsOnlyFull
<1>2. CASE ~must_wait
  <2> DEFINE n == Len(started)
  <2>0. /\ accepting /\ accepting' = accepting /\ clifd' = clifd /\ iput8' = iput8
        /\ naccepted' = naccepted /\ iget8' = next_iput(iget8) /\ iget8 # iput8
        /\ started' = Append(started, clifd[iget8])
    BY <1>2, Zenon DEF thread_get, must_wait
  <2>1. n \in Nat /\ naccepted - n = Queued /\ Offset(iget8) = 0 /\ 0 < Queued
    BY <2>0 DEF RingInv, RingTypes, RingInOrder, Offset, Queued
  <2>2. clifd[iget8] = n + 1
    BY <2>0, <2>1 DEF RingInv, RingTypes, Filled
  <2>3. started' = Append(started, n + 1) /\ Len(started') = n + 1
    BY <2>0, <2>2 DEF RingInv, RingTypes
  <2>4. RingTypes'
    <3>1. started' \in Seq(Nat)
      BY <2>1, <2>3 DEF RingInv, RingTypes
    <3>2. iget8' \in 0..MAXNCLI - 1
      BY <2>0 DEF RingInv, RingTypes, next_iput
    <3> QED
      BY <2>0, <3>1, <3>2, Zenon DEF RingInv, RingTypes
  <2>5. Queued' = Queued - 1
    BY <2>0 DEF RingInv, RingTypes, Queued, next_iput
  <2>6. ASSUME NEW k \in 1..Len(started') PROVE started'[k] = k
    <3>1. CASE k = n + 1
      BY <2>1, <2>3, <3>1 DEF RingInv, RingTypes
    <3>2. CASE k \in 1..n
      <4>1. started'[k] = started[k]
        BY <2>1, <2>3, <3>2 DEF RingInv, RingTypes
      <4> QED
        BY <3>2, <4>1, Zenon DEF RingInv, RingInOrder
    <3> QED
      BY <2>1, <2>3, <3>1, <3>2
  <2>7. RingInOrder' /\ QuitsOnlyFull'
    <3>1. naccepted' - Len(started') = Queued'
      BY <2>0, <2>1, <2>3, <2>5 DEF RingInv, RingTypes
    <3> QED
      BY <2>0, <2>6, <3>1, Zenon DEF RingInOrder, QuitsOnlyFull
  <2>8. ASSUME NEW k \in 0..MAXNCLI - 1, Offset(k)' < Queued'
        PROVE  clifd'[k] = Len(started') + 1 + Offset(k)'
    <3>1. Offset(k)' + 1 = Offset(k) /\ Offset(k)' \in Int
      BY <2>0, <2>8 DEF RingInv, RingTypes, next_iput, Offset, Queued
    <3>2. Queued \in Int /\ Offset(k) < Queued
      BY <2>5, <2>8, <3>1 DEF RingInv, RingTypes, Queued
    <3>3. clifd[k] = n + 1 + Offset(k)
      BY <2>0, <3>2, Zenon DEF RingInv, Filled
    <3> QED
      BY <2>0, <2>1, <2>3, <3>1, <3>3
  <2>9. Filled'
    BY <2>8, Zenon DEF Filled
  <2> QED
    BY <2>4, <2>7, <2>9, Zenon DEF RingInv
<1> QED
  BY <1>1, <1>2, Zenon

(* Every step of the server keeps the invariant.                           *)
LEMMA RingInductive == RingInv /\ [Serv08Next]_serv08vars => RingInv'
<1> SUFFICES ASSUME RingInv, [Serv08Next]_serv08vars PROVE RingInv'
  BY Zenon
<1>1. CASE main_accept
  BY <1>1, AcceptKeepsRing, Zenon
<1>2. ASSUME NEW t \in Threads8, thread_get(t) PROVE RingInv'
  BY <1>2, GetKeepsRing, Zenon
<1>3. ASSUME UNCHANGED <<accepting, clifd, iget8, iput8, naccepted, started>> PROVE RingInv'
  BY <1>3, Zenon DEF RingInv, RingTypes, Filled, Queued, Offset, RingInOrder, QuitsOnlyFull
<1> QED
  BY <1>1, <1>2, <1>3, Zenon DEF Serv08Next, thread_main, thread_serves, spurious8, serv08vars

(* Connections are taken in the order of accept, none twice, none skipped. *)
THEOREM TakenInOrder == Serv08Spec => []RingInOrder
  BY RingInitially, RingInductive, PTL DEF Serv08Spec, RingInv

(* The server gives up only when every slot holds a waiting connection.    *)
THEOREM GivesUpOnlyFull == Serv08Spec => []QuitsOnlyFull
  BY RingInitially, RingInductive, PTL DEF Serv08Spec, RingInv

(* The ring of serv08.c keeps the order of accept and is given up only     *)
(* when it is full.                                                        *)
THEOREM RingIsSafe == Serv08Spec => []RingSafe
  BY TakenInOrder, GivesUpOnlyFull, PTL DEF RingSafe

=============================================================================
