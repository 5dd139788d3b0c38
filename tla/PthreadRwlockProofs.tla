------------------------ MODULE PthreadRwlockProofs ------------------------
(***************************************************************************)
(* Proofs about the read-write lock, for any finite set of threads: the    *)
(* library by itself, with threads that are cancelled, and under test1.c.  *)
(* The counters are exact, nobody is left sleeping beside a lock that      *)
(* could be had, test1.c never finds readers and writers together, and the *)
(* lock implements ReadWriteLock.                                          *)
(*                                                                         *)
(* The invariants are inductive only together: a signal is aimed right     *)
(* because the waiting counts are exact, and the counts stay exact because *)
(* a thread is where its program counter says.                             *)
(***************************************************************************)
EXTENDS MCRwlock, CountingLemmas

Places == States \cup {"cancelled"}

(* What holds of the lock with cancellation and without.                   *)
CInv ==
    /\ CancelTypeOK
    /\ RefcountExact
    /\ WaitersCounted
    /\ NoStrandedWriter

(* The number of threads found in a set of places is a natural number, and *)
(* zero exactly when no thread is there.                                   *)
LEMMA Counting ==
    ASSUME NEW p \in [Threads -> Places], NEW S
    PROVE  /\ IsFiniteSet(At(p, S))
           /\ Cardinality(At(p, S)) \in Nat
           /\ Cardinality(At(p, S)) = 0 <=> At(p, S) = {}
BY ThreadsAssumption, FS_Subset, FS_CardinalityType, FS_EmptySet DEF At

(* Moving one thread changes the number found in S by what leaves S and    *)
(* what enters it.                                                         *)
LEMMA Moving ==
    ASSUME NEW p \in [Threads -> Places], NEW S,
           NEW q \in [Threads -> Places], NEW t \in Threads,
           NEW s \in Places, q = [p EXCEPT ![t] = s]
    PROVE  Cardinality(At(q, S)) =
             Cardinality(At(p, S)) + (IF s \in S THEN 1 ELSE 0)
                                   - (IF p[t] \in S THEN 1 ELSE 0)
<1>1. \A u \in Threads : q[u] = IF u = t THEN s ELSE p[u]
  OBVIOUS
<1>2. IsFiniteSet(At(p, S)) /\ Cardinality(At(p, S)) \in Nat
  BY Counting
<1>3. CASE s \in S /\ p[t] \notin S
  <2>1. At(q, S) = At(p, S) \cup {t} /\ t \notin At(p, S)
    BY <1>1, <1>3 DEF At
  <2>2. Cardinality(At(q, S)) = Cardinality(At(p, S)) + 1
    <3>1. Cardinality(At(p, S) \cup {t})
            = IF t \in At(p, S) THEN Cardinality(At(p, S)) ELSE Cardinality(At(p, S)) + 1
      BY <1>2, FS_AddElement, Zenon
    <3> QED BY <2>1, <3>1, Zenon
  <2> QED BY <2>2, <1>2, <1>3
<1>4. CASE s \notin S /\ p[t] \in S
  <2>1. At(q, S) = At(p, S) \ {t} /\ t \in At(p, S)
    BY <1>1, <1>4 DEF At
  <2>2. Cardinality(At(q, S)) = Cardinality(At(p, S)) - 1
    <3>1. Cardinality(At(p, S) \ {t})
            = IF t \in At(p, S) THEN Cardinality(At(p, S)) - 1 ELSE Cardinality(At(p, S))
      BY <1>2, FS_RemoveElement, Zenon
    <3> QED BY <2>1, <3>1, Zenon
  <2> QED BY <2>2, <1>2, <1>4
<1>5. CASE s \in S <=> p[t] \in S
  <2>1. At(q, S) = At(p, S)
    BY <1>1, <1>5 DEF At
  <2> QED BY <2>1, <1>2, <1>5
<1> QED BY <1>3, <1>4, <1>5

-----------------------------------------------------------------------------
(* It holds at the start.                                                  *)
LEMMA CInitially == Init => CInv
<1> SUFFICES ASSUME Init PROVE CInv
  OBVIOUS
<1>1. CancelTypeOK
  BY DEF Init, CancelTypeOK, Places, States
<1>3. /\ At(pc, Readers) = {} /\ At(pc, Writers) = {}
      /\ At(pc, RdWaiters) = {} /\ At(pc, WrWaiters) = {}
      /\ At(pc, {"rdwait"}) = {} /\ At(pc, {"wrwait"}) = {}
  BY DEF Init, At, Readers, Writers, RdWaiters, WrWaiters
<1>4. RefcountExact /\ WaitersCounted
  BY <1>3, FS_EmptySet DEF Init, RefcountExact, WaitersCounted, In
<1> QED
  BY <1>1, <1>3, <1>4 DEF Init, CInv, NoStrandedWriter,
     rw_condreaders, rw_condwriters, In

(* What a step does that moves thread t, and only t, to s: the places, and *)
(* the three counts the invariants speak of.                               *)
Moved(t, s) ==
    /\ pc' \in [Threads -> Places]
    /\ \A u \in Threads : pc'[u] = IF u = t THEN s ELSE pc[u]
    /\ Cardinality(In(Readers)') = Cardinality(In(Readers))
         + (IF s \in Readers THEN 1 ELSE 0) - (IF pc[t] \in Readers THEN 1 ELSE 0)
    /\ Cardinality(In(RdWaiters)') = Cardinality(In(RdWaiters))
         + (IF s \in RdWaiters THEN 1 ELSE 0) - (IF pc[t] \in RdWaiters THEN 1 ELSE 0)
    /\ Cardinality(In(WrWaiters)') = Cardinality(In(WrWaiters))
         + (IF s \in WrWaiters THEN 1 ELSE 0) - (IF pc[t] \in WrWaiters THEN 1 ELSE 0)

(* A step that moves thread t to s does what Moved says.                   *)
LEMMA ThreadMoves ==
    ASSUME CancelTypeOK, NEW t \in Threads, NEW s \in Places,
           pc' = [pc EXCEPT ![t] = s]
    PROVE  Moved(t, s)
<1>1. pc \in [Threads -> Places] /\ pc' \in [Threads -> Places]
  BY DEF CancelTypeOK, Places
<1>2. \A u \in Threads : pc'[u] = IF u = t THEN s ELSE pc[u]
  BY <1>1
<1>0. /\ In(Readers)' = At(pc', Readers) /\ In(RdWaiters)' = At(pc', RdWaiters)
      /\ In(WrWaiters)' = At(pc', WrWaiters)
  BY DEF In, At, Readers, RdWaiters, WrWaiters
<1>3. Cardinality(In(Readers)') = Cardinality(In(Readers))
        + (IF s \in Readers THEN 1 ELSE 0) - (IF pc[t] \in Readers THEN 1 ELSE 0)
  BY <1>0, <1>1, Moving, Zenon DEF In
<1>4. Cardinality(In(RdWaiters)') = Cardinality(In(RdWaiters))
        + (IF s \in RdWaiters THEN 1 ELSE 0)
        - (IF pc[t] \in RdWaiters THEN 1 ELSE 0)
  BY <1>0, <1>1, Moving, Zenon DEF In
<1>5. Cardinality(In(WrWaiters)') = Cardinality(In(WrWaiters))
        + (IF s \in WrWaiters THEN 1 ELSE 0)
        - (IF pc[t] \in WrWaiters THEN 1 ELSE 0)
  BY <1>0, <1>1, Moving, Zenon DEF In
<1> QED BY <1>1, <1>2, <1>3, <1>4, <1>5 DEF Moved

(* The counts of the invariants are natural numbers, and zero exactly when *)
(* nobody is there.                                                        *)
LEMMA Counts ==
    ASSUME CancelTypeOK
    PROVE  \A S \in {Readers, RdWaiters, WrWaiters} :
             /\ Cardinality(In(S)) \in Nat
             /\ Cardinality(In(S)) = 0 <=> \A u \in Threads : pc[u] \notin S
<1> TAKE S \in {Readers, RdWaiters, WrWaiters}
<1>1. Cardinality(At(pc, S)) \in Nat /\ (Cardinality(At(pc, S)) = 0 <=> At(pc, S) = {})
  BY Counting DEF CancelTypeOK, Places
<1> QED BY <1>1 DEF In, At

(* A step that moves thread t, which does not sleep, to s and then signals *)
(* or broadcasts: a thread that is woken stays inside its loop, so the     *)
(* counts are those of the move alone.                                     *)
LEMMA ThreadMovesOthersWake ==
    ASSUME CancelTypeOK, NEW t \in Threads, NEW s \in Places,
           pc[t] \notin {"rdwait", "wrwait"}, NEW q, q = [pc EXCEPT ![t] = s],
           pc' \in {q, broadcast_readers(q)} \cup signal_writers(q)
    PROVE  /\ pc' \in [Threads -> Places]
           /\ pc'[t] = s
           /\ \A u \in Threads \ {t} : \/ pc'[u] = pc[u]
                                       \/ pc[u] = "wrwait" /\ pc'[u] = "wrwoken"
                                       \/ pc[u] = "rdwait" /\ pc'[u] = "rdwoken"
           /\ Cardinality(In(Readers)') = Cardinality(In(Readers))
                + (IF s \in Readers THEN 1 ELSE 0) - (IF pc[t] \in Readers THEN 1 ELSE 0)
           /\ Cardinality(In(RdWaiters)') = Cardinality(In(RdWaiters))
                + (IF s \in RdWaiters THEN 1 ELSE 0) - (IF pc[t] \in RdWaiters THEN 1 ELSE 0)
           /\ Cardinality(In(WrWaiters)') = Cardinality(In(WrWaiters))
                + (IF s \in WrWaiters THEN 1 ELSE 0) - (IF pc[t] \in WrWaiters THEN 1 ELSE 0)
<1>1. /\ pc \in [Threads -> Places] /\ q \in [Threads -> Places]
      /\ \A u \in Threads : q[u] = IF u = t THEN s ELSE pc[u]
  BY DEF CancelTypeOK, Places
<1>2. /\ Cardinality(At(q, Readers)) = Cardinality(At(pc, Readers))
           + (IF s \in Readers THEN 1 ELSE 0) - (IF pc[t] \in Readers THEN 1 ELSE 0)
      /\ Cardinality(At(q, RdWaiters)) = Cardinality(At(pc, RdWaiters))
           + (IF s \in RdWaiters THEN 1 ELSE 0) - (IF pc[t] \in RdWaiters THEN 1 ELSE 0)
      /\ Cardinality(At(q, WrWaiters)) = Cardinality(At(pc, WrWaiters))
           + (IF s \in WrWaiters THEN 1 ELSE 0) - (IF pc[t] \in WrWaiters THEN 1 ELSE 0)
  BY <1>1, Moving, Zenon
<1>3. /\ pc' \in [Threads -> Places]
      /\ \A u \in Threads : \/ pc'[u] = q[u]
                            \/ u # t /\ q[u] = "wrwait" /\ pc'[u] = "wrwoken"
                            \/ u # t /\ q[u] = "rdwait" /\ pc'[u] = "rdwoken"
  <2>1. CASE pc' = q
    BY <2>1, <1>1
  <2>2. CASE pc' = broadcast_readers(q)
    BY <2>2, <1>1 DEF broadcast_readers, rw_condreaders, In, At, Places, States
  <2>3. ASSUME NEW w \in rw_condwriters, pc' = [q EXCEPT ![w] = "wrwoken"]
        PROVE  /\ pc' \in [Threads -> Places]
               /\ \A u \in Threads : pc'[u] = q[u] \/ (u # t /\ q[u] = "wrwait" /\ pc'[u] = "wrwoken")
    <3>1. w \in Threads /\ w # t /\ q[w] = "wrwait"
      BY <1>1 DEF rw_condwriters, In, At
    <3>2. "wrwoken" \in Places
      BY DEF Places, States
    <3>3. /\ pc' \in [Threads -> Places]
          /\ \A u \in Threads : pc'[u] = IF u = w THEN "wrwoken" ELSE q[u]
      BY <3>1, <3>2, <1>1, <2>3
    <3> QED
      BY <3>1, <3>3
  <2> QED
    BY <2>1, <2>2, <2>3 DEF signal_writers
<1>4. /\ In(Readers)' = At(q, Readers)
      /\ In(RdWaiters)' = At(q, RdWaiters)
      /\ In(WrWaiters)' = At(q, WrWaiters)
  BY <1>3 DEF In, At, Readers, RdWaiters, WrWaiters
<1>5. /\ pc'[t] = s
      /\ \A u \in Threads \ {t} : \/ pc'[u] = pc[u]
                                  \/ pc[u] = "wrwait" /\ pc'[u] = "wrwoken"
                                  \/ pc[u] = "rdwait" /\ pc'[u] = "rdwoken"
  BY <1>1, <1>3
<1> QED
  BY <1>2, <1>3, <1>4, <1>5, Zenon DEF In

(* Every step of the lock, with or without cancellation, keeps the counters *)
(* exact and a writer from sleeping beside a lock it could have.           *)
LEMMA StepKeeps ==
    ASSUME CInv, NEW t \in Threads, Step(t) \/ CancelStep(t)
    PROVE  CInv'
<1> USE DEF CInv
<1> DEFINE R == Cardinality(In(Readers))
           NR == Cardinality(In(RdWaiters))
           NW == Cardinality(In(WrWaiters))
<1>0. /\ R \in Nat /\ NR \in Nat /\ NW \in Nat
      /\ R = 0 <=> \A u \in Threads : pc[u] \notin Readers
      /\ NR = 0 <=> \A u \in Threads : pc[u] \notin RdWaiters
      /\ NW = 0 <=> \A u \in Threads : pc[u] \notin WrWaiters
  BY Counts
<1>1. CASE pthread_rwlock_rdlock(t) \/ rdlock_resume(t) \/ pthread_rwlock_tryrdlock(t) \/ cancel_tryrdlock(t)
  <2> DEFINE k == IF pc[t] = "rdwoken" THEN 1 ELSE 0
  <2>1. CASE must_wait_rd
    <3>1. /\ pc[t] \in {"idle", "rdwoken"} /\ pc' = [pc EXCEPT ![t] = "rdwait"]
          /\ rw_nwaitreaders' = rw_nwaitreaders - k + 1 /\ UNCHANGED <<rw_magic, rw_refcount, rw_nwaitwriters>>
      BY <1>1, <2>1 DEF pthread_rwlock_rdlock, rdlock_resume, rdlock_loop, pthread_rwlock_tryrdlock, cancel_tryrdlock, must_wait_rd, CancelTypeOK
    <3>2. /\ pc' \in [Threads -> Places]
          /\ \A u \in Threads : pc'[u] = IF u = t THEN "rdwait" ELSE pc[u]
          /\ R' = R /\ NR' = NR - k + 1 /\ NW' = NW
      <4>1. "rdwait" \in Places
        BY DEF Places, States
      <4>2. Moved(t, "rdwait")
        BY <3>1, <4>1, ThreadMoves, Zenon
      <4> QED BY <4>2, <3>1, <1>0 DEF Moved, Readers, RdWaiters, WrWaiters
    <3>3. CancelTypeOK' /\ WaitersCounted'
      BY <3>1, <3>2, <1>0, <2>1 DEF CancelTypeOK, Places, WaitersCounted, RefcountExact,
         RdWaiters, WrWaiters, must_wait_rd
    <3>4. RefcountExact'
      BY <3>1, <3>2, <1>0, <2>1 DEF CancelTypeOK, RefcountExact, In, At, Readers, Writers, must_wait_rd
    <3>5. NoStrandedWriter'
      BY <3>1, <3>2, <1>0, <2>1 DEF CancelTypeOK, RefcountExact, WaitersCounted, NoStrandedWriter,
         rw_condwriters, In, At, RdWaiters, WrWaiters, must_wait_rd
    <3> QED BY <3>3, <3>4, <3>5
  <2>2. CASE ~must_wait_rd
    <3>1. /\ pc[t] \in {"idle", "rdwoken"} /\ pc' = [pc EXCEPT ![t] = "reading"]
          /\ rw_refcount' = rw_refcount + 1 /\ rw_nwaitreaders' = rw_nwaitreaders - k
          /\ UNCHANGED <<rw_magic, rw_nwaitwriters>>
      BY <1>1, <2>2 DEF pthread_rwlock_rdlock, rdlock_resume, rdlock_loop, pthread_rwlock_tryrdlock, cancel_tryrdlock, must_wait_rd, CancelTypeOK
    <3>2. /\ pc' \in [Threads -> Places]
          /\ \A u \in Threads : pc'[u] = IF u = t THEN "reading" ELSE pc[u]
          /\ R' = R + 1 /\ NR' = NR - k /\ NW' = NW
      <4>1. "reading" \in Places
        BY DEF Places, States
      <4>2. Moved(t, "reading")
        BY <3>1, <4>1, ThreadMoves, Zenon
      <4> QED BY <4>2, <3>1, <1>0 DEF Moved, Readers, RdWaiters, WrWaiters
    <3>3. CancelTypeOK' /\ WaitersCounted'
      BY <3>1, <3>2, <1>0, <2>2 DEF CancelTypeOK, Places, WaitersCounted, RefcountExact,
         RdWaiters, WrWaiters, must_wait_rd
    <3>4. RefcountExact'
      BY <3>1, <3>2, <1>0, <2>2 DEF CancelTypeOK, RefcountExact, In, At, Readers, Writers, must_wait_rd
    <3>5. NoStrandedWriter'
      BY <3>1, <3>2, <1>0, <2>2 DEF CancelTypeOK, RefcountExact, WaitersCounted, NoStrandedWriter,
         rw_condwriters, In, At, RdWaiters, WrWaiters, must_wait_rd
    <3> QED BY <3>3, <3>4, <3>5
  <2> QED BY <2>1, <2>2
<1>2. CASE pthread_rwlock_wrlock(t) \/ wrlock_resume(t) \/ pthread_rwlock_trywrlock(t)
  <2> DEFINE k == IF pc[t] = "wrwoken" THEN 1 ELSE 0
  <2>1. CASE must_wait_wr
    <3>1. /\ pc[t] \in {"idle", "wrwoken"} /\ pc' = [pc EXCEPT ![t] = "wrwait"]
          /\ rw_nwaitwriters' = rw_nwaitwriters - k + 1 /\ UNCHANGED <<rw_magic, rw_refcount, rw_nwaitreaders>>
      BY <1>2, <2>1 DEF pthread_rwlock_wrlock, wrlock_resume, wrlock_loop, pthread_rwlock_trywrlock, must_wait_wr, CancelTypeOK
    <3>2. /\ pc' \in [Threads -> Places]
          /\ \A u \in Threads : pc'[u] = IF u = t THEN "wrwait" ELSE pc[u]
          /\ R' = R /\ NW' = NW - k + 1 /\ NR' = NR
      <4>1. "wrwait" \in Places
        BY DEF Places, States
      <4>2. Moved(t, "wrwait")
        BY <3>1, <4>1, ThreadMoves, Zenon
      <4> QED BY <4>2, <3>1, <1>0 DEF Moved, Readers, RdWaiters, WrWaiters
    <3>3. CancelTypeOK' /\ WaitersCounted'
      BY <3>1, <3>2, <1>0, <2>1 DEF CancelTypeOK, Places, WaitersCounted, RefcountExact,
         RdWaiters, WrWaiters, must_wait_wr
    <3>4. RefcountExact'
      BY <3>1, <3>2, <1>0, <2>1 DEF CancelTypeOK, RefcountExact, In, At, Readers, Writers, must_wait_wr
    <3>5. NoStrandedWriter'
      BY <3>1, <3>2, <1>0, <2>1 DEF CancelTypeOK, RefcountExact, WaitersCounted, NoStrandedWriter,
         rw_condwriters, In, At, RdWaiters, WrWaiters, must_wait_wr
    <3> QED BY <3>3, <3>4, <3>5
  <2>2. CASE ~must_wait_wr
    <3>1. /\ pc[t] \in {"idle", "wrwoken"} /\ pc' = [pc EXCEPT ![t] = "writing"]
          /\ rw_refcount' = -1 /\ rw_nwaitwriters' = rw_nwaitwriters - k
          /\ UNCHANGED <<rw_magic, rw_nwaitreaders>>
      BY <1>2, <2>2 DEF pthread_rwlock_wrlock, wrlock_resume, wrlock_loop, pthread_rwlock_trywrlock, must_wait_wr, CancelTypeOK
    <3>2. /\ pc' \in [Threads -> Places]
          /\ \A u \in Threads : pc'[u] = IF u = t THEN "writing" ELSE pc[u]
          /\ R' = R /\ NW' = NW - k /\ NR' = NR
      <4>1. "writing" \in Places
        BY DEF Places, States
      <4>2. Moved(t, "writing")
        BY <3>1, <4>1, ThreadMoves, Zenon
      <4> QED BY <4>2, <3>1, <1>0 DEF Moved, Readers, RdWaiters, WrWaiters
    <3>3. CancelTypeOK' /\ WaitersCounted'
      BY <3>1, <3>2, <1>0, <2>2 DEF CancelTypeOK, Places, WaitersCounted, RefcountExact,
         RdWaiters, WrWaiters, must_wait_wr
    <3>4. RefcountExact'
      BY <3>1, <3>2, <1>0, <2>2 DEF CancelTypeOK, RefcountExact, In, At, Readers, Writers, must_wait_wr
    <3>5. NoStrandedWriter'
      BY <3>1, <3>2, <1>0, <2>2 DEF CancelTypeOK, RefcountExact, WaitersCounted, NoStrandedWriter,
         rw_condwriters, In, At, RdWaiters, WrWaiters, must_wait_wr
    <3> QED BY <3>3, <3>4, <3>5
  <2> QED BY <2>1, <2>2
<1>3. CASE pthread_rwlock_unlock(t) \/ cancel_unlock(t)
  <2> DEFINE count == IF rw_refcount > 0 THEN rw_refcount - 1 ELSE 0
             q     == [pc EXCEPT ![t] = "idle"]
  <2>1. /\ pc[t] \in {"reading", "writing"}
        /\ rw_refcount > 0 \/ rw_refcount = -1
        /\ rw_refcount' = count
        /\ UNCHANGED <<rw_magic, rw_nwaitreaders, rw_nwaitwriters>>
    BY <1>3 DEF pthread_rwlock_unlock, cancel_unlock
  <2>2. /\ pc' \in {q, broadcast_readers(q)} \cup signal_writers(q)
        /\ rw_nwaitwriters > 0 /\ count = 0 => pc' \in signal_writers(q)
    <3>1. CASE pthread_rwlock_unlock(t)
      BY <3>1 DEF pthread_rwlock_unlock, unlock_wakes
    <3>2. CASE cancel_unlock(t)
      BY <3>2 DEF cancel_unlock, CancelTypeOK
    <3> QED
      BY <3>1, <3>2, <1>3
  <2> HIDE DEF q
  <2>3. /\ pc' \in [Threads -> Places] /\ pc'[t] = "idle"
        /\ \A u \in Threads \ {t} : \/ pc'[u] = pc[u]
                                    \/ pc[u] = "wrwait" /\ pc'[u] = "wrwoken"
                                    \/ pc[u] = "rdwait" /\ pc'[u] = "rdwoken"
        /\ R' = R - (IF pc[t] = "reading" THEN 1 ELSE 0)
        /\ NR' = NR /\ NW' = NW
    <3>1. "idle" \in Places /\ q = [pc EXCEPT ![t] = "idle"] /\ pc[t] \notin {"rdwait", "wrwait"}
      BY <2>1 DEF Places, States, q
    <3>2. /\ pc' \in [Threads -> Places] /\ pc'[t] = "idle"
          /\ \A u \in Threads \ {t} : \/ pc'[u] = pc[u]
                                      \/ pc[u] = "wrwait" /\ pc'[u] = "wrwoken"
                                      \/ pc[u] = "rdwait" /\ pc'[u] = "rdwoken"
          /\ R' = R + (IF "idle" \in Readers THEN 1 ELSE 0) - (IF pc[t] \in Readers THEN 1 ELSE 0)
          /\ NR' = NR + (IF "idle" \in RdWaiters THEN 1 ELSE 0) - (IF pc[t] \in RdWaiters THEN 1 ELSE 0)
          /\ NW' = NW + (IF "idle" \in WrWaiters THEN 1 ELSE 0) - (IF pc[t] \in WrWaiters THEN 1 ELSE 0)
      BY <3>1, <2>2, ThreadMovesOthersWake, Zenon
    <3> QED
      BY <3>2, <2>1, <1>0 DEF Readers, RdWaiters, WrWaiters
  <2>4. CancelTypeOK' /\ WaitersCounted'
    BY <2>1, <2>3, <1>0 DEF CancelTypeOK, Places, WaitersCounted
  <2>5. RefcountExact'
    BY <2>1, <2>3, <1>0 DEF CancelTypeOK, RefcountExact, In, At, Readers, Writers
  <2>6. NoStrandedWriter'
    <3>1. CASE rw_nwaitwriters > 0 /\ count = 0 /\ rw_condwriters # {}
      BY <3>1, <2>1, <2>2 DEF signal_writers, NoStrandedWriter, rw_condwriters, In, At, CancelTypeOK, q
    <3>2. CASE rw_nwaitwriters > 0 /\ count # 0
      BY <3>2, <2>1 DEF NoStrandedWriter
    <3>3. CASE ~(rw_nwaitwriters > 0) \/ rw_condwriters = {}
      <4>1. \A u \in Threads : pc[u] # "wrwait"
        BY <3>3, <1>0 DEF WaitersCounted, WrWaiters, CancelTypeOK, rw_condwriters, In, At
      <4>2. \A u \in Threads : pc'[u] # "wrwait"
        BY <4>1, <2>3
      <4> QED
        BY <4>2 DEF NoStrandedWriter, rw_condwriters, In, At
    <3> QED
      BY <3>1, <3>2, <3>3
  <2> QED
    BY <2>4, <2>5, <2>6
<1>4. CASE pthread_rwlock_destroy(t)
  <2>1. PICK s \in Destroying \cup {"idle"} : pc[t] \in Destroying \cup {"idle"} /\ pc' = [pc EXCEPT ![t] = s]
    BY <1>4 DEF pthread_rwlock_destroy, finds_zero, clears_magic, Destroying
  <2>2. UNCHANGED <<rw_refcount, rw_nwaitreaders, rw_nwaitwriters>> /\ rw_magic' \in BOOLEAN
    BY <1>4 DEF pthread_rwlock_destroy, finds_zero, clears_magic, rw, CancelTypeOK
  <2>3. /\ pc' \in [Threads -> Places]
        /\ \A u \in Threads : pc'[u] = IF u = t THEN s ELSE pc[u]
        /\ R' = R /\ NR' = NR /\ NW' = NW
    <3>1. s \in Places
      BY DEF Places, States, Destroying
    <3>2. Moved(t, s)
      BY <2>1, <3>1, ThreadMoves, Zenon
    <3> QED BY <3>2, <2>1, <1>0 DEF Moved, Readers, RdWaiters, WrWaiters, Destroying
  <2>4. CancelTypeOK' /\ WaitersCounted'
    BY <2>2, <2>3, <1>0 DEF CancelTypeOK, Places, WaitersCounted
  <2>5. RefcountExact'
    BY <2>1, <2>2, <2>3, <1>0 DEF CancelTypeOK, RefcountExact, In, At, Readers, Writers, Destroying
  <2>6. NoStrandedWriter'
    BY <2>1, <2>2, <2>3 DEF NoStrandedWriter, rw_condwriters, In, At, Destroying
  <2> QED BY <2>4, <2>5, <2>6
<1>5. CASE pthread_rwlock_init(t) \/ returns_EINVAL(t)
  <2>1. CASE pthread_rwlock_init(t)
    <3>1. pc' = pc /\ \A u \in Threads : pc[u] \notin Users
      BY <2>1 DEF pthread_rwlock_init, In, At
    <3>2. R' = 0 /\ NR' = 0 /\ NW' = 0
      BY <3>1, <1>0 DEF In, At, Readers, RdWaiters, WrWaiters, Users
    <3> QED
      BY <2>1, <3>1, <3>2 DEF pthread_rwlock_init, CancelTypeOK, RefcountExact, WaitersCounted, NoStrandedWriter,
         rw_condwriters, In, At, Users, Readers, Writers, WrWaiters
  <2>2. CASE returns_EINVAL(t)
    BY <2>2 DEF returns_EINVAL, rw, CancelTypeOK, RefcountExact, WaitersCounted, NoStrandedWriter,
       rw_condwriters, In, At
  <2> QED BY <1>5, <2>1, <2>2
<1>6. CASE spurious_wakeup(t)
  <2> DEFINE s == IF pc[t] = "rdwait" THEN "rdwoken" ELSE "wrwoken"
  <2>1. /\ pc[t] \in {"rdwait", "wrwait"} /\ pc' = [pc EXCEPT ![t] = s]
        /\ UNCHANGED <<rw_magic, rw_refcount, rw_nwaitreaders, rw_nwaitwriters>>
    BY <1>6 DEF spurious_wakeup, rw, CancelTypeOK
  <2>2. /\ pc' \in [Threads -> Places]
        /\ \A u \in Threads : pc'[u] = IF u = t THEN s ELSE pc[u]
        /\ R' = R /\ NR' = NR /\ NW' = NW
    <3>1. s \in Places
      BY DEF Places, States
    <3> HIDE DEF s
    <3>2. Moved(t, s)
      BY <2>1, <3>1, ThreadMoves, Zenon
    <3> QED BY <3>2, <2>1, <1>0 DEF Moved, Readers, RdWaiters, WrWaiters, s
  <2>3. CancelTypeOK' /\ WaitersCounted'
    BY <2>1, <2>2, <1>0 DEF CancelTypeOK, Places, WaitersCounted
  <2>4. RefcountExact'
    BY <2>1, <2>2, <1>0 DEF CancelTypeOK, RefcountExact, In, At, Readers, Writers
  <2>5. NoStrandedWriter'
    BY <2>1, <2>2 DEF NoStrandedWriter, rw_condreaders, rw_condwriters, In, At
  <2> QED BY <2>3, <2>4, <2>5
<1>7. CASE rwlock_cancelrdwait(t)
  <2>1. /\ pc[t] \in RdWaiters /\ pc' = [pc EXCEPT ![t] = "cancelled"]
        /\ rw_nwaitreaders' = rw_nwaitreaders - 1 /\ UNCHANGED <<rw_magic, rw_refcount, rw_nwaitwriters>>
    BY <1>7 DEF rwlock_cancelrdwait
  <2>2. /\ pc' \in [Threads -> Places]
        /\ \A u \in Threads : pc'[u] = IF u = t THEN "cancelled" ELSE pc[u]
        /\ R' = R /\ NR' = NR - 1 /\ NW' = NW
    <3>1. "cancelled" \in Places
      BY DEF Places
    <3>2. Moved(t, "cancelled")
      BY <2>1, <3>1, ThreadMoves, Zenon
    <3> QED
      BY <3>2, <2>1, <1>0 DEF Moved, Readers, RdWaiters, WrWaiters
  <2>3. CancelTypeOK' /\ WaitersCounted'
    BY <2>1, <2>2, <1>0 DEF CancelTypeOK, Places, WaitersCounted, RdWaiters
  <2>4. RefcountExact'
    BY <2>1, <2>2, <1>0 DEF CancelTypeOK, RefcountExact, In, At, Readers, Writers, RdWaiters
  <2>5. NoStrandedWriter'
    BY <2>1, <2>2 DEF NoStrandedWriter, rw_condwriters, In, At, RdWaiters
  <2> QED
    BY <2>3, <2>4, <2>5
<1>8. CASE rwlock_cancelwrwait(t)
  <2> DEFINE q == [pc EXCEPT ![t] = "cancelled"]
  <2>1. /\ pc[t] \in WrWaiters
        /\ \/ pc[t] = "wrwait" /\ pc' = q
           \/ pc[t] = "wrwoken" /\ pc' \in signal_writers(q)
        /\ rw_nwaitwriters' = rw_nwaitwriters - 1 /\ UNCHANGED <<rw_magic, rw_refcount, rw_nwaitreaders>>
    BY <1>8 DEF rwlock_cancelwrwait
  <2> HIDE DEF q
  <2>2. /\ pc' \in [Threads -> Places] /\ pc'[t] = "cancelled"
        /\ \A u \in Threads \ {t} : \/ pc'[u] = pc[u]
                                    \/ pc[u] = "wrwait" /\ pc'[u] = "wrwoken"
                                    \/ pc[u] = "rdwait" /\ pc'[u] = "rdwoken"
        /\ R' = R /\ NR' = NR /\ NW' = NW - 1
    <3>1. "cancelled" \in Places /\ q = [pc EXCEPT ![t] = "cancelled"]
      BY DEF Places, q
    <3>2. CASE pc[t] = "wrwait" /\ pc' = q
      <4>1. Moved(t, "cancelled")
        BY <3>1, <3>2, ThreadMoves, Zenon
      <4> QED
        BY <4>1, <2>1, <1>0 DEF Moved, Readers, RdWaiters, WrWaiters
    <3>3. CASE pc[t] = "wrwoken" /\ pc' \in signal_writers(q)
      <4>1. pc[t] \notin {"rdwait", "wrwait"} /\ pc' \in {q, broadcast_readers(q)} \cup signal_writers(q)
        BY <3>3
      <4>2. /\ pc' \in [Threads -> Places] /\ pc'[t] = "cancelled"
            /\ \A u \in Threads \ {t} : \/ pc'[u] = pc[u]
                                        \/ pc[u] = "wrwait" /\ pc'[u] = "wrwoken"
                                        \/ pc[u] = "rdwait" /\ pc'[u] = "rdwoken"
            /\ R' = R + (IF "cancelled" \in Readers THEN 1 ELSE 0) - (IF pc[t] \in Readers THEN 1 ELSE 0)
            /\ NR' = NR + (IF "cancelled" \in RdWaiters THEN 1 ELSE 0) - (IF pc[t] \in RdWaiters THEN 1 ELSE 0)
            /\ NW' = NW + (IF "cancelled" \in WrWaiters THEN 1 ELSE 0) - (IF pc[t] \in WrWaiters THEN 1 ELSE 0)
        BY <3>1, <4>1, ThreadMovesOthersWake, Zenon
      <4> QED
        BY <4>2, <3>3, <1>0 DEF Readers, RdWaiters, WrWaiters
    <3> QED
      BY <3>2, <3>3, <2>1
  <2>3. CancelTypeOK' /\ WaitersCounted'
    BY <2>1, <2>2, <1>0 DEF CancelTypeOK, Places, WaitersCounted, WrWaiters
  <2>4. RefcountExact'
    BY <2>1, <2>2, <1>0 DEF CancelTypeOK, RefcountExact, In, At, Readers, Writers, WrWaiters
  <2>5. NoStrandedWriter'
    <3>1. CASE pc[t] = "wrwait" /\ pc' = q
      BY <3>1, <2>1 DEF NoStrandedWriter, rw_condwriters, In, At, CancelTypeOK, q
    <3>2. CASE pc[t] = "wrwoken" /\ pc' \in signal_writers(q) /\ rw_condwriters # {}
      BY <3>2, <2>1 DEF signal_writers, NoStrandedWriter, rw_condwriters, In, At, CancelTypeOK, q
    <3>3. CASE rw_condwriters = {}
      BY <3>3, <2>2 DEF NoStrandedWriter, rw_condwriters, In, At
    <3> QED
      BY <3>1, <3>2, <3>3, <2>1
  <2> QED
    BY <2>3, <2>4, <2>5
<1> QED
  BY <1>1, <1>2, <1>3, <1>4, <1>5, <1>6, <1>7, <1>8
     DEF Step, CancelStep, cancel_rdlock, cancel_wrlock, cancel_trywrlock, cancel_destroy, cancel_init

-----------------------------------------------------------------------------
(* Without cancellation no thread is ever cancelled, and a reader sleeps   *)
(* only behind a writer: unlock broadcasts when the last writer is gone.   *)
LEMMA UncancelledKeeps ==
    ASSUME CInv, TypeOK, NoStrandedReader, NEW t \in Threads, Step(t)
    PROVE  TypeOK' /\ NoStrandedReader'
<1>0. /\ \A S \in {Readers, RdWaiters, WrWaiters} :
           /\ Cardinality(In(S)) \in Nat
           /\ Cardinality(In(S)) = 0 <=> \A u \in Threads : pc[u] \notin S
      /\ WaitersCounted /\ RefcountExact
  BY Counts DEF CInv
<1>1. CancelTypeOK'
  BY StepKeeps, Zenon DEF CInv
<1>2. CASE pthread_rwlock_rdlock(t) \/ rdlock_resume(t) \/ pthread_rwlock_tryrdlock(t)
  <2>1. \/ must_wait_rd /\ UNCHANGED <<rw_refcount, rw_nwaitwriters>> /\ pc' = [pc EXCEPT ![t] = "rdwait"]
        \/ ~must_wait_rd /\ rw_nwaitwriters' = rw_nwaitwriters /\ pc' = [pc EXCEPT ![t] = "reading"]
    BY <1>2 DEF pthread_rwlock_rdlock, rdlock_resume, rdlock_loop, pthread_rwlock_tryrdlock
  <2>2. pc' \in [Threads -> States]
    BY <2>1 DEF TypeOK, States
  <2>3. NoStrandedReader'
    BY <2>1 DEF NoStrandedReader, must_wait_rd, TypeOK, rw_condreaders, In, At
  <2> QED
    BY <1>1, <2>2, <2>3 DEF TypeOK, CancelTypeOK
<1>3. CASE pthread_rwlock_wrlock(t) \/ wrlock_resume(t) \/ pthread_rwlock_trywrlock(t)
  <2>1. \/ must_wait_wr /\ UNCHANGED rw_refcount /\ rw_nwaitwriters' > 0 /\ pc' = [pc EXCEPT ![t] = "wrwait"]
        \/ rw_refcount' = -1 /\ pc' = [pc EXCEPT ![t] = "writing"]
    <3>1. pc[t] = "wrwoken" => rw_nwaitwriters > 0
      BY <1>0 DEF WaitersCounted, WrWaiters, TypeOK
    <3> QED
      BY <3>1, <1>3 DEF pthread_rwlock_wrlock, wrlock_resume, wrlock_loop, pthread_rwlock_trywrlock, TypeOK
  <2>2. pc' \in [Threads -> States]
    BY <2>1 DEF TypeOK, States
  <2> QED
    BY <1>1, <2>1, <2>2 DEF TypeOK, CancelTypeOK, NoStrandedReader
<1>4. CASE pthread_rwlock_unlock(t)
  <2> DEFINE count == IF rw_refcount > 0 THEN rw_refcount - 1 ELSE 0
             q     == [pc EXCEPT ![t] = "idle"]
  <2>1. /\ pc' \in unlock_wakes(count, q)
        /\ UNCHANGED <<rw_nwaitreaders, rw_nwaitwriters>>
    BY <1>4 DEF pthread_rwlock_unlock
  <2>2. q \in [Threads -> States]
    BY DEF TypeOK, States
  <2>3. pc' \in [Threads -> States]
    <3> HIDE DEF q
    <3>1. pc' = q \/ pc' = broadcast_readers(q) \/ \E w \in Threads : pc' = [q EXCEPT ![w] = "wrwoken"]
      BY <2>1 DEF unlock_wakes, signal_writers, rw_condwriters, In, At
    <3> QED
      BY <3>1, <2>2 DEF broadcast_readers, States
  <2>4. NoStrandedReader'
    <3>1. CASE rw_nwaitwriters > 0
      BY <3>1, <2>1 DEF NoStrandedReader
    <3>2. CASE ~(rw_nwaitwriters > 0) /\ rw_nwaitreaders > 0
      BY <3>2, <2>1, <2>2 DEF unlock_wakes, broadcast_readers, NoStrandedReader, rw_condreaders, In, At
    <3>3. CASE ~(rw_nwaitwriters > 0) /\ ~(rw_nwaitreaders > 0)
      <4>1. \A u \in Threads : pc[u] # "rdwait"
        BY <3>3, <1>0 DEF WaitersCounted, RdWaiters, TypeOK
      <4> QED
        BY <4>1, <3>3, <2>1, <2>2 DEF unlock_wakes, NoStrandedReader, rw_condreaders, In, At, TypeOK
    <3> QED
      BY <3>1, <3>2, <3>3
  <2> QED
    BY <1>1, <2>3, <2>4 DEF TypeOK, CancelTypeOK
<1>5. CASE pthread_rwlock_destroy(t) \/ pthread_rwlock_init(t) \/ returns_EINVAL(t)
  <2>1. CASE pthread_rwlock_destroy(t)
    <3>1. PICK s \in Destroying \cup {"idle"} : pc' = [pc EXCEPT ![t] = s]
      BY <2>1 DEF pthread_rwlock_destroy, finds_zero, clears_magic, Destroying
    <3>2. pc' \in [Threads -> States] /\ \A u \in Threads : pc'[u] = IF u = t THEN s ELSE pc[u]
      BY <3>1 DEF TypeOK, States, Destroying
    <3>3. UNCHANGED <<rw_refcount, rw_nwaitwriters>>
      BY <2>1 DEF pthread_rwlock_destroy, finds_zero, clears_magic, rw
    <3>4. NoStrandedReader'
      BY <3>2, <3>3 DEF NoStrandedReader, rw_condreaders, In, At, Destroying
    <3> QED
      BY <3>2, <3>4, <1>1 DEF TypeOK, CancelTypeOK
  <2>2. CASE pthread_rwlock_init(t)
    <3>1. pc' = pc /\ \A u \in Threads : pc[u] # "rdwait"
      BY <2>2 DEF pthread_rwlock_init, In, At, Users, RdWaiters
    <3> QED
      BY <3>1, <1>1 DEF TypeOK, CancelTypeOK, NoStrandedReader, rw_condreaders, In, At
  <2>3. CASE returns_EINVAL(t)
    BY <2>3 DEF returns_EINVAL, rw, TypeOK, NoStrandedReader, rw_condreaders, In, At
  <2> QED
    BY <1>5, <2>1, <2>2, <2>3
<1>6. CASE spurious_wakeup(t)
  <2>1. pc' \in [Threads -> States]
    BY <1>6 DEF spurious_wakeup, TypeOK, States
  <2>2. NoStrandedReader'
    BY <1>6 DEF spurious_wakeup, rw, NoStrandedReader, TypeOK, rw_condreaders, In, At
  <2> QED
    BY <2>1, <2>2, <1>1 DEF TypeOK, CancelTypeOK
<1> QED
  BY <1>2, <1>3, <1>4, <1>5, <1>6 DEF Step

(* A thread that has the lock keeps it through the steps of the others.    *)
LEMMA HoldersStay ==
    ASSUME CancelTypeOK, NEW t \in Threads, Step(t), NEW u \in Threads \ {t}, pc[u] \in {"reading", "writing"}
    PROVE  pc'[u] = pc[u]
<1>1. CASE pthread_rwlock_rdlock(t) \/ rdlock_resume(t) \/ pthread_rwlock_tryrdlock(t)
  BY <1>1 DEF pthread_rwlock_rdlock, rdlock_resume, rdlock_loop, pthread_rwlock_tryrdlock, CancelTypeOK
<1>2. CASE pthread_rwlock_wrlock(t) \/ wrlock_resume(t) \/ pthread_rwlock_trywrlock(t)
  BY <1>2 DEF pthread_rwlock_wrlock, wrlock_resume, wrlock_loop, pthread_rwlock_trywrlock, CancelTypeOK
<1>3. CASE pthread_rwlock_unlock(t)
  <2> DEFINE count == IF rw_refcount > 0 THEN rw_refcount - 1 ELSE 0
             q     == [pc EXCEPT ![t] = "idle"]
  <2>1. pc' \in unlock_wakes(count, q)
    BY <1>3 DEF pthread_rwlock_unlock
  <2>2. q[u] = pc[u] /\ q \in [Threads -> Places]
    BY DEF CancelTypeOK, Places, States
  <2> HIDE DEF q, count
  <2>3. pc' = q \/ pc' = broadcast_readers(q) \/ \E w \in rw_condwriters : pc' = [q EXCEPT ![w] = "wrwoken"]
    BY <2>1 DEF unlock_wakes, signal_writers
  <2> QED
    BY <2>2, <2>3 DEF broadcast_readers, rw_condreaders, rw_condwriters, In, At
<1>4. CASE pthread_rwlock_destroy(t) \/ pthread_rwlock_init(t) \/ returns_EINVAL(t) \/ spurious_wakeup(t)
  BY <1>4 DEF pthread_rwlock_destroy, finds_zero, clears_magic, pthread_rwlock_init, returns_EINVAL,
     spurious_wakeup, CancelTypeOK
<1> QED
  BY <1>1, <1>2, <1>3, <1>4 DEF Step

-----------------------------------------------------------------------------
(* What a thread that destroys the lock has seen: once it has found a      *)
(* counter to be zero, whoever is counted there has come since.            *)
DestroyInv ==
    /\ came \in [Threads -> SUBSET Threads]
    /\ \A d, u \in Threads :
         /\ pc[d] \in Destroying /\ pc[u] \in Readers \cup Writers => u \in came[d]
         /\ pc[d] \in {"destroy2", "destroy3"} /\ pc[u] \in RdWaiters => u \in came[d]
         /\ pc[d] = "destroy3" /\ pc[u] \in WrWaiters => u \in came[d]

(* A thread gets further in pthread_rwlock_destroy by its own steps only,  *)
(* and those move nobody else.                                             *)
LEMMA DestroyersMove ==
    ASSUME CancelTypeOK, NEW t \in Threads, Step(t) \/ CancelStep(t)
    PROVE  \/ pthread_rwlock_destroy(t)
           \/ \A d \in Threads : pc'[d] \in Destroying => pc'[d] = pc[d]
<1> USE DEF Destroying
<1>1. CASE pthread_rwlock_rdlock(t) \/ rdlock_resume(t) \/ pthread_rwlock_tryrdlock(t) \/ cancel_tryrdlock(t)
  BY <1>1 DEF pthread_rwlock_rdlock, rdlock_resume, rdlock_loop, pthread_rwlock_tryrdlock, cancel_tryrdlock, CancelTypeOK
<1>2. CASE pthread_rwlock_wrlock(t) \/ wrlock_resume(t) \/ pthread_rwlock_trywrlock(t)
  BY <1>2 DEF pthread_rwlock_wrlock, wrlock_resume, wrlock_loop, pthread_rwlock_trywrlock, CancelTypeOK
<1>3. ASSUME NEW q, NEW s \in {"idle", "cancelled"}, q = [pc EXCEPT ![t] = s],
             pc' \in {q, broadcast_readers(q)} \cup signal_writers(q)
      PROVE  \A d \in Threads : pc'[d] \in Destroying => pc'[d] = pc[d]
  <2>1. q \in [Threads -> Places] /\ \A u \in Threads : q[u] = IF u = t THEN s ELSE pc[u]
    BY <1>3 DEF CancelTypeOK, Places, States
  <2>2. pc' = q \/ pc' = broadcast_readers(q) \/ \E w \in Threads : pc' = [q EXCEPT ![w] = "wrwoken"]
    BY <1>3 DEF signal_writers, rw_condwriters, In, At
  <2> QED
    BY <2>1, <2>2 DEF broadcast_readers
<1>4. CASE pthread_rwlock_unlock(t) \/ cancel_unlock(t)
  BY <1>3, <1>4 DEF pthread_rwlock_unlock, cancel_unlock, unlock_wakes
<1>5. CASE rwlock_cancelrdwait(t) \/ rwlock_cancelwrwait(t)
  BY <1>3, <1>5 DEF rwlock_cancelrdwait, rwlock_cancelwrwait
<1>6. CASE pthread_rwlock_init(t) \/ returns_EINVAL(t) \/ spurious_wakeup(t)
  BY <1>6 DEF pthread_rwlock_init, returns_EINVAL, spurious_wakeup, CancelTypeOK
<1> QED
  BY <1>1, <1>2, <1>4, <1>5, <1>6, Zenon
     DEF Step, CancelStep, cancel_rdlock, cancel_wrlock, cancel_trywrlock, cancel_destroy, cancel_init

(* A step of the lock keeps what the destroyers have seen.                 *)
LEMMA ArrivalsNoted ==
    ASSUME CInv, DestroyInv, NEW t \in Threads, Step(t) \/ CancelStep(t), NoteArrivals
    PROVE  DestroyInv'
<1>1. came' \in [Threads -> SUBSET Threads]
  BY DEF NoteArrivals, Arriving, DestroyInv
<1>2. ASSUME NEW d \in Threads, NEW u \in Threads, pc'[d] \in Destroying,
             NEW S \in {Readers, Writers, RdWaiters, WrWaiters}, pc'[u] \in S,
             pc[u] \in S => u \in came[d]
      PROVE  u \in came'[d]
  BY <1>2 DEF NoteArrivals, Arriving
<1>3. ASSUME NEW d \in Threads, NEW u \in Threads, pc'[d] \in Destroying, pc'[d] = pc[d]
      PROVE  /\ pc'[u] \in Readers \cup Writers => u \in came'[d]
             /\ pc'[d] \in {"destroy2", "destroy3"} /\ pc'[u] \in RdWaiters => u \in came'[d]
             /\ pc'[d] = "destroy3" /\ pc'[u] \in WrWaiters => u \in came'[d]
  <2>1. /\ pc[u] \in Readers => u \in came[d]
        /\ pc[u] \in Writers => u \in came[d]
        /\ pc[d] \in {"destroy2", "destroy3"} /\ pc[u] \in RdWaiters => u \in came[d]
        /\ pc[d] = "destroy3" /\ pc[u] \in WrWaiters => u \in came[d]
    BY <1>3 DEF DestroyInv
  <2> QED
    BY <2>1, <1>2, <1>3, Zenon
<1>4. CASE pthread_rwlock_destroy(t)
  <2>0. CancelTypeOK /\ pc \in [Threads -> Places]
    BY DEF CInv, CancelTypeOK, Places
  <2>1. \A u \in Threads \ {t} : pc'[u] = pc[u]
    BY <1>4, <2>0 DEF pthread_rwlock_destroy, finds_zero, clears_magic
  <2>2. \/ pc'[t] = "idle"
        \/ pc'[t] = "destroy1" /\ rw_refcount = 0
        \/ pc[t] = "destroy1" /\ pc'[t] = "destroy2" /\ rw_nwaitreaders = 0
        \/ pc[t] = "destroy2" /\ pc'[t] = "destroy3" /\ rw_nwaitwriters = 0
    BY <1>4, <2>0 DEF pthread_rwlock_destroy, finds_zero, clears_magic
  <2>3. /\ rw_refcount = 0 => \A u \in Threads : pc[u] \notin Readers \cup Writers
        /\ rw_nwaitreaders = 0 => \A u \in Threads : pc[u] \notin RdWaiters
        /\ rw_nwaitwriters = 0 => \A u \in Threads : pc[u] \notin WrWaiters
    <3>1. \A S \in {Readers, RdWaiters, WrWaiters} :
            Cardinality(In(S)) = 0 <=> \A u \in Threads : pc[u] \notin S
      BY <2>0, Counts
    <3> QED
      BY <3>1 DEF CInv, RefcountExact, WaitersCounted, In, At, Writers
  <2>4. ASSUME NEW u \in Threads
        PROVE  /\ pc'[t] \in Destroying /\ pc'[u] \in Readers \cup Writers => u \in came'[t]
               /\ pc'[t] \in {"destroy2", "destroy3"} /\ pc'[u] \in RdWaiters => u \in came'[t]
               /\ pc'[t] = "destroy3" /\ pc'[u] \in WrWaiters => u \in came'[t]
    <3>1. CASE u = t
      BY <3>1, <2>2 DEF Readers, Writers, RdWaiters, WrWaiters, Destroying
    <3>2. CASE u # t
      <4>1. pc'[u] = pc[u]
        BY <3>2, <2>1
      <4>2. /\ pc'[t] \in Destroying /\ pc[u] \in Readers \cup Writers => u \in came[t]
            /\ pc'[t] \in {"destroy2", "destroy3"} /\ pc[u] \in RdWaiters => u \in came[t]
            /\ pc'[t] = "destroy3" /\ pc[u] \in WrWaiters => u \in came[t]
        BY <2>2, <2>3 DEF DestroyInv, Destroying
      <4>3. pc'[t] \in Destroying => came[t] \subseteq came'[t]
        BY DEF NoteArrivals
      <4> QED
        BY <4>1, <4>2, <4>3 DEF Destroying
    <3> QED
      BY <3>1, <3>2
  <2>5. ASSUME NEW d \in Threads \ {t}, NEW u \in Threads
        PROVE  /\ pc'[d] \in Destroying /\ pc'[u] \in Readers \cup Writers => u \in came'[d]
               /\ pc'[d] \in {"destroy2", "destroy3"} /\ pc'[u] \in RdWaiters => u \in came'[d]
               /\ pc'[d] = "destroy3" /\ pc'[u] \in WrWaiters => u \in came'[d]
    BY <1>3, <2>1, <2>5 DEF Destroying
  <2> QED
    BY <1>1, <2>4, <2>5 DEF DestroyInv
<1>5. CASE \A d \in Threads : pc'[d] \in Destroying => pc'[d] = pc[d]
  BY <1>1, <1>3, <1>5 DEF DestroyInv, Destroying
<1>6. CancelTypeOK
  BY DEF CInv
<1> QED
  BY <1>4, <1>5, <1>6, DestroyersMove, Zenon

-----------------------------------------------------------------------------
(* A thread of test1.c that is between its calls has the lock, as reader   *)
(* or writer, and the counters are the numbers of those that have counted  *)
(* themselves.                                                             *)
Inside == {"count", "check", "uncount", "unlock"}
Counted == {"check", "uncount"}

TestInv ==
    /\ at \in [Threads -> Statements \ {"err_quit"}]
    /\ left \in [Threads -> 0..nloop] /\ \A t \in Threads : at[t] # "done" => left[t] >= 1
    /\ nreaders = Cardinality(Those(ReaderThreads, at, Counted))
    /\ nwriters = Cardinality(Those(WriterThreads, at, Counted))
    /\ \A t \in ReaderThreads : at[t] \in Inside => pc[t] = "reading"
    /\ \A t \in WriterThreads : at[t] \in Inside => pc[t] = "writing"
    /\ scenario # "test1" => \A t \in Threads : at[t] = "lock"

RwInv ==
    /\ scenario \in {"lock", "cancel", "test1"}
    /\ CInv
    /\ scenario # "cancel" => TypeOK /\ NoStrandedReader
    /\ TestInv

(* The readers and the writers of test1.c are finitely many and apart.     *)
LEMMA TestThreads ==
    /\ IsFiniteSet(ReaderThreads) /\ IsFiniteSet(WriterThreads)
    /\ Cardinality(ReaderThreads) <= Cardinality(Threads) /\ Cardinality(ReaderThreads) \in Nat
    /\ Cardinality(WriterThreads) <= Cardinality(Threads) /\ Cardinality(WriterThreads) \in Nat
    /\ Cardinality(Threads) \in Nat
    /\ \A t \in ReaderThreads : t \in Threads /\ t \notin WriterThreads
    /\ \A t \in WriterThreads : t \in Threads /\ t \notin ReaderThreads
    /\ \A t \in Threads : t \in ReaderThreads \/ t \in WriterThreads
<1>1. ReaderThreads \in SUBSET Threads /\ WriterThreads \in SUBSET Threads
  BY TestAssumption
<1>2. /\ IsFiniteSet(ReaderThreads) /\ Cardinality(ReaderThreads) <= Cardinality(Threads)
      /\ IsFiniteSet(WriterThreads) /\ Cardinality(WriterThreads) <= Cardinality(Threads)
  BY <1>1, ThreadsAssumption, FS_Subset
<1>3. /\ Cardinality(ReaderThreads) \in Nat /\ Cardinality(WriterThreads) \in Nat
      /\ Cardinality(Threads) \in Nat
  BY <1>2, ThreadsAssumption, FS_CardinalityType
<1> QED
  BY <1>2, <1>3, TestAssumption

(* nreaders and nwriters are bounded by the number of threads.             *)
LEMMA CountersRange ==
    /\ Cardinality(Those(ReaderThreads, at, Counted)) \in 0..Cardinality(Threads)
    /\ Cardinality(Those(WriterThreads, at, Counted)) \in 0..Cardinality(Threads)
<1>1. /\ Cardinality(Those(ReaderThreads, at, Counted)) \in Nat
      /\ Cardinality(Those(ReaderThreads, at, Counted)) <= Cardinality(ReaderThreads)
      /\ Cardinality(Those(WriterThreads, at, Counted)) \in Nat
      /\ Cardinality(Those(WriterThreads, at, Counted)) <= Cardinality(WriterThreads)
  BY TestThreads, Number
<1> QED
  BY <1>1, TestThreads

(* What the invariant says of the lock and of test1.c.                     *)
LEMMA RwBounds == RwInv /\ DestroyInv => RwSafe /\ NobodyAsleep
<1> SUFFICES ASSUME RwInv, DestroyInv PROVE RwSafe /\ NobodyAsleep
  OBVIOUS
<1>1. scenario # "cancel" => TestTypeOK
  BY CountersRange DEF RwInv, TestInv, TestTypeOK
<1>2. DestroyMissesOnlyArrivals /\ came \in [Threads -> SUBSET Threads]
  BY DEF DestroyInv, DestroyMissesOnlyArrivals, In, At, Users, Destroying
<1> QED
  BY <1>1, <1>2 DEF RwInv, CInv, TestInv, RwSafe, RwTypeOK, NobodyAsleep, UncancelledReaders, NoErrQuit

(* It holds at the start.                                                  *)
LEMMA RwInitially == RwInit => RwInv /\ DestroyInv
<1> SUFFICES ASSUME RwInit PROVE RwInv /\ DestroyInv
  OBVIOUS
<1>1. CInv
  BY CInitially DEF RwInit, TestInit
<1>2. TypeOK /\ NoStrandedReader
  BY DEF RwInit, TestInit, Init, TypeOK, NoStrandedReader, States, rw_condreaders, In, At
<1>3. /\ Cardinality(Those(ReaderThreads, at, Counted)) = 0
      /\ Cardinality(Those(WriterThreads, at, Counted)) = 0
  <2>1. /\ \A t \in ReaderThreads : at[t] \notin Counted
        /\ \A t \in WriterThreads : at[t] \notin Counted
    BY TestThreads DEF RwInit, TestInit, Counted
  <2> QED
    BY <2>1, TestThreads, Number, Zenon
<1>4. TestInv
  BY <1>3, TestThreads, TestAssumption DEF RwInit, TestInit, TestInv, Inside, Statements
<1>5. DestroyInv
  BY DEF RwInit, TestInit, Init, DestroyInv, Destroying
<1> QED
  BY <1>1, <1>2, <1>4, <1>5 DEF RwInv, RwInit

(* What a step of one thread of test1.c does to a count of threads.        *)
LEMMA TestMoves ==
    ASSUME NEW S, IsFiniteSet(S), NEW t, \A u \in S : u # t => at'[u] = at[u], NEW A
    PROVE  Cardinality(Those(S, at', A)) = Cardinality(Those(S, at, A))
             + (IF t \in S /\ at'[t] \in A THEN 1 ELSE 0) - (IF t \in S /\ at[t] \in A THEN 1 ELSE 0)
BY OneStepIn, SMT

(* A thread of test1.c at a statement.                                     *)
LEMMA TestStep ==
    ASSUME RwInv, NEW t \in Threads, NEW to \in Statements,
           at' = [at EXCEPT ![t] = to]
    PROVE  /\ Cardinality(Those(ReaderThreads, at, Counted)') = Cardinality(Those(ReaderThreads, at, Counted))
                + (IF t \in ReaderThreads /\ to \in Counted THEN 1 ELSE 0)
                - (IF t \in ReaderThreads /\ at[t] \in Counted THEN 1 ELSE 0)
           /\ Cardinality(Those(WriterThreads, at, Counted)') = Cardinality(Those(WriterThreads, at, Counted))
                + (IF t \in WriterThreads /\ to \in Counted THEN 1 ELSE 0)
                - (IF t \in WriterThreads /\ at[t] \in Counted THEN 1 ELSE 0)
<1>0. at \in [Threads -> Statements]
  BY DEF RwInv, TestInv
<1>1. at'[t] = to /\ \A u \in Threads : u # t => at'[u] = at[u]
  BY <1>0
<1>2. /\ \A u \in ReaderThreads : u # t => at'[u] = at[u]
      /\ \A u \in WriterThreads : u # t => at'[u] = at[u]
  BY <1>1, TestThreads
<1>4. Cardinality(Those(ReaderThreads, at', Counted)) = Cardinality(Those(ReaderThreads, at, Counted))
        + (IF t \in ReaderThreads /\ at'[t] \in Counted THEN 1 ELSE 0)
        - (IF t \in ReaderThreads /\ at[t] \in Counted THEN 1 ELSE 0)
  BY <1>2, TestMoves, TestThreads, Zenon
<1>5. Cardinality(Those(WriterThreads, at', Counted)) = Cardinality(Those(WriterThreads, at, Counted))
        + (IF t \in WriterThreads /\ at'[t] \in Counted THEN 1 ELSE 0)
        - (IF t \in WriterThreads /\ at[t] \in Counted THEN 1 ELSE 0)
  BY <1>2, TestMoves, TestThreads, Zenon
<1> QED
  BY <1>1, <1>4, <1>5 DEF Those

(* The lock does what its own invariant says in all three scenarios.       *)
LEMMA LockKeeps ==
    ASSUME RwInv, NEW t \in Threads, Step(t), scenario # "cancel", scenario' = scenario
    PROVE  CInv' /\ TypeOK' /\ NoStrandedReader'
BY StepKeeps, UncancelledKeeps, Zenon DEF RwInv

(* A step that leaves the lock alone keeps what holds of it.               *)
LEMMA LockUnchanged ==
    ASSUME RwInv, UNCHANGED vars, scenario' = scenario
    PROVE  CInv' /\ (scenario' # "cancel" => TypeOK' /\ NoStrandedReader')
BY DEF RwInv, vars, rw, CInv, CancelTypeOK, TypeOK, RefcountExact, WaitersCounted, NoStrandedWriter,
   NoStrandedReader, rw_condreaders, rw_condwriters, In, At

(* What one thread of test1.c may find: the others that have the lock.     *)
LEMMA Found ==
    ASSUME RwInv
    PROVE  /\ nreaders \in Nat /\ nwriters \in Nat
           /\ \A t \in Threads : pc[t] = "reading" => nwriters = 0
           /\ \A t \in WriterThreads : at[t] \in Counted => nwriters = 1 /\ nreaders = 0
<1>0. /\ nreaders \in Nat /\ nwriters \in Nat
      /\ nreaders = 0 <=> \A t \in ReaderThreads : at[t] \notin Counted
      /\ nwriters = 0 <=> \A t \in WriterThreads : at[t] \notin Counted
  BY TestThreads, Number, Zenon DEF RwInv, TestInv
<1>1. /\ \A t \in ReaderThreads : at[t] \in Counted => pc[t] = "reading"
      /\ \A t \in WriterThreads : at[t] \in Counted => pc[t] = "writing"
  BY DEF RwInv, TestInv, Counted, Inside
<1>2. \A t, u \in Threads : pc[t] = "writing" /\ pc[u] \in {"reading", "writing"} => t = u
  BY DEF RwInv, CInv, RefcountExact, In, At, Readers, Writers
<1>3. ASSUME NEW t \in Threads, pc[t] = "reading" PROVE nwriters = 0
  BY <1>0, <1>1, <1>2, <1>3, TestThreads
<1>4. ASSUME NEW t \in WriterThreads, at[t] \in Counted PROVE nwriters = 1 /\ nreaders = 0
  <2>1. Those(WriterThreads, at, Counted) = {t}
    BY <1>1, <1>2, <1>4, TestThreads DEF Those
  <2>2. nwriters = 1
    BY <2>1, FS_Singleton DEF RwInv, TestInv
  <2>3. nreaders = 0
    BY <1>0, <1>1, <1>2, <1>4, TestThreads
  <2> QED
    BY <2>2, <2>3
<1> QED
  BY <1>0, <1>3, <1>4

(* A thread of test1.c that goes from one statement to the next.           *)
LEMMA TestGoes ==
    ASSUME RwInv, scenario = "test1", NEW t \in Threads,
           NEW to \in {"check", "uncount", "unlock"}, at[t] \in Inside,
           at' = [at EXCEPT ![t] = to], UNCHANGED <<vars, left>>, scenario' = scenario,
           nreaders' = nreaders + (IF t \in ReaderThreads /\ to \in Counted THEN 1 ELSE 0)
                                - (IF t \in ReaderThreads /\ at[t] \in Counted THEN 1 ELSE 0),
           nwriters' = nwriters + (IF t \in WriterThreads /\ to \in Counted THEN 1 ELSE 0)
                                - (IF t \in WriterThreads /\ at[t] \in Counted THEN 1 ELSE 0)
    PROVE  RwInv'
<1>1. /\ at \in [Threads -> Statements \ {"err_quit"}] /\ to \in Statements \ {"err_quit"}
      /\ to \in Inside /\ to # "done"
  BY DEF RwInv, TestInv, Statements, Inside
<1>2. /\ at' \in [Threads -> Statements \ {"err_quit"}]
      /\ \A u \in Threads : at'[u] = IF u = t THEN to ELSE at[u]
  BY <1>1
<1>3. /\ nreaders' = Cardinality(Those(ReaderThreads, at, Counted)')
      /\ nwriters' = Cardinality(Those(WriterThreads, at, Counted)')
  BY <1>1, TestStep DEF RwInv, TestInv
<1>4. /\ \A u \in ReaderThreads : at'[u] \in Inside => pc'[u] = "reading"
      /\ \A u \in WriterThreads : at'[u] \in Inside => pc'[u] = "writing"
  BY <1>2, TestThreads DEF RwInv, TestInv, vars
<1>5. left' = left /\ \A u \in Threads : at'[u] # "done" => left[u] >= 1
  BY <1>1, <1>2 DEF RwInv, TestInv, Inside
<1>6. TestInv'
  BY <1>2, <1>3, <1>4, <1>5 DEF RwInv, TestInv
<1> QED
  BY <1>6, LockUnchanged DEF RwInv

(* A thread of test1.c that calls the lock.                                *)
LEMMA TestCalls ==
    ASSUME RwInv, scenario = "test1", NEW t \in Threads, Step(t), scenario' = scenario, UNCHANGED shared,
           NEW to \in {"lock", "count", "done"}, at[t] \notin Counted, at' = [at EXCEPT ![t] = to],
           to = "count" => pc'[t] = IF t \in ReaderThreads THEN "reading" ELSE "writing",
           left' \in [Threads -> 0..nloop], to # "done" => left'[t] >= 1,
           \A u \in Threads \ {t} : left'[u] = left[u]
    PROVE  RwInv'
<1>1. /\ at \in [Threads -> Statements \ {"err_quit"}] /\ to \in Statements \ {"err_quit"}
      /\ to \notin Counted /\ (to \in Inside => to = "count")
  BY DEF RwInv, TestInv, Statements, Inside, Counted
<1>2. /\ at' \in [Threads -> Statements \ {"err_quit"}]
      /\ \A u \in Threads : at'[u] = IF u = t THEN to ELSE at[u]
  BY <1>1
<1>3. /\ Cardinality(Those(ReaderThreads, at, Counted)) \in Nat
      /\ Cardinality(Those(WriterThreads, at, Counted)) \in Nat
  BY CountersRange
<1>4. /\ nreaders' = Cardinality(Those(ReaderThreads, at, Counted)')
      /\ nwriters' = Cardinality(Those(WriterThreads, at, Counted)')
  <2>1. /\ Cardinality(Those(ReaderThreads, at, Counted)') = Cardinality(Those(ReaderThreads, at, Counted))
             + (IF t \in ReaderThreads /\ to \in Counted THEN 1 ELSE 0)
             - (IF t \in ReaderThreads /\ at[t] \in Counted THEN 1 ELSE 0)
        /\ Cardinality(Those(WriterThreads, at, Counted)') = Cardinality(Those(WriterThreads, at, Counted))
             + (IF t \in WriterThreads /\ to \in Counted THEN 1 ELSE 0)
             - (IF t \in WriterThreads /\ at[t] \in Counted THEN 1 ELSE 0)
    BY <1>1, TestStep
  <2> QED
    BY <2>1, <1>1, <1>3 DEF RwInv, TestInv, shared
<1>5. /\ \A u \in ReaderThreads : at'[u] \in Inside => pc'[u] = "reading"
      /\ \A u \in WriterThreads : at'[u] \in Inside => pc'[u] = "writing"
  <2>1. CancelTypeOK
    BY DEF RwInv, CInv
  <2>2. \A u \in Threads \ {t} : pc[u] \in {"reading", "writing"} => pc'[u] = pc[u]
    BY <2>1, HoldersStay
  <2> QED
    BY <1>1, <1>2, <2>2, TestThreads DEF RwInv, TestInv
<1>6. \A u \in Threads : at'[u] # "done" => left'[u] >= 1
  BY <1>2 DEF RwInv, TestInv
<1>7. TestInv'
  BY <1>2, <1>4, <1>5, <1>6 DEF RwInv, TestInv
<1> QED
  BY <1>7, LockKeeps DEF RwInv

(* Every step of the library, with cancellation and without, and of        *)
(* test1.c keeps the invariant.                                            *)
LEMMA RwInductive == RwInv /\ [RwNext]_rwvars => RwInv'
<1> SUFFICES ASSUME RwInv, [RwNext]_rwvars PROVE RwInv'
  OBVIOUS
<1>0. /\ at \in [Threads -> Statements \ {"err_quit"}] /\ left \in [Threads -> 0..nloop]
      /\ \A t \in Threads : at[t] # "done" => left[t] >= 1
  BY DEF RwInv, TestInv
<1>1. ASSUME scenario' = scenario, UNCHANGED <<shared, at, left>>,
             scenario = "test1" => \A u \in Threads : pc[u] \in {"reading", "writing"} => pc'[u] = pc[u]
      PROVE  TestInv'
  <2>1. Those(ReaderThreads, at, Counted)' = Those(ReaderThreads, at, Counted)
        /\ Those(WriterThreads, at, Counted)' = Those(WriterThreads, at, Counted)
    BY <1>1 DEF Those
  <2>2. /\ \A u \in ReaderThreads : at'[u] \in Inside => pc'[u] = "reading"
        /\ \A u \in WriterThreads : at'[u] \in Inside => pc'[u] = "writing"
    BY <1>1, TestThreads DEF RwInv, TestInv, Inside
  <2> QED
    BY <1>1, <2>1, <2>2 DEF RwInv, TestInv, shared
<1>2. CASE UNCHANGED rwvars
  <2>1. UNCHANGED vars /\ UNCHANGED <<shared, at, left>> /\ scenario' = scenario /\ pc' = pc
    BY <1>2 DEF rwvars, testvars, vars
  <2> QED
    BY <2>1, <1>1, LockUnchanged DEF RwInv
<1>3. CASE scenario = "lock" /\ RwNext
  <2>1. PICK t \in Threads : Step(t)
    BY <1>3 DEF RwNext, Next
  <2>2. UNCHANGED <<shared, at, left>> /\ scenario' = scenario
    BY <1>3 DEF RwNext
  <2> QED
    BY <1>1, <1>3, <2>1, <2>2, LockKeeps DEF RwInv
<1>4. CASE scenario = "cancel" /\ RwNext
  <2>1. CancelNext /\ UNCHANGED <<shared, at, left>> /\ scenario' = scenario
    BY <1>4 DEF RwNext
  <2>2. CInv'
    <3>1. CASE AllCancelled
      BY <3>1, <2>1, LockUnchanged DEF AllCancelled
    <3>2. ASSUME NEW t \in Threads, CancelStep(t) PROVE CInv'
      BY <3>2, StepKeeps DEF RwInv
    <3> QED
      BY <2>1, <3>1, <3>2 DEF CancelNext
  <2> QED
    BY <1>1, <1>4, <2>1, <2>2 DEF RwInv
<1>5. CASE scenario = "test1" /\ RwNext
  <2>0. TestNext /\ scenario' = scenario
    BY <1>5 DEF RwNext
  <2>1. ASSUME NEW t \in Threads, (t \in ReaderThreads /\ reader(t)) \/ (t \in WriterThreads /\ writer(t))
        PROVE  RwInv'
    <3> DEFINE held == IF t \in ReaderThreads THEN "reading" ELSE "writing"
               r(X) == IF t \in ReaderThreads /\ X \in Counted THEN 1 ELSE 0
               w(X) == IF t \in WriterThreads /\ X \in Counted THEN 1 ELSE 0
    <3>0. /\ t \in ReaderThreads <=> t \notin WriterThreads
          /\ nreaders \in Nat /\ nwriters \in Nat
      BY TestThreads, Found
    <3>1. \/ at[t] = "lock" /\ Step(t) /\ UNCHANGED <<shared, left>>
             /\ at' = [at EXCEPT ![t] = IF pc'[t] = held THEN "count" ELSE "lock"]
          \/ goes(t, "count", "check") /\ nreaders' = nreaders + r("check") /\ nwriters' = nwriters + w("check")
          \/ goes(t, "check", IF IF t \in ReaderThreads THEN nwriters > 0 ELSE nwriters > 1 \/ nreaders > 0
                              THEN "err_quit" ELSE "uncount") /\ UNCHANGED shared
          \/ goes(t, "uncount", "unlock") /\ nreaders' = nreaders - r("uncount") /\ nwriters' = nwriters - w("uncount")
          \/ unlock(t)
      BY <2>1, <3>0 DEF reader, writer, lock, Step, Counted
    <3>2. CASE at[t] = "lock" /\ Step(t) /\ UNCHANGED <<shared, left>>
               /\ at' = [at EXCEPT ![t] = IF pc'[t] = held THEN "count" ELSE "lock"]
      <4> DEFINE to == IF pc'[t] = held THEN "count" ELSE "lock"
      <4>1. /\ Step(t) /\ UNCHANGED shared /\ at' = [at EXCEPT ![t] = to]
            /\ to \in {"lock", "count", "done"} /\ (to = "count" => pc'[t] = held)
            /\ at[t] \notin Counted /\ left' \in [Threads -> 0..nloop] /\ left'[t] >= 1
            /\ \A u \in Threads \ {t} : left'[u] = left[u]
        BY <3>2, <1>0 DEF Counted
      <4> HIDE DEF to
      <4> QED
        BY <1>5, <2>0, <4>1, TestCalls, Zenon
    <3>3. ASSUME NEW to \in {"check", "uncount", "unlock"}, at[t] \in Inside, goes(t, at[t], to),
                 nreaders' = nreaders + r(to) - r(at[t]), nwriters' = nwriters + w(to) - w(at[t])
          PROVE  RwInv'
      <4>1. at' = [at EXCEPT ![t] = to] /\ UNCHANGED <<vars, left>>
        BY <3>3 DEF goes
      <4> QED
        BY <1>5, <2>0, <3>3, <4>1, TestGoes, Zenon
    <3>4. CASE goes(t, "count", "check") /\ nreaders' = nreaders + r("check") /\ nwriters' = nwriters + w("check")
      BY <3>0, <3>3, <3>4 DEF goes, Inside, Counted
    <3>5. CASE goes(t, "check", IF IF t \in ReaderThreads THEN nwriters > 0 ELSE nwriters > 1 \/ nreaders > 0
                                THEN "err_quit" ELSE "uncount") /\ UNCHANGED shared
      <4>1. at[t] = "check" /\ pc[t] = held /\ at[t] \in Counted
        BY <3>5, <3>0, TestThreads DEF goes, RwInv, TestInv, Inside, Counted
      <4>2. ~(IF t \in ReaderThreads THEN nwriters > 0 ELSE nwriters > 1 \/ nreaders > 0)
        BY <3>0, <4>1, Found
      <4>3. goes(t, at[t], "uncount") /\ UNCHANGED shared
        BY <3>5, <4>1, <4>2, Zenon
      <4>4. at[t] \in Inside /\ r("uncount") = r(at[t]) /\ w("uncount") = w(at[t])
        BY <4>1 DEF Inside, Counted
      <4>5. r(at[t]) \in Nat /\ w(at[t]) \in Nat
        OBVIOUS
      <4>6. nreaders' = nreaders + r("uncount") - r(at[t]) /\ nwriters' = nwriters + w("uncount") - w(at[t])
        <5> HIDE DEF r, w
        <5> QED BY <3>0, <4>3, <4>4, <4>5 DEF shared
      <4> QED
        BY <3>3, <4>3, <4>4, <4>6
    <3>6. CASE goes(t, "uncount", "unlock") /\ nreaders' = nreaders - r("uncount") /\ nwriters' = nwriters - w("uncount")
      BY <3>0, <3>3, <3>6 DEF goes, Inside, Counted
    <3>7. CASE unlock(t)
      <4> DEFINE to == IF left[t] = 1 THEN "done" ELSE "lock"
      <4>1. /\ Step(t) /\ at[t] = "unlock" /\ UNCHANGED shared
            /\ left' = [left EXCEPT ![t] = left[t] - 1] /\ at' = [at EXCEPT ![t] = to]
        BY <3>7 DEF unlock, Step
      <4>2. left[t] \in 1..nloop /\ left[t] - 1 \in 0..nloop
        BY <4>1, <1>0, TestAssumption
      <4>3. /\ to \in {"lock", "count", "done"} /\ (to = "count" => pc'[t] = held)
            /\ at[t] \notin Counted /\ left' \in [Threads -> 0..nloop] /\ (to # "done" => left'[t] >= 1)
            /\ \A u \in Threads \ {t} : left'[u] = left[u]
        BY <4>1, <4>2, <1>0 DEF Counted
      <4> HIDE DEF to
      <4> QED
        BY <1>5, <2>0, <4>1, <4>3, TestCalls, Zenon
    <3> QED
      BY <3>1, <3>2, <3>4, <3>5, <3>6, <3>7
  <2>2. ASSUME NEW t \in Threads, spurious_wakeup(t), UNCHANGED <<shared, at, left>> PROVE RwInv'
    <3>1. \A u \in Threads : pc[u] \in {"reading", "writing"} => pc'[u] = pc[u]
      BY <2>2 DEF spurious_wakeup, RwInv, CInv, CancelTypeOK
    <3>2. Step(t)
      BY <2>2 DEF Step
    <3>3. CInv' /\ TypeOK' /\ NoStrandedReader'
      BY <3>2, <1>5, <2>0, LockKeeps
    <3> QED
      BY <1>1, <2>0, <2>2, <3>1, <3>3 DEF RwInv
  <2>3. CASE main_exit
    BY <1>2, <2>0, <2>3 DEF main_exit, rwvars
  <2>4. \A t \in ReaderThreads \cup WriterThreads : t \in Threads
    BY TestThreads
  <2> QED
    BY <2>0, <2>1, <2>2, <2>3, <2>4, Zenon DEF TestNext
<1> QED
  BY <1>2, <1>3, <1>4, <1>5 DEF RwInv, RwNext

(* Every step is one of the lock, with its arrivals noted, or leaves the   *)
(* lock alone.                                                             *)
LEMMA LockSteps ==
    ASSUME [RwNext]_rwvars
    PROVE  UNCHANGED vars \/ (NoteArrivals /\ \E t \in Threads : Step(t) \/ CancelStep(t))
<1>1. CASE UNCHANGED rwvars
  BY <1>1 DEF rwvars, testvars
<1>2. CASE Next \/ CancelNext
  BY <1>2 DEF Next, CancelNext, AllCancelled
<1>3. CASE TestNext
  BY <1>3, TestThreads, Zenon DEF TestNext, reader, writer, lock, unlock, goes, main_exit, testvars, Step
<1> QED
  BY <1>1, <1>2, <1>3 DEF RwNext

(* Every step keeps what the destroyers have seen.                         *)
LEMMA DestroyInductive == RwInv /\ DestroyInv /\ [RwNext]_rwvars => DestroyInv'
<1> SUFFICES ASSUME RwInv, DestroyInv, [RwNext]_rwvars PROVE DestroyInv'
  OBVIOUS
<1>1. CASE UNCHANGED vars
  BY <1>1 DEF vars, DestroyInv
<1>2. ASSUME NEW t \in Threads, Step(t) \/ CancelStep(t), NoteArrivals PROVE DestroyInv'
  BY <1>2, ArrivalsNoted, Zenon DEF RwInv
<1> QED
  BY <1>1, <1>2, LockSteps

(* The lock's counters are exact, pthread_rwlock_destroy overlooks only    *)
(* threads that come while it reads them, and test1.c never finds two      *)
(* threads that exclude each other.                                        *)
THEOREM RwlockIsSafe == RwSpec => []RwSafe
<1>1. RwInv /\ DestroyInv => RwSafe
  BY RwBounds
<1> QED
  BY <1>1, RwInitially, RwInductive, DestroyInductive, PTL DEF RwSpec

(* No writer sleeps on the condition variable beside a lock it could have, *)
(* whoever is cancelled, and no reader does unless somebody was.           *)
THEOREM NobodyLeftAsleep == RwSpec => []NobodyAsleep
<1>1. RwInv => NobodyAsleep
  BY DEF RwInv, CInv, NobodyAsleep, UncancelledReaders
<1> QED
  BY <1>1, RwInitially, RwInductive, PTL DEF RwSpec

-----------------------------------------------------------------------------
(* How the abstract lock sees a thread.                                    *)
Seen(p) == IF p = "cancelled" THEN "gone" ELSE Standing[p]

(* What each place of the program means to the abstract lock.              *)
LEMMA Table ==
    /\ Seen("idle") = "none" /\ Seen("cancelled") = "gone"
    /\ Seen("rdwait") = "waitread" /\ Seen("rdwoken") = "waitread"
    /\ Seen("reading") = "read"
    /\ Seen("wrwait") = "waitwrite" /\ Seen("wrwoken") = "waitwrite"
    /\ Seen("writing") = "write"
    /\ \A p \in Destroying : Seen(p) = "none"
BY DEF Destroying, Seen, Standing

(* How a step that moves one thread looks from the abstract lock.          *)
LEMMA Mapped ==
    ASSUME CancelTypeOK, NEW t \in Threads, NEW s, NEW v, Seen(s) = v,
           pc' = [pc EXCEPT ![t] = s]
    PROVE  cancelstanding' = [cancelstanding EXCEPT ![t] = v]
<1>1. \A u \in Threads : pc'[u] = IF u = t THEN s ELSE pc[u]
  BY DEF CancelTypeOK
<1>2. \A u \in Threads : Seen(pc'[u]) = IF u = t THEN v ELSE Seen(pc[u])
  BY <1>1
<1> QED
  BY <1>2, Zenon DEF cancelstanding, Seen

(* What the counters say about the abstract lock.                          *)
LEMMA SeenBy ==
    ASSUME CInv
    PROVE  /\ \A u \in Threads : cancelstanding[u] = Seen(pc[u])
           /\ AbstractC!Some({"write", "waitwrite"}) <=> must_wait_rd
           /\ AbstractC!Some({"read", "write"}) <=> must_wait_wr
<1>1. \A u \in Threads : pc[u] \in Places /\ cancelstanding[u] = Seen(pc[u])
  BY DEF cancelstanding, CInv, CancelTypeOK, Places, Seen
<1>2. /\ rw_refcount < 0 <=> \E u \in Threads : pc[u] = "writing"
      /\ rw_refcount # 0 <=> \E u \in Threads : pc[u] \in {"reading", "writing"}
      /\ rw_nwaitwriters > 0 <=> \E u \in Threads : pc[u] \in WrWaiters
  <2>1. \A S \in {Readers, WrWaiters} :
          /\ Cardinality(In(S)) \in Nat
          /\ Cardinality(In(S)) = 0 <=> \A u \in Threads : pc[u] \notin S
    BY Counts DEF CInv
  <2> QED BY <2>1 DEF CInv, CancelTypeOK, RefcountExact, WaitersCounted, In, At, Readers, Writers
<1>3. \A u \in Threads :
        /\ cancelstanding[u] \in {"write", "waitwrite"} <=> pc[u] \in WrWaiters \cup {"writing"}
        /\ cancelstanding[u] \in {"read", "write"} <=> pc[u] \in {"reading", "writing"}
  BY <1>1, Table DEF Places, States, Destroying, WrWaiters
<1> QED BY <1>1, <1>2, <1>3 DEF AbstractC!Some, must_wait_rd, must_wait_wr

(* A step of the lock is one of the abstract lock, or changes nothing that *)
(* it sees.                                                                *)
LEMMA StepImplements ==
    ASSUME CInv, NEW t \in Threads, Step(t) \/ CancelStep(t)
    PROVE  \/ AbstractC!Use(t)
           \/ AbstractC!Leave(t) /\ pc'[t] = "cancelled"
           \/ UNCHANGED cancelstanding
<1>0. CancelTypeOK /\ \A u \in Threads : pc[u] \in Places /\ cancelstanding[u] = Seen(pc[u])
  BY SeenBy DEF CInv, CancelTypeOK, Places
<1> USE DEF AbstractC!Use
<1>1. CASE pthread_rwlock_rdlock(t) \/ rdlock_resume(t) \/ pthread_rwlock_tryrdlock(t) \/ cancel_tryrdlock(t)
  <2>0. pc[t] \in {"idle", "rdwoken"} /\ cancelstanding[t] \in {"none", "waitread"}
    <3>1. pc[t] \in {"idle", "rdwoken"}
      BY <1>1 DEF pthread_rwlock_rdlock, rdlock_resume, pthread_rwlock_tryrdlock, cancel_tryrdlock
    <3> QED BY <3>1, <1>0, Table
  <2>1. CASE must_wait_rd
    <3>1. pc' = [pc EXCEPT ![t] = "rdwait"]
      BY <1>0, <1>1, <2>1 DEF pthread_rwlock_rdlock, rdlock_resume, rdlock_loop, pthread_rwlock_tryrdlock,
         cancel_tryrdlock, must_wait_rd, CancelTypeOK
    <3>2. cancelstanding' = [cancelstanding EXCEPT ![t] = "waitread"]
      <4>1. Seen("rdwait") = "waitread"
        BY Table
      <4> QED BY <3>1, <4>1, <1>0, Mapped, Zenon
    <3>3. CASE pc[t] = "idle"
      BY <3>2, <3>3, <2>1, <1>0, SeenBy, Table, Zenon DEF AbstractC!WaitRead
    <3>4. CASE pc[t] = "rdwoken"
      <4>1. cancelstanding[t] = "waitread"
        BY <3>4, <1>0, Table
      <4> QED BY <3>2, <4>1, Zenon DEF cancelstanding
    <3> QED BY <3>3, <3>4, <2>0
  <2>2. CASE ~must_wait_rd
    <3>1. pc' = [pc EXCEPT ![t] = "reading"]
      BY <1>1, <2>2 DEF pthread_rwlock_rdlock, rdlock_resume, rdlock_loop, pthread_rwlock_tryrdlock, cancel_tryrdlock
    <3>2. cancelstanding' = [cancelstanding EXCEPT ![t] = "read"]
      <4>1. Seen("reading") = "read"
        BY Table
      <4> QED BY <3>1, <4>1, <1>0, Mapped, Zenon
    <3> QED BY <3>2, <2>0, <2>2, SeenBy, Zenon DEF AbstractC!GrantRead
  <2> QED BY <2>1, <2>2
<1>2. CASE pthread_rwlock_wrlock(t) \/ wrlock_resume(t) \/ pthread_rwlock_trywrlock(t)
  <2>0. pc[t] \in {"idle", "wrwoken"} /\ cancelstanding[t] \in {"none", "waitwrite"}
    <3>1. pc[t] \in {"idle", "wrwoken"}
      BY <1>2 DEF pthread_rwlock_wrlock, wrlock_resume, pthread_rwlock_trywrlock
    <3> QED BY <3>1, <1>0, Table
  <2>1. CASE must_wait_wr
    <3>1. pc' = [pc EXCEPT ![t] = "wrwait"]
      BY <1>2, <2>1 DEF pthread_rwlock_wrlock, wrlock_resume, wrlock_loop, pthread_rwlock_trywrlock, must_wait_wr
    <3>2. cancelstanding' = [cancelstanding EXCEPT ![t] = "waitwrite"]
      <4>1. Seen("wrwait") = "waitwrite"
        BY Table
      <4> QED BY <3>1, <4>1, <1>0, Mapped, Zenon
    <3>3. CASE pc[t] = "idle"
      BY <3>2, <3>3, <2>1, <1>0, SeenBy, Table, Zenon DEF AbstractC!WaitWrite
    <3>4. CASE pc[t] = "wrwoken"
      <4>1. cancelstanding[t] = "waitwrite"
        BY <3>4, <1>0, Table
      <4> QED BY <3>2, <4>1, Zenon DEF cancelstanding
    <3> QED BY <3>3, <3>4, <2>0
  <2>2. CASE ~must_wait_wr
    <3>1. pc' = [pc EXCEPT ![t] = "writing"]
      BY <1>2, <2>2 DEF pthread_rwlock_wrlock, wrlock_resume, wrlock_loop, pthread_rwlock_trywrlock
    <3>2. cancelstanding' = [cancelstanding EXCEPT ![t] = "write"]
      <4>1. Seen("writing") = "write"
        BY Table
      <4> QED BY <3>1, <4>1, <1>0, Mapped, Zenon
    <3> QED BY <3>2, <2>0, <2>2, SeenBy, Zenon DEF AbstractC!GrantWrite
  <2> QED BY <2>1, <2>2
<1>3. CASE pthread_rwlock_unlock(t) \/ cancel_unlock(t)
  <2> DEFINE q == [pc EXCEPT ![t] = "idle"]
  <2>1. pc[t] \in {"reading", "writing"} /\ pc' \in {q, broadcast_readers(q)} \cup signal_writers(q)
    BY <1>3 DEF pthread_rwlock_unlock, cancel_unlock, unlock_wakes
  <2>2. \A u \in Threads : Seen(pc'[u]) = IF u = t THEN "none" ELSE Seen(pc[u])
    <3> HIDE DEF q
    <3>1. "idle" \in Places /\ q = [pc EXCEPT ![t] = "idle"] /\ pc[t] \notin {"rdwait", "wrwait"}
      BY <2>1 DEF Places, States, q
    <3>2. /\ pc'[t] = "idle"
          /\ \A u \in Threads \ {t} : \/ pc'[u] = pc[u]
                                      \/ pc[u] = "wrwait" /\ pc'[u] = "wrwoken"
                                      \/ pc[u] = "rdwait" /\ pc'[u] = "rdwoken"
      BY <3>1, <2>1, <1>0, ThreadMovesOthersWake, Zenon
    <3> QED BY <3>2, Table
  <2>3. cancelstanding' = [cancelstanding EXCEPT ![t] = "none"]
    BY <2>2, Zenon DEF cancelstanding, Seen
  <2>4. cancelstanding[t] \in {"read", "write"}
    BY <2>1, <1>0, Table
  <2> QED BY <2>3, <2>4, Zenon DEF AbstractC!Release
<1>4. CASE pthread_rwlock_destroy(t) \/ pthread_rwlock_init(t) \/ returns_EINVAL(t)
  <2>1. CASE pthread_rwlock_destroy(t)
    <3>1. \A u \in Threads : \/ pc'[u] = pc[u]
                             \/ pc[u] \in Destroying \cup {"idle"} /\ pc'[u] \in Destroying \cup {"idle"}
      BY <2>1, <1>0 DEF pthread_rwlock_destroy, finds_zero, clears_magic, Destroying, CancelTypeOK
    <3>2. \A u \in Threads : Seen(pc'[u]) = Seen(pc[u])
      BY <3>1, Table
    <3> QED BY <3>2, Zenon DEF cancelstanding, Seen
  <2>2. CASE pthread_rwlock_init(t) \/ returns_EINVAL(t)
    BY <2>2 DEF pthread_rwlock_init, returns_EINVAL, cancelstanding
  <2> QED BY <1>4, <2>1, <2>2
<1>5. CASE spurious_wakeup(t)
  <2>1. \A u \in Threads : Seen(pc'[u]) = Seen(pc[u])
    BY <1>5, <1>0, Table DEF spurious_wakeup, CancelTypeOK
  <2> QED BY <2>1 DEF cancelstanding, Seen
<1>6. CASE rwlock_cancelrdwait(t)
  <2>1. pc[t] \in RdWaiters /\ pc' = [pc EXCEPT ![t] = "cancelled"]
    BY <1>6 DEF rwlock_cancelrdwait
  <2>2. cancelstanding' = [cancelstanding EXCEPT ![t] = "gone"]
    <3>1. Seen("cancelled") = "gone"
      BY Table
    <3> QED BY <2>1, <3>1, <1>0, Mapped, Zenon
  <2>3. cancelstanding[t] \in {"waitread", "waitwrite"} /\ pc'[t] = "cancelled"
    BY <2>1, <1>0, Table DEF RdWaiters, CancelTypeOK
  <2> QED BY <2>2, <2>3, Zenon DEF AbstractC!Leave
<1>7. CASE rwlock_cancelwrwait(t)
  <2> DEFINE q == [pc EXCEPT ![t] = "cancelled"]
  <2>1. /\ pc[t] \in WrWaiters
        /\ pc' = q \/ (pc[t] = "wrwoken" /\ pc' \in signal_writers(q))
    BY <1>7 DEF rwlock_cancelwrwait
  <2>2. pc'[t] = "cancelled" /\ \A u \in Threads : Seen(pc'[u]) = IF u = t THEN "gone" ELSE Seen(pc[u])
    <3>1. CASE pc' = q
      BY <3>1, <1>0, Table DEF CancelTypeOK
    <3>2. CASE pc[t] = "wrwoken" /\ pc' \in signal_writers(q)
      <4> HIDE DEF q
      <4>1. /\ "cancelled" \in Places /\ q = [pc EXCEPT ![t] = "cancelled"] /\ pc[t] \notin {"rdwait", "wrwait"}
            /\ pc' \in {q, broadcast_readers(q)} \cup signal_writers(q)
        BY <3>2 DEF Places, q
      <4>2. /\ pc'[t] = "cancelled"
            /\ \A u \in Threads \ {t} : \/ pc'[u] = pc[u]
                                        \/ pc[u] = "wrwait" /\ pc'[u] = "wrwoken"
                                        \/ pc[u] = "rdwait" /\ pc'[u] = "rdwoken"
        BY <4>1, <1>0, ThreadMovesOthersWake, Zenon
      <4> QED BY <4>2, Table
    <3> QED BY <2>1, <3>1, <3>2
  <2>3. cancelstanding' = [cancelstanding EXCEPT ![t] = "gone"]
    BY <2>2, Zenon DEF cancelstanding, Seen
  <2>4. cancelstanding[t] \in {"waitread", "waitwrite"}
    BY <2>1, <1>0, Table DEF WrWaiters
  <2> QED BY <2>2, <2>3, <2>4, Zenon DEF AbstractC!Leave
<1> QED
  BY <1>1, <1>2, <1>3, <1>4, <1>5, <1>6, <1>7
     DEF Step, CancelStep, cancel_rdlock, cancel_wrlock, cancel_trywrlock, cancel_destroy, cancel_init

(* The lock implements the abstract read-write lock with preference for    *)
(* writers, whether threads are cancelled or not, and so it does under     *)
(* test1.c.                                                                *)
THEOREM CancelRefinement == RwSpec => CancelImplements
<1>1. RwInit => AbstractC!Init
  <2> SUFFICES ASSUME RwInit PROVE AbstractC!Init
    OBVIOUS
  <2>1. \A t \in Threads : pc[t] = "idle"
    BY DEF RwInit, TestInit, Init
  <2>2. Standing["idle"] = "none"
    BY DEF Standing
  <2>3. cancelstanding = [t \in Threads |-> "none"]
    BY <2>1, <2>2 DEF cancelstanding
  <2> QED
    BY <2>3, Zenon DEF AbstractC!Init
<1>2. RwInv /\ [RwNext]_rwvars => [AbstractC!CancelNext]_cancelstanding
  <2> SUFFICES ASSUME RwInv, [RwNext]_rwvars PROVE [AbstractC!CancelNext]_cancelstanding
    OBVIOUS
  <2>1. CASE UNCHANGED vars
    BY <2>1 DEF vars, cancelstanding
  <2>2. CASE \E t \in Threads : Step(t) \/ CancelStep(t)
    BY <2>2, StepImplements DEF RwInv, AbstractC!CancelNext
  <2>3. UNCHANGED vars \/ \E t \in Threads : Step(t) \/ CancelStep(t)
    BY LockSteps, Zenon
  <2> QED
    BY <2>1, <2>2, <2>3
<1> QED
  BY <1>1, <1>2, RwInitially, RwInductive, PTL DEF RwSpec, CancelImplements, AbstractC!CancelSpec

-----------------------------------------------------------------------------
(* The library by itself, called by threads that nobody cancels.           *)
IInv == CInv /\ TypeOK /\ NoStrandedReader /\ DestroyInv

(* The invariant of the library alone holds at the start.                  *)
LEMMA Initially == Init => IInv
BY CInitially DEF Init, IInv, TypeOK, NoStrandedReader, States, rw_condreaders, In, At, DestroyInv, Destroying

(* Every step of the library keeps it.                                     *)
LEMMA Inductive == IInv /\ [Next]_vars => IInv'
<1> SUFFICES ASSUME IInv, [Next]_vars PROVE IInv'
  OBVIOUS
<1>1. CASE UNCHANGED vars
  BY <1>1 DEF vars, rw, IInv, CInv, CancelTypeOK, TypeOK, RefcountExact, WaitersCounted, NoStrandedWriter,
     NoStrandedReader, rw_condreaders, rw_condwriters, In, At, DestroyInv
<1>2. CASE Next
  BY <1>2, StepKeeps, UncancelledKeeps, ArrivalsNoted DEF Next, IInv
<1> QED
  BY <1>1, <1>2

(* The inductive invariant holds of every behaviour.                       *)
THEOREM Invariance == Spec => []IInv
BY Initially, Inductive, PTL DEF Spec

(* rw_refcount is -1 for one writer that is alone, else the number of      *)
(* readers, and the waiting counts are exact.                              *)
THEOREM CountersExact == Spec => [](TypeOK /\ RefcountExact /\ WaitersCounted)
<1>1. IInv => TypeOK /\ RefcountExact /\ WaitersCounted
  BY DEF IInv, CInv
<1> QED BY <1>1, Invariance, PTL

(* No thread sleeps on a condition variable of a lock that it could have,  *)
(* unless one that was woken is about to take it.                          *)
THEOREM NobodyStranded == Spec => [](NoStrandedWriter /\ NoStrandedReader)
<1>1. IInv => NoStrandedWriter /\ NoStrandedReader
  BY DEF IInv, CInv
<1> QED BY <1>1, Invariance, PTL

(* pthread_rwlock_destroy, which reads the counters one after the other    *)
(* and without the mutex, succeeds only if whoever holds or awaits the     *)
(* lock has come since its first read.                                     *)
THEOREM DestroySafe == Spec => []DestroyMissesOnlyArrivals
<1>1. IInv => DestroyMissesOnlyArrivals
  BY DEF IInv, DestroyInv, DestroyMissesOnlyArrivals, In, At, Users, Destroying
<1> QED BY <1>1, Invariance, PTL

(* my_rwlock implements the abstract read-write lock without threads that  *)
(* leave it.                                                               *)
THEOREM Refinement == Spec => Implements
<1>1. Init => Abstract!Init
  <2> SUFFICES ASSUME Init PROVE Abstract!Init
    OBVIOUS
  <2>1. \A t \in Threads : pc[t] = "idle"
    BY DEF Init
  <2>2. Standing["idle"] = "none"
    BY DEF Standing
  <2>3. standing = [t \in Threads |-> "none"]
    BY <2>1, <2>2, Zenon DEF standing
  <2> QED
    BY <2>3, Zenon DEF Abstract!Init
<1>2. IInv /\ IInv' /\ [Next]_vars => [Abstract!Next]_standing
  <2> SUFFICES ASSUME IInv, IInv', [Next]_vars PROVE [Abstract!Next]_standing
    OBVIOUS
  <2>0. cancelstanding = standing /\ cancelstanding' = standing'
    BY DEF IInv, TypeOK, States, standing, cancelstanding
  <2>1. CASE UNCHANGED vars
    BY <2>1 DEF vars, standing
  <2>2. ASSUME NEW t \in Threads, Step(t) PROVE [Abstract!Next]_standing
    <3>1. pc'[t] # "cancelled"
      BY DEF IInv, TypeOK, States
    <3>2. AbstractC!Use(t) \/ UNCHANGED cancelstanding
      BY <2>2, <3>1, StepImplements DEF IInv
    <3>3. AbstractC!Use(t) => Abstract!Use(t)
      BY <2>0, Zenon DEF AbstractC!Use, Abstract!Use, AbstractC!WaitRead, Abstract!WaitRead, AbstractC!WaitWrite,
         Abstract!WaitWrite, AbstractC!GrantRead, Abstract!GrantRead, AbstractC!GrantWrite, Abstract!GrantWrite,
         AbstractC!Release, Abstract!Release, AbstractC!Some, Abstract!Some
    <3> QED
      BY <2>0, <3>2, <3>3 DEF Abstract!Next
  <2> QED BY <2>1, <2>2 DEF Next
<1> QED BY <1>1, <1>2, Invariance, PTL DEF Spec, Implements, Abstract!Spec

=============================================================================
