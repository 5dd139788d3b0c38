-------------------------- MODULE SemaphoreProofs ---------------------------
(***************************************************************************)
(* The semaphores and locks of src/unixipc: what mysem_open may return in  *)
(* each of the three implementations, and what the operations keep to      *)
(* afterwards, for any processes and wherever one is killed.               *)
(*                                                                         *)
(* Each section has a component's inductive invariant, the lemmas that it  *)
(* holds at first and that every step keeps it, and the theorem that       *)
(* follows.                                                                *)
(***************************************************************************)
EXTENDS MySem, SemOpen, LockSeqno, FifoSem, SvSemOpen, CountingLemmas

(* The default of every leaf that names no prover: Z3 with twenty seconds, *)
(* then Zenon with thirty.                                                 *)
USE SMTT(20), ZenonT(30)

-----------------------------------------------------------------------------
(* MySem. That the semaphores implement CountingSemaphore, for any number  *)
(* of threads and semaphores.                                              *)

(* The types hold at the start.                                            *)
LEMMA SemInitially == Init => TypeOK
  BY SemAssumption, Zenon DEF Init, TypeOK

(* Every step of mysem_wait, mysem_trywait and mysem_post keeps the types. *)
LEMMA SemInductive == TypeOK /\ [Next]_semvars => TypeOK'
<1> SUFFICES ASSUME TypeOK, [Next]_semvars PROVE TypeOK'
  BY Zenon
<1> USE SemAssumption DEF TypeOK
<1>1. CASE UNCHANGED semvars
  BY <1>1, Zenon DEF semvars
<1>2. ASSUME NEW s \in Sems, NEW t \in Threads, mysem_wait(t, s) PROVE TypeOK'
  BY <1>2 DEF mysem_wait, sem_block, sem_take
<1>3. ASSUME NEW s \in Sems, NEW t \in Threads, mysem_trywait(t, s) PROVE TypeOK'
  BY <1>3 DEF mysem_trywait
<1>4. ASSUME NEW s \in Sems, mysem_post(s) PROVE TypeOK'
  BY <1>4 DEF mysem_post
<1>5. ASSUME NEW s \in Sems, NEW t \in Threads, spurious_wakeup(t, s) PROVE TypeOK'
  BY <1>5, Zenon DEF spurious_wakeup
<1> QED
  BY <1>1, <1>2, <1>3, <1>4, <1>5, Zenon DEF Next

(* The counts stay natural numbers and no thread is on and off a condition *)
(* variable at once: mysem_wait never takes a unit that is not there.      *)
THEOREM SemTypes == Spec => []TypeOK
  BY SemInitially, SemInductive, PTL DEF Spec

(* The threads inside mysem_wait, as CountingSemaphore sees them.          *)
inside == [s \in Sems |-> blocked[s] \cup woken[s]]

(* A step of the semaphore is one of CountingSemaphore, or changes no      *)
(* count.                                                                  *)
LEMMA SemStep == TypeOK /\ [Next]_semvars => [Abstract!Next]_<<sem_count, inside>>
<1> SUFFICES ASSUME TypeOK, [Next]_semvars
             PROVE Abstract!Next \/ (sem_count' = sem_count /\ inside' = inside)
  BY Zenon
<1> USE SemAssumption DEF TypeOK, inside
<1>1. CASE UNCHANGED semvars
  BY <1>1, Zenon DEF semvars
<1>2. ASSUME NEW s \in Sems, NEW t \in Threads, mysem_wait(t, s), sem_block(t, s)
      PROVE Abstract!StartWaiting(t, s)
  BY <1>2, Zenon DEF mysem_wait, sem_block, Abstract!StartWaiting
<1>3. ASSUME NEW s \in Sems, NEW t \in Threads, mysem_wait(t, s), sem_take(t, s)
      PROVE Abstract!Take(t, s)
  <2>1. \A r \in Sems : blocked'[r] \cup woken'[r] =
            IF r = s THEN (blocked[s] \cup woken[s]) \ {t} ELSE blocked[r] \cup woken[r]
    BY <1>3, Zenon DEF mysem_wait, sem_take
  <2>2. inside' = [inside EXCEPT ![s] = @ \ {t}]
    BY <2>1, Zenon
  <2> QED
    BY <1>3, <2>2, Zenon DEF sem_take, Abstract!Take
<1>4. ASSUME NEW s \in Sems, NEW t \in Threads, Free(t), mysem_trywait(t, s)
      PROVE Abstract!Take(t, s)
  BY <1>4 DEF Free, waits, mysem_trywait, Abstract!Take
<1>5. ASSUME NEW s \in Sems, mysem_post(s) PROVE Abstract!Post(s)
  <2>1. inside' = inside
    BY <1>5 DEF mysem_post
  <2> QED
    BY <1>5, <2>1, Zenon DEF mysem_post, Abstract!Post
<1>6. ASSUME NEW s \in Sems, NEW t \in Threads, spurious_wakeup(t, s)
      PROVE sem_count' = sem_count /\ inside' = inside
  BY <1>6 DEF spurious_wakeup
<1>7. ASSUME NEW s \in Sems, NEW t \in Threads, mysem_wait(t, s) PROVE Abstract!Next
  BY <1>2, <1>3, <1>7, Zenon DEF mysem_wait, Abstract!Next
<1> QED
  BY <1>1, <1>4, <1>5, <1>6, <1>7, Zenon DEF Next, Abstract!Next

(* mysem_wait, mysem_trywait and mysem_post on a mutex, a condition        *)
(* variable and a count behave as an abstract counting semaphore.          *)
THEOREM SemRefinement == Spec => Implements
<1>1. Init => Abstract!Init
  BY Zenon DEF Init, Abstract!Init
<1>2. TypeOK /\ [Next]_semvars => [Abstract!Next]_<<sem_count, inside>>
  BY SemStep, Zenon
<1> QED
  BY <1>1, <1>2, SemTypes, PTL DEF Spec, Implements, Abstract!Spec, inside

-----------------------------------------------------------------------------
(* SemOpen. That mysem_open is right about the file that has the name, for *)
(* any number of processes, of failures and of files.                      *)

(* A process between open and its return has a file open.                  *)
HasFile == \A p \in Procs : opc[p] \in {"write", "init", "chmod", "stat", "opened"} => fd[p] # 0

(* The creator about to call fchmod has initialised the file it has open.  *)
ChmodReady == \A p \in Procs : opc[p] = "chmod" => fd[p] \in ready

(* A process in the loop has tries left.                                   *)
TriesLeft == \A p \in Procs : opc[p] = "stat" => tries[p] < MAX_TRIES

(* The inductive invariant.  NamedInitialised needs HasFile, or else an    *)
(* unlinked name would be that of a process with no file open.             *)
OpenInv == OpenSafe /\ HasFile /\ ChmodReady /\ TriesLeft

(* It holds at the start.                                                  *)
LEMMA OpenInitially == OpenInit => OpenInv
  BY OpenAssumption DEF OpenInit, OpenInv, OpenSafe, OpenTypeOK, Steps, BitGuardsContents,
     NamedInitialised, HasFile, ChmodReady, TriesLeft

(* A new file has the bit on, and a number that no process has open.       *)
LEMMA CreationKeeps ==
    ASSUME OpenInv, NEW p \in Procs, open_excl(p), path = 0
    PROVE  OpenInv'
<1> USE DEF OpenInv, OpenSafe
<1>1. /\ files' = files + 1 /\ path' = files + 1 /\ ready' = ready /\ tries' = tries
      /\ xbit' = xbit \cup {files + 1} /\ fd' = [fd EXCEPT ![p] = files + 1]
      /\ opc' = [opc EXCEPT ![p] = "write"] /\ created' = [created EXCEPT ![p] = TRUE]
      /\ files < MaxFiles
  BY Zenon DEF open_excl, ogoto
<1>2. files \in Nat /\ 1..(files + 1) = (1..files) \cup {files + 1}
  BY OpenAssumption DEF OpenTypeOK
<1>3. OpenTypeOK'
  BY <1>1, <1>2, OpenAssumption DEF OpenTypeOK, Steps
<1>4. BitGuardsContents'
  BY <1>1, <1>2, Zenon DEF BitGuardsContents
<1>5. NamedInitialised'
  BY <1>1, <1>2 DEF NamedInitialised, OpenTypeOK
<1>6. HasFile' /\ ChmodReady' /\ TriesLeft'
  BY <1>1, <1>2 DEF HasFile, ChmodReady, TriesLeft, OpenTypeOK
<1> QED
  BY <1>3, <1>4, <1>5, <1>6, Zenon

(* Every step of a process keeps the invariant.                            *)
LEMMA OpenInductive == OpenInv /\ [OpenNext]_openvars => OpenInv'
<1> SUFFICES ASSUME OpenInv, [OpenNext]_openvars PROVE OpenInv'
  BY Zenon
<1> USE OpenAssumption DEF OpenInv, OpenSafe, OpenTypeOK, Steps, BitGuardsContents, NamedInitialised,
        HasFile, ChmodReady, TriesLeft, ogoto, shared
<1>1. CASE UNCHANGED openvars
  BY <1>1, Zenon DEF openvars
<1>2. ASSUME NEW p \in Procs, open_excl(p) PROVE OpenInv'
  <2>1. CASE path = 0
    BY <1>2, <2>1, CreationKeeps, Zenon
  <2>2. CASE path # 0
    BY <1>2, <2>2, ZenonT(60) DEF open_excl
  <2> QED
    BY <2>1, <2>2, Zenon
<1>3. ASSUME NEW p \in Procs, init_contents(p) PROVE OpenInv'
  <2>1. fd[p] \in 1..files
    BY <1>3 DEF init_contents
  <2>2. OpenTypeOK' /\ BitGuardsContents'
    BY <1>3, <2>1, Zenon DEF init_contents
  <2>3. NamedInitialised' /\ HasFile' /\ ChmodReady' /\ TriesLeft'
    BY <1>3, Zenon DEF init_contents
  <2> QED
    BY <2>2, <2>3, Zenon
<1>4. ASSUME NEW p \in Procs, fchmod_off(p) PROVE OpenInv'
  BY <1>4, Zenon DEF fchmod_off
<1>5. ASSUME NEW p \in Procs, stat_path(p) PROVE OpenInv'
  <2>1. CASE path = 0
    BY <1>5, <2>1, Zenon DEF stat_path
  <2>2. CASE path # 0 /\ path \notin xbit
    <3>1. /\ UNCHANGED <<shared, fd, created, tries>>
          /\ opc[p] = "stat" /\ opc' = [opc EXCEPT ![p] = "opened"]
      BY <1>5, <2>2, Zenon DEF stat_path
    <3>2. path \in ready
      BY <2>2
    <3>3. OpenTypeOK' /\ BitGuardsContents'
      BY <3>1, Zenon
    <3>4. NamedInitialised'
      BY <3>1, <3>2, Zenon
    <3>5. HasFile' /\ ChmodReady' /\ TriesLeft'
      BY <3>1, Zenon
    <3> QED
      BY <3>3, <3>4, <3>5, Zenon
  <2>3. CASE path # 0 /\ path \in xbit
    <3>1. /\ UNCHANGED <<shared, fd, created>>
          /\ tries' = [tries EXCEPT ![p] = tries[p] + 1]
          /\ opc' = [opc EXCEPT ![p] = IF tries[p] + 1 = MAX_TRIES THEN "err" ELSE "stat"]
          /\ opc[p] = "stat" /\ tries[p] + 1 \in 0..MAX_TRIES
      BY <1>5, <2>3 DEF stat_path
    <3>2. OpenTypeOK'
      BY <3>1, Zenon
    <3>3. BitGuardsContents' /\ NamedInitialised'
      BY <3>1, Zenon
    <3>4. HasFile' /\ ChmodReady' /\ TriesLeft'
      BY <3>1
    <3> QED
      BY <3>2, <3>3, <3>4, Zenon
  <2> QED
    BY <2>1, <2>2, <2>3, Zenon
<1>6. ASSUME NEW p \in Procs, write_file(p) \/ call_fails(p) PROVE OpenInv'
  BY <1>6, ZenonT(60) DEF write_file, call_fails
<1>7. ASSUME NEW p \in Procs, open_existing(p) PROVE OpenInv'
  BY <1>7 DEF open_existing
<1>8. ASSUME NEW p \in Procs, err(p) PROVE OpenInv'
  BY <1>8 DEF err
<1>9. ASSUME NEW p \in Procs, mysem_open(p) PROVE OpenInv'
  <2>1. again(p) \in {"again", "exists"}
    BY Zenon DEF again
  <2> QED
    BY <1>9, <2>1, Zenon DEF mysem_open
<1>10. ASSUME NEW p \in Procs, mysem_close(p) PROVE OpenInv'
  BY <1>10 DEF mysem_close
<1>11. ASSUME NEW p \in Procs, mysem_unlink(p) PROVE OpenInv'
  BY <1>11 DEF mysem_unlink
<1>12. ASSUME NEW p \in Procs, die(p) PROVE OpenInv'
  BY <1>12, Zenon DEF die
<1> QED
  BY <1>1, <1>2, <1>3, <1>4, <1>5, <1>6, <1>7, <1>8, <1>9, <1>10, <1>11, <1>12, Zenon
  DEF OpenNext, Opening

(* A file without the execute bit is an initialised one, and whoever has   *)
(* the file open that the name still names has an initialised semaphore,   *)
(* which is what mysem_open's wait for the bit is for.                     *)
THEOREM NamedFileSafe == OpenSpec => []OpenSafe
  BY OpenInitially, OpenInductive, PTL DEF OpenSpec, OpenInv

(* In particular no file is ever without the bit before the creator has    *)
(* initialised it, whichever creators fail, are killed or are raced.       *)
COROLLARY BitAlwaysGuards == OpenSpec => []BitGuardsContents
  BY NamedFileSafe, PTL DEF OpenSafe

-----------------------------------------------------------------------------
(* LockSeqno. No increment is lost and the System V semaphore is set       *)
(* before it is used, for every set of processes and every number of loops *)
(* and kills.                                                              *)

Crit == {"read", "write", "unlock"}

SvRecord == [exists : BOOLEAN, val : Int, otime : BOOLEAN, set : BOOLEAN]

LockTypes ==
    /\ mech \in Mechanisms /\ lockowner \in LockProcs \cup {NoOwner}
    /\ lpc \in [LockProcs -> LockSteps]
    /\ initflag \in [LockProcs -> BOOLEAN]
    /\ svsem \in SvRecord
    /\ semadj \in [LockProcs -> Int]
    /\ seqread \in [LockProcs -> Int] /\ seqno \in Int /\ writes \in Int

(* Whoever is inside owns the lock, and has read what is in the file.      *)
Owned ==
    /\ \A p \in LockProcs : lpc[p] \in Crit => lockowner = p
    /\ \A p \in LockProcs : lpc[p] = "write" => seqread[p] = seqno
    /\ seqno = writes

(* Only locksvsem.c touches the System V semaphore.                        *)
SvUnused ==
    /\ svsem.val = 0
    /\ \A p \in LockProcs : lpc[p] \notin {"setval", "poll", "acquire"} /\ semadj[p] = 0

(* One creator sets the semaphore; the unit is then in it or with the      *)
(* owner, whose adjustment is what a kill gives back.                      *)
SvUsed ==
    /\ svsem.val = IF svsem.set /\ lockowner = NoOwner THEN 1 ELSE 0
    /\ lockowner # NoOwner => svsem.set
    /\ \A p \in LockProcs : semadj[p] = IF lockowner = p THEN 1 ELSE 0
    /\ \A p \in LockProcs : lockowner = p => lpc[p] \in Crit
    /\ \A p \in LockProcs : lpc[p] = "setval" => svsem.exists /\ ~svsem.set
    /\ \A p, q \in LockProcs : lpc[p] = "setval" /\ lpc[q] = "setval" => p = q
    /\ \A p \in LockProcs : initflag[p] => svsem.set
    /\ svsem.otime => svsem.set
    /\ svsem.set => svsem.exists

(* The inductive invariant.                                                *)
LockInv ==
    /\ LockTypes
    /\ mech # "none" => Owned
    /\ mech # "svsem" => SvUnused
    /\ mech = "svsem" => SvUsed

(* The invariant holds before any process has called my_lock.              *)
LEMMA LockInitially == LockInit => LockInv
<1> SUFFICES ASSUME LockInit PROVE LockInv
  BY Zenon
<1>1. LockTypes
  BY LockAssumption DEF LockInit, LockTypes, Mechanisms, LockSteps, NoOwner, SvRecord
<1>2. Owned
  BY LockAssumption, Zenon DEF LockInit, Owned, LockSteps, Crit, NoOwner
<1>3. SvUnused
  BY LockAssumption, Zenon DEF LockInit, SvUnused, LockSteps, Crit, NoOwner
<1>4. SvUsed
  BY LockAssumption, Zenon DEF LockInit, SvUsed, LockSteps, Crit, NoOwner, SvRecord
<1> QED
  BY <1>1, <1>2, <1>3, <1>4, Zenon DEF LockInv

(* Every step of a process keeps it, being killed included.                *)
LEMMA LockInductive == LockInv /\ [LockNext]_lockvars => LockInv'
<1> SUFFICES ASSUME LockInv, [LockNext]_lockvars PROVE LockInv'
  BY Zenon
<1> USE LockAssumption DEF LockInv, LockSteps, Crit, lgoto, SvRecord
<1>1. CASE UNCHANGED lockvars
  BY <1>1, Zenon DEF lockvars, LockTypes, Owned, SvUnused, SvUsed
<1>2. ASSUME NEW p \in LockProcs, none_lock(p) PROVE LockInv'
  BY <1>2, Zenon DEF none_lock, LockTypes, Owned, SvUnused, SvUsed
<1>3. ASSUME NEW p \in LockProcs, take(p) PROVE LockInv'
  BY <1>3, Zenon DEF take, LockTypes, Owned, SvUnused, SvUsed
<1>4. ASSUME NEW p \in LockProcs, sv_semget(p) PROVE LockInv'
  <2>1. mech = "svsem" /\ mech' = mech /\ lpc[p] \notin Crit
    BY <1>4, Zenon DEF sv_semget, SvUnused
  <2>2. LockTypes'
    BY <1>4, <2>1, Zenon DEF sv_semget, LockTypes
  <2>3. Owned'
    BY <1>4, <2>1 DEF sv_semget, LockTypes, Owned, SvUsed
  <2>4. SvUsed'
    BY <1>4, <2>1, <2>2 DEF sv_semget, LockTypes, Owned, SvUsed
  <2> QED
    BY <2>1, <2>2, <2>3, <2>4, Zenon
<1>5. ASSUME NEW p \in LockProcs, sv_setval(p) PROVE LockInv'
  <2>1. mech = "svsem" /\ mech' = mech /\ lpc[p] \notin Crit
    BY <1>5, Zenon DEF sv_setval, SvUnused
  <2>2. LockTypes'
    <3> DEFINE down == [svsem EXCEPT !.val = 1]
    <3>a. down \in SvRecord
      BY DEF LockTypes, SvRecord
    <3>b. svsem' = [down EXCEPT !.set = TRUE]
      BY <1>5, Zenon DEF sv_setval
    <3>1. svsem' \in SvRecord
      BY <3>a, <3>b, Zenon DEF SvRecord
    <3>2. semadj' \in [LockProcs -> Int] /\ initflag' \in [LockProcs -> BOOLEAN]
      BY <1>5 DEF sv_setval, LockTypes
    <3> QED
      BY <1>5, <3>1, <3>2, Zenon DEF sv_setval, LockTypes
  <2>3. Owned'
    BY <1>5, <2>1 DEF sv_setval, LockTypes, Owned, SvUsed
  <2>4. SvUsed'
    BY <1>5, <2>1, <2>2 DEF sv_setval, LockTypes, Owned, SvUsed
  <2> QED
    BY <2>1, <2>2, <2>3, <2>4
<1>6. ASSUME NEW p \in LockProcs, sv_poll(p) PROVE LockInv'
  <2>1. mech = "svsem" /\ mech' = mech /\ lpc[p] \notin Crit
    BY <1>6, Zenon DEF sv_poll, SvUnused
  <2>2. LockTypes'
    BY <1>6, <2>1, Zenon DEF sv_poll, LockTypes
  <2>3. Owned'
    BY <1>6, <2>1 DEF sv_poll, LockTypes, Owned, SvUsed
  <2>4. SvUsed'
    BY <1>6, <2>1, <2>2 DEF sv_poll, LockTypes, Owned, SvUsed
  <2> QED
    BY <2>1, <2>2, <2>3, <2>4
<1>7. ASSUME NEW p \in LockProcs, sv_wait(p) PROVE LockInv'
  <2>1. mech = "svsem" /\ mech' = mech /\ lpc[p] \notin Crit
    BY <1>7, Zenon DEF sv_wait, SvUnused
  <2>2. LockTypes'
    <3> DEFINE down == [svsem EXCEPT !.val = svsem.val - 1]
    <3>a. down \in SvRecord
      BY DEF LockTypes, SvRecord
    <3>b. svsem' = [down EXCEPT !.otime = TRUE]
      BY <1>7, Zenon DEF sv_wait
    <3>1. svsem' \in SvRecord
      BY <3>a, <3>b, Zenon DEF SvRecord
    <3>2. semadj' \in [LockProcs -> Int] /\ initflag' \in [LockProcs -> BOOLEAN]
      BY <1>7 DEF sv_wait, LockTypes
    <3> QED
      BY <1>7, <3>1, <3>2, Zenon DEF sv_wait, LockTypes
  <2>3. Owned'
    BY <1>7, <2>1 DEF sv_wait, LockTypes, Owned, SvUsed
  <2>4. SvUsed'
    BY <1>7, <2>1, <2>2 DEF sv_wait, LockTypes, Owned, SvUsed
  <2> QED
    BY <2>1, <2>2, <2>3, <2>4
<1>8. ASSUME NEW p \in LockProcs, my_unlock(p) PROVE LockInv'
  BY <1>8 DEF my_unlock, LockTypes, Owned, SvUnused, SvUsed
<1>9. ASSUME NEW p \in LockProcs, read_seqno(p) PROVE LockInv'
  BY <1>9, ZenonT(60) DEF read_seqno, LockTypes, Owned, SvUnused, SvUsed
<1>10. ASSUME NEW p \in LockProcs, write_seqno(p) PROVE LockInv'
  BY <1>10 DEF write_seqno, LockTypes, Owned, SvUnused, SvUsed
<1>11. ASSUME NEW p \in LockProcs, killed(p) PROVE LockInv'
  BY <1>11 DEF killed, Undone, LockTypes, Owned, SvUnused, SvUsed
<1> QED
  BY <1>1, <1>2, <1>3, <1>4, <1>5, <1>6, <1>7, <1>8, <1>9, <1>10, <1>11, Zenon
     DEF LockNext, lock_main

-----------------------------------------------------------------------------
(* With every lock but locknone.c, for any processes, loops and kills, the *)
(* number in the file is the number of increments written.                 *)
THEOREM NoIncrementLost == LockSpec => []SeqnoExact
<1>1. LockInv => SeqnoExact
  BY Zenon DEF LockInv, Owned, SeqnoExact
<1> QED
  BY <1>1, LockInitially, LockInductive, PTL DEF LockSpec

(* Of the processes of locksvsem.c at most the owner is inside.            *)
LEMMA InsideIsOwner ==
    ASSUME LockInv, mech = "svsem"
    PROVE  Inside = IF lockowner = NoOwner THEN {} ELSE {lockowner}
<1> USE DEF LockInv, LockTypes, Owned, SvUsed, Inside, Crit
<1>1. CASE lockowner = NoOwner
  BY <1>1, LockAssumption
<1>2. CASE lockowner # NoOwner
  BY <1>2, LockAssumption
<1> QED
  BY <1>1, <1>2, Zenon

(* locksvsem.c: whoever gets past the test of sem_otime finds the          *)
(* semaphore set, and its unit is in it or with the one process inside,    *)
(* also after holders were killed.                                         *)
THEOREM SemaphoreSetBeforeUse == LockSpec => []SvInitialised
<1>1. ASSUME LockInv PROVE SvInitialised
  <2> SUFFICES ASSUME mech = "svsem"
               PROVE  /\ \A p \in LockProcs : initflag[p] => svsem.set
                      /\ svsem.set => svsem.val = 1 - Cardinality(Inside)
    BY Zenon DEF SvInitialised
  <2>1. \A p \in LockProcs : initflag[p] => svsem.set
    BY <1>1, Zenon DEF LockInv, SvUsed
  <2>2. ASSUME svsem.set PROVE svsem.val = 1 - Cardinality(Inside)
    <3>1. CASE lockowner = NoOwner
      <4>1. Cardinality(Inside) = 0
        BY <1>1, <3>1, InsideIsOwner, FS_EmptySet, Zenon
      <4> QED
        BY <1>1, <2>2, <3>1, <4>1 DEF LockInv, SvUsed
    <3>2. CASE lockowner # NoOwner
      <4>1. Cardinality({lockowner}) = 1
        BY FS_Singleton, Zenon
      <4>2. Cardinality(Inside) = 1
        BY <1>1, <3>2, <4>1, InsideIsOwner, Zenon
      <4> QED
        BY <1>1, <3>2, <4>2 DEF LockInv, SvUsed
    <3> QED
      BY <3>1, <3>2, Zenon
  <2> QED
    BY <2>1, <2>2, Zenon
<1> QED
  BY <1>1, LockInitially, LockInductive, PTL DEF LockSpec

(* The locks of src/unixipc/lock are safe, for any processes and kills.    *)
THEOREM LocksSafe == LockSpec => []LockSafe
  BY NoIncrementLost, SemaphoreSetBeforeUse, PTL DEF LockSafe

-----------------------------------------------------------------------------
(* FifoSem. The units in the FIFO, still to be written and with the        *)
(* processes inside add up to no more than the initial value.              *)

InsideCount == Cardinality(Those(FifoProcs, fpc, {"inside"}))

(* The bytes are written by one creator only, which found no FIFO there;   *)
(* until it has, nobody gets in, and the bytes in the FIFO, those still to *)
(* be written and the processes inside never exceed the initial value.     *)
OneCreator ==
    /\ \A p, q \in ocreat : fpc[p] # "start" /\ fpc[q] # "start" => p = q
    /\ \A p \in ocreat : fpc[p] # "start" => fifo
    /\ \A p \in FifoProcs : fpc[p] = "init" => p \in ocreat

UnitsBounded ==
    /\ bytes + InsideCount <= FifoValue
    /\ \A p \in FifoProcs : fpc[p] = "init" => bytes + InsideCount + towrite[p] <= FifoValue
    /\ \A p \in ocreat : fpc[p] = "open" => bytes = 0 /\ InsideCount = 0
    /\ ~fifo => bytes = 0 /\ InsideCount = 0

FifoInv == FifoTypeOK /\ OneCreator /\ UnitsBounded

(* The number of processes inside is a natural number.                     *)
LEMMA InsideNat == InsideCount \in Nat /\ InsideCount' \in Nat
BY Number, FifoAssumption, Zenon DEF InsideCount

(* How a step of p changes it.                                             *)
LEMMA InsideMoves ==
    ASSUME NEW p \in FifoProcs, NEW s, fpc'[p] = s, \A q \in FifoProcs : q # p => fpc'[q] = fpc[q]
    PROVE  InsideCount' = InsideCount + (IF s = "inside" THEN 1 ELSE 0) - (IF fpc[p] = "inside" THEN 1 ELSE 0)
<1>0. IsFiniteSet(FifoProcs)
  BY FifoAssumption, Zenon
<1>1. Cardinality(Those(FifoProcs, fpc', {"inside"})) =
        Cardinality(Those(FifoProcs, fpc, {"inside"}))
          + (IF s \in {"inside"} THEN 1 ELSE 0) - (IF fpc[p] \in {"inside"} THEN 1 ELSE 0)
  <2> DEFINE A == {"inside"}
             g == fpc'
  <2>1. g[p] = s /\ \A q \in FifoProcs : q # p => g[q] = fpc[q]
    BY Zenon
  <2> HIDE DEF A, g
  <2>2. Cardinality(Those(FifoProcs, g, A)) = Cardinality(Those(FifoProcs, fpc, A))
          + (IF s \in A THEN 1 ELSE 0) - (IF fpc[p] \in A THEN 1 ELSE 0)
    BY <1>0, <2>1, OneMoves, SMTT(20)
  <2> QED
    BY <2>2, Zenon DEF A, g
<1>2. InsideCount' = Cardinality(Those(FifoProcs, fpc', {"inside"}))
  BY Zenon DEF InsideCount
<1> QED
  BY <1>1, <1>2, Zenon DEF InsideCount

(* Sums of smaller numbers are smaller.                                    *)
LEMMA SumsOrdered ==
    \A a, b, c, d, n \in Nat : a <= b /\ c <= d => a + c <= b + d /\ (b + d <= n => a + c <= n)
OBVIOUS

(* It holds at the start.                                                  *)
LEMMA FifoInitially == FifoInit => FifoInv
<1> SUFFICES ASSUME FifoInit PROVE FifoInv
  BY Zenon
<1>1. InsideCount = 0
  BY Number, FifoAssumption, Zenon DEF FifoInit, InsideCount
<1>2. ~fifo /\ fifo \in BOOLEAN
  BY Zenon DEF FifoInit
<1> QED
  BY <1>1, <1>2, FifoAssumption DEF FifoInit, FifoInv, FifoTypeOK, OneCreator, UnitsBounded, Open, FifoSteps

(* Every step keeps the invariant.                                         *)
LEMMA FifoInductive == FifoInv /\ [FifoNext]_fifovars => FifoInv'
<1> SUFFICES ASSUME FifoInv, [FifoNext]_fifovars PROVE FifoInv'
  BY Zenon
<1>0. FifoTypeOK /\ OneCreator /\ UnitsBounded /\ InsideCount \in Nat
  BY InsideNat, Zenon DEF FifoInv
<1> USE FifoAssumption
<1>1. ASSUME NEW p \in FifoProcs, mkfifo(p) PROVE FifoInv'
  <2> DEFINE s == IF p \in FifoExcl /\ fifo THEN "failed" ELSE "open"
  <2>1. /\ fpc[p] = "start" /\ fpc' = [fpc EXCEPT ![p] = s] /\ fpc'[p] = s
        /\ \A q \in FifoProcs : q # p => fpc'[q] = fpc[q]
        /\ UNCHANGED <<bytes, towrite, losses>>
    BY <1>0, <1>1, Zenon DEF mkfifo, fgoto, FifoTypeOK
  <2>2. fifo' \in BOOLEAN /\ (fifo' <=> fifo \/ p \in FifoCreators)
    BY <1>1, Zenon DEF mkfifo
  <2>3. InsideCount' = InsideCount
    BY <1>0, <2>1, InsideMoves
  <2>4. ocreat' = IF fifo THEN ocreat \ {p} ELSE ocreat
    BY <1>1, Zenon DEF mkfifo, still_creates
  <2>5. Open' = Open
    BY <2>1 DEF Open
  <2>6. FifoTypeOK'
    BY <1>0, <2>1, <2>2, <2>4, <2>5, Zenon DEF FifoTypeOK, FifoSteps
  <2>7. OneCreator'
    BY <1>0, <2>1, <2>2, <2>4 DEF FifoTypeOK, OneCreator
  <2>8. UnitsBounded'
    BY <1>0, <2>1, <2>2, <2>3, <2>4, Zenon DEF FifoTypeOK, UnitsBounded
  <2> QED
    BY <2>6, <2>7, <2>8, Zenon DEF FifoInv
<1>2. ASSUME NEW p \in FifoProcs, open_fifo(p) PROVE FifoInv'
  <2> DEFINE s == IF ~fifo THEN "failed" ELSE IF p \in ocreat THEN "init" ELSE "wait"
  <2>1. /\ fpc[p] = "open" /\ fpc' = [fpc EXCEPT ![p] = s] /\ fpc'[p] = s
        /\ \A q \in FifoProcs : q # p => fpc'[q] = fpc[q]
        /\ towrite' = [towrite EXCEPT ![p] = IF p \in ocreat THEN FifoValue ELSE 0]
        /\ UNCHANGED <<fifo, bytes, ocreat, losses>>
    BY <1>0, <1>2, Zenon DEF open_fifo, fgoto, FifoTypeOK
  <2>3. InsideCount' = InsideCount
    BY <1>0, <2>1, InsideMoves
  <2>5. Open' = {} => Open = {}
    BY <2>1, Zenon DEF Open
  <2>6. FifoTypeOK'
    BY <1>0, <2>1, <2>5 DEF FifoTypeOK, FifoSteps
  <2>7. OneCreator'
    BY <1>0, <2>1 DEF FifoTypeOK, OneCreator
  <2>8. UnitsBounded'
    BY <1>0, <2>1, <2>3 DEF FifoTypeOK, OneCreator, UnitsBounded
  <2> QED
    BY <2>6, <2>7, <2>8 DEF FifoInv
<1>3. ASSUME NEW p \in FifoProcs, write_initial(p) PROVE FifoInv'
  <2>1. InsideCount' = InsideCount /\ Open' = Open
    BY <1>3, Zenon DEF write_initial, InsideCount, Open
  <2>2. p \in Open
    BY <1>3, Zenon DEF write_initial, Open
  <2>6. FifoTypeOK'
    BY <1>0, <1>3, <2>1, <2>2 DEF write_initial, FifoTypeOK
  <2>7. OneCreator'
    BY <1>0, <1>3, Zenon DEF write_initial, OneCreator
  <2>8. UnitsBounded'
    BY <1>0, <1>3, <2>1 DEF write_initial, FifoTypeOK, OneCreator, UnitsBounded
  <2> QED
    BY <2>6, <2>7, <2>8 DEF FifoInv
<1>4. ASSUME NEW p \in FifoProcs, fifo_opened(p) PROVE FifoInv'
  <2>1. /\ fpc[p] = "init" /\ fpc' = [fpc EXCEPT ![p] = "wait"] /\ fpc'[p] = "wait"
        /\ \A q \in FifoProcs : q # p => fpc'[q] = fpc[q]
    BY <1>0, <1>4, Zenon DEF fifo_opened, fgoto, FifoTypeOK
  <2>3. InsideCount' = InsideCount /\ Open' = Open
    BY <1>0, <2>1, InsideMoves DEF Open
  <2>4. FifoTypeOK'
    BY <1>0, <1>4, <2>1, <2>3, Zenon DEF fifo_opened, FifoTypeOK, FifoSteps
  <2>5. OneCreator'
    BY <1>0, <1>4, <2>1, Zenon DEF fifo_opened, FifoTypeOK, OneCreator
  <2>6. UnitsBounded'
    BY <1>0, <1>4, <2>1, <2>3 DEF fifo_opened, FifoTypeOK, OneCreator, UnitsBounded
  <2> QED
    BY <2>4, <2>5, <2>6, Zenon DEF FifoInv
<1>5. ASSUME NEW p \in FifoProcs, fifo_wait(p) PROVE FifoInv'
  <2>1. /\ fpc[p] = "wait" /\ fpc' = [fpc EXCEPT ![p] = "inside"] /\ fpc'[p] = "inside"
        /\ \A q \in FifoProcs : q # p => fpc'[q] = fpc[q]
    BY <1>0, <1>5, Zenon DEF fifo_wait, fgoto, FifoTypeOK
  <2>3. InsideCount' = InsideCount + 1 /\ Open' = Open
    BY <1>0, <2>1, InsideMoves DEF Open
  <2>4. FifoTypeOK'
    BY <1>0, <1>5, <2>1, <2>3 DEF fifo_wait, FifoTypeOK, FifoSteps
  <2>5. OneCreator'
    BY <1>0, <1>5, <2>1 DEF fifo_wait, FifoTypeOK, OneCreator
  <2>6. UnitsBounded'
    BY <1>0, <1>5, <2>1, <2>3 DEF fifo_wait, FifoTypeOK, OneCreator, UnitsBounded
  <2> QED
    BY <2>4, <2>5, <2>6, Zenon DEF FifoInv
<1>6. ASSUME NEW p \in FifoProcs, fifo_post(p) PROVE FifoInv'
  <2>1. /\ fpc[p] = "inside" /\ fpc' = [fpc EXCEPT ![p] = "close"] /\ fpc'[p] = "close"
        /\ \A q \in FifoProcs : q # p => fpc'[q] = fpc[q]
    BY <1>0, <1>6, Zenon DEF fifo_post, fgoto, FifoTypeOK
  <2>3. InsideCount' = InsideCount - 1 /\ Open' = Open /\ p \in Open /\ InsideCount' \in Nat
    BY <1>0, <2>1, InsideMoves, InsideNat DEF Open
  <2>4. FifoTypeOK'
    <3>1. bytes' \in 0..PIPE_BUF_MAX
      BY <1>0, <1>6, <2>3 DEF fifo_post, post, FifoTypeOK, UnitsBounded
    <3> QED
      BY <1>0, <1>6, <2>1, <2>3, <3>1, Zenon DEF fifo_post, FifoTypeOK, FifoSteps
  <2>5. OneCreator'
    BY <1>0, <1>6, <2>1 DEF fifo_post, post, FifoTypeOK, OneCreator
  <2>6. UnitsBounded'
    BY <1>0, <1>6, <2>1, <2>3 DEF fifo_post, post, FifoTypeOK, OneCreator, UnitsBounded
  <2> QED
    BY <2>4, <2>5, <2>6, Zenon DEF FifoInv
<1>7. ASSUME NEW p \in FifoProcs, NEW s \in {"closed", "dead"},
             fpc[p] \in {"open", "init", "wait", "inside", "close"}, fpc' = [fpc EXCEPT ![p] = s],
             p \in Open => closes(p), p \notin Open => UNCHANGED <<bytes, losses>>,
             UNCHANGED <<fifo, ocreat, towrite>>
      PROVE  FifoInv'
  <2>1. /\ fpc'[p] = s /\ \A q \in FifoProcs : q # p => fpc'[q] = fpc[q]
    BY <1>0, <1>7, Zenon DEF FifoTypeOK
  <2>2. InsideCount' <= InsideCount /\ InsideCount' \in Nat
    BY <1>0, <2>1, InsideMoves, InsideNat
  <2>3. Open' = Open \ {p}
    BY <2>1, Zenon DEF Open
  <2>4. bytes' <= bytes /\ bytes' \in Nat /\ losses' \in Nat /\ (Open' = {} => bytes' = 0)
    BY <1>0, <1>7, <2>3 DEF closes, gone, FifoTypeOK
  <2>6. FifoTypeOK'
    BY <1>0, <1>7, <2>1, <2>4 DEF FifoTypeOK, FifoSteps
  <2>7. OneCreator'
    BY <1>0, <1>7, <2>1 DEF OneCreator, FifoTypeOK
  <2>8. UnitsBounded'
    <3>0. bytes \in Nat /\ InsideCount \in Nat /\ bytes + InsideCount <= FifoValue /\ FifoValue \in Nat
      BY <1>0 DEF FifoTypeOK, UnitsBounded
    <3>1. bytes' + InsideCount' <= bytes + InsideCount /\ bytes \in Nat
      BY <2>2, <2>4, <3>0, SumsOrdered, Zenon
    <3>2. bytes' + InsideCount' <= FifoValue
      BY <2>2, <2>4, <3>0, SumsOrdered, Zenon
    <3>3. ASSUME NEW q \in FifoProcs, fpc'[q] = "init" PROVE bytes' + InsideCount' + towrite'[q] <= FifoValue
      <4>1. fpc[q] = "init" /\ towrite'[q] = towrite[q] /\ towrite[q] \in Nat
        BY <1>0, <1>7, <2>1, <3>3 DEF FifoTypeOK
      <4>2. bytes + InsideCount + towrite[q] <= FifoValue
        BY <1>0, <4>1, Zenon DEF UnitsBounded
      <4>3. bytes' + InsideCount' + towrite[q] <= bytes + InsideCount + towrite[q]
        BY <2>2, <2>4, <3>0, <3>1, <4>1
      <4> QED
        BY <2>2, <2>4, <3>0, <4>1, <4>2, <4>3
    <3>4. ASSUME bytes = 0, InsideCount = 0 PROVE bytes' = 0 /\ InsideCount' = 0
      BY <2>2, <2>4, <3>4
    <3>5. \A q \in ocreat' : fpc'[q] = "open" => q \in ocreat /\ fpc[q] = "open"
      BY <1>0, <1>7, <2>1, Zenon DEF FifoTypeOK
    <3> QED
      BY <1>0, <1>7, <3>2, <3>3, <3>4, <3>5, Zenon DEF UnitsBounded
  <2> QED
    BY <2>6, <2>7, <2>8, Zenon DEF FifoInv
<1>8. ASSUME NEW p \in FifoProcs, fifo_close(p) PROVE FifoInv'
  BY <1>7, <1>8, Zenon DEF fifo_close, fgoto, Open
<1>9. ASSUME NEW p \in FifoProcs, killed_fifo(p) PROVE FifoInv'
  BY <1>7, <1>9, Zenon DEF killed_fifo
<1>10. CASE UNCHANGED fifovars
  BY <1>0, <1>10, Zenon DEF fifovars, FifoInv, FifoTypeOK, OneCreator, UnitsBounded, Open, InsideCount
<1> QED
  BY <1>1, <1>2, <1>3, <1>4, <1>5, <1>6, <1>8, <1>9, <1>10, Zenon DEF FifoNext, fifo_step

(* No more processes are past sem_wait of the semaphore kept in a FIFO     *)
(* than its initial value allows: for every set of processes and every     *)
(* initial value.                                                          *)
THEOREM FifoIsSafe == FifoSpec => []FifoSafe
<1>1. FifoInv => FifoSafe
  BY InsideNat, FifoAssumption DEF FifoInv, FifoSafe, FifoExclusion, UnitsBounded, FifoTypeOK, InsideCount, Those
<1> QED
  BY <1>1, FifoInitially, FifoInductive, PTL DEF FifoSpec

-----------------------------------------------------------------------------
(* SvSemOpen. How far a semaphore is initialised is told by where its      *)
(* creator is, and identifiers are never used again.                       *)

SvSteps == {"start", "create", "setval", "initop", "lookup", "stat", "finish", "err", "open", "failed", "killed"}
Beyond == SvSteps \ {"start", "create"}      \* past semget

SvTypes ==
    /\ svstate \in [SvIds -> {"created", "zero", "ready", "removed"}] /\ svval \in [SvIds -> Nat]
    /\ vpc \in [SvProcs -> SvSteps]
    /\ svnext <= Cardinality(Those(SvProcs, vpc, Beyond))

(* Only the semaphore the key names exists, and where its creator is says  *)
(* how far it is initialised; nobody else does that.                       *)
Current == \A s \in SvIds : svstate[s] # "removed" => s = svcur

Initialising ==
    /\ \A p \in SvProcs :
         /\ vpc[p] \in {"setval", "initop", "stat", "finish", "open"} => vsemid[p] # 0
         /\ vpc[p] = "setval" => svstate[vsemid[p]] \in {"created", "removed"}
         /\ vpc[p] = "initop" => svstate[vsemid[p]] \in {"zero", "removed"} /\ svval[vsemid[p]] = 0
         /\ vpc[p] \in {"finish", "open"} => svstate[vsemid[p]] \in {"ready", "removed"}
    /\ \A p, q \in SvProcs :
         vpc[p] \in {"setval", "initop"} /\ vpc[q] \in {"setval", "initop"} /\ vsemid[p] = vsemid[q] => p = q
    /\ \A s \in SvIds : svstate[s] = "ready" => svval[s] = SvValue

SvInv == SvOpenSafe /\ SvTypes /\ Current /\ Initialising

(* At most is transitive.                                                  *)
LEMMA Chain == \A a, b, c \in Int : a <= b /\ b <= c => a <= c
OBVIOUS

(* It holds at the start.                                                  *)
LEMMA SvInitially == SvInit => SvInv
<1> SUFFICES ASSUME SvInit PROVE SvInv
  BY Zenon
<1>1. Cardinality(SvProcs) \in Nat
  BY SvAssumption, FS_CardinalityType, Zenon
<1>2. Cardinality(Those(SvProcs, vpc, Beyond)) \in Nat
  BY Number, SvAssumption, Zenon
<1>3. SvTypes
  BY <1>1, <1>2 DEF SvInit, SvTypes, SvSteps, SvIds
<1> QED
  BY <1>1, <1>3, SvAssumption DEF SvInit, SvInv, SvOpenSafe, SvTypeOK, SvOpenedInitialised, Current, Initialising, SvIds

(* How a step of p changes the number of processes that are past semget.   *)
LEMMA BeyondMoves ==
    ASSUME NEW p \in SvProcs, NEW s, vpc'[p] = s, \A q \in SvProcs : q # p => vpc'[q] = vpc[q]
    PROVE  Cardinality(Those(SvProcs, vpc, Beyond)') = Cardinality(Those(SvProcs, vpc, Beyond))
             + (IF s \in Beyond THEN 1 ELSE 0) - (IF vpc[p] \in Beyond THEN 1 ELSE 0)
<1>0. IsFiniteSet(SvProcs)
  BY SvAssumption, Zenon
<1>1. Cardinality(Those(SvProcs, vpc', Beyond)) = Cardinality(Those(SvProcs, vpc, Beyond))
        + (IF s \in Beyond THEN 1 ELSE 0) - (IF vpc[p] \in Beyond THEN 1 ELSE 0)
  BY <1>0, OneMoves, SMTT(20)
<1>2. Those(SvProcs, vpc, Beyond)' = Those(SvProcs, vpc', Beyond)
  BY Zenon DEF Those, Beyond, SvSteps
<1> QED
  BY <1>1, <1>2, Zenon

(* Every step keeps the invariant.                                         *)
LEMMA SvInductive == SvInv /\ [SvNext]_svvars => SvInv'
<1> SUFFICES ASSUME SvInv, [SvNext]_svvars PROVE SvInv'
  BY Zenon
<1> DEFINE B == Cardinality(Those(SvProcs, vpc, Beyond))
<1>0. /\ SvTypeOK /\ SvOpenedInitialised /\ SvTypes /\ Current /\ Initialising
      /\ Cardinality(SvProcs) \in Nat /\ B \in Nat /\ B' \in Nat /\ B' <= Cardinality(SvProcs)
      /\ IsFiniteSet(SvProcs) /\ SvTries \in Nat /\ SvValue \in Nat
  <2>1. B' = Cardinality(Those(SvProcs, vpc', Beyond))
    BY Zenon DEF Those, Beyond, SvSteps
  <2>2. IsFiniteSet(SvProcs) /\ Cardinality(SvProcs) \in Nat
    BY SvAssumption, FS_CardinalityType, Zenon
  <2>3. B \in Nat /\ Cardinality(Those(SvProcs, vpc', Beyond)) \in Nat
        /\ Cardinality(Those(SvProcs, vpc', Beyond)) <= Cardinality(SvProcs)
    BY <2>2, Number, Zenon
  <2> QED
    BY <2>1, <2>2, <2>3, SvAssumption, Zenon DEF SvInv, SvOpenSafe
<1> HIDE DEF B
(* A step that moves p and leaves the semaphores alone.                    *)
<1>1. ASSUME NEW p \in SvProcs, NEW s \in SvSteps, vpc' = [vpc EXCEPT ![p] = s],
             vpc[p] \in Beyond => s \in Beyond, s \notin {"setval", "initop"},
             UNCHANGED <<svsems, vsemid>>, vtries' \in [SvProcs -> 0..SvTries],
             s = "stat" => vsemid[p] # 0,
             s \in {"finish", "open"} =>
               vpc[p] = "finish" \/ (vsemid[p] # 0 /\ svstate[vsemid[p]] = "ready")
      PROVE  SvInv'
  <2>1. /\ vpc'[p] = s /\ \A q \in SvProcs : q # p => vpc'[q] = vpc[q]
        /\ UNCHANGED <<svcur, svnext, svstate, svval, vsemid>>
    BY <1>0, <1>1, Zenon DEF SvTypes, svsems
  <2>2. B <= B'
    <3>1. B' = B + (IF s \in Beyond THEN 1 ELSE 0) - (IF vpc[p] \in Beyond THEN 1 ELSE 0)
      BY <2>1, BeyondMoves, Zenon DEF B
    <3> QED
      BY <1>0, <1>1, <3>1
  <2>3. SvTypeOK'
    BY <1>0, <1>1, <2>1, Zenon DEF SvTypeOK
  <2>4. SvTypes'
    <3>1. svnext <= B'
      BY <1>0, <2>2, Chain DEF SvTypes, SvTypeOK, B
    <3> QED
      BY <1>0, <1>1, <2>1, <3>1, Zenon DEF SvTypes, B
  <2>5. Current'
    BY <1>0, <2>1, Zenon DEF Current
  <2>6. Initialising'
    BY <1>0, <1>1, <2>1 DEF Initialising
  <2>7. SvOpenedInitialised'
    BY <1>0, <1>1, <2>1 DEF Initialising, SvOpenedInitialised, SvTypeOK, SvIds
  <2> QED
    BY <2>3, <2>4, <2>5, <2>6, <2>7, Zenon DEF SvInv, SvOpenSafe
<1>2. ASSUME NEW p \in SvProcs, sv_open(p) PROVE SvInv'
  BY <1>0, <1>1, <1>2, Zenon DEF sv_open, vgoto, SvTypeOK, Beyond, SvSteps
<1>3. ASSUME NEW p \in SvProcs, sv_create(p) PROVE SvInv'
  <2>1. CASE svcur # 0
    BY <1>0, <1>1, <1>3, <2>1, Zenon DEF sv_create, vgoto, svsems, SvTypeOK, Beyond, SvSteps
  <2>2. CASE svcur = 0
    <3> DEFINE n == svnext + 1
    <3>1. /\ vpc[p] = "create" /\ vpc'[p] = "setval" /\ vpc' = [vpc EXCEPT ![p] = "setval"]
          /\ \A q \in SvProcs : q # p => vpc'[q] = vpc[q]
          /\ svnext' = n /\ svcur' = n /\ svstate' = [svstate EXCEPT ![n] = "created"]
          /\ vsemid' = [vsemid EXCEPT ![p] = n] /\ svval' = svval /\ vtries' = vtries
      BY <1>0, <1>3, <2>2, Zenon DEF sv_create, vgoto, SvTypes
    <3>2. B' = B + 1
      <4>1. B' = B + (IF "setval" \in Beyond THEN 1 ELSE 0) - (IF vpc[p] \in Beyond THEN 1 ELSE 0)
        BY <3>1, BeyondMoves, Zenon DEF B
      <4> QED
        BY <1>0, <3>1, <4>1 DEF Beyond, SvSteps
    <3>3. svnext \in Nat /\ n <= B' /\ n \in SvIds /\ svstate[n] = "removed"
      <4>1. svnext \in Nat /\ svnext <= B
        BY <1>0 DEF SvTypeOK, SvTypes, B
      <4>2. n <= B' /\ n \in Nat
        BY <1>0, <3>2, <4>1
      <4>3. n <= Cardinality(SvProcs)
        BY <1>0, <4>2, Chain
      <4> QED
        BY <1>0, <2>2, <4>1, <4>2, <4>3 DEF SvIds, Current, SvTypeOK
    <3>4. SvTypeOK'
      BY <1>0, <3>1, <3>3 DEF SvTypeOK, SvTypes, SvIds
    <3>5. SvTypes'
      BY <1>0, <3>1, <3>3, Zenon DEF SvTypes, SvSteps, B
    <3>6. Current'
      BY <1>0, <2>2, <3>1, <3>3 DEF Current, SvTypes, SvTypeOK, SvIds
    <3>7. \A q \in SvProcs : q # p => vsemid'[q] = vsemid[q] /\ vsemid[q] # n /\ (vsemid[q] # 0 => svstate'[vsemid[q]] = svstate[vsemid[q]])
      BY <1>0, <3>1, <3>3 DEF SvTypeOK, SvTypes, SvIds
    <3>8. vsemid'[p] = n /\ svstate'[n] = "created" /\ n # 0
      BY <1>0, <3>1, <3>3 DEF SvTypeOK, SvTypes
    <3>9. Initialising'
      <4>1. ASSUME NEW q \in SvProcs
            PROVE  /\ vpc'[q] \in {"setval", "initop", "stat", "finish", "open"} => vsemid'[q] # 0
                   /\ vpc'[q] = "setval" => svstate'[vsemid'[q]] \in {"created", "removed"}
                   /\ vpc'[q] = "initop" => svstate'[vsemid'[q]] \in {"zero", "removed"} /\ svval'[vsemid'[q]] = 0
                   /\ vpc'[q] \in {"finish", "open"} => svstate'[vsemid'[q]] \in {"ready", "removed"}
        <5>1. CASE q = p
          BY <3>1, <3>8, <5>1, Zenon
        <5>2. CASE q # p
          BY <1>0, <3>1, <3>7, <5>2 DEF Initialising
        <5> QED
          BY <5>1, <5>2, Zenon
      <4>2. \A q, r \in SvProcs : vpc'[q] \in {"setval", "initop"} /\ vpc'[r] \in {"setval", "initop"}
              /\ vsemid'[q] = vsemid'[r] => q = r
        BY <1>0, <3>1, <3>7, <3>8 DEF Initialising
      <4>3. \A t \in SvIds : svstate'[t] = "ready" => svval'[t] = SvValue
        BY <1>0, <3>1, <3>3, Zenon DEF Initialising, SvTypes
      <4> QED
        BY <4>1, <4>2, <4>3, Zenon DEF Initialising
    <3>10. SvOpenedInitialised'
      BY <1>0, <3>1, <3>7 DEF SvOpenedInitialised, Initialising
    <3> QED
      BY <3>4, <3>5, <3>6, <3>9, <3>10, Zenon DEF SvInv, SvOpenSafe
  <2> QED
    BY <2>1, <2>2, Zenon
(* A step of the creator of a semaphore that is still there.               *)
<1>4. ASSUME NEW p \in SvProcs, vpc[p] \in {"setval", "initop"}, ~removed(p),
             NEW s \in {"initop", "finish"}, vpc' = [vpc EXCEPT ![p] = s],
             vpc[p] = "setval" <=> s = "initop",
             svstate' = [svstate EXCEPT ![vsemid[p]] = IF s = "initop" THEN "zero" ELSE "ready"],
             svval' = [svval EXCEPT ![vsemid[p]] = IF s = "initop" THEN 0 ELSE SvValue],
             UNCHANGED <<svcur, svnext, vsemid, vtries>>
      PROVE  SvInv'
  <2> DEFINE m == vsemid[p]
  <2>1. /\ vpc'[p] = s /\ \A q \in SvProcs : q # p => vpc'[q] = vpc[q]
        /\ m \in SvIds /\ m # 0 /\ svstate[m] # "removed"
        /\ svstate'[m] = (IF s = "initop" THEN "zero" ELSE "ready") /\ svval'[m] = (IF s = "initop" THEN 0 ELSE SvValue)
        /\ \A t \in SvIds : t # m => svstate'[t] = svstate[t] /\ svval'[t] = svval[t]
    BY <1>0, <1>4 DEF SvTypes, SvTypeOK, Initialising, SvIds, removed
  <2>2. B <= B'
    <3>1. B' = B + (IF s \in Beyond THEN 1 ELSE 0) - (IF vpc[p] \in Beyond THEN 1 ELSE 0)
      BY <2>1, BeyondMoves, Zenon DEF B
    <3> QED
      BY <1>0, <1>4, <3>1 DEF Beyond, SvSteps
  <2>3. SvTypeOK'
    BY <1>0, <1>4, <2>1 DEF SvTypeOK, SvTypes
  <2>4. SvTypes'
    <3>1. svnext <= B'
      BY <1>0, <2>2, Chain DEF SvTypes, SvTypeOK, B
    <3> QED
      BY <1>0, <1>4, <2>1, <3>1, Zenon DEF SvTypes, SvSteps, B
  <2>5. Current'
    BY <1>0, <1>4, <2>1 DEF Current
  <2>6. ASSUME NEW q \in SvProcs, q # p, vpc[q] \in {"setval", "initop", "stat", "finish", "open"}
        PROVE  /\ vsemid[q] \in SvIds
               /\ vpc[q] # "stat" => vsemid[q] # m
    BY <1>0, <1>4, <2>1, <2>6 DEF Initialising, SvTypeOK, SvIds
  <2>7. Initialising'
    <3>1. ASSUME NEW q \in SvProcs
          PROVE  /\ vpc'[q] \in {"setval", "initop", "stat", "finish", "open"} => vsemid'[q] # 0
                 /\ vpc'[q] = "setval" => svstate'[vsemid'[q]] \in {"created", "removed"}
                 /\ vpc'[q] = "initop" => svstate'[vsemid'[q]] \in {"zero", "removed"} /\ svval'[vsemid'[q]] = 0
                 /\ vpc'[q] \in {"finish", "open"} => svstate'[vsemid'[q]] \in {"ready", "removed"}
      <4>1. CASE q = p
        BY <1>4, <2>1, <4>1, Zenon
      <4>2. CASE q # p
        <5>1. /\ vpc[q] \in {"setval", "initop", "stat", "finish", "open"} => vsemid[q] # 0
              /\ vpc[q] = "setval" => svstate[vsemid[q]] \in {"created", "removed"}
              /\ vpc[q] = "initop" => svstate[vsemid[q]] \in {"zero", "removed"} /\ svval[vsemid[q]] = 0
              /\ vpc[q] \in {"finish", "open"} => svstate[vsemid[q]] \in {"ready", "removed"}
          BY <1>0, Zenon DEF Initialising
        <5>2. vpc'[q] = vpc[q] /\ vsemid'[q] = vsemid[q]
          BY <1>4, <2>1, <4>2, Zenon
        <5>3. vpc[q] \in {"setval", "initop", "finish", "open"} =>
                svstate'[vsemid[q]] = svstate[vsemid[q]] /\ svval'[vsemid[q]] = svval[vsemid[q]]
          BY <2>1, <2>6, <4>2, Zenon
        <5> QED
          BY <5>1, <5>2, <5>3, Zenon
      <4> QED
        BY <4>1, <4>2, Zenon
    <3>2. \A q, r \in SvProcs : vpc'[q] \in {"setval", "initop"} /\ vpc'[r] \in {"setval", "initop"}
            /\ vsemid'[q] = vsemid'[r] => q = r
      <4>1. \A q, r \in SvProcs : vpc[q] \in {"setval", "initop"} /\ vpc[r] \in {"setval", "initop"}
              /\ vsemid[q] = vsemid[r] => q = r
        BY <1>0, Zenon DEF Initialising
      <4>2. \A q \in SvProcs : vpc'[q] \in {"setval", "initop"} => vpc[q] \in {"setval", "initop"}
        BY <1>4, <2>1, Zenon
      <4> QED
        BY <1>4, <4>1, <4>2, Zenon
    <3>3. \A t \in SvIds : svstate'[t] = "ready" => svval'[t] = SvValue
      <4>1. \A t \in SvIds : svstate[t] = "ready" => svval[t] = SvValue
        BY <1>0, Zenon DEF Initialising
      <4> QED
        BY <2>1, <4>1, Zenon
    <3> QED
      BY <3>1, <3>2, <3>3, Zenon DEF Initialising
  <2>8. SvOpenedInitialised'
    <3>1. ASSUME NEW q \in SvProcs, vpc'[q] \in {"finish", "open"} PROVE svval'[vsemid'[q]] = SvValue
      <4>1. CASE q = p
        BY <1>4, <2>1, <3>1, <4>1, Zenon
      <4>2. CASE q # p
        <5>1. vpc[q] \in {"finish", "open"} /\ vsemid'[q] = vsemid[q]
          BY <1>4, <2>1, <3>1, <4>2, Zenon
        <5>2. vsemid[q] \in SvIds /\ vsemid[q] # m
          BY <2>6, <4>2, <5>1
        <5>3. svval[vsemid[q]] = SvValue
          BY <1>0, <5>1, Zenon DEF SvOpenedInitialised
        <5> QED
          BY <2>1, <5>1, <5>2, <5>3, Zenon
      <4> QED
        BY <4>1, <4>2, Zenon
    <3> QED
      BY <3>1, Zenon DEF SvOpenedInitialised
  <2> QED
    BY <2>3, <2>4, <2>5, <2>7, <2>8, Zenon DEF SvInv, SvOpenSafe
<1>5. ASSUME NEW p \in SvProcs, sv_set0(p) PROVE SvInv'
  <2>1. CASE removed(p)
    BY <1>0, <1>1, <1>5, <2>1, Zenon DEF sv_set0, vgoto, svsems, SvTypeOK, Beyond, SvSteps
  <2>2. CASE ~removed(p)
    BY <1>4, <1>5, <2>2, Zenon DEF sv_set0, vgoto
  <2> QED
    BY <2>1, <2>2, Zenon
<1>6. ASSUME NEW p \in SvProcs, sv_initop(p) PROVE SvInv'
  <2>1. CASE removed(p)
    BY <1>0, <1>1, <1>6, <2>1, Zenon DEF sv_initop, vgoto, svsems, SvTypeOK, Beyond, SvSteps
  <2>2. CASE ~removed(p)
    <3>1. svval[vsemid[p]] + SvValue = SvValue
      <4>1. svval[vsemid[p]] = 0 /\ SvValue \in Nat
        BY <1>0, <1>6, Zenon DEF Initialising, sv_initop
      <4> QED
        BY <4>1
    <3>2. svval' = [svval EXCEPT ![vsemid[p]] = SvValue]
      BY <1>6, <2>2, <3>1, Zenon DEF sv_initop
    <3> QED
      BY <1>4, <1>6, <2>2, <3>2, Zenon DEF sv_initop, vgoto
  <2> QED
    BY <2>1, <2>2
<1>7. ASSUME NEW p \in SvProcs, sv_lookup(p) PROVE SvInv'
  <2> DEFINE s == IF svcur = 0 THEN "err" ELSE "stat"
  <2>1. /\ vpc[p] = "lookup" /\ vpc' = [vpc EXCEPT ![p] = s] /\ vpc'[p] = s
        /\ \A q \in SvProcs : q # p => vpc'[q] = vpc[q] /\ vsemid'[q] = vsemid[q]
        /\ vsemid' = [vsemid EXCEPT ![p] = svcur] /\ vsemid'[p] = svcur
        /\ UNCHANGED <<svcur, svnext, svstate, svval, vtries>>
    BY <1>0, <1>7, Zenon DEF sv_lookup, vgoto, SvTypes, SvTypeOK, svsems
  <2>2. B' = B
    <3>1. B' = B + (IF s \in Beyond THEN 1 ELSE 0) - (IF vpc[p] \in Beyond THEN 1 ELSE 0)
      BY <2>1, BeyondMoves, Zenon DEF B
    <3> QED
      BY <1>0, <2>1, <3>1 DEF Beyond, SvSteps
  <2>3. SvTypeOK' /\ Current'
    BY <1>0, <2>1, Zenon DEF SvTypeOK, Current
  <2>4. SvTypes'
    BY <1>0, <2>1, <2>2, Zenon DEF SvTypes, SvSteps, B
  <2>5. Initialising' /\ SvOpenedInitialised'
    BY <1>0, <2>1 DEF Initialising, SvOpenedInitialised
  <2> QED
    BY <2>3, <2>4, <2>5, Zenon DEF SvInv, SvOpenSafe
<1>8. ASSUME NEW p \in SvProcs, sv_stat(p) PROVE SvInv'
  <2>1. CASE out_of_tries(p) \/ removed(p) \/ otime_set(vsemid[p])
    BY <1>0, <1>1, <1>8, <2>1 DEF sv_stat, vgoto, SvTypeOK, Beyond, SvSteps, otime_set, Initialising
  <2>2. CASE ~(out_of_tries(p) \/ removed(p) \/ otime_set(vsemid[p]))
    <3>1. vpc[p] = "stat" /\ vpc' = [vpc EXCEPT ![p] = "stat"] /\ UNCHANGED <<svsems, vsemid>>
      BY <1>0, <1>8, <2>2, Zenon DEF sv_stat, SvTypes
    <3>2. vtries' \in [SvProcs -> 0..SvTries]
      BY <1>0, <1>8, <2>2 DEF sv_stat, SvTypeOK, out_of_tries
    <3> QED
      BY <1>0, <1>1, <3>1, <3>2, Zenon DEF Beyond, SvSteps, Initialising
  <2> QED
    BY <2>1, <2>2, Zenon
<1>9. ASSUME NEW p \in SvProcs, sv_finish(p) PROVE SvInv'
  BY <1>0, <1>1, <1>9, Zenon DEF sv_finish, vgoto, SvTypeOK, Beyond, SvSteps
<1>10. ASSUME NEW p \in SvProcs, sv_err(p) PROVE SvInv'
  <2>1. CASE ~rmid(p)
    BY <1>0, <1>1, <1>10, <2>1, Zenon DEF sv_err, vgoto, svsems, SvTypeOK, Beyond, SvSteps
  <2>2. CASE rmid(p)
    <3> DEFINE m == vsemid[p]
    <3>1. /\ vpc[p] = "err" /\ vpc' = [vpc EXCEPT ![p] = "failed"] /\ vpc'[p] = "failed"
          /\ \A q \in SvProcs : q # p => vpc'[q] = vpc[q]
          /\ m \in SvIds /\ svstate' = [svstate EXCEPT ![m] = "removed"] /\ svcur' = 0
          /\ svstate'[m] = "removed" /\ \A t \in SvIds : t # m => svstate'[t] = svstate[t]
          /\ UNCHANGED <<svnext, svval, vsemid, vtries>>
      BY <1>0, <1>10, <2>2 DEF sv_err, vgoto, rmid, SvTypes, SvTypeOK, SvIds
    <3>2. B' = B
      <4>1. B' = B + (IF "failed" \in Beyond THEN 1 ELSE 0) - (IF vpc[p] \in Beyond THEN 1 ELSE 0)
        BY <3>1, BeyondMoves, Zenon DEF B
      <4> QED
        BY <1>0, <3>1, <4>1 DEF Beyond, SvSteps
    <3>3. SvTypeOK'
      BY <1>0, <3>1 DEF SvTypeOK
    <3>4. SvTypes'
      BY <1>0, <3>1, <3>2, Zenon DEF SvTypes, SvSteps, B
    <3>5. Current'
      <4>1. svcur = m
        BY <1>0, <2>2, <3>1, Zenon DEF Current, rmid, removed
      <4> QED
        BY <1>0, <3>1, <4>1, Zenon DEF Current
    <3>6. \A q \in SvProcs : vsemid[q] # 0 => vsemid[q] \in SvIds
      BY <1>0 DEF SvTypeOK, SvIds
    <3>7. Initialising' /\ SvOpenedInitialised'
      <4>1. \A q \in SvProcs : vpc'[q] = vpc[q] \/ vpc'[q] = "failed"
        BY <3>1, Zenon
      <4>2. \A t \in SvIds : svstate'[t] = svstate[t] \/ svstate'[t] = "removed"
        BY <3>1, Zenon
      <4>3. Initialising'
        <5>1. ASSUME NEW q \in SvProcs
              PROVE  /\ vpc'[q] \in {"setval", "initop", "stat", "finish", "open"} => vsemid'[q] # 0
                     /\ vpc'[q] = "setval" => svstate'[vsemid'[q]] \in {"created", "removed"}
                     /\ vpc'[q] = "initop" => svstate'[vsemid'[q]] \in {"zero", "removed"} /\ svval'[vsemid'[q]] = 0
                     /\ vpc'[q] \in {"finish", "open"} => svstate'[vsemid'[q]] \in {"ready", "removed"}
          <6>1. /\ vpc[q] \in {"setval", "initop", "stat", "finish", "open"} => vsemid[q] # 0
                /\ vpc[q] = "setval" => svstate[vsemid[q]] \in {"created", "removed"}
                /\ vpc[q] = "initop" => svstate[vsemid[q]] \in {"zero", "removed"} /\ svval[vsemid[q]] = 0
                /\ vpc[q] \in {"finish", "open"} => svstate[vsemid[q]] \in {"ready", "removed"}
            BY <1>0, Zenon DEF Initialising
          <6>2. UNCHANGED <<svval, vsemid>>
            BY <3>1, Zenon
          <6> QED
            BY <3>6, <4>1, <4>2, <6>1, <6>2, Zenon
        <5>2. \A q, r \in SvProcs : vpc'[q] \in {"setval", "initop"} /\ vpc'[r] \in {"setval", "initop"}
                /\ vsemid'[q] = vsemid'[r] => q = r
          <6>1. \A q, r \in SvProcs : vpc[q] \in {"setval", "initop"} /\ vpc[r] \in {"setval", "initop"}
                  /\ vsemid[q] = vsemid[r] => q = r
            BY <1>0, Zenon DEF Initialising
          <6>2. \A q \in SvProcs : vpc'[q] \in {"setval", "initop"} => vpc[q] \in {"setval", "initop"}
            BY <4>1, Zenon
          <6> QED
            BY <3>1, <6>1, <6>2, Zenon
        <5>3. \A t \in SvIds : svstate'[t] = "ready" => svval'[t] = SvValue
          <6>1. \A t \in SvIds : svstate[t] = "ready" => svval[t] = SvValue
            BY <1>0, Zenon DEF Initialising
          <6> QED
            BY <3>1, <4>2, <6>1, Zenon
        <5> QED
          BY <5>1, <5>2, <5>3, Zenon DEF Initialising
      <4>4. SvOpenedInitialised'
        BY <1>0, <3>1, <4>1, Zenon DEF SvOpenedInitialised
      <4> QED
        BY <4>3, <4>4, Zenon
    <3> QED
      BY <3>3, <3>4, <3>5, <3>7, Zenon DEF SvInv, SvOpenSafe
  <2> QED
    BY <2>1, <2>2, Zenon
<1>11. ASSUME NEW p \in SvProcs, sv_killed(p) PROVE SvInv'
  BY <1>0, <1>1, <1>11, Zenon DEF sv_killed, SvTypeOK, Beyond, SvSteps
<1>12. CASE UNCHANGED svvars
  BY <1>0, <1>12, Zenon DEF svvars, SvInv, SvOpenSafe, SvTypeOK, SvTypes, SvOpenedInitialised, Current, Initialising, Those
<1> QED
  BY <1>2, <1>3, <1>5, <1>6, <1>7, <1>8, <1>9, <1>10, <1>11, <1>12, Zenon DEF SvNext, mysem_open_sv

(* mysem_open returns only System V semaphores that have their initial     *)
(* value, whichever of several creators came first and whatever was        *)
(* removed in between: for every set of processes and every bound on the   *)
(* attempts.                                                               *)
THEOREM OpenedIsInitialised == SvSpec => []SvOpenSafe
BY SvInitially, SvInductive, PTL DEF SvSpec, SvInv

=============================================================================
