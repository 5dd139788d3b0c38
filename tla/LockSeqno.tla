------------------------------ MODULE LockSeqno ------------------------------
(***************************************************************************)
(* Processes that increment the number in a file under a lock:             *)
(* src/unixipc/lock/loopmain.c and lockmain.c with each of the my_lock and *)
(* my_unlock next to them: lockfcntl.c, lockopen.c, lockopen2.c,           *)
(* locklink.c, lockpxsem.c, locksvsem.c and locknone.c.  Any process may   *)
(* be killed at any point; the kernel gives back its fcntl lock and what   *)
(* SEM_UNDO recorded, nothing else.  No process is privileged, so that a   *)
(* file without permission bits refuses to be opened (lockopen2.c).        *)
(***************************************************************************)
EXTENDS Integers, FiniteSets

CONSTANTS LockProcs,
          NLoop,        \* increments of each process, a function
          MaxKills,     \* bound: processes killed
          LOCK_TRIES    \* of locksvsem.c

VARIABLES mech,         \* the lock in use
          lpc,          \* where each process is; "lock": at the top of the loop
          loops,        \* turns left
          initflag,     \* per process, lockpxsem.c and locksvsem.c
          ltries,       \* turns of the loop over IPC_STAT
          lockowner,    \* who has the lock file, the fcntl lock or the unit of the semaphore; NoOwner: nobody
          svsem,        \* the System V semaphore: [exists, val, otime, set]; set: SETVAL was done
          semadj,       \* what SEM_UNDO adds when the process ends
          seqno,        \* the number in the file
          seqread,      \* the number a process has read
          writes        \* increments written to the file

lockvars == <<mech, lpc, loops, initflag, ltries, lockowner, svsem, semadj, seqno, seqread, writes>>

Mechanisms == {"fcntl", "open", "open2", "link", "pxsem", "svsem", "none"}
Undone == {"fcntl", "svsem"}    \* given back by the kernel when the holder ends
NoOwner == "nobody"

ASSUME LockAssumption == NoOwner \notin LockProcs

LockSteps == {"lock", "setval", "poll", "acquire", "read", "write", "unlock", "exit", "quit", "dead"}

LockInit ==
    /\ mech \in Mechanisms
    /\ lpc = [p \in LockProcs |-> "lock"] /\ loops = NLoop
    /\ initflag = [p \in LockProcs |-> FALSE] /\ ltries = [p \in LockProcs |-> 0]
    /\ lockowner = NoOwner
    /\ svsem = [exists |-> FALSE, val |-> 0, otime |-> FALSE, set |-> FALSE]
    /\ semadj = [p \in LockProcs |-> 0]
    /\ seqno = 0 /\ seqread = [p \in LockProcs |-> 0] /\ writes = 0

lgoto(p, l) == lpc' = [lpc EXCEPT ![p] = l]

-----------------------------------------------------------------------------
(* my_lock and my_unlock of each file *)

\* locknone.c
none_lock(p) ==
    /\ mech = "none" /\ lpc[p] = "lock" /\ loops[p] > 0
    /\ lgoto(p, "read")
    /\ UNCHANGED <<mech, loops, initflag, ltries, lockowner, svsem, semadj, seqno, seqread, writes>>

\* fcntl(F_SETLKW); the turn of the loops around open and link that succeeds;
\* Sem_wait of the semaphore that Sem_open has created with the value 1.
take(p) ==
    /\ mech \in {"fcntl", "open", "open2", "link", "pxsem"} /\ lpc[p] = "lock" /\ loops[p] > 0
    /\ lockowner = NoOwner
    /\ lockowner' = p
    /\ initflag' = [initflag EXCEPT ![p] = (@ \/ mech = "pxsem")]
    /\ lgoto(p, "read")
    /\ UNCHANGED <<mech, loops, ltries, svsem, semadj, seqno, seqread, writes>>

\* locksvsem.c: semget, with IPC_CREAT|IPC_EXCL first.
sv_semget(p) ==
    /\ mech = "svsem" /\ lpc[p] = "lock" /\ loops[p] > 0
    /\ IF initflag[p] THEN lgoto(p, "acquire") /\ UNCHANGED svsem
       ELSE IF svsem.exists THEN lgoto(p, "poll") /\ UNCHANGED svsem
       ELSE svsem' = [svsem EXCEPT !.exists = TRUE] /\ lgoto(p, "setval")
    /\ UNCHANGED <<mech, loops, initflag, ltries, lockowner, semadj, seqno, seqread, writes>>

\* SETVAL also clears the adjustments of all processes.
sv_setval(p) ==
    /\ lpc[p] = "setval"
    /\ svsem' = [svsem EXCEPT !.val = 1, !.set = TRUE]
    /\ semadj' = [q \in LockProcs |-> 0]
    /\ initflag' = [initflag EXCEPT ![p] = TRUE]
    /\ lgoto(p, "acquire")
    /\ UNCHANGED <<mech, loops, ltries, lockowner, seqno, seqread, writes>>

mut_sv_poll(p) ==
    /\ lpc[p] = "poll"
    /\ initflag' = [initflag EXCEPT ![p] = TRUE]
    /\ lgoto(p, "acquire")
    /\ UNCHANGED <<mech, loops, ltries, lockowner, svsem, semadj, seqno, seqread, writes>>
sv_poll(p) ==
    /\ lpc[p] = "poll"
    /\ IF ltries[p] = LOCK_TRIES THEN lgoto(p, "quit") /\ UNCHANGED <<initflag, ltries>>
       ELSE IF svsem.otime THEN lgoto(p, "acquire") /\ initflag' = [initflag EXCEPT ![p] = TRUE] /\ UNCHANGED ltries
       ELSE ltries' = [ltries EXCEPT ![p] = @ + 1] /\ UNCHANGED <<lpc, initflag>>
    /\ UNCHANGED <<mech, loops, lockowner, svsem, semadj, seqno, seqread, writes>>

\* Semop(waitop): blocks at 0.
sv_wait(p) ==
    /\ lpc[p] = "acquire" /\ svsem.val > 0
    /\ svsem' = [svsem EXCEPT !.val = @ - 1, !.otime = TRUE]
    /\ semadj' = [semadj EXCEPT ![p] = @ + 1]
    /\ lockowner' = p
    /\ lgoto(p, "read")
    /\ UNCHANGED <<mech, loops, initflag, ltries, seqno, seqread, writes>>

my_unlock(p) ==
    /\ lpc[p] = "unlock"
    /\ lockowner' = IF mech = "none" THEN lockowner ELSE NoOwner
    /\ IF mech = "svsem"
       THEN svsem' = [svsem EXCEPT !.val = @ + 1] /\ semadj' = [semadj EXCEPT ![p] = @ - 1]
       ELSE UNCHANGED <<svsem, semadj>>
    /\ loops' = [loops EXCEPT ![p] = @ - 1]
    /\ lgoto(p, IF loops[p] = 1 THEN "exit" ELSE "lock")
    /\ UNCHANGED <<mech, initflag, ltries, seqno, seqread, writes>>

-----------------------------------------------------------------------------
(* The loop of loopmain.c and lockmain.c, and the end of a process *)

read_seqno(p) ==
    /\ lpc[p] = "read"
    /\ seqread' = [seqread EXCEPT ![p] = seqno]
    /\ lgoto(p, "write")
    /\ UNCHANGED <<mech, loops, initflag, ltries, lockowner, svsem, semadj, seqno, writes>>

write_seqno(p) ==
    /\ lpc[p] = "write"
    /\ seqno' = seqread[p] + 1 /\ writes' = writes + 1
    /\ lgoto(p, "unlock")
    /\ UNCHANGED <<mech, loops, initflag, ltries, lockowner, svsem, semadj, seqread>>

\* The kernel applies the adjustment and drops the fcntl lock.
killed(p) ==
    /\ lpc[p] \notin {"exit", "quit", "dead"}
    /\ Cardinality({q \in LockProcs : lpc[q] = "dead"}) < MaxKills
    /\ lgoto(p, "dead")
    /\ svsem' = [svsem EXCEPT !.val = @ + semadj[p]]
    /\ lockowner' = IF lockowner = p /\ mech \in Undone THEN NoOwner ELSE lockowner
    /\ semadj' = [semadj EXCEPT ![p] = 0]
    /\ UNCHANGED <<mech, loops, initflag, ltries, seqno, seqread, writes>>

lock_main(p) == none_lock(p) \/ take(p) \/ sv_semget(p) \/ sv_setval(p) \/ sv_poll(p) \/ sv_wait(p)
                \/ my_unlock(p) \/ read_seqno(p) \/ write_seqno(p)

LockNext == \E p \in LockProcs : lock_main(p) \/ killed(p)

LockSpec == LockInit /\ [][LockNext]_lockvars

-----------------------------------------------------------------------------
Inside == {p \in LockProcs : lpc[p] \in {"read", "write", "unlock"}}

\* No increment is lost: with any of the locks the number in the file is the
\* number of increments written, although a process reads and writes it in two
\* steps and may be killed between them.
SeqnoExact == mech # "none" => seqno = writes

\* locksvsem.c: a process that has got past the test of sem_otime finds the
\* semaphore set to its value, by a creator whose first semop came after SETVAL,
\* and the unit is in the semaphore or with the process inside.
SvInitialised ==
    mech = "svsem" =>
      /\ \A p \in LockProcs : initflag[p] => svsem.set
      /\ svsem.set => svsem.val = 1 - Cardinality(Inside)

\* A process that ended inside keeps a lock that the kernel does not give back.
Orphaned == mech \notin Undone /\ lockowner # NoOwner /\ lpc[lockowner] = "dead"

\* Every process finishes, or gives up waiting for an initialised semaphore,
\* unless a lock file or Posix semaphore was left behind by a killed holder; a
\* fcntl lock and a semaphore with SEM_UNDO never are.
LocksEnd == <>(Orphaned \/ \A p \in LockProcs : lpc[p] \in {"exit", "quit", "dead"})

LockFair == \A p \in LockProcs : WF_lockvars(lock_main(p))
LockFairSpec == LockSpec /\ LockFair

\* No lock of src/unixipc/lock loses an increment, and locksvsem.c hands out one
\* unit of a semaphore that is set, whoever is killed.
LockSafe == SeqnoExact /\ SvInitialised
=============================================================================
