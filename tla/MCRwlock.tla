------------------------------ MODULE MCRwlock ------------------------------
(***************************************************************************)
(* The read-write lock three ways: the library called in any order by      *)
(* threads that are not cancelled, the library with cancellation, and the  *)
(* test program my_rwlock/test1.c.  The three share the variables of the   *)
(* lock; scenario says which one a behaviour is about.                     *)
(*                                                                         *)
(* First test1.c: each reader and each writer takes and releases the lock  *)
(* nloop times and looks, while it holds it, for threads that should not   *)
(* be there.                                                               *)
(***************************************************************************)
EXTENDS PthreadRwlockCancel

CONSTANTS
    ReaderThreads,      \* threads running reader()
    WriterThreads,      \* threads running writer()
    nloop

ASSUME TestAssumption ==
    /\ Threads = ReaderThreads \cup WriterThreads
    /\ ReaderThreads \cap WriterThreads = {}
    /\ nloop \in Nat \ {0}

VARIABLES
    nreaders, nwriters, \* the fields of shared
    at,                 \* the statement each thread is at
    left                \* iterations each thread has left

shared == <<nreaders, nwriters>>
testvars == <<vars, shared, at, left>>

Statements == {"lock", "count", "check", "uncount", "unlock", "done", "err_quit"}

TestTypeOK ==
    /\ TypeOK
    /\ nreaders \in 0..Cardinality(Threads)
    /\ nwriters \in 0..Cardinality(Threads)
    /\ at \in [Threads -> Statements]
    /\ left \in [Threads -> 0..nloop]

TestInit ==
    /\ Init
    /\ nreaders = 0
    /\ nwriters = 0
    /\ at = [t \in Threads |-> "lock"]
    /\ left = [t \in Threads |-> nloop]

-----------------------------------------------------------------------------
(* pthread_rwlock_rdlock or _wrlock, until it returns.                     *)
lock(t, call, held) ==
    /\ at[t] = "lock"
    /\ call
    /\ at' = [at EXCEPT ![t] = IF pc'[t] = held THEN "count" ELSE "lock"]
    /\ UNCHANGED <<shared, left>>
    /\ NoteArrivals

(* The end of an iteration.                                                *)
unlock(t) ==
    /\ at[t] = "unlock"
    /\ pthread_rwlock_unlock(t)
    /\ left' = [left EXCEPT ![t] = @ - 1]
    /\ at' = [at EXCEPT ![t] = IF left[t] = 1 THEN "done" ELSE "lock"]
    /\ UNCHANGED shared
    /\ NoteArrivals

goes(t, from, to) ==
    /\ at[t] = from
    /\ at' = [at EXCEPT ![t] = to]
    /\ UNCHANGED <<vars, left>>

(* The counter of readers changes under rcountlock, in one step.           *)
reader(t) ==
    \/ lock(t, pthread_rwlock_rdlock(t) \/ rdlock_resume(t), "reading")
    \/ goes(t, "count", "check") /\ nreaders' = nreaders + 1 /\ UNCHANGED nwriters
    \/ goes(t, "check", IF nwriters > 0 THEN "err_quit" ELSE "uncount") /\ UNCHANGED shared
    \/ goes(t, "uncount", "unlock") /\ nreaders' = nreaders - 1 /\ UNCHANGED nwriters
    \/ unlock(t)

writer(t) ==
    \/ lock(t, pthread_rwlock_wrlock(t) \/ wrlock_resume(t), "writing")
    \/ goes(t, "count", "check") /\ nwriters' = nwriters + 1 /\ UNCHANGED nreaders
    \/ goes(t, "check", IF nwriters > 1 \/ nreaders > 0 THEN "err_quit" ELSE "uncount")
       /\ UNCHANGED shared
    \/ goes(t, "uncount", "unlock") /\ nwriters' = nwriters - 1 /\ UNCHANGED nreaders
    \/ unlock(t)

(* pthread_join has returned for every thread.                             *)
main_exit ==
    /\ \A t \in Threads : at[t] = "done"
    /\ UNCHANGED testvars

TestNext ==
    \/ \E t \in ReaderThreads : reader(t)
    \/ \E t \in WriterThreads : writer(t)
    \/ \E t \in Threads : spurious_wakeup(t) /\ NoteArrivals /\ UNCHANGED <<shared, at, left>>
    \/ main_exit

(* The scheduler runs every thread that can run, and a thread that waits   *)
(* for rw_mutex gets it: the mutex is only ever held for a few statements. *)
TestFair ==
    /\ \A t \in ReaderThreads : WF_testvars(reader(t))
    /\ \A t \in WriterThreads : WF_testvars(writer(t))

TestSpec == TestInit /\ [][TestNext]_testvars /\ TestFair

-----------------------------------------------------------------------------
(* No reader finds a writer and no writer finds anybody: the err_quit      *)
(* calls of reader() and writer() are never reached.                       *)
NoErrQuit == \A t \in Threads : at[t] # "err_quit"

(* Every thread completes its nloop iterations and the joins of main()     *)
(* return, although readers give way to writers and writers to whoever     *)
(* comes first.                                                            *)
AllJoined == <>(\A t \in Threads : at[t] = "done")

-----------------------------------------------------------------------------
(* The three scenarios.                                                    *)
VARIABLE scenario

rwvars == <<testvars, scenario>>

RwInit == TestInit /\ scenario \in {"lock", "cancel", "test1"}

RwNext ==
    /\ UNCHANGED scenario
    /\ \/ scenario = "lock" /\ Next /\ UNCHANGED <<shared, at, left>>
       \/ scenario = "cancel" /\ CancelNext /\ UNCHANGED <<shared, at, left>>
       \/ scenario = "test1" /\ TestNext

RwSpec == RwInit /\ [][RwNext]_rwvars

-----------------------------------------------------------------------------
(* The types of the lock, of test1.c and of the lock with cancellation.    *)
RwTypeOK ==
    /\ IF scenario = "cancel" THEN CancelTypeOK ELSE TestTypeOK
    /\ came \in [Threads -> SUBSET Threads]

(* NoStrandedReader, which cancellation of a waiting writer breaks: only   *)
(* unlock wakes readers.                                                   *)
UncancelledReaders == scenario # "cancel" => NoStrandedReader

(* AllJoined: all threads of test1.c finish.                               *)
FairAllJoined == scenario = "test1" /\ TestFair => AllJoined

(* The counters say exactly who holds the lock and who waits, destroy      *)
(* overlooks nobody who was there all the time, and test1.c never calls    *)
(* its err_quit.                                                           *)
RwSafe == RwTypeOK /\ RefcountExact /\ WaitersCounted /\ DestroyMissesOnlyArrivals /\ NoErrQuit

(* No writer sleeps beside a lock it could have, whoever is cancelled, and *)
(* no reader does unless somebody was.                                     *)
NobodyAsleep == NoStrandedWriter /\ UncancelledReaders

=============================================================================
