------------------------------ MODULE SemOpen ------------------------------
(***************************************************************************)
(* mysem_open, mysem_close and mysem_unlink of src/unixipc/my_pxsem_mmap:  *)
(* how processes that race to open one pathname create and initialise the  *)
(* file once.  The creator makes the file with O_EXCL and the user-execute *)
(* bit on, and turns the bit off when it has initialised the contents;     *)
(* the others wait for the bit.  Each system call is a step; a file is     *)
(* known by its inode.                                                     *)
(***************************************************************************)
EXTENDS Naturals, FiniteSets

CONSTANTS
    Procs,
    Creators,       \* the processes that pass O_CREAT
    Exclusive,      \* and those of them that pass O_EXCL
    Failing,        \* creators in which a call between open and fchmod may fail
    Unlinkers,      \* processes that may call mysem_unlink
    Mortal,         \* processes that may be killed
    MAX_TRIES,      \* 10 in the code
    MaxFiles        \* bound: files created under the pathname

ASSUME OpenAssumption ==
    /\ Exclusive \subseteq Creators /\ Failing \subseteq Creators
    /\ Creators \subseteq Procs /\ Unlinkers \subseteq Procs /\ Mortal \subseteq Procs
    /\ MAX_TRIES \in Nat \ {0} /\ MaxFiles \in Nat \ {0}

VARIABLES
    path,       \* the file the pathname names; 0: ENOENT
    files,      \* how many files have been created: they are 1..files
    xbit,       \* the files with the user-execute bit on
    ready,      \* the files whose mutex, condition and count are initialised
    opc,         \* where each process is in mysem_open
    fd,         \* the file it has open
    created,    \* its local variable
    tries       \* its local variable i

openvars == <<path, files, xbit, ready, opc, fd, created, tries>>
shared == <<path, files, xbit, ready>>

Steps == {"closed", "again", "write", "init", "chmod", "exists", "stat", "err",
          "opened", "failed", "dead"}

OpenTypeOK ==
    /\ files \in 0..MaxFiles /\ path \in 0..files
    /\ xbit \subseteq 1..files /\ ready \subseteq 1..files
    /\ opc \in [Procs -> Steps]
    /\ fd \in [Procs -> 0..files]
    /\ created \in [Procs -> BOOLEAN]
    /\ tries \in [Procs -> 0..MAX_TRIES]

OpenInit ==
    /\ path = 0 /\ files = 0 /\ xbit = {} /\ ready = {}
    /\ opc = [p \in Procs |-> "closed"]
    /\ fd = [p \in Procs |-> 0]
    /\ created = [p \in Procs |-> FALSE]
    /\ tries = [p \in Procs |-> 0]

ogoto(p, from, to) == opc[p] = from /\ opc' = [opc EXCEPT ![p] = to]

(* The call: created = 0, and O_CREAT decides where it goes first.         *)
again(p) == IF p \in Creators THEN "again" ELSE "exists"

mysem_open(p) ==
    /\ ogoto(p, "closed", again(p))
    /\ created' = [created EXCEPT ![p] = FALSE]
    /\ UNCHANGED <<shared, fd, tries>>

(* open with O_CREAT and O_EXCL, line 30.                                  *)
open_excl(p) ==
    \/ /\ path = 0 /\ files < MaxFiles
       /\ ogoto(p, "again", "write")
       /\ files' = files + 1 /\ path' = files + 1
       /\ xbit' = xbit \cup {files + 1}
       /\ fd' = [fd EXCEPT ![p] = files + 1]
       /\ created' = [created EXCEPT ![p] = TRUE]
       /\ UNCHANGED <<ready, tries>>
    \/ /\ path # 0
       /\ ogoto(p, "again", IF p \in Exclusive THEN "failed" ELSE "exists")
       /\ UNCHANGED <<shared, fd, created, tries>>

(* write and mmap, lines 40 to 48.                                         *)
write_file(p) ==
    /\ ogoto(p, "write", "init")
    /\ UNCHANGED <<shared, fd, created, tries>>

(* The mutex, the condition variable and the value, lines 50 to 70.        *)
init_contents(p) ==
    /\ ogoto(p, "init", "chmod")
    /\ ready' = ready \cup {fd[p]}
    /\ UNCHANGED <<path, files, xbit, fd, created, tries>>

fchmod_off(p) ==
    /\ ogoto(p, "chmod", "opened")
    /\ xbit' = xbit \ {fd[p]}
    /\ UNCHANGED <<path, files, ready, fd, created, tries>>

(* One of the calls of the creator fails: goto err.                         *)
call_fails(p) ==
    /\ p \in Failing
    /\ opc[p] \in {"write", "init", "chmod"}
    /\ opc' = [opc EXCEPT ![p] = "err"]
    /\ UNCHANGED <<shared, fd, created, tries>>

(* open of the existing file and mmap, lines 80 to 90.                     *)
open_existing(p) ==
    /\ ogoto(p, "exists", IF path # 0 THEN "stat"
                         ELSE IF p \in Creators THEN "again" ELSE "err")
    /\ fd' = [fd EXCEPT ![p] = path]
    /\ tries' = [tries EXCEPT ![p] = 0]
    /\ UNCHANGED <<shared, created>>

(* Mutant: the file is taken as soon as stat finds it.                     *)
mut_stat_path(p) ==
    /\ ogoto(p, "stat", IF path = 0 THEN again(p) ELSE "opened")
    /\ UNCHANGED <<shared, fd, created, tries>>

(* One turn of the loop, lines 93 to 109: stat is given the pathname.      *)
stat_path(p) ==
    \/ /\ path = 0
       /\ ogoto(p, "stat", IF p \in Creators THEN "again" ELSE "err")
       /\ UNCHANGED <<shared, fd, created, tries>>
    \/ /\ path # 0 /\ path \notin xbit
       /\ ogoto(p, "stat", "opened")
       /\ UNCHANGED <<shared, fd, created, tries>>
    \/ /\ path # 0 /\ path \in xbit
       /\ tries' = [tries EXCEPT ![p] = @ + 1]
       /\ ogoto(p, "stat", IF tries[p] + 1 = MAX_TRIES THEN "err" ELSE "stat")
       /\ UNCHANGED <<shared, fd, created>>

(* The error exit, lines 113 to 122: whoever has created a file unlinks    *)
(* the pathname.                                                           *)
err(p) ==
    /\ ogoto(p, "err", "failed")
    /\ path' = IF created[p] THEN 0 ELSE path
    /\ UNCHANGED <<files, xbit, ready, fd, created, tries>>

mysem_close(p) ==
    /\ ogoto(p, "opened", "closed")
    /\ fd' = [fd EXCEPT ![p] = 0]
    /\ UNCHANGED <<shared, created, tries>>

mysem_unlink(p) ==
    /\ p \in Unlinkers /\ opc[p] \in {"closed", "opened"}
    /\ path # 0 /\ path' = 0
    /\ UNCHANGED <<files, xbit, ready, opc, fd, created, tries>>

die(p) ==
    /\ p \in Mortal /\ opc[p] # "dead"
    /\ opc' = [opc EXCEPT ![p] = "dead"]
    /\ UNCHANGED <<shared, fd, created, tries>>

Opening(p) ==
    \/ open_excl(p) \/ write_file(p) \/ init_contents(p) \/ fchmod_off(p)
    \/ call_fails(p) \/ open_existing(p) \/ stat_path(p) \/ err(p)

OpenNext ==
    \E p \in Procs : mysem_open(p) \/ Opening(p) \/ mysem_close(p) \/ mysem_unlink(p) \/ die(p)

OpenFair == \A p \in Procs : WF_openvars(Opening(p))

OpenSpec == OpenInit /\ [][OpenNext]_openvars /\ OpenFair

-----------------------------------------------------------------------------
(* A file without the execute bit is initialised, at every moment and      *)
(* whatever creators fail, are killed or are unlinked under way.           *)
BitGuardsContents == (1..files) \ xbit \subseteq ready

(* sem_open.c:92, "make certain initialization is complete": a process     *)
(* that has the semaphore open has an initialised one.                     *)
OpenedInitialised == \A p \in Procs : opc[p] = "opened" => fd[p] \in ready

(* What the wait for the bit does ensure: whoever has the file open that   *)
(* the pathname still names has an initialised semaphore, whatever failed, *)
(* was killed or unlinked before.                                          *)
NamedInitialised ==
    \A p \in Procs : opc[p] = "opened" /\ fd[p] = path => fd[p] \in ready

(* The wait for the bit is over in the end, also when the creator was      *)
(* killed before it turned the bit off.                                    *)
WaitEnds == \A p \in Procs : opc[p] = "stat" ~> opc[p] # "stat"

\* sem_open.c is right about the file that has the name: a file without the
\* execute bit is initialised, and whoever has the named file open has an
\* initialised one, although creators fail, are killed and are raced.
OpenSafe == OpenTypeOK /\ BitGuardsContents /\ NamedInitialised
=============================================================================
