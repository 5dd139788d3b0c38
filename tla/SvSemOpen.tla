----------------------------- MODULE SvSemOpen ------------------------------
(***************************************************************************)
(* mysem_open over a System V semaphore: src/unixipc/my_pxsem_svsem.  The  *)
(* first process creates the semaphore with IPC_EXCL, sets it to 0 and     *)
(* adds the initial value with a semop, which sets sem_otime; the others   *)
(* wait for sem_otime, and remove the semaphore when they lose patience.   *)
(* Each system call is a step; the pathname, once made, is not unlinked.   *)
(***************************************************************************)
EXTENDS Integers, FiniteSets

CONSTANTS SvProcs,
          SvCreators,   \* those that pass O_CREAT
          SvExclusive,  \* and of those the ones that also pass O_EXCL
          SvMortal,     \* processes that may be killed inside mysem_open
          SvNoMemory,   \* processes in which malloc may fail
          SvTries,      \* MAX_TRIES
          SvValue       \* the initial value

ASSUME SvAssumption == IsFiniteSet(SvProcs) /\ SvTries \in Nat /\ SvValue \in Nat

VARIABLES svfile,       \* the pathname exists
          svcur,        \* the semaphore the key names; 0 none
          svnext,       \* semaphores created so far
          svstate,      \* semaphore -> "created", "zero", "ready" or "removed"
          svval,        \* semaphore -> its value
          vpc,          \* "start", "create", "setval", "initop", "lookup", "stat", "finish", "err", "open", "failed", "killed"
          vsemid,       \* process -> semid; 0: -1
          vtries

svvars == <<svfile, svcur, svnext, svstate, svval, vpc, vsemid, vtries>>
svsems == <<svcur, svnext, svstate, svval>>
SvIds == 1..Cardinality(SvProcs)

SvInit ==
    /\ svfile \in BOOLEAN /\ svcur = 0 /\ svnext = 0
    /\ svstate = [s \in SvIds |-> "removed"] /\ svval = [s \in SvIds |-> 0]
    /\ vpc = [p \in SvProcs |-> "start"] /\ vsemid = [p \in SvProcs |-> 0] /\ vtries = [p \in SvProcs |-> 0]

vgoto(p, to) == vpc' = [vpc EXCEPT ![p] = to]
removed(p) == svstate[vsemid[p]] = "removed"

\* open(pathname, oflag) of a creator; ftok fails where there is no file.
sv_open(p) ==
    /\ vpc[p] = "start"
    /\ IF p \in SvCreators
       THEN IF svfile /\ p \in SvExclusive THEN vgoto(p, "failed") /\ UNCHANGED svfile
            ELSE vgoto(p, "create") /\ svfile' = TRUE
       ELSE vgoto(p, IF svfile THEN "lookup" ELSE "err") /\ UNCHANGED svfile
    /\ UNCHANGED <<svsems, vsemid, vtries>>

\* semget with IPC_CREAT | IPC_EXCL.
sv_create(p) ==
    /\ vpc[p] = "create"
    /\ IF svcur = 0
       THEN /\ vgoto(p, "setval")
            /\ svnext' = svnext + 1 /\ svcur' = svnext + 1
            /\ svstate' = [svstate EXCEPT ![svnext + 1] = "created"]
            /\ vsemid' = [vsemid EXCEPT ![p] = svnext + 1]
       ELSE vgoto(p, IF p \in SvExclusive THEN "err" ELSE "lookup") /\ UNCHANGED <<svnext, svcur, svstate, vsemid>>
    /\ UNCHANGED <<svfile, svval, vtries>>

sv_set0(p) ==
    /\ vpc[p] = "setval"
    /\ IF removed(p) THEN vgoto(p, "err") /\ UNCHANGED <<svstate, svval>>
       ELSE /\ vgoto(p, "initop")
            /\ svstate' = [svstate EXCEPT ![vsemid[p]] = "zero"] /\ svval' = [svval EXCEPT ![vsemid[p]] = 0]
    /\ UNCHANGED <<svfile, svcur, svnext, vsemid, vtries>>

\* The semop that adds the value and sets sem_otime.
sv_initop(p) ==
    /\ vpc[p] = "initop"
    /\ IF removed(p) THEN vgoto(p, "err") /\ UNCHANGED <<svstate, svval>>
       ELSE /\ vgoto(p, "finish")
            /\ svstate' = [svstate EXCEPT ![vsemid[p]] = "ready"]
            /\ svval' = [svval EXCEPT ![vsemid[p]] = @ + SvValue]
    /\ UNCHANGED <<svfile, svcur, svnext, vsemid, vtries>>

sv_lookup(p) ==
    /\ vpc[p] = "lookup"
    /\ vgoto(p, IF svcur = 0 THEN "err" ELSE "stat")
    /\ vsemid' = [vsemid EXCEPT ![p] = svcur]
    /\ UNCHANGED <<svfile, svsems, vtries>>

\* Has the semaphore been used, as IPC_STAT tells?
mut_otime_set(s) == svstate[s] \in {"zero", "ready"}
otime_set(s) == svstate[s] = "ready"

out_of_tries(p) == vtries[p] = SvTries

\* One turn of the loop over IPC_STAT; after the last one errno is ETIMEDOUT.
sv_stat(p) ==
    /\ vpc[p] = "stat"
    /\ IF out_of_tries(p) \/ removed(p) THEN vgoto(p, "err") /\ UNCHANGED vtries
       ELSE IF otime_set(vsemid[p]) THEN vgoto(p, "finish") /\ UNCHANGED vtries
       ELSE UNCHANGED vpc /\ vtries' = [vtries EXCEPT ![p] = @ + 1]
    /\ UNCHANGED <<svfile, svsems, vsemid>>

sv_finish(p) ==
    /\ vpc[p] = "finish"
    /\ vgoto(p, "open") \/ (p \in SvNoMemory /\ vgoto(p, "err"))
    /\ UNCHANGED <<svfile, svsems, vsemid, vtries>>

\* err: IPC_RMID of the semaphore the process has, whoever created it.
mut_rmid(p) == FALSE
rmid(p) == vsemid[p] # 0 /\ ~removed(p)

sv_err(p) ==
    /\ vpc[p] = "err"
    /\ vgoto(p, "failed")
    /\ IF rmid(p) THEN svstate' = [svstate EXCEPT ![vsemid[p]] = "removed"] /\ svcur' = 0
       ELSE UNCHANGED <<svstate, svcur>>
    /\ UNCHANGED <<svfile, svnext, svval, vsemid, vtries>>

sv_killed(p) ==
    /\ p \in SvMortal /\ vpc[p] \notin {"open", "failed", "killed"}
    /\ vpc' = [vpc EXCEPT ![p] = "killed"]
    /\ UNCHANGED <<svfile, svsems, vsemid, vtries>>

mysem_open_sv(p) == sv_open(p) \/ sv_create(p) \/ sv_set0(p) \/ sv_initop(p) \/ sv_lookup(p) \/ sv_stat(p)
                    \/ sv_finish(p) \/ sv_err(p)
SvNext == \E p \in SvProcs : mysem_open_sv(p) \/ sv_killed(p)
SvSpec == SvInit /\ [][SvNext]_svvars

-----------------------------------------------------------------------------
SvTypeOK ==
    /\ svcur \in 0..svnext /\ svnext \in 0..Cardinality(SvProcs)
    /\ svcur # 0 => svstate[svcur] # "removed"
    /\ vsemid \in [SvProcs -> 0..svnext] /\ vtries \in [SvProcs -> 0..SvTries]

\* mysem_open returns only semaphores that have their initial value, whichever
\* of several creators came first and whatever was removed in between.
SvOpenedInitialised == \A p \in SvProcs : vpc[p] \in {"finish", "open"} => svval[vsemid[p]] = SvValue

\* A semaphore whose creator was killed before it was initialised does not stay
\* for ever, as long as somebody tries to open it: the one that times out
\* removes it, and the next mysem_open can create it anew.
Abandoned(s) ==
    /\ svstate[s] \in {"created", "zero"}
    /\ ~\E p \in SvProcs : vsemid[p] = s /\ vpc[p] \in {"setval", "initop"}
HalfMadeRemoved ==
    \A s \in SvIds : (Abandoned(s) /\ \E p \in SvProcs \ SvMortal : vsemid[p] = s /\ vpc[p] = "stat") ~> (svstate[s] = "removed")

SvFair == \A p \in SvProcs : WF_svvars(mysem_open_sv(p))
SvFairSpec == SvSpec /\ SvFair

\* mysem_open of my_pxsem_svsem returns only semaphores that were given their
\* initial value, and the key never names a removed one.
SvOpenSafe == SvTypeOK /\ SvOpenedInitialised
=============================================================================
