----------------------------- MODULE WebThreads -----------------------------
(***************************************************************************)
(* The threaded web clients src/unixNetV1/threads/web01.c, web02.c and     *)
(* web03.c: main starts a thread for each file, at most maxnconn at a      *)
(* time, and waits for threads to terminate: with thr_join(0, ...) in      *)
(* web01, by polling ndone in web02, with a condition variable in web03.   *)
(* Connections always end.  The flags f_flags are shared without a mutex,  *)
(* so each access is a step of its own.                                    *)
(***************************************************************************)
EXTENDS Integers, FiniteSets, FiniteSetsExt

CONSTANTS nfiles, maxnconn,
          WebPrograms   \* the programs to look at

ASSUME WebAssumption == nfiles \in Nat /\ maxnconn \in Nat

VARIABLES wver,         \* the program
          wpc,          \* main: "start", "mark" (web02: thread created, f_flags not set), "wait", "woken",
                        \* "scan", "join", "exit"
          wi,           \* main's index i into file[]
          f_flags,
          tpc,          \* thread of a file: "none", "connect", "read", "done" (F_DONE set), "ended", "joined"
          ndone, nconn, nlefttoconn, nlefttoread,
          main_locked   \* main holds ndone_mutex

webvars == <<wver, wpc, wi, f_flags, tpc, ndone, nconn, nlefttoconn, nlefttoread, main_locked>>

Files == 1..nfiles

WebInit ==
    /\ wver \in WebPrograms
    /\ wpc = "start" /\ wi = 1
    /\ f_flags = [f \in Files |-> "0"] /\ tpc = [f \in Files |-> "none"]
    /\ ndone = 0 /\ nconn = 0 /\ nlefttoconn = nfiles /\ nlefttoread = nfiles
    /\ main_locked = FALSE

-----------------------------------------------------------------------------
(* main *)

may_connect == nlefttoread > 0 /\ nconn < maxnconn /\ nlefttoconn > 0

\* pthread_create for the first file whose flags are 0; web02 sets its flags,
\* and counts it, only afterwards.
create_thread ==
    /\ wpc = "start" /\ may_connect
    /\ LET f == Min({g \in Files : f_flags[g] = "0"}) IN
       /\ wi' = f
       /\ tpc' = [tpc EXCEPT ![f] = "connect"]
       /\ IF wver = "web02"
          THEN wpc' = "mark" /\ UNCHANGED <<f_flags, nconn, nlefttoconn>>
          ELSE /\ f_flags' = [f_flags EXCEPT ![f] = "F_CONNECTING"]
               /\ nconn' = nconn + 1 /\ nlefttoconn' = nlefttoconn - 1
               /\ UNCHANGED wpc
    /\ UNCHANGED <<wver, ndone, nlefttoread, main_locked>>

mark_connecting ==
    /\ wpc = "mark"
    /\ f_flags' = [f_flags EXCEPT ![wi] = "F_CONNECTING"]
    /\ nconn' = nconn + 1 /\ nlefttoconn' = nlefttoconn - 1
    /\ wpc' = "start"
    /\ UNCHANGED <<wver, wi, tpc, ndone, nlefttoread, main_locked>>

main_exits ==
    /\ wpc = "start" /\ nlefttoread = 0
    /\ wpc' = "exit"
    /\ UNCHANGED <<wver, wi, f_flags, tpc, ndone, nconn, nlefttoconn, nlefttoread, main_locked>>

\* web01: thr_join of whichever thread has terminated.
thr_join ==
    /\ wver = "web01" /\ wpc = "start" /\ nlefttoread > 0 /\ ~may_connect
    /\ \E f \in Files : tpc[f] = "ended" /\ tpc' = [tpc EXCEPT ![f] = "joined"]
    /\ nconn' = nconn - 1 /\ nlefttoread' = nlefttoread - 1
    /\ UNCHANGED <<wver, wpc, wi, f_flags, ndone, nlefttoconn, main_locked>>

\* ndone_mutex is taken and ndone looked at: main keeps the mutex when a thread
\* has terminated; otherwise web02 goes round and web03 waits.
lock_ndone ==
    /\ wver # "web01" /\ ~main_locked
    /\ \/ wpc = "start" /\ nlefttoread > 0 /\ ~may_connect
       \/ wpc = "woken"
    /\ IF ndone > 0
       THEN wpc' = "scan" /\ wi' = 1 /\ main_locked' = TRUE
       ELSE wpc' = (IF wver = "web02" THEN "start" ELSE "wait") /\ UNCHANGED <<wi, main_locked>>
    /\ UNCHANGED <<wver, f_flags, tpc, ndone, nconn, nlefttoconn, nlefttoread>>

\* One turn of the loop over the files, up to a join.
scan_file ==
    /\ wpc = "scan" /\ wi <= nfiles
    /\ IF f_flags[wi] = "F_DONE" THEN wpc' = "join" /\ UNCHANGED wi ELSE wi' = wi + 1 /\ UNCHANGED wpc
    /\ UNCHANGED <<wver, f_flags, tpc, ndone, nconn, nlefttoconn, nlefttoread, main_locked>>

mut_pthread_join ==
    /\ wpc = "join" /\ tpc[wi] = "ended"
    /\ tpc' = [tpc EXCEPT ![wi] = "joined"]
    /\ f_flags' = [f_flags EXCEPT ![wi] = "F_JOINED"]
    /\ ndone' = ndone - 1 /\ nlefttoread' = nlefttoread - 1
    /\ wpc' = "scan" /\ wi' = wi + 1
    /\ UNCHANGED <<wver, nconn, nlefttoconn, main_locked>>
pthread_join ==
    /\ wpc = "join" /\ tpc[wi] = "ended"
    /\ tpc' = [tpc EXCEPT ![wi] = "joined"]
    /\ f_flags' = [f_flags EXCEPT ![wi] = "F_JOINED"]
    /\ ndone' = ndone - 1 /\ nconn' = nconn - 1 /\ nlefttoread' = nlefttoread - 1
    /\ wpc' = "scan" /\ wi' = wi + 1
    /\ UNCHANGED <<wver, nlefttoconn, main_locked>>

unlock_ndone ==
    /\ wpc = "scan" /\ wi > nfiles
    /\ wpc' = "start" /\ main_locked' = FALSE
    /\ UNCHANGED <<wver, wi, f_flags, tpc, ndone, nconn, nlefttoconn, nlefttoread>>

web_main == create_thread \/ mark_connecting \/ main_exits \/ thr_join
            \/ lock_ndone \/ scan_file \/ pthread_join \/ unlock_ndone

-----------------------------------------------------------------------------
(* do_get_read *)

write_get_cmd(f) ==
    /\ tpc[f] = "connect"
    /\ f_flags' = [f_flags EXCEPT ![f] = "F_READING"]
    /\ tpc' = [tpc EXCEPT ![f] = "read"]
    /\ UNCHANGED <<wver, wpc, wi, ndone, nconn, nlefttoconn, nlefttoread, main_locked>>

\* End of file; the thread of web01 returns.
read_eof(f) ==
    /\ tpc[f] = "read"
    /\ f_flags' = [f_flags EXCEPT ![f] = "F_DONE"]
    /\ tpc' = [tpc EXCEPT ![f] = IF wver = "web01" THEN "ended" ELSE "done"]
    /\ UNCHANGED <<wver, wpc, wi, ndone, nconn, nlefttoconn, nlefttoread, main_locked>>

\* ndone++ under ndone_mutex, the signal of web03, and the return.
mut_count_done(f) ==
    /\ tpc[f] = "done" /\ ~main_locked
    /\ ndone' = ndone + 1
    /\ tpc' = [tpc EXCEPT ![f] = "ended"]
    /\ UNCHANGED <<wver, wpc, wi, f_flags, nconn, nlefttoconn, nlefttoread, main_locked>>
count_done(f) ==
    /\ tpc[f] = "done" /\ ~main_locked
    /\ ndone' = ndone + 1
    /\ wpc' = IF wpc = "wait" THEN "woken" ELSE wpc
    /\ tpc' = [tpc EXCEPT ![f] = "ended"]
    /\ UNCHANGED <<wver, wi, f_flags, nconn, nlefttoconn, nlefttoread, main_locked>>

do_get_read(f) == write_get_cmd(f) \/ read_eof(f) \/ count_done(f)

\* pthread_cond_wait returns without a signal.
web_spurious ==
    /\ wpc = "wait"
    /\ wpc' = "woken"
    /\ UNCHANGED <<wver, wi, f_flags, tpc, ndone, nconn, nlefttoconn, nlefttoread, main_locked>>

WebNext == web_main \/ web_spurious \/ \E f \in Files : do_get_read(f)

WebSpec == WebInit /\ [][WebNext]_webvars

-----------------------------------------------------------------------------
WebTypeOK ==
    /\ wpc \in {"start", "mark", "wait", "woken", "scan", "join", "exit"}
    /\ wi \in 1..nfiles + 1
    /\ f_flags \in [Files -> {"0", "F_CONNECTING", "F_READING", "F_DONE", "F_JOINED"}]
    /\ tpc \in [Files -> {"none", "connect", "read", "done", "ended", "joined"}]
    /\ ndone \in 0..nfiles /\ nconn \in 0..maxnconn
    /\ nlefttoconn \in 0..nfiles /\ nlefttoread \in 0..nfiles

Running == {f \in Files : tpc[f] \notin {"none", "joined"}}

\* In web02 and web03 ndone counts the threads that have passed ndone_mutex and
\* have not been joined, in every state: no increment or decrement is lost.
NdoneExact == wver # "web01" => ndone = Cardinality({f \in Files : tpc[f] = "ended"})

\* At most maxnconn threads run, and nconn and nlefttoread account for them, with
\* the one that web02 has created and not counted yet.
ConnectionsLimited ==
    /\ Cardinality(Running) <= maxnconn
    /\ nconn = Cardinality(Running) - (IF wpc = "mark" THEN 1 ELSE 0)
    /\ nlefttoread = Cardinality({f \in Files : tpc[f] # "joined"})

\* Main joins a thread that still needs the mutex that main holds.
JoinBlocked == wpc = "join" /\ main_locked /\ tpc[wi] = "done"
\* web02 has overwritten the F_DONE of a thread by F_CONNECTING.
DoneOverwritten == \E f \in Files : tpc[f] \in {"done", "ended"} /\ f_flags[f] = "F_CONNECTING"

\* A client ends or is caught in one of the two states above, for good; web01
\* always ends.
WebEndsOrStuck == <>(wpc = "exit" \/ (wver # "web01" /\ (JoinBlocked \/ DoneOverwritten)))

WebFair == WF_webvars(web_main) /\ \A f \in Files : WF_webvars(do_get_read(f))
WebFairSpec == WebSpec /\ WebFair

\* The web clients keep count: ndone is the number of threads that have ended and
\* are not yet joined, and no more than maxnconn run at once.
WebSafe == WebTypeOK /\ NdoneExact /\ ConnectionsLimited
=============================================================================
