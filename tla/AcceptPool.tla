----------------------------- MODULE AcceptPool -----------------------------
(***************************************************************************)
(* The servers of src/unixNetV1/server whose children or threads all call  *)
(* accept: serv02.c (no lock), serv03.c (a fcntl record lock around        *)
(* accept, lock_fcntl.c), serv04.c (a mutex in shared memory,              *)
(* lock_pthread.c) and serv07.c (threads, one mutex).  A child process may *)
(* be killed; the kernel releases its record lock and nobody releases the  *)
(* mutex.                                                                  *)
(***************************************************************************)
EXTENDS Integers, FiniteSets

CONSTANTS Workers,
          MaxConns,     \* bound: connections made by clients
          MaxKilled     \* bound: children killed

VARIABLES server,       \* the program
          workerpc,          \* "lock", "accept", "release", "web_child", "dead"
          holder,       \* of the lock around accept
          nconnected,      \* connections made so far
          conn,         \* the connection a worker has: 0 none
          taken         \* connections accepted

poolvars == <<server, workerpc, holder, nconnected, conn, taken>>

Servers == {"serv02", "serv03", "serv04", "serv07"}
Nobody == "nobody"

ASSUME PoolAssumption == Nobody \notin Workers /\ MaxConns \in Nat

PoolInit ==
    /\ server \in Servers
    /\ workerpc = [w \in Workers |-> "lock"] /\ conn = [w \in Workers |-> 0]
    /\ holder = Nobody /\ nconnected = 0 /\ taken = 0

wgoto(w, l) == workerpc' = [workerpc EXCEPT ![w] = l]

mut_may_enter(w) == server \in {"serv02", "serv03"} \/ holder = Nobody
may_enter(w) == server = "serv02" \/ holder = Nobody

my_lock_wait(w) ==
    /\ workerpc[w] = "lock" /\ may_enter(w)
    /\ holder' = IF server = "serv02" THEN holder ELSE w
    /\ wgoto(w, "accept")
    /\ UNCHANGED <<server, nconnected, conn, taken>>

\* A connection is there: accept blocks until then and returns every one once.
pending_conn == taken < nconnected

Accept(w) ==
    /\ workerpc[w] = "accept" /\ pending_conn
    /\ taken' = taken + 1 /\ conn' = [conn EXCEPT ![w] = taken + 1]
    /\ wgoto(w, "release")
    /\ UNCHANGED <<server, holder, nconnected>>

mut_my_lock_release(w) ==
    /\ workerpc[w] = "release"
    /\ holder' = IF server = "serv07" THEN holder ELSE Nobody
    /\ wgoto(w, "web_child")
    /\ UNCHANGED <<server, nconnected, conn, taken>>
my_lock_release(w) ==
    /\ workerpc[w] = "release"
    /\ holder' = Nobody
    /\ wgoto(w, "web_child")
    /\ UNCHANGED <<server, nconnected, conn, taken>>

web_child(w) ==
    /\ workerpc[w] = "web_child"
    /\ conn' = [conn EXCEPT ![w] = 0]
    /\ wgoto(w, "lock")
    /\ UNCHANGED <<server, holder, nconnected, taken>>

\* What becomes of the lock when its holder is killed.
left_by(w) == IF holder = w /\ server = "serv03" THEN Nobody ELSE holder

pool_killed(w) ==
    /\ server # "serv07" /\ workerpc[w] # "dead"
    /\ Cardinality({v \in Workers : workerpc[v] = "dead"}) < MaxKilled
    /\ wgoto(w, "dead")
    /\ holder' = left_by(w)
    /\ conn' = [conn EXCEPT ![w] = 0]
    /\ UNCHANGED <<server, nconnected, taken>>

\* The handler terminates and reaps all children; a threaded server just exits.
sig_int ==
    /\ \E w \in Workers : workerpc[w] # "dead"
    /\ workerpc' = [w \in Workers |-> "dead"] /\ conn' = [w \in Workers |-> 0]
    /\ UNCHANGED <<server, holder, nconnected, taken>>

client_arrives ==
    /\ nconnected < MaxConns
    /\ nconnected' = nconnected + 1
    /\ UNCHANGED <<server, workerpc, holder, conn, taken>>

worker(w) == my_lock_wait(w) \/ Accept(w) \/ my_lock_release(w) \/ web_child(w)

PoolNext == client_arrives \/ sig_int \/ \E w \in Workers : worker(w) \/ pool_killed(w)

PoolSpec == PoolInit /\ [][PoolNext]_poolvars

-----------------------------------------------------------------------------
PoolTypeOK ==
    /\ server \in Servers /\ holder \in Workers \cup {Nobody}
    /\ workerpc \in [Workers -> {"lock", "accept", "release", "web_child", "dead"}]
    /\ nconnected \in 0..MaxConns /\ taken \in 0..nconnected /\ conn \in [Workers -> 0..MaxConns]

\* With a lock at most one living worker is in accept, whoever was killed where:
\* no worker is woken by a connection it does not get.
OneInAccept ==
    server # "serv02" =>
        \A v, w \in Workers : workerpc[v] \in {"accept", "release"} /\ workerpc[w] \in {"accept", "release"} => v = w

\* serv04.c: a child killed around accept leaves the mutex locked for ever.
MutexAbandoned == server = "serv04" /\ holder # Nobody /\ workerpc[holder] = "dead"

\* Every connection is accepted as long as a worker lives, although children are
\* killed, except where the abandoned mutex of serv04.c stops all of them.
AllAccepted ==
    \A n \in 1..MaxConns : nconnected = n ~> (taken >= n \/ MutexAbandoned \/ \A w \in Workers : workerpc[w] = "dead")

PoolFair == \A w \in Workers : WF_poolvars(worker(w))
PoolFairSpec == PoolSpec /\ PoolFair

\* With a lock around accept one worker at a time is in it, also after others were
\* killed, and no more connections are accepted than were made.
PoolSafe == PoolTypeOK /\ OneInAccept
=============================================================================
