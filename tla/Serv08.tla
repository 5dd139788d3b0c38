------------------------------- MODULE Serv08 -------------------------------
(***************************************************************************)
(* The server whose main thread accepts and hands the descriptors to a     *)
(* pool of threads through a ring: src/unixNetV1/server/serv08.c and       *)
(* pthread08.c.  A critical section of clifd_mutex is one step; a thread   *)
(* in pthread_cond_wait goes on after a signal, or spuriously.             *)
(***************************************************************************)
EXTENDS Integers, Sequences

CONSTANTS Threads8,
          MAXNCLI,      \* slots of the ring (32 in the code)
          MaxAccepts    \* bound: connections

ASSUME RingAssumption == MAXNCLI \in Nat \ {0} /\ MaxAccepts \in Nat

VARIABLES accepting,    \* FALSE: the main thread has called err_quit
          clifd, iget8, iput8,
          t8pc,          \* thread -> "get", "cond_wait", "signalled", "web_child"
          tconn,        \* thread -> its connection
          naccepted,    \* connections are numbered in the order of accept
          started       \* the connections in the order the threads took them

serv08vars == <<accepting, clifd, iget8, iput8, t8pc, tconn, naccepted, started>>

Serv08Init ==
    /\ accepting = TRUE /\ clifd = [k \in 0..MAXNCLI - 1 |-> 0] /\ iget8 = 0 /\ iput8 = 0
    /\ t8pc = [t \in Threads8 |-> "get"] /\ tconn = [t \in Threads8 |-> 0]
    /\ naccepted = 0 /\ started = << >>

next_iput(k) == IF k + 1 = MAXNCLI THEN 0 ELSE k + 1

\* The waiting threads after pthread_cond_signal: one of them, if there is one,
\* is released.
cond_signal ==
    LET waiting == {t \in Threads8 : t8pc[t] = "cond_wait"}
    IN IF waiting = {} THEN {t8pc} ELSE {[t8pc EXCEPT ![t] = "signalled"] : t \in waiting}

mut_ring_overrun(k) == FALSE
ring_overrun(k) == k = iget8

\* err_quit ends the process: nothing happens afterwards.
main_accept ==
    /\ accepting /\ naccepted < MaxAccepts
    /\ naccepted' = naccepted + 1
    /\ clifd' = [clifd EXCEPT ![iput8] = naccepted + 1]
    /\ iput8' = next_iput(iput8)
    /\ IF ring_overrun(next_iput(iput8)) THEN accepting' = FALSE /\ UNCHANGED t8pc
       ELSE t8pc' \in cond_signal /\ UNCHANGED accepting
    /\ UNCHANGED <<iget8, tconn, started>>

must_wait == iget8 = iput8

\* The critical section up to the unlock or to the wait, entered from the top
\* of the loop or from a wait that has ended.
thread_get(t) ==
    /\ accepting /\ t8pc[t] \in {"get", "signalled"}
    /\ IF must_wait THEN t8pc' = [t8pc EXCEPT ![t] = "cond_wait"] /\ UNCHANGED <<iget8, tconn, started>>
       ELSE /\ tconn' = [tconn EXCEPT ![t] = clifd[iget8]]
            /\ started' = Append(started, clifd[iget8])
            /\ iget8' = next_iput(iget8)
            /\ t8pc' = [t8pc EXCEPT ![t] = "web_child"]
    /\ UNCHANGED <<accepting, clifd, iput8, naccepted>>

spurious8(t) ==
    /\ accepting /\ t8pc[t] = "cond_wait"
    /\ t8pc' = [t8pc EXCEPT ![t] = "signalled"]
    /\ UNCHANGED <<accepting, clifd, iget8, iput8, tconn, naccepted, started>>

thread_serves(t) ==
    /\ accepting /\ t8pc[t] = "web_child"
    /\ t8pc' = [t8pc EXCEPT ![t] = "get"] /\ tconn' = [tconn EXCEPT ![t] = 0]
    /\ UNCHANGED <<accepting, clifd, iget8, iput8, naccepted, started>>

thread_main(t) == thread_get(t) \/ thread_serves(t)

Serv08Next == main_accept \/ \E t \in Threads8 : thread_main(t) \/ spurious8(t)

Serv08Spec == Serv08Init /\ [][Serv08Next]_serv08vars

-----------------------------------------------------------------------------
\* The filled slots of the ring.
Queued == IF iput8 >= iget8 THEN iput8 - iget8 ELSE iput8 - iget8 + MAXNCLI

\* Connections are taken in the order of accept, none twice and none skipped, and
\* those not yet taken are in the ring, unless the server has given up.
RingInOrder ==
    /\ \A k \in 1..Len(started) : started[k] = k
    /\ accepting => naccepted - Len(started) = Queued

\* err_quit("iput = iget") is called only when every slot of the ring holds a
\* connection that no thread has taken.
QuitsOnlyFull == ~accepting => naccepted - Len(started) = MAXNCLI

\* Every connection is taken by a thread, with one signal per connection and
\* however many threads are busy when it is sent, unless the server gives up.
Serv08Serves == \A n \in 1..MaxAccepts : naccepted = n ~> (Len(started) >= n \/ ~accepting)

Serv08Fair == \A t \in Threads8 : WF_serv08vars(thread_main(t))
Serv08FairSpec == Serv08Spec /\ Serv08Fair

\* The ring of serv08.c hands out the connections in the order of accept, each
\* once, and the server gives up only when the ring is full.
RingSafe == RingInOrder /\ QuitsOnlyFull
=============================================================================
