-------------------------------- MODULE Sigio --------------------------------
(***************************************************************************)
(* The signal-driven echo server src/unixNetV1/sigio/dgecho01.c: a main    *)
(* loop and a SIGIO handler in one thread, sharing a ring of QSIZE         *)
(* datagrams.  The handler interrupts the main loop between any two of its *)
(* steps while SIGIO is not blocked and runs to its end; datagrams may     *)
(* arrive in the middle of it.  A datagram is its number in the order of   *)
(* arrival.  Signals do not queue: one SIGIO may stand for several.        *)
(***************************************************************************)
EXTENDS Integers, Sequences

CONSTANTS QSIZE,        \* size of the ring
          MaxDg         \* bound: datagrams that arrive

ASSUME SigioAssumption == QSIZE \in Nat \ {0} /\ MaxDg \in Nat

VARIABLES sockbuf,      \* datagrams in the socket, oldest first
          ndg,          \* number of datagrams that have arrived
          pending,      \* SIGIO is pending
          mainpc,       \* "blocked": at the test of nqueue, SIGIO blocked; "suspend": in sigsuspend;
                        \* "sendto", "advance", "block": SIGIO not blocked
          handler,      \* the handler is running
          dg,           \* the ring
          iget, iput, nqueue,
          echoed,       \* datagrams sent back
          overflow      \* err_quit("receive overflow") was called

sigiovars == <<sockbuf, ndg, pending, mainpc, handler, dg, iget, iput, nqueue, echoed, overflow>>

SigioInit ==
    /\ sockbuf = <<>> /\ ndg = 0 /\ pending = FALSE
    /\ mainpc = "blocked" /\ handler = FALSE
    /\ dg = [i \in 0..QSIZE - 1 |-> 0]
    /\ iget = 0 /\ iput = 0 /\ nqueue = 0
    /\ echoed = <<>> /\ overflow = FALSE

next_slot(i) == IF i + 1 >= QSIZE THEN 0 ELSE i + 1

\* The kernel queues a datagram and raises SIGIO.
dg_arrives ==
    /\ ndg < MaxDg /\ ~overflow
    /\ ndg' = ndg + 1
    /\ sockbuf' = Append(sockbuf, ndg + 1)
    /\ pending' = TRUE
    /\ UNCHANGED <<mainpc, handler, dg, iget, iput, nqueue, echoed, overflow>>

\* SIGIO is delivered.
deliver_sigio ==
    /\ pending /\ ~handler /\ ~overflow
    /\ mainpc # "blocked"
    /\ pending' = FALSE /\ handler' = TRUE
    /\ UNCHANGED <<sockbuf, ndg, mainpc, dg, iget, iput, nqueue, echoed, overflow>>

mut_read_once ==
    /\ dg' = [dg EXCEPT ![iput] = Head(sockbuf)]
    /\ sockbuf' = Tail(sockbuf) /\ nqueue' = nqueue + 1 /\ iput' = next_slot(iput)
    /\ handler' = FALSE
    /\ mainpc' = IF mainpc = "suspend" THEN "blocked" ELSE mainpc
read_dg ==
    /\ dg' = [dg EXCEPT ![iput] = Head(sockbuf)]
    /\ sockbuf' = Tail(sockbuf) /\ nqueue' = nqueue + 1 /\ iput' = next_slot(iput)
    /\ UNCHANGED <<mainpc, handler>>

ring_full == nqueue >= QSIZE

\* One turn of the handler's loop: quit on a full ring, return when the socket
\* is empty, or read one datagram.  sigsuspend returns with the handler.
sig_io ==
    /\ handler /\ ~overflow
    /\ \/ /\ ring_full
          /\ overflow' = TRUE
          /\ UNCHANGED <<sockbuf, mainpc, handler, dg, iput, nqueue>>
       \/ /\ ~ring_full /\ sockbuf = <<>>
          /\ handler' = FALSE
          /\ mainpc' = IF mainpc = "suspend" THEN "blocked" ELSE mainpc
          /\ UNCHANGED <<sockbuf, dg, iput, nqueue, overflow>>
       \/ /\ ~ring_full /\ sockbuf # <<>>
          /\ read_dg
          /\ UNCHANGED overflow
    /\ UNCHANGED <<ndg, pending, iget, echoed>>

main_step(from) == mainpc = from /\ ~handler /\ ~overflow

\* while (nqueue == 0) sigsuspend; then SIGIO is unblocked.
test_nqueue ==
    /\ main_step("blocked")
    /\ mainpc' = IF nqueue = 0 THEN "suspend" ELSE "sendto"
    /\ UNCHANGED <<sockbuf, ndg, pending, handler, dg, iget, iput, nqueue, echoed, overflow>>

Sendto ==
    /\ main_step("sendto")
    /\ echoed' = Append(echoed, dg[iget])
    /\ mainpc' = "advance"
    /\ UNCHANGED <<sockbuf, ndg, pending, handler, dg, iget, iput, nqueue, overflow>>

advance_iget ==
    /\ main_step("advance")
    /\ iget' = next_slot(iget)
    /\ mainpc' = "block"
    /\ UNCHANGED <<sockbuf, ndg, pending, handler, dg, iput, nqueue, echoed, overflow>>

\* SIGIO is blocked and the slot is given back.
block_sigio ==
    /\ main_step("block")
    /\ nqueue' = nqueue - 1
    /\ mainpc' = "blocked"
    /\ UNCHANGED <<sockbuf, ndg, pending, handler, dg, iget, iput, echoed, overflow>>

SigioNext == dg_arrives \/ deliver_sigio \/ sig_io \/ test_nqueue \/ Sendto \/ advance_iget \/ block_sigio

SigioSpec == SigioInit /\ [][SigioNext]_sigiovars

-----------------------------------------------------------------------------
SigioTypeOK ==
    /\ dg \in [0..QSIZE - 1 -> 0..MaxDg]
    /\ iget \in 0..QSIZE - 1 /\ iput \in 0..QSIZE - 1
    /\ nqueue \in 0..QSIZE
    /\ mainpc \in {"blocked", "suspend", "sendto", "advance", "block"}

\* The client gets its datagrams back in the order of arrival, each once: the
\* handler never reads into a slot that Sendto is still to send.
EchoInOrder == \A k \in 1..Len(echoed) : echoed[k] = k

\* nqueue is the distance between the indices, and one more between ++iget and
\* nqueue--, when the slot just sent is still counted.
RingCounted ==
    (iput - iget) % QSIZE = (nqueue - (IF mainpc = "block" THEN 1 ELSE 0)) % QSIZE

\* A main loop asleep in sigsuspend leaves no datagram in the socket, unless a
\* signal is on its way: SIGIO stays blocked from the test of nqueue until
\* sigsuspend, and the handler reads until the socket is empty.
NoLostSigio == mainpc = "suspend" /\ sockbuf # <<>> => pending \/ handler \/ overflow

\* No datagram is dropped: each one is in the socket, in the ring or sent.  A
\* datagram in the middle of main's loop is sent and still counted by nqueue.
\* After err_quit("receive overflow") the sum tells where the datagrams were that
\* end with the process.
NothingDropped ==
    Len(echoed) + nqueue + Len(sockbuf) = ndg + (IF mainpc \in {"advance", "block"} THEN 1 ELSE 0)

\* Every datagram is sent back unless the ring overflows.
AllEchoed == <>(overflow \/ Len(echoed) = MaxDg)
SigioFair == /\ WF_sigiovars(dg_arrives) /\ WF_sigiovars(deliver_sigio) /\ WF_sigiovars(sig_io)
             /\ WF_sigiovars(test_nqueue \/ Sendto \/ advance_iget \/ block_sigio)
SigioFairSpec == SigioSpec /\ SigioFair

\* dgecho01.c echoes the datagrams in order, drops none, never sleeps beside one
\* without a signal on its way, and nqueue agrees with the indices although
\* handler and main loop share them.
EchoSafe == SigioTypeOK /\ EchoInOrder /\ NoLostSigio /\ NothingDropped /\ RingCounted
=============================================================================
