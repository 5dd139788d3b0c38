-------------------------------- MODULE Bcast --------------------------------
(***************************************************************************)
(* The broadcasting clients src/unixNetV1/bcast/dgclibcast1.c to           *)
(* dgclibcast6.c: for every line they send a datagram, set an alarm and    *)
(* read replies until SIGALRM ends the loop.  They differ in how the       *)
(* signal gets them out of a call that blocks:                             *)
(*    1, 2  recvfrom fails with EINTR                                      *)
(*    3     the same, SIGALRM blocked outside recvfrom                     *)
(*    4     the kernel's pselect; 4lib: pselect of lib/pselect.c           *)
(*    5     siglongjmp out of the handler                                  *)
(*    6     the handler writes to a pipe that select watches               *)
(* The signal may come between any two steps.  As the alarm is set to      *)
(* seconds it does not come between alarm() and the first sigsetjmp().     *)
(***************************************************************************)
EXTENDS Integers

CONSTANTS BcastLines,   \* lines of input
          MaxReplies    \* bound: replies that arrive

ASSUME BcastAssumption == BcastLines \in Nat /\ MaxReplies \in Nat

VARIABLES bver,         \* the program
          bpc,          \* "top" of the loop over lines; "loop": top of the loop over replies; "open":
                        \* SIGALRM just unblocked; "call": in recvfrom, select or pselect; "got": a reply
          nlines,       \* lines left
          timer,        \* "off", "set", "pending": expired while SIGALRM is blocked
          blocked,      \* SIGALRM is blocked
          rcvq, arrived,\* replies in the socket; replies that ever arrived
          bpipe         \* bytes in the pipe

bcastvars == <<bver, bpc, nlines, timer, blocked, rcvq, arrived, bpipe>>

Versions == {"1", "2", "3", "4", "4lib", "5", "6"}
Masking == {"3", "4lib"}        \* unblock, blocking call, block: three calls
Sound == {"4", "5", "6"}

BcastInit ==
    /\ bver \in Versions
    /\ bpc = "top" /\ nlines = BcastLines
    /\ timer = "off" /\ blocked = FALSE
    /\ rcvq = 0 /\ arrived = 0 /\ bpipe = 0

\* Fgets, Sendto, (4: Sigprocmask,) alarm.
send_line ==
    /\ bpc = "top" /\ nlines > 0
    /\ nlines' = nlines - 1
    /\ timer' = "set"
    /\ blocked' = (blocked \/ bver \in {"4", "4lib"})
    /\ bpc' = "loop"
    /\ UNCHANGED <<bver, rcvq, arrived, bpipe>>

end_of_input ==
    /\ bpc = "top" /\ nlines = 0
    /\ bpc' = "exit"
    /\ UNCHANGED <<bver, nlines, timer, blocked, rcvq, arrived, bpipe>>

\* Sigprocmask(SIG_UNBLOCK): a pending SIGALRM is handled here, and is gone.
unblock_alrm ==
    /\ bver \in Masking /\ bpc = "loop"
    /\ blocked' = FALSE
    /\ timer' = IF timer = "pending" THEN "off" ELSE timer
    /\ bpc' = "open"
    /\ UNCHANGED <<bver, nlines, rcvq, arrived, bpipe>>

\* The program enters the call in which it waits.
enter_call ==
    /\ bpc = IF bver \in Masking THEN "open" ELSE "loop"
    /\ bpc' = "call"
    /\ UNCHANGED <<bver, nlines, timer, blocked, rcvq, arrived, bpipe>>

\* The call returns with a reply; 6 reads a byte of the pipe as well when
\* select reported both.
mut_call_returns ==
    /\ bpc = "call" /\ rcvq > 0
    /\ rcvq' = rcvq - 1
    /\ bpc' = IF bver = "6" /\ bpipe > 0 THEN "top" ELSE "got"
    /\ UNCHANGED <<bver, nlines, timer, blocked, arrived, bpipe>>
call_returns ==
    /\ bpc = "call" /\ rcvq > 0
    /\ rcvq' = rcvq - 1
    /\ IF bver = "6" /\ bpipe > 0
       THEN bpc' = "top" /\ bpipe' = bpipe - 1
       ELSE bpc' = "got" /\ UNCHANGED bpipe
    /\ UNCHANGED <<bver, nlines, timer, blocked, arrived>>

\* 6: only the pipe is readable.
pipe_readable ==
    /\ bpc = "call" /\ rcvq = 0 /\ bpipe > 0
    /\ bpipe' = bpipe - 1
    /\ bpc' = "top"
    /\ UNCHANGED <<bver, nlines, timer, blocked, rcvq, arrived>>

\* SIGALRM is blocked again by the masking versions; the reply is printed.
print_reply ==
    /\ bpc = "got"
    /\ blocked' = (blocked \/ bver \in Masking)
    /\ bpc' = "loop"
    /\ UNCHANGED <<bver, nlines, timer, rcvq, arrived, bpipe>>

\* The handler, and what it does to the program it interrupts.
recvfrom_alarm ==
    /\ timer' = "off"
    /\ bpipe' = IF bver = "6" THEN bpipe + 1 ELSE bpipe
    /\ bpc' = IF bver = "5" \/ (bpc = "call" /\ bver # "6") THEN "top"
              ELSE IF bpc = "call" THEN "loop" ELSE bpc
    /\ blocked' = (blocked \/ (bver \in Masking /\ bpc = "call"))

alarm_expires ==
    /\ timer = "set"
    /\ IF blocked /\ ~(bver = "4" /\ bpc = "call")
       THEN timer' = "pending" /\ UNCHANGED <<bpipe, bpc, blocked>>
       ELSE recvfrom_alarm
    /\ UNCHANGED <<bver, nlines, rcvq, arrived>>

\* 4: the kernel's pselect lets a pending SIGALRM in and fails with EINTR.
pselect_interrupted ==
    /\ bver = "4" /\ bpc = "call" /\ timer = "pending"
    /\ recvfrom_alarm
    /\ UNCHANGED <<bver, nlines, rcvq, arrived>>

reply_arrives ==
    /\ arrived < MaxReplies /\ bpc # "exit"
    /\ arrived' = arrived + 1 /\ rcvq' = rcvq + 1
    /\ UNCHANGED <<bver, bpc, nlines, timer, blocked, bpipe>>

dg_cli == send_line \/ end_of_input \/ unblock_alrm \/ enter_call \/ call_returns \/ pipe_readable \/ print_reply

BcastNext == dg_cli \/ alarm_expires \/ pselect_interrupted \/ reply_arrives

BcastSpec == BcastInit /\ [][BcastNext]_bcastvars

-----------------------------------------------------------------------------
BcastTypeOK ==
    /\ bver \in Versions /\ bpc \in {"top", "loop", "open", "call", "got", "exit"}
    /\ nlines \in 0..BcastLines /\ timer \in {"off", "set", "pending"} /\ blocked \in BOOLEAN
    /\ rcvq \in 0..MaxReplies /\ arrived \in 0..MaxReplies
    /\ bpipe \in 0..1

\* Between two lines nothing is left of the timer of the first, neither an alarm
\* nor a byte in the pipe, that would cut the wait for the next replies short.
NoStaleTimer == bpc = "top" => timer = "off" /\ bpipe = 0

\* Programs 4 (with the kernel's pselect), 5 and 6 never wait for replies with
\* nothing left that could end the wait; in 1, 2, 3 and 4lib a signal that comes
\* just before the call is lost.
WaitCanEnd == bver \in Sound /\ bpc \in {"loop", "call", "got"} => timer # "off" \/ bpipe = 1

\* These programs work through their input however the signal falls.
SoundClientsEnd == bver \in Sound => <>(bpc = "exit")

BcastFair == WF_bcastvars(dg_cli) /\ WF_bcastvars(alarm_expires) /\ WF_bcastvars(pselect_interrupted)
BcastFairSpec == BcastSpec /\ BcastFair

\* Nothing of one alarm is left for the next line, and the clients that block
\* the signal, jump or use a pipe never wait with nothing that could wake them.
BcastSafe == BcastTypeOK /\ NoStaleTimer /\ WaitCanEnd
=============================================================================
