------------------------------ MODULE MqNotify ------------------------------
(***************************************************************************)
(* Reading a Posix message queue on notification: mqnotifysig1.c to        *)
(* mqnotifysig5.c of src/unixipc/pxmsg.  The kernel sends SIGUSR1 when a   *)
(* message comes to an empty queue, if the process is registered and not   *)
(* blocked in mq_receive, and the registration is then gone.               *)
(***************************************************************************)
EXTENDS Integers

CONSTANT MaxSent        \* bound: messages sent by other processes

ASSUME SentAssumption == MaxSent \in Nat

VARIABLES prog,         \* the program
          mqcurmsgs,    \* messages in the queue
          registered,
          sigpend,      \* SIGUSR1 is pending
          mqflag,       \* mqflag of mqnotifysig2.c and 3, or the bytes in the pipe of 5
          mpc,          \* "wait", "reregister", "receive", "blocked", "ebusy"
          nsent, nread

notifyvars == <<prog, mqcurmsgs, registered, sigpend, mqflag, mpc, nsent, nread>>

Programs == {"sig1", "sig2", "sig3", "sig4", "sig5"}
OneReceive == {"sig1", "sig2"}              \* one blocking mq_receive for each signal
Drains == Programs \ OneReceive             \* O_NONBLOCK, receive until EAGAIN

NotifyInit ==
    /\ prog \in Programs
    /\ mqcurmsgs = 0 /\ registered = TRUE /\ sigpend = FALSE /\ mqflag = 0
    /\ mpc = "wait" /\ nsent = 0 /\ nread = 0

\* A message arrives: to a blocked receiver directly, or into the queue.
mq_send ==
    /\ mpc # "ebusy" /\ nsent < MaxSent
    /\ nsent' = nsent + 1
    /\ IF mpc = "blocked" THEN /\ nread' = nread + 1 /\ mpc' = "wait"
                               /\ UNCHANGED <<mqcurmsgs, registered, sigpend>>
       ELSE /\ mqcurmsgs' = mqcurmsgs + 1
            /\ IF mqcurmsgs = 0 /\ registered THEN registered' = FALSE /\ sigpend' = TRUE
               ELSE UNCHANGED <<registered, sigpend>>
            /\ UNCHANGED <<mpc, nread>>
    /\ UNCHANGED <<prog, mqflag>>

\* mqflag = 1, or one byte written to the pipe.
flagged == IF prog = "sig5" THEN mqflag + 1 ELSE 1

\* Where the signal is not blocked its handler runs: in sigsuspend and around
\* the loop (2, 3), anywhere (5).  In 1 the handler is the reader, in 4 sigwait
\* takes the signal.
sig_usr1 ==
    /\ sigpend /\ mpc # "ebusy"
    /\ prog = "sig5" \/ (prog \in {"sig2", "sig3"} /\ mpc = "wait")
    /\ sigpend' = FALSE
    /\ mqflag' = flagged
    /\ UNCHANGED <<prog, mqcurmsgs, registered, mpc, nsent, nread>>

\* The program learns of the notification.
notified ==
    /\ mpc = "wait"
    /\ IF prog \in {"sig1", "sig4"} THEN sigpend /\ sigpend' = FALSE /\ UNCHANGED mqflag
       ELSE mqflag > 0 /\ mqflag' = mqflag - 1 /\ UNCHANGED sigpend
    /\ mpc' = "reregister"
    /\ UNCHANGED <<prog, mqcurmsgs, registered, nsent, nread>>

\* "reregister first"; Mq_notify ends the process with EBUSY if it is registered.
reregister ==
    /\ mpc = "reregister"
    /\ IF registered THEN mpc' = "ebusy" /\ UNCHANGED registered
       ELSE registered' = TRUE /\ mpc' = "receive"
    /\ UNCHANGED <<prog, mqcurmsgs, sigpend, mqflag, nsent, nread>>

mut_after_receive == "wait"
after_receive == IF prog \in Drains THEN "receive" ELSE "wait"

\* mq_receive on an empty queue.
mut_on_empty == "reregister"
on_empty == IF prog \in Drains THEN "wait" ELSE "blocked"

mq_receive ==
    /\ mpc = "receive"
    /\ IF mqcurmsgs > 0 THEN mqcurmsgs' = mqcurmsgs - 1 /\ nread' = nread + 1 /\ mpc' = after_receive
       ELSE mpc' = on_empty /\ UNCHANGED <<mqcurmsgs, nread>>
    /\ UNCHANGED <<prog, registered, sigpend, mqflag, nsent>>

reader == sig_usr1 \/ notified \/ reregister \/ mq_receive
NotifyNext == mq_send \/ reader
NotifySpec == NotifyInit /\ [][NotifyNext]_notifyvars

-----------------------------------------------------------------------------
NotifyTypeOK ==
    /\ mqcurmsgs \in 0..MaxSent /\ nsent \in 0..MaxSent /\ nread + mqcurmsgs = nsent
    /\ registered \in BOOLEAN /\ sigpend \in BOOLEAN /\ mqflag \in 0..1
    /\ mpc \in {"wait", "reregister", "receive", "blocked", "ebusy"}

\* The registration goes round: it is with the kernel, in the pending signal, in
\* the flag or pipe, or in the program about to register again, and in one place
\* only.  So no signal is merged with another and Mq_notify never finds EBUSY.
OneRegistration ==
    (IF registered THEN 1 ELSE 0) + (IF sigpend THEN 1 ELSE 0) + mqflag
      + (IF mpc = "reregister" THEN 1 ELSE 0) = 1

\* The programs that receive until EAGAIN read every message, because they
\* register before they empty the queue.  (mqnotifysig1.c and 2 may leave messages.)
AllRead == \A n \in 1..MaxSent : (prog \in Drains /\ nsent >= n) ~> (nread >= n)

NotifyFair == WF_notifyvars(reader)
NotifyFairSpec == NotifySpec /\ NotifyFair

\* The registration of mqnotifysig1.c to 5 is in exactly one place at any time,
\* so that no signal is merged with another and Mq_notify never finds EBUSY.
NotifySafe == NotifyTypeOK /\ OneRegistration
=============================================================================
