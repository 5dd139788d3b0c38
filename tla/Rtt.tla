-------------------------------- MODULE Rtt --------------------------------
(***************************************************************************)
(* Request and reply over UDP with retransmission: dg_send_recv.c and      *)
(* dg_cli.c of src/unixNetV1/rtt, the timer of src/unixNetV1/lib/rtt.c and *)
(* the echo server.                                                        *)
(*                                                                         *)
(* The network keeps every datagram ever sent and may deliver any of them  *)
(* at any time, also twice, late or never.  Time is counted in seconds: a  *)
(* reply comes at once or when the timer is about to expire.  The alarm is *)
(* at least RTT_RXTMIN seconds, so it does not go off between alarm() and  *)
(* the sigsetjmp() that follows it.                                        *)
(***************************************************************************)
EXTENDS Integers, Sequences, FiniteSets

CONSTANTS RttCalls,     \* bound: lines that dg_cli reads
          RttEchoes     \* bound: requests that get through to the server

ASSUME RttAssumption == RttCalls \in Nat /\ RttEchoes \in Nat

VARIABLES rttpc,        \* "idle", "recv" (in the loop), "got" (a reply that matches), "quit", "exit"
          sendhdr,      \* the header of the last request: [seq, ts]
          recvd,        \* the reply that matched: [seq, ts, line]; the others are not looked at again
          rttinfo,      \* struct rtt_info in units of 1/RttUnit s; its rtt_rto is Unset before rtt_init
          requests,     \* datagrams sent by the client
          replies,      \* datagrams sent by the server
          rttclock,     \* seconds since rtt_init
          rttalarm,     \* when the alarm goes off
          printed       \* what dg_cli has written to stdout

rttvars == <<rttpc, sendhdr, recvd, rttinfo, requests, replies, rttclock, rttalarm, printed>>

\* The estimators are floats; in this unit they are exact for three calls.
RttUnit == 4096
RTT_RXTMIN == 2
RTT_RXTMAX == 60
RTT_MAXNREXMT == 3
Unset == -1

Nothing == [seq |-> 0, ts |-> 0, line |-> 0]

RttInit ==
    /\ rttpc = "idle"
    /\ sendhdr = [seq |-> 0, ts |-> 0]
    /\ recvd = Nothing
    /\ rttinfo = [srtt |-> 0, rttvar |-> 0, rto |-> Unset, nrexmt |-> 0]
    /\ requests = {} /\ replies = {}
    /\ rttclock = 0 /\ rttalarm = 0
    /\ printed = <<>>

-----------------------------------------------------------------------------
(* lib/rtt.c *)

rtt_minmax(rto) ==
    IF rto < RTT_RXTMIN * RttUnit THEN RTT_RXTMIN * RttUnit
    ELSE IF rto > RTT_RXTMAX * RttUnit THEN RTT_RXTMAX * RttUnit ELSE rto

RTT_RTOCALC(srtt, rttvar) == srtt + 4 * rttvar

rtt_init ==
    LET rttvar == (3 * RttUnit) \div 4
    IN  [srtt |-> 0, rttvar |-> rttvar, rto |-> rtt_minmax(RTT_RTOCALC(0, rttvar)), nrexmt |-> 0]

rtt_newpack(info) == [info EXCEPT !.nrexmt = 0]

\* The timeout rounded to whole seconds.
rtt_start(info) == (info.rto + RttUnit \div 2) \div RttUnit

Abs(x) == IF x < 0 THEN -x ELSE x

rtt_stop(info, rtt) ==
    LET delta == rtt * RttUnit - info.srtt
        srtt == info.srtt + delta \div 8
        rttvar == info.rttvar + (Abs(delta) - info.rttvar) \div 4
    IN  [info EXCEPT !.srtt = srtt, !.rttvar = rttvar, !.rto = rtt_minmax(RTT_RTOCALC(srtt, rttvar))]

rtt_timeout(info) == [info EXCEPT !.rto = 2 * @, !.nrexmt = @ + 1]
rtt_gives_up(info) == info.nrexmt > RTT_MAXNREXMT

-----------------------------------------------------------------------------
(* dg_send_recv.c and dg_cli.c *)

line == Len(printed) + 1

\* sendagain: the request leaves with a new time stamp and the alarm is set.
sendagain(seq, now, info) ==
    /\ sendhdr' = [seq |-> seq, ts |-> now]
    /\ requests' = requests \cup {[seq |-> seq, ts |-> now, line |-> line]}
    /\ rttclock' = now
    /\ rttalarm' = now + rtt_start(info)
    /\ rttinfo' = info
    /\ rttpc' = "recv"

\* A call from the loop of dg_cli, up to the first Recvmsg.
dg_send_recv ==
    /\ rttpc = "idle" /\ Len(printed) < RttCalls
    /\ sendagain(sendhdr.seq + 1, rttclock, rtt_newpack(IF rttinfo.rto = Unset THEN rtt_init ELSE rttinfo))
    /\ UNCHANGED <<recvd, replies, printed>>

\* SIGALRM and siglongjmp: also for a client that has its reply and has not
\* reached alarm(0).  Dg_send_recv calls err_quit when it is time to give up.
sig_alrm ==
    LET info == rtt_timeout(rttinfo) IN
    /\ rttpc \in {"recv", "got"}
    /\ \/ /\ ~rtt_gives_up(info)
          /\ sendagain(sendhdr.seq, rttalarm, info)
          /\ recvd' = Nothing
          /\ UNCHANGED <<replies, printed>>
       \/ /\ rtt_gives_up(info)
          /\ rttpc' = "quit" /\ rttclock' = rttalarm /\ rttinfo' = info
          /\ UNCHANGED <<sendhdr, recvd, requests, replies, rttalarm, printed>>

\* One turn of the receive loop.
mut_Recvmsg ==
    \E m \in replies, now \in {rttclock, rttalarm} :
       /\ rttpc = "recv"
       /\ recvd' = m
       /\ rttclock' = now
       /\ rttpc' = "got"
       /\ UNCHANGED <<sendhdr, rttinfo, requests, replies, rttalarm, printed>>
Recvmsg ==
    \E m \in replies, now \in {rttclock, rttalarm} :
       /\ rttpc = "recv"
       /\ recvd' = IF m.seq = sendhdr.seq THEN m ELSE recvd
       /\ rttclock' = now
       /\ rttpc' = IF m.seq = sendhdr.seq THEN "got" ELSE "recv"
       /\ UNCHANGED <<sendhdr, rttinfo, requests, replies, rttalarm, printed>>

\* alarm(0), rtt_stop, and the line that dg_cli writes.
alarm_off ==
    /\ rttpc = "got"
    /\ rttinfo' = rtt_stop(rttinfo, rttclock - recvd.ts)
    /\ printed' = Append(printed, recvd.line)
    /\ recvd' = Nothing
    /\ rttpc' = "idle"
    /\ UNCHANGED <<sendhdr, requests, replies, rttclock, rttalarm>>

main_ends ==
    /\ rttpc = "idle" /\ Len(printed) = RttCalls
    /\ rttpc' = "exit"
    /\ UNCHANGED <<sendhdr, recvd, rttinfo, requests, replies, rttclock, rttalarm, printed>>

\* The server sends back what it receives, header included.
dg_echo ==
    \E m \in requests \ replies :
       /\ rttpc \notin {"quit", "exit"} /\ Cardinality(replies) < RttEchoes
       /\ replies' = replies \cup {m}
       /\ UNCHANGED <<rttpc, sendhdr, recvd, rttinfo, requests, rttclock, rttalarm, printed>>

RttNext == dg_send_recv \/ sig_alrm \/ Recvmsg \/ alarm_off \/ main_ends \/ dg_echo

RttSpec == RttInit /\ [][RttNext]_rttvars

-----------------------------------------------------------------------------
RttTypeOK ==
    /\ rttpc \in {"idle", "recv", "got", "quit", "exit"}
    /\ replies \subseteq requests
    /\ rttinfo.nrexmt \in 0..RTT_MAXNREXMT + (IF rttpc = "quit" THEN 1 ELSE 0)
    /\ Len(printed) <= RttCalls

\* What dg_cli prints for a line is the answer to that line: a late or
\* duplicated reply to an earlier request never passes the test of the
\* sequence number in dg_send_recv.
AnswersMatch == \A k \in 1..Len(printed) : printed[k] = k

\* A request is transmitted at most 1 + RTT_MAXNREXMT times, and the client
\* quits only after the last of these transmissions has timed out.
Transmissions == {m \in requests : m.seq = sendhdr.seq}
GivesUpLate ==
    /\ Cardinality(Transmissions) <= 1 + RTT_MAXNREXMT
    /\ rttpc = "quit" => Cardinality(Transmissions) = 1 + RTT_MAXNREXMT

\* rtt_timeout doubles the timeout without rtt_minmax: within a call it may
\* grow to 2^RTT_MAXNREXMT times the maximum, and never below the minimum.
RtoDoubled ==
    rttinfo.rto # Unset =>
      /\ rttinfo.rto >= RTT_RXTMIN * RttUnit
      /\ rttinfo.rto <= 2 ^ rttinfo.nrexmt * RTT_RXTMAX * RttUnit

\* dg_cli ends: every call returns or gives up, whatever the network does.
ClientEnds == <>(rttpc \in {"quit", "exit"})
RttFair == WF_rttvars(dg_send_recv) /\ WF_rttvars(sig_alrm) /\ WF_rttvars(alarm_off) /\ WF_rttvars(main_ends)
RttFairSpec == RttSpec /\ RttFair

\* dg_send_recv returns the answer to its own request, gives up only after the
\* last retransmission has timed out, and its timeout stays between the minimum
\* and what doubling allows.
RttSafe == RttTypeOK /\ AnswersMatch /\ GivesUpLate /\ RtoDoubled
=============================================================================
