---------------------------- MODULE ClientProofs ----------------------------
(***************************************************************************)
(* The programs of src/unixNetV1 that wait for the network with timers,    *)
(* signals and threads.                                                    *)
(*                                                                         *)
(* Each section has a component's inductive invariant, the lemmas that it  *)
(* holds at first and that every step keeps it, and the theorem that       *)
(* follows.                                                                *)
(***************************************************************************)
EXTENDS Rtt, WebThreads, Sigio, Bcast, CountingLemmas

(* The default of every leaf that names no prover: Z3 with twenty seconds, *)
(* then Zenon with thirty.                                                 *)
USE SMTT(20), ZenonT(30)

-----------------------------------------------------------------------------
(* Rtt. What is in the network was sent with a sequence number not above   *)
(* the current one, and the answer to each is the line it was sent for.    *)

Calling == rttpc \in {"recv", "got", "quit"}
MaxRto == RTT_RXTMAX * RttUnit
MinRto == RTT_RXTMIN * RttUnit

RttTypes ==
    /\ rttpc \in {"idle", "recv", "got", "quit", "exit"}
    /\ sendhdr \in [seq : Nat, ts : Nat]
    /\ rttinfo \in [srtt : Int, rttvar : Int, rto : Int, nrexmt : Nat]
    /\ requests \subseteq [seq : Nat, ts : Nat, line : Nat] /\ replies \subseteq requests
    /\ IsFiniteSet(requests)
    /\ rttclock \in Nat /\ rttalarm \in Nat /\ printed \in Seq(Nat)
    /\ rttinfo.nrexmt <= RTT_MAXNREXMT + (IF rttpc = "quit" THEN 1 ELSE 0)

Numbered ==
    /\ sendhdr.seq = Len(printed) + (IF Calling THEN 1 ELSE 0)
    /\ sendhdr.seq <= RttCalls
    /\ \A m \in requests : m.line = m.seq /\ m.seq <= sendhdr.seq
    /\ rttpc = "got" => recvd \in requests /\ recvd.seq = sendhdr.seq

Counted ==
    /\ \A m \in requests : m.seq = sendhdr.seq => m.ts <= sendhdr.ts
    /\ rttpc \in {"recv", "got"} => sendhdr.ts < rttalarm
    /\ Cardinality(Transmissions) =
         IF sendhdr.seq = 0 THEN 0 ELSE rttinfo.nrexmt + (IF rttpc = "quit" THEN 0 ELSE 1)
    /\ rttpc = "quit" => rttinfo.nrexmt = RTT_MAXNREXMT + 1

Timed ==
    /\ RtoDoubled
    /\ rttinfo.rto = Unset => ~Calling
    /\ rttinfo.rto # Unset /\ ~Calling => rttinfo.rto <= MaxRto

RttInv == RttTypes /\ Numbered /\ Counted /\ Timed /\ AnswersMatch

(* What the invariant says of calls, replies and timeouts.                 *)
LEMMA RttBounds == RttInv => RttSafe
<1> SUFFICES ASSUME RttInv PROVE RttSafe
  BY Zenon
<1>1. RttTypes /\ Numbered /\ Counted /\ Timed /\ AnswersMatch
  BY Zenon DEF RttInv
<1>2. RttTypeOK
  BY <1>1, RttAssumption DEF RttTypes, Numbered, RttTypeOK, RTT_MAXNREXMT
<1>3. GivesUpLate
  BY <1>1 DEF RttTypes, Counted, Numbered, GivesUpLate, RTT_MAXNREXMT, Calling
<1> QED
  BY <1>1, <1>2, <1>3, Zenon DEF RttSafe, Timed

(* It holds at the start.                                                  *)
LEMMA RttInitially == RttInit => RttInv
<1> SUFFICES ASSUME RttInit PROVE RttInv
  BY Zenon
<1>1. requests = {} /\ Transmissions = {} /\ IsFiniteSet(requests) /\ Cardinality(Transmissions) = 0
  BY FS_EmptySet, Zenon DEF RttInit, Transmissions
<1>2. RttTypes
  BY <1>1 DEF RttInit, RttTypes, RTT_MAXNREXMT, Unset
<1>3. Numbered
  BY <1>1, RttAssumption DEF RttInit, Numbered, Calling
<1>4. Counted
  BY <1>1, Zenon DEF RttInit, Counted
<1>5. Timed /\ AnswersMatch
  BY DEF RttInit, Timed, RtoDoubled, AnswersMatch, Calling, Unset
<1> QED
  BY <1>2, <1>3, <1>4, <1>5, Zenon DEF RttInv

(* rtt_minmax returns a timeout between the two bounds.                    *)
LEMMA MinMax == ASSUME NEW rto \in Int PROVE rtt_minmax(rto) \in Int /\ rtt_minmax(rto) >= MinRto /\ rtt_minmax(rto) <= MaxRto
BY DEF rtt_minmax, MinRto, MaxRto, RTT_RXTMIN, RTT_RXTMAX, RttUnit

(* The alarm is set to a positive number of seconds.                       *)
LEMMA StartPositive ==
    ASSUME NEW i \in [srtt : Int, rttvar : Int, rto : Int, nrexmt : Nat], i.rto >= MinRto
    PROVE  rtt_start(i) \in Nat /\ rtt_start(i) > 0
BY DEF rtt_start, MinRto, RTT_RXTMIN, RttUnit

(* Powers of two.                                                          *)
LEMMA Powers == 2 ^ 0 = 1 /\ 2 ^ 1 = 2 /\ 2 ^ 2 = 4 /\ 2 ^ 3 = 8 /\ 2 ^ 4 = 16
OBVIOUS

(* sendagain adds one request to those of its sequence number.             *)
LEMMA OneMoreRequest ==
    ASSUME RttTypes, NEW q \in Nat, NEW now \in Nat, NEW l \in Nat,
           sendhdr' = [seq |-> q, ts |-> now],
           requests' = requests \cup {[seq |-> q, ts |-> now, line |-> l]},
           \A m \in requests : m.seq = q => m.ts < now
    PROVE  /\ IsFiniteSet(requests') /\ requests' \subseteq [seq : Nat, ts : Nat, line : Nat]
           /\ Cardinality(Transmissions') = Cardinality({m \in requests : m.seq = q}) + 1
           /\ \A m \in requests' : m.seq = q => m.ts <= now
<1> DEFINE new == [seq |-> q, ts |-> now, line |-> l]
           T == {m \in requests : m.seq = q}
<1>1. new \notin requests /\ new.seq = q /\ new.ts = now /\ new \in [seq : Nat, ts : Nat, line : Nat]
  OBVIOUS
<1>2. Transmissions' = T \cup {new}
  BY <1>1, Zenon DEF Transmissions
<1>3. IsFiniteSet(T) /\ new \notin T
  BY <1>1, FS_Subset, Zenon DEF RttTypes
<1>4. IsFiniteSet(requests') /\ requests' \subseteq [seq : Nat, ts : Nat, line : Nat]
  BY <1>1, FS_AddElement, Zenon DEF RttTypes
<1>5. Cardinality(T \cup {new}) = Cardinality(T) + 1
  BY <1>3, FS_AddElement, Zenon
<1>6. \A m \in requests' : m.seq = q => m.ts <= now
  BY <1>1 DEF RttTypes
<1> QED
  BY <1>2, <1>4, <1>5, <1>6, Zenon

(* Every step keeps the invariant.                                         *)
LEMMA RttInductive == RttInv /\ [RttNext]_rttvars => RttInv'
<1> SUFFICES ASSUME RttInv, [RttNext]_rttvars PROVE RttInv'
  BY Zenon
<1>0. /\ RttTypes /\ Numbered /\ Counted /\ Timed /\ AnswersMatch /\ RttCalls \in Nat
      /\ Len(printed) \in Nat /\ sendhdr.seq \in Nat /\ sendhdr.ts \in Nat
      /\ rttinfo.rto \in Int /\ rttinfo.nrexmt \in Nat /\ rttinfo.srtt \in Int /\ rttinfo.rttvar \in Int
  BY RttAssumption DEF RttInv, RttTypes
<1>1. CASE dg_send_recv
  <2> DEFINE init == IF rttinfo.rto = Unset THEN rtt_init ELSE rttinfo
             info == rtt_newpack(init)
  <2>1. /\ rttpc = "idle" /\ Len(printed) < RttCalls /\ rttpc' = "recv"
        /\ sendhdr' = [seq |-> sendhdr.seq + 1, ts |-> rttclock]
        /\ requests' = requests \cup {[seq |-> sendhdr.seq + 1, ts |-> rttclock, line |-> Len(printed) + 1]}
        /\ rttclock' = rttclock /\ rttalarm' = rttclock + rtt_start(info) /\ rttinfo' = info
        /\ UNCHANGED <<recvd, replies, printed>>
    BY <1>1, Zenon DEF dg_send_recv, sendagain, line
  <2>2. sendhdr.seq = Len(printed)
    BY <1>0, <2>1 DEF Numbered, Calling
  <2>3. /\ info \in [srtt : Int, rttvar : Int, rto : Int, nrexmt : Nat] /\ info.nrexmt = 0
        /\ info.rto >= MinRto /\ info.rto <= MaxRto
    <3>1. CASE rttinfo.rto = Unset
      <4>1. RTT_RTOCALC(0, (3 * RttUnit) \div 4) \in Int /\ (3 * RttUnit) \div 4 \in Int
        BY DEF RTT_RTOCALC, RttUnit
      <4>2. /\ rtt_init \in [srtt : Int, rttvar : Int, rto : Int, nrexmt : Nat]
            /\ rtt_init.rto >= MinRto /\ rtt_init.rto <= MaxRto
        BY <4>1, MinMax DEF rtt_init
      <4> QED
        BY <3>1, <4>2 DEF rtt_newpack
    <3>2. CASE rttinfo.rto # Unset
      <4>1. rttinfo.rto >= MinRto /\ rttinfo.rto <= MaxRto
        BY <1>0, <2>1, <3>2, Zenon DEF Timed, RtoDoubled, Calling, MinRto
      <4> QED
        BY <1>0, <3>2, <4>1, Zenon DEF rtt_newpack, RttTypes
    <3> QED
      BY <3>1, <3>2, Zenon
  <2> HIDE DEF info
  <2>4. rtt_start(info) \in Nat /\ rtt_start(info) > 0
    BY <2>3, StartPositive, Zenon
  <2>5. {m \in requests : m.seq = sendhdr.seq + 1} = {}
    BY <1>0 DEF Numbered, RttTypes
  <2>6. /\ IsFiniteSet(requests') /\ requests' \subseteq [seq : Nat, ts : Nat, line : Nat]
        /\ Cardinality(Transmissions') = 1
        /\ \A m \in requests' : m.seq = sendhdr.seq + 1 => m.ts <= rttclock
    <3>1. sendhdr.seq + 1 \in Nat /\ rttclock \in Nat /\ Len(printed) + 1 \in Nat
      BY <1>0 DEF RttTypes
    <3>2. \A m \in requests : m.seq = sendhdr.seq + 1 => m.ts < rttclock
      BY <2>5, Zenon
    <3>3. Cardinality({m \in requests : m.seq = sendhdr.seq + 1}) = 0
      BY <2>5, FS_EmptySet, Zenon
    <3>4. /\ IsFiniteSet(requests') /\ requests' \subseteq [seq : Nat, ts : Nat, line : Nat]
          /\ Cardinality(Transmissions') = Cardinality({m \in requests : m.seq = sendhdr.seq + 1}) + 1
          /\ \A m \in requests' : m.seq = sendhdr.seq + 1 => m.ts <= rttclock
      BY <1>0, <2>1, <3>1, <3>2, OneMoreRequest, Zenon
    <3> QED
      BY <3>3, <3>4
  <2>7. RttTypes'
    <3>1. sendhdr' \in [seq : Nat, ts : Nat] /\ rttalarm' \in Nat /\ rttclock' \in Nat
      BY <1>0, <2>1, <2>4 DEF RttTypes
    <3>2. replies' \subseteq requests'
      BY <1>0, <2>1, Zenon DEF RttTypes
    <3>3. rttinfo' \in [srtt : Int, rttvar : Int, rto : Int, nrexmt : Nat] /\ rttinfo'.nrexmt = 0
      BY <2>1, <2>3, Zenon
    <3> QED
      BY <1>0, <2>1, <2>6, <3>1, <3>2, <3>3 DEF RttTypes, RTT_MAXNREXMT
  <2>8. Numbered'
    <3>1. \A m \in requests' : m.line = m.seq /\ m.seq <= sendhdr.seq + 1
      BY <1>0, <2>1, <2>2 DEF Numbered, RttTypes
    <3> QED
      BY <1>0, <2>1, <2>2, <3>1 DEF Numbered, Calling
  <2>9. Counted'
    BY <1>0, <2>1, <2>3, <2>4, <2>6 DEF Counted, RttTypes
  <2>10. Timed'
    BY <2>1, <2>3, Powers DEF Timed, RtoDoubled, Calling, MinRto, MaxRto, Unset, RTT_RXTMIN, RTT_RXTMAX, RttUnit
  <2>11. AnswersMatch'
    BY <1>0, <2>1, Zenon DEF AnswersMatch
  <2> QED
    BY <2>7, <2>8, <2>9, <2>10, <2>11, Zenon DEF RttInv
<1>2. CASE sig_alrm
  <2> DEFINE info == rtt_timeout(rttinfo)
  <2>1. rttpc \in {"recv", "got"}
    BY <1>2, Zenon DEF sig_alrm
  <2>2. /\ info \in [srtt : Int, rttvar : Int, rto : Int, nrexmt : Nat]
        /\ info.nrexmt = rttinfo.nrexmt + 1 /\ info.rto = 2 * rttinfo.rto
    <3>1. 2 * rttinfo.rto \in Int /\ rttinfo.nrexmt + 1 \in Nat
      BY <1>0
    <3>2. info = [rttinfo EXCEPT !.rto = 2 * rttinfo.rto, !.nrexmt = rttinfo.nrexmt + 1]
      BY Zenon DEF rtt_timeout
    <3>3. rttinfo \in [srtt : Int, rttvar : Int, rto : Int, nrexmt : Nat]
      BY <1>0, Zenon DEF RttTypes
    <3> HIDE DEF info
    <3> QED
      BY <3>1, <3>2, <3>3, Zenon
  <2>3. rttinfo.nrexmt \in 0..3 /\ rttinfo.rto # Unset
    BY <1>0, <2>1 DEF RttTypes, Timed, Calling, RTT_MAXNREXMT
  <2>4. info.rto >= MinRto /\ info.rto <= 2 ^ info.nrexmt * RTT_RXTMAX * RttUnit
    <3>1. rttinfo.rto >= 8192 /\ rttinfo.rto <= 2 ^ rttinfo.nrexmt * 60 * 4096
      BY <1>0, <2>3 DEF Timed, RtoDoubled, RTT_RXTMIN, RTT_RXTMAX, RttUnit
    <3>2. info.rto >= 8192
      BY <1>0, <2>2, <3>1
    <3>3. info.rto <= 2 ^ info.nrexmt * 60 * 4096
      <4>1. CASE rttinfo.nrexmt = 0
        BY <1>0, <2>2, <3>1, <4>1, Powers
      <4>2. CASE rttinfo.nrexmt = 1
        BY <1>0, <2>2, <3>1, <4>2, Powers
      <4>3. CASE rttinfo.nrexmt = 2
        BY <1>0, <2>2, <3>1, <4>3, Powers
      <4>4. CASE rttinfo.nrexmt = 3
        BY <1>0, <2>2, <3>1, <4>4, Powers
      <4> QED
        BY <2>3, <4>1, <4>2, <4>3, <4>4
    <3> QED
      BY <3>2, <3>3 DEF MinRto, RTT_RXTMIN, RTT_RXTMAX, RttUnit
  <2>5. sendhdr.seq = Len(printed) + 1 /\ Cardinality(Transmissions) = rttinfo.nrexmt + 1 /\ sendhdr.ts < rttalarm
    BY <1>0, <2>1 DEF Numbered, Counted, Calling
  <2> HIDE DEF info
  <2>6. CASE ~rtt_gives_up(info) /\ sendagain(sendhdr.seq, rttalarm, info)
               /\ recvd' = Nothing /\ UNCHANGED <<replies, printed>>
    <3>1. /\ rttpc' = "recv" /\ sendhdr' = [seq |-> sendhdr.seq, ts |-> rttalarm]
          /\ requests' = requests \cup {[seq |-> sendhdr.seq, ts |-> rttalarm, line |-> Len(printed) + 1]}
          /\ rttclock' = rttalarm /\ rttalarm' = rttalarm + rtt_start(info) /\ rttinfo' = info
          /\ UNCHANGED <<replies, printed>> /\ info.nrexmt <= RTT_MAXNREXMT
      BY <2>2, <2>6 DEF sendagain, line, rtt_gives_up, RTT_MAXNREXMT
    <3>2. rtt_start(info) \in Nat /\ rtt_start(info) > 0
      BY <2>2, <2>4, StartPositive, Zenon
    <3>3. /\ IsFiniteSet(requests') /\ requests' \subseteq [seq : Nat, ts : Nat, line : Nat]
          /\ Cardinality(Transmissions') = Cardinality(Transmissions) + 1
          /\ \A m \in requests' : m.seq = sendhdr.seq => m.ts <= rttalarm
      <4>1. rttalarm \in Nat /\ Len(printed) + 1 \in Nat
        BY <1>0 DEF RttTypes
      <4>2. \A m \in requests : m.seq = sendhdr.seq => m.ts < rttalarm
        BY <1>0, <2>5, <4>1 DEF Counted, RttTypes
      <4> QED
        BY <1>0, <3>1, <4>1, <4>2, OneMoreRequest, Zenon DEF Transmissions
    <3>4. RttTypes'
      <4>1. sendhdr' \in [seq : Nat, ts : Nat] /\ rttalarm' \in Nat /\ rttclock' \in Nat
        BY <1>0, <3>1, <3>2 DEF RttTypes
      <4>2. replies' \subseteq requests'
        BY <1>0, <3>1, Zenon DEF RttTypes
      <4>3. rttinfo' \in [srtt : Int, rttvar : Int, rto : Int, nrexmt : Nat] /\ rttinfo'.nrexmt <= RTT_MAXNREXMT
        BY <2>2, <3>1, Zenon
      <4> QED
        BY <1>0, <3>1, <3>3, <4>1, <4>2, <4>3 DEF RttTypes, RTT_MAXNREXMT
    <3>5. Numbered'
      <4>1. \A m \in requests' : m.line = m.seq /\ m.seq <= sendhdr.seq
        BY <1>0, <2>5, <3>1 DEF Numbered, RttTypes
      <4> QED
        BY <1>0, <2>5, <3>1, <4>1, Zenon DEF Numbered, Calling
    <3>6. Counted'
      <4>1. sendhdr'.seq = sendhdr.seq /\ sendhdr'.ts = rttalarm /\ rttinfo'.nrexmt = rttinfo.nrexmt + 1 /\ sendhdr.seq # 0
        BY <1>0, <2>2, <2>5, <3>1
      <4>2. sendhdr'.ts < rttalarm'
        BY <1>0, <3>1, <3>2, <4>1 DEF RttTypes
      <4>3. Cardinality(Transmissions') = rttinfo'.nrexmt + 1
        BY <1>0, <2>5, <3>3, <4>1, Zenon
      <4> QED
        BY <3>1, <3>3, <4>1, <4>2, <4>3, Zenon DEF Counted
    <3>7. Timed'
      BY <2>2, <2>4, <3>1 DEF Timed, RtoDoubled, Calling, MinRto, Unset, RTT_RXTMIN, RttUnit
    <3>8. AnswersMatch'
      BY <1>0, <3>1, Zenon DEF AnswersMatch
    <3> QED
      BY <3>4, <3>5, <3>6, <3>7, <3>8 DEF RttInv
  <2>7. CASE rtt_gives_up(info) /\ rttpc' = "quit" /\ rttclock' = rttalarm /\ rttinfo' = info
               /\ UNCHANGED <<sendhdr, recvd, requests, replies, rttalarm, printed>>
    <3>1. info.nrexmt = RTT_MAXNREXMT + 1
      BY <2>2, <2>3, <2>7 DEF rtt_gives_up, RTT_MAXNREXMT
    <3>2. Transmissions' = Transmissions
      BY <2>7, Zenon DEF Transmissions
    <3>3. RttTypes'
      BY <1>0, <2>2, <2>7, <3>1 DEF RttTypes, RTT_MAXNREXMT
    <3>4. Numbered'
      BY <1>0, <2>5, <2>7, Zenon DEF Numbered, Calling
    <3>5. Counted'
      BY <1>0, <2>2, <2>5, <2>7, <3>1, <3>2 DEF Counted
    <3>6. Timed'
      BY <2>2, <2>4, <2>7 DEF Timed, RtoDoubled, Calling, MinRto, Unset, RTT_RXTMIN, RttUnit
    <3>7. AnswersMatch'
      BY <1>0, <2>7, Zenon DEF AnswersMatch
    <3> QED
      BY <3>3, <3>4, <3>5, <3>6, <3>7 DEF RttInv
  <2> QED
    BY <1>2, <2>6, <2>7, Zenon DEF sig_alrm, info
<1>3. CASE Recvmsg
  <2>1. PICK m \in replies, now \in {rttclock, rttalarm} :
          /\ rttpc = "recv" /\ rttclock' = now
          /\ recvd' = IF m.seq = sendhdr.seq THEN m ELSE recvd
          /\ rttpc' = IF m.seq = sendhdr.seq THEN "got" ELSE "recv"
          /\ UNCHANGED <<sendhdr, rttinfo, requests, replies, rttalarm, printed>>
    BY <1>3, Zenon DEF Recvmsg
  <2>2. Transmissions' = Transmissions
    BY <2>1, Zenon DEF Transmissions
  <2>3. RttTypes'
    BY <1>0, <2>1, Zenon DEF RttTypes
  <2>4. Numbered'
    BY <1>0, <2>1, Zenon DEF Numbered, Calling, RttTypes
  <2>5. Counted'
    BY <1>0, <2>1, <2>2, Zenon DEF Counted
  <2>6. Timed' /\ AnswersMatch'
    BY <1>0, <2>1, Zenon DEF Timed, RtoDoubled, Calling, AnswersMatch
  <2> QED
    BY <2>3, <2>4, <2>5, <2>6, Zenon DEF RttInv
<1>4. CASE alarm_off
  <2>1. /\ rttpc = "got" /\ rttpc' = "idle" /\ rttinfo' = rtt_stop(rttinfo, rttclock - recvd.ts)
        /\ printed' = Append(printed, recvd.line) /\ UNCHANGED <<sendhdr, requests, replies, rttclock, rttalarm>>
    BY <1>4, Zenon DEF alarm_off
  <2>2. recvd \in requests /\ recvd.line = Len(printed) + 1 /\ sendhdr.seq = Len(printed) + 1 /\ recvd.ts \in Nat
    BY <1>0, <2>1, Zenon DEF Numbered, Calling, RttTypes
  <2>3. /\ printed' \in Seq(Nat) /\ Len(printed') = Len(printed) + 1
        /\ \A k \in 1..Len(printed) : printed'[k] = printed[k]
        /\ printed'[Len(printed) + 1] = Len(printed) + 1
    <3>1. printed' = Append(printed, Len(printed) + 1) /\ printed \in Seq(Nat) /\ Len(printed) + 1 \in Nat
      BY <1>0, <2>1, <2>2, Zenon DEF RttTypes
    <3> QED
      BY <3>1
  <2>4. /\ rttinfo' \in [srtt : Int, rttvar : Int, rto : Int, nrexmt : Nat]
        /\ rttinfo'.nrexmt = rttinfo.nrexmt /\ rttinfo'.rto >= MinRto /\ rttinfo'.rto <= MaxRto
    <3> DEFINE delta == (rttclock - recvd.ts) * RttUnit - rttinfo.srtt
               srtt == rttinfo.srtt + delta \div 8
               rttvar == rttinfo.rttvar + (Abs(delta) - rttinfo.rttvar) \div 4
    <3>1. rttinfo' = [rttinfo EXCEPT !.srtt = srtt, !.rttvar = rttvar, !.rto = rtt_minmax(RTT_RTOCALC(srtt, rttvar))]
      BY <2>1 DEF rtt_stop
    <3>2. delta \in Int
      BY <1>0, <2>2 DEF RttTypes, RttUnit
    <3> HIDE DEF delta
    <3>3. srtt \in Int
      BY <1>0, <3>2
    <3>4. Abs(delta) \in Int
      BY <3>2 DEF Abs
    <3>5. rttvar \in Int
      BY <1>0, <3>4
    <3> HIDE DEF srtt, rttvar
    <3>6. RTT_RTOCALC(srtt, rttvar) \in Int
      BY <3>3, <3>5 DEF RTT_RTOCALC
    <3>7. /\ rtt_minmax(RTT_RTOCALC(srtt, rttvar)) \in Int /\ rtt_minmax(RTT_RTOCALC(srtt, rttvar)) >= MinRto
          /\ rtt_minmax(RTT_RTOCALC(srtt, rttvar)) <= MaxRto
      BY <3>6, MinMax, Zenon
    <3> QED
      BY <1>0, <3>1, <3>3, <3>5, <3>7, Zenon DEF RttTypes
  <2>5. rttinfo.nrexmt \in 0..3
    BY <1>0, <2>1 DEF RttTypes, RTT_MAXNREXMT
  <2>6. Transmissions' = Transmissions
    BY <2>1, Zenon DEF Transmissions
  <2>7. RttTypes'
    BY <1>0, <2>1, <2>3, <2>4, Zenon DEF RttTypes
  <2>8. Numbered'
    BY <1>0, <2>1, <2>2, <2>3 DEF Numbered, Calling
  <2>9. Counted'
    BY <1>0, <2>1, <2>4, <2>6, Zenon DEF Counted
  <2>10. Timed'
    <3>1. rttinfo'.rto >= 8192 /\ rttinfo'.rto <= 60 * 4096
      BY <2>4 DEF MinRto, MaxRto, RTT_RXTMIN, RTT_RXTMAX, RttUnit
    <3>2. rttinfo'.rto \in Int /\ rttinfo'.nrexmt \in 0..3
      BY <2>4, <2>5, Zenon
    <3>3. rttinfo'.rto <= 2 ^ rttinfo'.nrexmt * 60 * 4096
      <4>1. CASE rttinfo'.nrexmt = 0
        BY <3>1, <3>2, <4>1, Powers
      <4>2. CASE rttinfo'.nrexmt = 1
        BY <3>1, <3>2, <4>2, Powers
      <4>3. CASE rttinfo'.nrexmt = 2
        BY <3>1, <3>2, <4>3, Powers
      <4>4. CASE rttinfo'.nrexmt = 3
        BY <3>1, <3>2, <4>4, Powers
      <4> QED
        BY <3>2, <4>1, <4>2, <4>3, <4>4
    <3> QED
      BY <2>1, <2>4, <3>1, <3>3 DEF Timed, RtoDoubled, Calling, Unset, RTT_RXTMIN, RTT_RXTMAX, RttUnit
  <2>11. AnswersMatch'
    BY <1>0, <2>3 DEF AnswersMatch
  <2> QED
    BY <2>7, <2>8, <2>9, <2>10, <2>11 DEF RttInv
<1>5. CASE main_ends
  <2>1. rttpc = "idle" /\ rttpc' = "exit"
        /\ UNCHANGED <<sendhdr, recvd, rttinfo, requests, replies, rttclock, rttalarm, printed>>
    BY <1>5, Zenon DEF main_ends
  <2>2. Transmissions' = Transmissions
    BY <2>1, Zenon DEF Transmissions
  <2> QED
    BY <1>0, <2>1, <2>2, Zenon DEF RttInv, RttTypes, Numbered, Counted, Timed, RtoDoubled, Calling, AnswersMatch
<1>6. CASE dg_echo
  <2>1. PICK m \in requests \ replies :
          replies' = replies \cup {m}
          /\ UNCHANGED <<rttpc, sendhdr, recvd, rttinfo, requests, rttclock, rttalarm, printed>>
    BY <1>6, Zenon DEF dg_echo
  <2>2. Transmissions' = Transmissions
    BY <2>1, Zenon DEF Transmissions
  <2>3. RttTypes'
    BY <1>0, <2>1, Zenon DEF RttTypes
  <2> QED
    BY <1>0, <2>1, <2>2, <2>3, Zenon DEF RttInv, Numbered, Counted, Timed, RtoDoubled, Calling, AnswersMatch
<1>7. CASE UNCHANGED rttvars
  <2>1. UNCHANGED <<rttpc, sendhdr, recvd, rttinfo, requests, replies, rttclock, rttalarm, printed>>
    BY <1>7, Zenon DEF rttvars
  <2>2. Transmissions' = Transmissions
    BY <2>1, Zenon DEF Transmissions
  <2> QED
    BY <1>0, <2>1, <2>2, Zenon DEF RttInv, RttTypes, Numbered, Counted, Timed, RtoDoubled, Calling, AnswersMatch
<1> QED
  BY <1>1, <1>2, <1>3, <1>4, <1>5, <1>6, <1>7, Zenon DEF RttNext

(* What dg_cli prints for a line is the answer to that line, a request is  *)
(* transmitted at most 1 + RTT_MAXNREXMT times and given up only after     *)
(* that, and the timeout stays between the minimum and the maximum doubled *)
(* at each retransmission: whatever the network does and for every number  *)
(* of calls.                                                               *)
THEOREM RepliesMatchRequests == RttSpec => []RttSafe
<1>1. RttInit => RttInv
  BY RttInitially, Zenon
<1>2. RttInv /\ [RttNext]_rttvars => RttInv'
  BY RttInductive, Zenon
<1>3. RttInv => RttSafe
  BY RttBounds, Zenon
<1> QED
  BY <1>1, <1>2, <1>3, PTL DEF RttSpec

-----------------------------------------------------------------------------
(* WebThreads. The numbers main keeps are those of the threads in each     *)
(* place, and ndone those that have ended and are not joined.              *)

TSteps == {"none", "connect", "read", "done", "ended", "joined"}
Unconnected == Cardinality(Those(Files, tpc, {"none"}))
NRunning == Cardinality(Those(Files, tpc, {"connect", "read", "done", "ended"}))
NEnded == Cardinality(Those(Files, tpc, {"ended"}))
Unjoined == Cardinality(Those(Files, tpc, {"none", "connect", "read", "done", "ended"}))
Marking == IF wpc = "mark" THEN 1 ELSE 0

WebCounted ==
    /\ nconn + Marking = NRunning /\ NRunning <= maxnconn
    /\ nlefttoconn = Unconnected + Marking
    /\ nlefttoread = Unjoined
    /\ wver = "web01" => ndone = 0
    /\ wver # "web01" => ndone = NEnded

WebPlaces ==
    /\ wver = "web01" => wpc \in {"start", "exit"} /\ \A f \in Files : tpc[f] # "done"
    /\ wpc \in {"mark", "join"} => wi \in Files
    /\ wpc = "mark" => tpc[wi] # "none"
    /\ \A f \in Files : tpc[f] = "none" => f_flags[f] = "0"
    /\ \A f \in Files : f_flags[f] = "0" => tpc[f] = "none" \/ (wpc = "mark" /\ wi = f)

WebTypes ==
    /\ wpc \in {"start", "mark", "wait", "woken", "scan", "join", "exit"}
    /\ wi \in 1..nfiles + 1
    /\ f_flags \in [Files -> {"0", "F_CONNECTING", "F_READING", "F_DONE", "F_JOINED"}]
    /\ tpc \in [Files -> TSteps]
    /\ nconn \in Nat /\ nlefttoconn \in Nat /\ nlefttoread \in Nat /\ ndone \in Nat

WebInv == WebTypes /\ WebCounted /\ WebPlaces

(* The files are numbered.                                                 *)
LEMMA WebFacts ==
    /\ nfiles \in Nat /\ maxnconn \in Nat /\ Files = 1..nfiles /\ IsFiniteSet(Files) /\ Cardinality(Files) = nfiles
<1>1. nfiles \in Nat /\ maxnconn \in Nat
  BY WebAssumption, Zenon
<1>2. IsFiniteSet(1..nfiles) /\ Cardinality(1..nfiles) = nfiles
  BY <1>1, FS_Interval
<1> QED
  BY <1>1, <1>2, Zenon DEF Files

(* The numbers of threads at the places of their program.                  *)
LEMMA WebCounts ==
    /\ Unconnected \in Nat /\ NRunning \in Nat /\ NEnded \in Nat /\ Unjoined \in Nat
    /\ Unconnected <= nfiles /\ NEnded <= nfiles /\ Unjoined <= nfiles
    /\ Unconnected = 0 <=> \A f \in Files : tpc[f] \notin {"none"}
    /\ NRunning = 0 <=> \A f \in Files : tpc[f] \notin {"connect", "read", "done", "ended"}
    /\ NEnded = 0 <=> \A f \in Files : tpc[f] \notin {"ended"}
    /\ Unjoined = 0 <=> \A f \in Files : tpc[f] \notin {"none", "connect", "read", "done", "ended"}
<1>1. \A A : /\ Cardinality(Those(Files, tpc, A)) \in Nat /\ Cardinality(Those(Files, tpc, A)) <= nfiles
             /\ Cardinality(Those(Files, tpc, A)) = 0 <=> \A f \in Files : tpc[f] \notin A
  BY WebFacts, Number
<1> QED
  BY <1>1, Zenon DEF Unconnected, NRunning, NEnded, Unjoined

(* How a step of the thread of f changes them.                             *)
LEMMA ThreadMoves ==
    ASSUME NEW f \in Files, \A g \in Files : g # f => tpc'[g] = tpc[g]
    PROVE  /\ Unconnected' = Unconnected + (IF tpc'[f] \in {"none"} THEN 1 ELSE 0) - (IF tpc[f] \in {"none"} THEN 1 ELSE 0)
           /\ NRunning' = NRunning + (IF tpc'[f] \in {"connect", "read", "done", "ended"} THEN 1 ELSE 0)
                                   - (IF tpc[f] \in {"connect", "read", "done", "ended"} THEN 1 ELSE 0)
           /\ NEnded' = NEnded + (IF tpc'[f] \in {"ended"} THEN 1 ELSE 0) - (IF tpc[f] \in {"ended"} THEN 1 ELSE 0)
           /\ Unjoined' = Unjoined + (IF tpc'[f] \in {"none", "connect", "read", "done", "ended"} THEN 1 ELSE 0)
                                   - (IF tpc[f] \in {"none", "connect", "read", "done", "ended"} THEN 1 ELSE 0)
<1>0. IsFiniteSet(Files)
  BY WebFacts, Zenon
<1>1. ASSUME NEW A
      PROVE  Cardinality(Those(Files, tpc', A)) = Cardinality(Those(Files, tpc, A))
                + (IF tpc'[f] \in A THEN 1 ELSE 0) - (IF tpc[f] \in A THEN 1 ELSE 0)
  BY <1>0, OneStep
<1>2. /\ Unconnected' = Cardinality(Those(Files, tpc', {"none"}))
      /\ NRunning' = Cardinality(Those(Files, tpc', {"connect", "read", "done", "ended"}))
      /\ NEnded' = Cardinality(Those(Files, tpc', {"ended"}))
      /\ Unjoined' = Cardinality(Those(Files, tpc', {"none", "connect", "read", "done", "ended"}))
  BY Zenon DEF Unconnected, NRunning, NEnded, Unjoined, Those, Files
<1> QED
  BY <1>1, <1>2, Zenon DEF Unconnected, NRunning, NEnded, Unjoined

(* What the invariant says of the counters of main.                        *)
LEMMA WebBounds == WebInv => WebSafe
<1> SUFFICES ASSUME WebInv PROVE WebSafe
  BY Zenon
<1>0. WebTypes /\ WebCounted /\ nfiles \in Nat /\ maxnconn \in Nat /\ Marking \in 0..1
  BY WebFacts DEF WebInv, Marking
<1>1. WebTypeOK
  <2>1. ndone \in 0..nfiles /\ nlefttoread \in 0..nfiles
    BY <1>0, WebCounts DEF WebTypes, WebCounted
  <2>2. nconn \in 0..maxnconn
    BY <1>0, WebCounts DEF WebTypes, WebCounted
  <2>3. nlefttoconn \in 0..nfiles
    <3>1. CASE wpc # "mark"
      BY <1>0, <3>1, WebCounts DEF WebTypes, WebCounted, Marking
    <3>2. CASE wpc = "mark"
      <4>1. Unconnected < nfiles
        <5>1. wi \in Files /\ tpc[wi] # "none"
          BY <3>2, Zenon DEF WebInv, WebPlaces
        <5>2. Those(Files, tpc, {"none"}) \subseteq Files \ {wi}
          BY <5>1, Zenon DEF Those
        <5>3. IsFiniteSet(Files \ {wi}) /\ Cardinality(Files \ {wi}) = nfiles - 1
          BY <5>1, WebFacts, FS_RemoveElement, Zenon
        <5>4. Unconnected <= nfiles - 1
          BY <5>2, <5>3, FS_Subset DEF Unconnected
        <5> QED
          BY <1>0, <5>4, WebCounts
      <4> QED
        BY <1>0, <3>2, <4>1, WebCounts DEF WebTypes, WebCounted, Marking
    <3> QED
      BY <3>1, <3>2, Zenon
  <2> QED
    BY <1>0, <2>1, <2>2, <2>3, Zenon DEF WebTypes, WebTypeOK, TSteps
<1>2. NdoneExact
  <2>1. {f \in Files : tpc[f] = "ended"} = Those(Files, tpc, {"ended"})
    BY Zenon DEF Those
  <2> QED
    BY <1>0, <2>1, Zenon DEF NdoneExact, WebCounted, NEnded
<1>3. ConnectionsLimited
  <2>1. Running = Those(Files, tpc, {"connect", "read", "done", "ended"})
        /\ {f \in Files : tpc[f] # "joined"} = Those(Files, tpc, {"none", "connect", "read", "done", "ended"})
    BY <1>0, Zenon DEF Those, Running, WebTypes, TSteps
  <2>2. Cardinality(Running) = NRunning /\ Cardinality({f \in Files : tpc[f] # "joined"}) = Unjoined
    BY <2>1, Zenon DEF NRunning, Unjoined
  <2>3. nconn = NRunning - Marking
    BY <1>0, WebCounts DEF WebCounted, WebTypes
  <2> QED
    BY <1>0, <2>2, <2>3, Zenon DEF ConnectionsLimited, WebCounted, Marking
<1> QED
  BY <1>1, <1>2, <1>3, Zenon DEF WebSafe

(* It holds at the start.                                                  *)
LEMMA WebInitially == WebInit => WebInv
<1> SUFFICES ASSUME WebInit PROVE WebInv
  BY Zenon
<1>1. Those(Files, tpc, {"none"}) = Files /\ Those(Files, tpc, {"none", "connect", "read", "done", "ended"}) = Files
  BY Zenon DEF WebInit, Those
<1>2. Unconnected = nfiles /\ Unjoined = nfiles
  BY <1>1, WebFacts, Zenon DEF Unconnected, Unjoined
<1>3. NRunning = 0 /\ NEnded = 0
  BY WebCounts, Zenon DEF WebInit
<1> QED
  BY <1>2, <1>3, WebFacts DEF WebInit, WebInv, WebTypes, WebCounted, WebPlaces, Marking, TSteps

(* Every step keeps the invariant.                                         *)
LEMMA WebInductive == WebInv /\ [WebNext]_webvars => WebInv'
<1> SUFFICES ASSUME WebInv, [WebNext]_webvars PROVE WebInv'
  BY Zenon
<1>0. /\ WebTypes /\ WebCounted /\ WebPlaces /\ nfiles \in Nat /\ maxnconn \in Nat /\ Files = 1..nfiles
      /\ Unconnected \in Nat /\ NRunning \in Nat /\ NEnded \in Nat /\ Unjoined \in Nat
      /\ nconn \in Nat /\ nlefttoconn \in Nat /\ nlefttoread \in Nat /\ ndone \in Nat
  BY WebFacts, WebCounts, Zenon DEF WebInv, WebTypes
(* A step of main that only moves wpc and wi.                              *)
<1>1. ASSUME UNCHANGED <<wver, f_flags, tpc, ndone, nconn, nlefttoconn, nlefttoread>>, wpc # "mark",
             wpc' \in {"start", "wait", "woken", "scan", "join", "exit"}, wi' \in 1..nfiles + 1,
             wver = "web01" => wpc' \in {"start", "exit"}, wpc' = "join" => wi' \in Files
      PROVE  WebInv'
  <2>1. /\ Unconnected' = Unconnected /\ NRunning' = NRunning /\ NEnded' = NEnded /\ Unjoined' = Unjoined
        /\ Marking' = 0 /\ Marking = 0
    BY <1>1, Zenon DEF Unconnected, NRunning, NEnded, Unjoined, Marking, Those, Files
  <2>2. WebTypes' /\ WebPlaces'
    BY <1>0, <1>1, Zenon DEF WebTypes, WebPlaces, Files
  <2>3. WebCounted'
    BY <1>0, <1>1, <2>1, Zenon DEF WebCounted
  <2> QED
    BY <2>2, <2>3, Zenon DEF WebInv
<1>2. CASE create_thread
  <2> DEFINE S == {g \in Files : f_flags[g] = "0"}
             f == Min(S)
  <2>0. wpc = "start" /\ nlefttoread > 0 /\ nconn < maxnconn /\ nlefttoconn > 0
    BY <1>2, Zenon DEF create_thread, may_connect
  <2>1. f \in Files /\ f_flags[f] = "0" /\ tpc[f] = "none"
    <3>1. \E g \in Files : tpc[g] = "none"
      BY <1>0, <2>0, WebCounts DEF WebCounted, Marking
    <3>2. S # {} /\ S \in SUBSET Nat
      BY <1>0, <3>1 DEF WebPlaces
    <3>3. \E x \in S : \A y \in S : x <= y
      BY <3>2, Least, Zenon
    <3>4. f \in S
      BY <3>3, Zenon DEF Min
    <3> QED
      BY <1>0, <2>0, <3>4, Zenon DEF WebPlaces
  <2>2. /\ wi' = f /\ tpc' = [tpc EXCEPT ![f] = "connect"] /\ UNCHANGED <<wver, ndone, nlefttoread>>
        /\ \/ /\ wver = "web02" /\ wpc' = "mark" /\ UNCHANGED <<f_flags, nconn, nlefttoconn>>
           \/ /\ wver # "web02" /\ f_flags' = [f_flags EXCEPT ![f] = "F_CONNECTING"]
              /\ nconn' = nconn + 1 /\ nlefttoconn' = nlefttoconn - 1 /\ wpc' = wpc
    BY <1>2, Zenon DEF create_thread
  <2> HIDE DEF f
  <2>3. /\ tpc'[f] = "connect" /\ \A g \in Files : g # f => tpc'[g] = tpc[g]
        /\ tpc' \in [Files -> TSteps]
    BY <1>0, <2>1, <2>2, Zenon DEF WebTypes, TSteps
  <2>4. /\ Unconnected' = Unconnected - 1 /\ NRunning' = NRunning + 1 /\ NEnded' = NEnded /\ Unjoined' = Unjoined
        /\ Unconnected # 0
    <3>1. /\ Unconnected' = Unconnected - 1 /\ NRunning' = NRunning + 1 /\ NEnded' = NEnded /\ Unjoined' = Unjoined
      <4>1. /\ Unconnected' = Unconnected + (IF tpc'[f] \in {"none"} THEN 1 ELSE 0) - (IF tpc[f] \in {"none"} THEN 1 ELSE 0)
            /\ NRunning' = NRunning + (IF tpc'[f] \in {"connect", "read", "done", "ended"} THEN 1 ELSE 0)
                                    - (IF tpc[f] \in {"connect", "read", "done", "ended"} THEN 1 ELSE 0)
            /\ NEnded' = NEnded + (IF tpc'[f] \in {"ended"} THEN 1 ELSE 0) - (IF tpc[f] \in {"ended"} THEN 1 ELSE 0)
            /\ Unjoined' = Unjoined + (IF tpc'[f] \in {"none", "connect", "read", "done", "ended"} THEN 1 ELSE 0)
                                    - (IF tpc[f] \in {"none", "connect", "read", "done", "ended"} THEN 1 ELSE 0)
        BY <2>1, <2>3, ThreadMoves, Zenon
      <4> QED
        BY <1>0, <2>1, <2>3, <4>1
    <3>2. Unconnected # 0
      BY <2>1, WebCounts, Zenon
    <3> QED
      BY <3>1, <3>2, Zenon
  <2>5. NRunning = nconn /\ Unconnected = nlefttoconn
    BY <1>0, <2>0 DEF WebCounted, Marking
  <2>6. NRunning + 1 <= maxnconn
    BY <1>0, <2>0, <2>5
  <2>7. CASE wver = "web02" /\ wpc' = "mark" /\ UNCHANGED <<f_flags, nconn, nlefttoconn>>
    <3>1. WebTypes'
      BY <1>0, <2>1, <2>2, <2>3, <2>7 DEF WebTypes, Files
    <3>2. WebCounted'
      <4>1. Marking' = 1
        BY <2>7, Zenon DEF Marking
      <4> QED
        BY <1>0, <2>2, <2>4, <2>5, <2>6, <2>7, <4>1 DEF WebCounted
    <3>3. WebPlaces'
      BY <1>0, <2>0, <2>1, <2>2, <2>3, <2>7, Zenon DEF WebPlaces, Files
    <3> QED
      BY <3>1, <3>2, <3>3, Zenon DEF WebInv
  <2>8. CASE /\ wver # "web02" /\ f_flags' = [f_flags EXCEPT ![f] = "F_CONNECTING"]
             /\ nconn' = nconn + 1 /\ nlefttoconn' = nlefttoconn - 1 /\ wpc' = wpc
    <3>0. /\ f_flags'[f] = "F_CONNECTING" /\ \A g \in Files : g # f => f_flags'[g] = f_flags[g]
          /\ f_flags' \in [Files -> {"0", "F_CONNECTING", "F_READING", "F_DONE", "F_JOINED"}]
      BY <1>0, <2>1, <2>8, Zenon DEF WebTypes
    <3>1. WebTypes'
      BY <1>0, <2>0, <2>1, <2>2, <2>3, <2>8, <3>0 DEF WebTypes, Files
    <3>2. WebCounted'
      <4>1. Marking' = 0
        BY <2>0, <2>8, Zenon DEF Marking
      <4> QED
        BY <1>0, <2>2, <2>4, <2>5, <2>6, <2>8, <4>1 DEF WebCounted
    <3>3. WebPlaces'
      BY <1>0, <2>0, <2>1, <2>2, <2>3, <2>8, <3>0, ZenonT(60) DEF WebPlaces, Files
    <3> QED
      BY <3>1, <3>2, <3>3 DEF WebInv
  <2> QED
    BY <2>2, <2>7, <2>8, Zenon
<1>3. CASE mark_connecting
  <2>1. /\ wpc = "mark" /\ wpc' = "start" /\ f_flags' = [f_flags EXCEPT ![wi] = "F_CONNECTING"]
        /\ nconn' = nconn + 1 /\ nlefttoconn' = nlefttoconn - 1
        /\ UNCHANGED <<wver, wi, tpc, ndone, nlefttoread>>
    BY <1>3, Zenon DEF mark_connecting
  <2>2. /\ Unconnected' = Unconnected /\ NRunning' = NRunning /\ NEnded' = NEnded /\ Unjoined' = Unjoined
        /\ Marking' = 0 /\ Marking = 1
    BY <2>1, Zenon DEF Unconnected, NRunning, NEnded, Unjoined, Marking, Those, Files
  <2>3. /\ wi \in Files /\ tpc[wi] # "none" /\ f_flags'[wi] = "F_CONNECTING"
        /\ \A g \in Files : g # wi => f_flags'[g] = f_flags[g]
        /\ f_flags' \in [Files -> {"0", "F_CONNECTING", "F_READING", "F_DONE", "F_JOINED"}]
    BY <1>0, <2>1, Zenon DEF WebTypes, WebPlaces
  <2>4. nlefttoconn > 0
    BY <1>0, <2>2 DEF WebCounted
  <2>5. WebTypes'
    BY <1>0, <2>1, <2>3, <2>4 DEF WebTypes, Files
  <2>6. WebCounted'
    BY <1>0, <2>1, <2>2 DEF WebCounted
  <2>7. WebPlaces'
    BY <1>0, <2>1, <2>3, Zenon DEF WebPlaces, Files
  <2> QED
    BY <2>5, <2>6, <2>7 DEF WebInv
<1>4. CASE main_exits
  BY <1>0, <1>1, <1>4, Zenon DEF main_exits, WebTypes
(* A join of the thread of f.                                              *)
<1>5. ASSUME NEW f \in Files, tpc[f] = "ended", tpc' = [tpc EXCEPT ![f] = "joined"], wpc # "mark",
             wpc' \in {"start", "scan"}, wi' \in 1..nfiles + 1, wver = "web01" => wpc' = "start",
             f_flags' = f_flags \/ f_flags' = [f_flags EXCEPT ![f] = "F_JOINED"],
             ndone' = IF wver = "web01" THEN ndone ELSE ndone - 1,
             nconn' = nconn - 1, nlefttoread' = nlefttoread - 1, UNCHANGED <<wver, nlefttoconn>>
      PROVE  WebInv'
  <2>1. /\ tpc'[f] = "joined" /\ \A g \in Files : g # f => tpc'[g] = tpc[g]
        /\ tpc' \in [Files -> TSteps]
        /\ f_flags'[f] \in {f_flags[f], "F_JOINED"} /\ \A g \in Files : g # f => f_flags'[g] = f_flags[g]
        /\ f_flags' \in [Files -> {"0", "F_CONNECTING", "F_READING", "F_DONE", "F_JOINED"}]
    BY <1>0, <1>5, Zenon DEF WebTypes, TSteps
  <2>2. /\ Unconnected' = Unconnected /\ NRunning' = NRunning - 1 /\ NEnded' = NEnded - 1 /\ Unjoined' = Unjoined - 1
        /\ NRunning # 0 /\ NEnded # 0 /\ Unjoined # 0 /\ Marking = 0 /\ Marking' = 0
    <3>1. /\ Unconnected' = Unconnected /\ NRunning' = NRunning - 1 /\ NEnded' = NEnded - 1 /\ Unjoined' = Unjoined - 1
      BY <1>0, <1>5, <2>1, ThreadMoves
    <3>2. NRunning # 0 /\ NEnded # 0 /\ Unjoined # 0
      BY <1>5, WebCounts, Zenon
    <3> QED
      BY <1>5, <3>1, <3>2, Zenon DEF Marking
  <2>3. nconn = NRunning /\ nlefttoread = Unjoined /\ NRunning - 1 <= maxnconn
    BY <1>0, <2>2 DEF WebCounted
  <2>4. WebTypes'
    <3>1. nconn' \in Nat /\ nlefttoread' \in Nat
      BY <1>0, <1>5, <2>2, <2>3
    <3>2. ndone' \in Nat
      BY <1>0, <1>5, <2>2 DEF WebCounted
    <3> QED
      BY <1>0, <1>5, <2>1, <3>1, <3>2, Zenon DEF WebTypes, Files
  <2>5. WebCounted'
    BY <1>0, <1>5, <2>2, <2>3 DEF WebCounted
  <2>6. WebPlaces'
    BY <1>0, <1>5, <2>1 DEF WebPlaces, Files
  <2> QED
    BY <2>4, <2>5, <2>6, Zenon DEF WebInv
<1>6. CASE thr_join
  BY <1>0, <1>5, <1>6, Zenon DEF thr_join, WebTypes
<1>7. CASE pthread_join
  <2>1. wi \in Files /\ wver # "web01" /\ wi + 1 \in 1..nfiles + 1
    BY <1>0, <1>7 DEF pthread_join, WebPlaces
  <2> QED
    BY <1>0, <1>5, <1>7, <2>1, Zenon DEF pthread_join
<1>8. CASE lock_ndone
  BY <1>0, <1>1, <1>8 DEF lock_ndone, WebTypes
<1>9. CASE scan_file
  <2>1. /\ wpc = "scan" /\ wi \in Files /\ UNCHANGED <<wver, f_flags, tpc, ndone, nconn, nlefttoconn, nlefttoread>>
        /\ (wpc' = "join" /\ wi' = wi) \/ (wpc' = "scan" /\ wi' = wi + 1)
    BY <1>0, <1>9 DEF scan_file, WebTypes
  <2> QED
    BY <1>0, <1>1, <2>1 DEF WebPlaces
<1>10. CASE unlock_ndone
  BY <1>0, <1>1, <1>10, Zenon DEF unlock_ndone, WebTypes, WebPlaces
<1>11. CASE web_spurious
  BY <1>0, <1>1, <1>11, Zenon DEF web_spurious, WebTypes, WebPlaces
(* A step of the thread of f.                                              *)
<1>12. ASSUME NEW f \in Files, NEW s \in {"read", "done", "ended"}, NEW k \in {"F_READING", "F_DONE"},
              tpc[f] \in {"connect", "read", "done"}, tpc' = [tpc EXCEPT ![f] = s],
              f_flags' = f_flags \/ f_flags' = [f_flags EXCEPT ![f] = k],
              wver = "web01" => s # "done",
              ndone' = IF wver # "web01" /\ s = "ended" THEN ndone + 1 ELSE ndone,
              wpc' = wpc \/ (wpc = "wait" /\ wpc' = "woken"),
              UNCHANGED <<wver, wi, nconn, nlefttoconn, nlefttoread>>
       PROVE  WebInv'
  <2>1. /\ tpc'[f] = s /\ \A g \in Files : g # f => tpc'[g] = tpc[g]
        /\ tpc' \in [Files -> TSteps]
        /\ f_flags'[f] \in {f_flags[f], k} /\ \A g \in Files : g # f => f_flags'[g] = f_flags[g]
        /\ f_flags' \in [Files -> {"0", "F_CONNECTING", "F_READING", "F_DONE", "F_JOINED"}]
    BY <1>0, <1>12 DEF WebTypes, TSteps
  <2>2. /\ Unconnected' = Unconnected /\ NRunning' = NRunning /\ Unjoined' = Unjoined
        /\ NEnded' = IF s = "ended" THEN NEnded + 1 ELSE NEnded
    <3>1. /\ Unconnected' = Unconnected + (IF tpc'[f] \in {"none"} THEN 1 ELSE 0) - (IF tpc[f] \in {"none"} THEN 1 ELSE 0)
          /\ NRunning' = NRunning + (IF tpc'[f] \in {"connect", "read", "done", "ended"} THEN 1 ELSE 0)
                                  - (IF tpc[f] \in {"connect", "read", "done", "ended"} THEN 1 ELSE 0)
          /\ NEnded' = NEnded + (IF tpc'[f] \in {"ended"} THEN 1 ELSE 0) - (IF tpc[f] \in {"ended"} THEN 1 ELSE 0)
          /\ Unjoined' = Unjoined + (IF tpc'[f] \in {"none", "connect", "read", "done", "ended"} THEN 1 ELSE 0)
                                  - (IF tpc[f] \in {"none", "connect", "read", "done", "ended"} THEN 1 ELSE 0)
      BY <2>1, ThreadMoves, Zenon
    <3>2. CASE s = "ended"
      BY <1>0, <1>12, <2>1, <3>1, <3>2
    <3>3. CASE s # "ended"
      BY <1>0, <1>12, <2>1, <3>1, <3>3
    <3> QED
      BY <3>2, <3>3, Zenon
  <2>3. Marking' = Marking
    BY <1>12, Zenon DEF Marking
  <2>4. WebTypes'
    BY <1>0, <1>12, <2>1 DEF WebTypes, Files
  <2>5. WebCounted'
    BY <1>0, <1>12, <2>2, <2>3, Zenon DEF WebCounted
  <2>6. WebPlaces'
    <3>1. (wpc' = "mark" <=> wpc = "mark") /\ (wpc' = "join" <=> wpc = "join") /\ wi' = wi /\ wver' = wver
      BY <1>12, Zenon
    <3>2. tpc'[f] # "none" /\ tpc[f] # "none"
      BY <1>12, <2>1, Zenon
    <3>3. f_flags'[f] = "0" => f_flags[f] = "0"
      BY <1>12, <2>1, Zenon
    <3> QED
      BY <1>0, <1>12, <2>1, <3>1, <3>2, <3>3 DEF WebPlaces, Files
  <2> QED
    BY <2>4, <2>5, <2>6, Zenon DEF WebInv
<1>13. ASSUME NEW f \in Files, write_get_cmd(f) PROVE WebInv'
  BY <1>12, <1>13, Zenon DEF write_get_cmd
<1>14. ASSUME NEW f \in Files, read_eof(f) PROVE WebInv'
  <2>1. CASE wver = "web01"
    BY <1>12, <1>14, <2>1, Zenon DEF read_eof
  <2>2. CASE wver # "web01"
    BY <1>12, <1>14, <2>2, Zenon DEF read_eof
  <2> QED
    BY <2>1, <2>2, Zenon
<1>15. ASSUME NEW f \in Files, count_done(f) PROVE WebInv'
  <2>1. wver # "web01"
    BY <1>0, <1>15, Zenon DEF count_done, WebPlaces
  <2> QED
    BY <1>12, <1>15, <2>1, Zenon DEF count_done
<1>16. CASE UNCHANGED webvars
  <2>1. UNCHANGED <<wver, wpc, wi, f_flags, tpc, ndone, nconn, nlefttoconn, nlefttoread>>
    BY <1>16, Zenon DEF webvars
  <2>2. /\ Unconnected' = Unconnected /\ NRunning' = NRunning /\ NEnded' = NEnded /\ Unjoined' = Unjoined
        /\ Marking' = Marking
    BY <2>1, Zenon DEF Unconnected, NRunning, NEnded, Unjoined, Marking, Those, Files
  <2> QED
    BY <1>0, <2>1, <2>2, Zenon DEF WebInv, WebTypes, WebCounted, WebPlaces, Files
<1> QED
  BY <1>2, <1>3, <1>4, <1>6, <1>7, <1>8, <1>9, <1>10, <1>11, <1>13, <1>14, <1>15, <1>16, Zenon DEF WebNext, web_main, do_get_read

(* ndone counts the threads that have ended and are not joined in web02    *)
(* and web03, at most maxnconn threads run, and nconn and nlefttoread      *)
(* account for them: for every number of files.                            *)
THEOREM WebClientsKeepCount == WebSpec => []WebSafe
<1>1. WebInit => WebInv
  BY WebInitially, Zenon
<1>2. WebInv /\ [WebNext]_webvars => WebInv'
  BY WebInductive, Zenon
<1>3. WebInv => WebSafe
  BY WebBounds, Zenon
<1> QED
  BY <1>1, <1>2, <1>3, PTL DEF WebSpec

-----------------------------------------------------------------------------
(* Sigio. The slots from iget on hold the datagrams after those echoed,    *)
(* and a datagram left in the socket has a signal on its way.              *)

(* The datagrams whose slots have been given back. *)
Sent == IF mainpc \in {"advance", "block"} THEN 1 ELSE 0
Moved == IF mainpc = "block" THEN 1 ELSE 0
Freed == Len(echoed) - Sent

SigTypes ==
    /\ dg \in [0..QSIZE - 1 -> 0..MaxDg] /\ nqueue \in 0..QSIZE /\ ndg \in 0..MaxDg
    /\ mainpc \in {"blocked", "suspend", "sendto", "advance", "block"}
    /\ sockbuf \in Seq(Nat) /\ echoed \in Seq(Nat)
    /\ Freed >= 0
    /\ mainpc \in {"sendto", "advance", "block"} => nqueue > 0

Placed ==
    /\ iput = (Freed + nqueue) % QSIZE /\ iget = (Freed + Moved) % QSIZE
    /\ \A k \in Freed..Freed + nqueue - 1 : dg[k % QSIZE] = k + 1
    /\ Len(sockbuf) + (Freed + nqueue) = ndg
    /\ \A j \in 1..Len(sockbuf) : sockbuf[j] = (Freed + nqueue) + j

Announced == sockbuf # <<>> => pending \/ handler \/ overflow

SigInv == SigTypes /\ Placed /\ EchoInOrder /\ Announced

(* What the invariant says of the datagrams echoed.                        *)
LEMMA SigBounds == SigInv => EchoSafe
<1> SUFFICES ASSUME SigInv PROVE EchoSafe
  BY Zenon
<1>0. /\ SigTypes /\ Placed /\ EchoInOrder /\ QSIZE \in Nat \ {0} /\ Freed \in Nat /\ nqueue \in Nat /\ Moved \in 0..1
      /\ Sent \in 0..1 /\ Len(echoed) \in Nat /\ Len(sockbuf) \in Nat /\ ndg \in Nat
  BY SigioAssumption DEF SigInv, SigTypes, Freed, Sent, Moved
<1>1. SigioTypeOK
  <2>1. iput \in 0..QSIZE - 1 /\ iget \in 0..QSIZE - 1
    <3>1. Freed + nqueue \in Int /\ Freed + Moved \in Int
      BY <1>0
    <3> QED
      BY <1>0, <3>1, ModRange, Zenon DEF Placed
  <2> QED
    BY <1>0, <2>1, Zenon DEF SigTypes, SigioTypeOK
<1>2. NoLostSigio
  BY Zenon DEF SigInv, Announced, NoLostSigio
<1>3. NothingDropped
  <2>1. Len(echoed) = Freed + Sent
    BY <1>0 DEF Freed
  <2>2. Len(echoed) + nqueue + Len(sockbuf) = ndg + Sent
    BY <1>0, <2>1 DEF Placed
  <2> QED
    BY <2>2, Zenon DEF NothingDropped, Sent
<1>4. RingCounted
  <2>1. Freed + nqueue \in Nat /\ Freed + Moved \in Nat /\ (Freed + nqueue) - (Freed + Moved) = nqueue - Moved
    BY <1>0
  <2>2. (iput - iget) % QSIZE = ((Freed + nqueue) - (Freed + Moved)) % QSIZE
    <3>1. iput = (Freed + nqueue) % QSIZE /\ iget = (Freed + Moved) % QSIZE
      BY <1>0, Zenon DEF Placed
    <3> DEFINE a == Freed + nqueue
               b == Freed + Moved
    <3>2. a \in Nat /\ b \in Nat /\ iput = a % QSIZE /\ iget = b % QSIZE
      BY <2>1, <3>1, Zenon
    <3> HIDE DEF a, b
    <3>3. ((a % QSIZE) - (b % QSIZE)) % QSIZE = (a - b) % QSIZE
      <4>1. a \in Nat /\ b \in Nat /\ QSIZE \in Nat \ {0}
        BY <1>0, <3>2, Zenon
      <4> QED
        BY <4>1, DiffMod, Zenon
    <3>4. (iput - iget) % QSIZE = (a - b) % QSIZE
      BY <3>2, <3>3, Zenon
    <3> QED
      BY <3>4, Zenon DEF a, b
  <2> QED
    BY <2>1, <2>2, Zenon DEF RingCounted, Moved
<1> QED
  BY <1>0, <1>1, <1>2, <1>3, <1>4, Zenon DEF EchoSafe

(* It holds at the start.                                                  *)
LEMMA SigInitially == SigioInit => SigInv
<1> SUFFICES ASSUME SigioInit PROVE SigInv
  BY Zenon
<1>0. QSIZE \in Nat \ {0} /\ MaxDg \in Nat
  BY SigioAssumption, Zenon
<1>1. Sent = 0 /\ Moved = 0 /\ Freed = 0 /\ Len(sockbuf) = 0 /\ Len(echoed) = 0 /\ nqueue = 0 /\ ndg = 0
  BY DEF SigioInit, Sent, Moved, Freed
<1>2. SigTypes
  BY <1>0, <1>1 DEF SigioInit, SigTypes
<1>3. 0 % QSIZE = 0
  <2>1. 0 = QSIZE * 0 + 0 /\ 0 \in 0..QSIZE - 1
    BY <1>0
  <2> QED
    BY <1>0, <2>1, ModUnique
<1>4. Placed /\ EchoInOrder
  BY <1>0, <1>1, <1>3 DEF SigioInit, Placed, EchoInOrder
<1>5. Announced
  BY Zenon DEF SigioInit, Announced
<1> QED
  BY <1>2, <1>4, <1>5, Zenon DEF SigInv

(* An index that wraps around at QSIZE counts modulo QSIZE.                *)
LEMMA NextSlot == ASSUME NEW a \in Nat PROVE next_slot(a % QSIZE) = (a + 1) % QSIZE
BY NextMod, SigioAssumption, Zenon DEF next_slot

(* Every step keeps the invariant.                                         *)
LEMMA SigInductive == SigInv /\ [SigioNext]_sigiovars => SigInv'
<1> SUFFICES ASSUME SigInv, [SigioNext]_sigiovars PROVE SigInv'
  BY Zenon
<1>0. /\ SigTypes /\ Placed /\ EchoInOrder /\ Announced
      /\ QSIZE \in Nat \ {0} /\ MaxDg \in Nat /\ Freed \in Nat /\ nqueue \in Nat /\ nqueue <= QSIZE /\ Moved \in 0..1
      /\ Sent \in 0..1 /\ Len(echoed) \in Nat /\ Len(sockbuf) \in Nat /\ ndg \in Nat
      /\ Len(echoed) = Freed + Sent
  BY SigioAssumption DEF SigInv, SigTypes, Freed, Sent, Moved
<1>a. Len(sockbuf) + (Freed + nqueue) = ndg
  BY <1>0, Zenon DEF Placed
(* A step that leaves ring, socket and what was sent alone.                *)
<1>1. ASSUME UNCHANGED <<sockbuf, ndg, dg, iget, iput, nqueue, echoed>>, Announced',
             mainpc' \in {"blocked", "suspend", "sendto", "advance", "block"},
             Sent' = Sent, Moved' = Moved, mainpc' \in {"sendto", "advance", "block"} => nqueue > 0
      PROVE  SigInv'
  <2>1. Freed' = Freed
    BY <1>1, Zenon DEF Freed
  <2>2. SigTypes'
    BY <1>0, <1>1, <2>1, Zenon DEF SigTypes
  <2>3. Placed' /\ EchoInOrder'
    BY <1>0, <1>1, <2>1, Zenon DEF Placed, EchoInOrder
  <2> QED
    BY <1>1, <2>2, <2>3, Zenon DEF SigInv
<1>2. CASE dg_arrives
  <2>1. /\ ndg < MaxDg /\ ndg' = ndg + 1 /\ sockbuf' = Append(sockbuf, ndg + 1)
        /\ UNCHANGED <<mainpc, dg, iget, iput, nqueue, echoed>>
    BY <1>2, Zenon DEF dg_arrives
  <2>2. Freed' = Freed /\ Moved' = Moved /\ Sent' = Sent
    BY <2>1, Zenon DEF Freed, Sent, Moved
  <2>3. Announced'
    BY <1>2, Zenon DEF dg_arrives, Announced
  <2>4. /\ Len(sockbuf') = Len(sockbuf) + 1 /\ sockbuf' \in Seq(Nat)
        /\ \A j \in 1..Len(sockbuf) : sockbuf'[j] = sockbuf[j]
        /\ sockbuf'[Len(sockbuf) + 1] = ndg + 1
    BY <1>0, <2>1 DEF SigTypes
  <2>5. SigTypes' /\ EchoInOrder'
    BY <1>0, <2>1, <2>2, <2>4 DEF SigTypes, EchoInOrder
  <2>6. ASSUME NEW j \in 1..Len(sockbuf) + 1 PROVE sockbuf'[j] = (Freed + nqueue) + j
    <3>1. CASE j = Len(sockbuf) + 1
      BY <1>0, <1>a, <2>4, <3>1
    <3>2. CASE j # Len(sockbuf) + 1
      <4>1. j \in 1..Len(sockbuf)
        BY <1>0, <3>2
      <4> QED
        BY <1>0, <2>4, <4>1, Zenon DEF Placed
    <3> QED
      BY <3>1, <3>2, Zenon
  <2>7. Placed'
    <3>1. Len(sockbuf') + (Freed' + nqueue') = ndg'
      BY <1>0, <1>a, <2>1, <2>2, <2>4
    <3> QED
      BY <1>0, <2>1, <2>2, <2>4, <2>6, <3>1, Zenon DEF Placed
  <2> QED
    BY <2>3, <2>5, <2>7, Zenon DEF SigInv
<1>3. CASE deliver_sigio
  <2>1. UNCHANGED <<sockbuf, ndg, mainpc, dg, iget, iput, nqueue, echoed>>
    BY <1>3, Zenon DEF deliver_sigio
  <2>2. Announced'
    BY <1>3, Zenon DEF deliver_sigio, Announced
  <2> QED
    BY <1>0, <1>1, <2>1, <2>2, Zenon DEF SigTypes, Sent, Moved
<1>4. CASE sig_io
  <2>1. CASE ring_full /\ overflow' = TRUE /\ UNCHANGED <<sockbuf, mainpc, handler, dg, iput, nqueue>>
    <3>1. UNCHANGED <<sockbuf, ndg, mainpc, dg, iget, iput, nqueue, echoed>>
      BY <1>4, <2>1, Zenon DEF sig_io
    <3>2. Announced'
      BY <2>1, Zenon DEF Announced
    <3> QED
      BY <1>0, <1>1, <3>1, <3>2 DEF SigTypes, Sent, Moved
  <2>2. CASE /\ ~ring_full /\ sockbuf = <<>> /\ handler' = FALSE
             /\ mainpc' = (IF mainpc = "suspend" THEN "blocked" ELSE mainpc)
             /\ UNCHANGED <<sockbuf, dg, iput, nqueue, overflow>>
    <3>1. UNCHANGED <<sockbuf, ndg, dg, iget, iput, nqueue, echoed>>
      BY <1>4, <2>2, Zenon DEF sig_io
    <3>2. Announced'
      BY <2>2, Zenon DEF Announced
    <3>3. Sent' = Sent /\ Moved' = Moved
      BY <2>2, Zenon DEF Sent, Moved
    <3>4. /\ mainpc' \in {"blocked", "suspend", "sendto", "advance", "block"}
          /\ mainpc' \in {"sendto", "advance", "block"} => nqueue > 0
      BY <1>0, <2>2, Zenon DEF SigTypes
    <3> QED
      BY <1>1, <3>1, <3>2, <3>3, <3>4, Zenon
  <2>3. CASE ~ring_full /\ sockbuf # <<>> /\ read_dg /\ UNCHANGED overflow
    <3> DEFINE x == Freed + nqueue
    <3>1. /\ nqueue < QSIZE /\ dg' = [dg EXCEPT ![iput] = Head(sockbuf)] /\ sockbuf' = Tail(sockbuf)
          /\ nqueue' = nqueue + 1 /\ iput' = next_slot(iput) /\ UNCHANGED <<mainpc, ndg, iget, echoed>>
      BY <1>0, <1>4, <2>3 DEF sig_io, read_dg, ring_full
    <3>2. Freed' = Freed /\ Moved' = Moved /\ Sent' = Sent
      BY <3>1, Zenon DEF Freed, Sent, Moved
    <3>3. /\ Len(sockbuf) > 0 /\ Len(sockbuf') = Len(sockbuf) - 1 /\ sockbuf' \in Seq(Nat) /\ Head(sockbuf) = sockbuf[1]
          /\ \A j \in 1..Len(sockbuf) - 1 : sockbuf'[j] = sockbuf[j + 1]
      BY <1>0, <2>3, <3>1 DEF SigTypes
    <3>4. Head(sockbuf) = x + 1 /\ x + 1 <= ndg /\ x \in Nat
      BY <1>0, <3>3 DEF Placed
    <3>5. iput = x % QSIZE /\ iput \in 0..QSIZE - 1 /\ iput' = (x + 1) % QSIZE
      <4>1. iput = x % QSIZE
        BY <1>0, Zenon DEF Placed
      <4>2. x % QSIZE \in 0..QSIZE - 1
        <5> HIDE DEF x
        <5>1. x \in Int
          BY <3>4
        <5> QED
          BY <1>0, <5>1, ModRange, Zenon
      <4> QED
        BY <3>1, <3>4, <4>1, <4>2, NextSlot, Zenon
    <3>6. dg' \in [0..QSIZE - 1 -> 0..MaxDg]
      <4>1. Head(sockbuf) \in 0..MaxDg /\ dg \in [0..QSIZE - 1 -> 0..MaxDg]
        BY <1>0, <3>4 DEF SigTypes
      <4> QED
        BY <3>1, <3>5, <4>1, Zenon
    <3>7. ASSUME NEW k \in Freed..x PROVE dg'[k % QSIZE] = k + 1
      <4>1. CASE k = x
        BY <1>0, <3>1, <3>4, <3>5, <4>1, Zenon DEF SigTypes
      <4>2. CASE k # x
        <5>1. k \in Nat /\ k < x /\ x < k + QSIZE /\ k \in Freed..Freed + nqueue - 1
          BY <1>0, <3>1, <4>2
        <5>2. x % QSIZE # k % QSIZE
          BY <1>0, <3>4, <5>1, Apart, Zenon
        <5>3. k % QSIZE \in 0..QSIZE - 1
          BY <1>0, <5>1, ModRange
        <5>4. dg'[k % QSIZE] = dg[k % QSIZE]
          BY <1>0, <3>1, <3>5, <5>2, <5>3, Zenon DEF SigTypes
        <5> QED
          BY <1>0, <5>1, <5>4, Zenon DEF Placed
      <4> QED
        BY <4>1, <4>2, Zenon
    <3>8. SigTypes' /\ EchoInOrder'
      <4>1. UNCHANGED <<ndg, mainpc, echoed>> /\ nqueue' = nqueue + 1 /\ nqueue < QSIZE
        BY <1>0, <3>1, Zenon
      <4>2. nqueue' \in 0..QSIZE /\ nqueue' > 0 /\ Freed' >= 0
        BY <1>0, <3>2, <4>1 DEF SigTypes
      <4>3. SigTypes'
        BY <1>0, <3>3, <3>6, <4>1, <4>2, Zenon DEF SigTypes
      <4> QED
        BY <1>0, <4>1, <4>3, Zenon DEF EchoInOrder
    <3>9. \A j \in 1..Len(sockbuf) - 1 : sockbuf'[j] = (x + 1) + j
      <4>1. \A j \in 1..Len(sockbuf) : sockbuf[j] = x + j
        BY <1>0, Zenon DEF Placed
      <4>2. Len(sockbuf) \in Nat
        BY <3>3
      <4> HIDE DEF x
      <4>3. ASSUME NEW j \in 1..Len(sockbuf) - 1 PROVE sockbuf'[j] = (x + 1) + j
        <5>1. j + 1 \in 1..Len(sockbuf) /\ sockbuf'[j] = sockbuf[j + 1]
          BY <3>3, <4>2
        <5>2. sockbuf[j + 1] = x + (j + 1)
          BY <4>1, <5>1, Zenon
        <5> QED
          BY <3>4, <5>1, <5>2
      <4> QED
        BY <4>3, Zenon
    <3>10. Placed'
      <4>1. Freed' + nqueue' = x + 1 /\ Freed' = Freed /\ Freed' + nqueue' - 1 = x
        BY <1>0, <3>1, <3>2
      <4>2. iget' = (Freed' + Moved') % QSIZE /\ iput' = (Freed' + nqueue') % QSIZE
        BY <1>0, <3>1, <3>2, <3>5, <4>1, Zenon DEF Placed
      <4>3. Len(sockbuf') + (Freed' + nqueue') = ndg'
        BY <1>0, <1>a, <3>1, <3>3, <4>1
      <4> QED
        BY <3>3, <3>7, <3>9, <4>1, <4>2, <4>3, Zenon DEF Placed
    <3>11. Announced'
      BY <1>4, <2>3, Zenon DEF Announced, sig_io, read_dg
    <3> QED
      BY <3>8, <3>10, <3>11, Zenon DEF SigInv
  <2> QED
    BY <1>4, <2>1, <2>2, <2>3, Zenon DEF sig_io
<1>5. CASE test_nqueue
  <2>1. /\ mainpc = "blocked" /\ mainpc' = (IF nqueue = 0 THEN "suspend" ELSE "sendto")
        /\ UNCHANGED <<sockbuf, ndg, dg, iget, iput, nqueue, echoed>>
    BY <1>5, Zenon DEF test_nqueue, main_step
  <2>2. Announced'
    BY <1>0, <1>5, Zenon DEF test_nqueue, Announced
  <2>3. Sent' = Sent /\ Moved' = Moved
    BY <2>1, Zenon DEF Sent, Moved
  <2> QED
    BY <1>0, <1>1, <2>1, <2>2, <2>3
<1>6. CASE Sendto
  <2>1. /\ mainpc = "sendto" /\ mainpc' = "advance" /\ echoed' = Append(echoed, dg[iget])
        /\ UNCHANGED <<sockbuf, ndg, dg, iget, iput, nqueue>>
    BY <1>6, Zenon DEF Sendto, main_step
  <2>2. Announced'
    BY <1>0, <1>6, Zenon DEF Sendto, Announced
  <2>3. Sent = 0 /\ Sent' = 1 /\ Moved = 0 /\ Moved' = 0 /\ nqueue > 0 /\ Len(echoed) = Freed
    BY <1>0, <2>1 DEF Sent, Moved, SigTypes
  <2>4. dg[iget] = Len(echoed) + 1
    <3>1. Freed \in Freed..Freed + nqueue - 1 /\ Freed + Moved = Freed
      BY <1>0, <2>3
    <3> QED
      BY <1>0, <2>3, <3>1, Zenon DEF Placed
  <2>5. /\ Len(echoed') = Len(echoed) + 1 /\ echoed' \in Seq(Nat)
        /\ \A k \in 1..Len(echoed) : echoed'[k] = echoed[k]
        /\ echoed'[Len(echoed) + 1] = Len(echoed) + 1
    <3>1. echoed' = Append(echoed, Len(echoed) + 1) /\ echoed \in Seq(Nat) /\ Len(echoed) + 1 \in Nat
      BY <1>0, <2>1, <2>4 DEF SigTypes
    <3> QED
      BY <3>1
  <2>6. Freed' = Freed
    BY <1>0, <2>3, <2>5 DEF Freed
  <2>7. EchoInOrder'
    BY <1>0, <2>5 DEF EchoInOrder
  <2>8. SigTypes'
    BY <1>0, <2>1, <2>3, <2>5, <2>6, Zenon DEF SigTypes
  <2>9. Placed'
    BY <1>0, <2>1, <2>3, <2>6, Zenon DEF Placed
  <2> QED
    BY <2>2, <2>7, <2>8, <2>9, Zenon DEF SigInv
<1>7. CASE advance_iget
  <2>1. /\ mainpc = "advance" /\ mainpc' = "block" /\ iget' = next_slot(iget)
        /\ UNCHANGED <<sockbuf, ndg, dg, iput, nqueue, echoed>>
    BY <1>7, Zenon DEF advance_iget, main_step
  <2>2. Announced'
    BY <1>0, <1>7, Zenon DEF advance_iget, Announced
  <2>3. Sent = 1 /\ Sent' = 1 /\ Moved = 0 /\ Moved' = 1 /\ nqueue > 0
    BY <1>0, <2>1, Zenon DEF Sent, Moved, SigTypes
  <2>4. Freed' = Freed
    BY <2>1, <2>3, Zenon DEF Freed
  <2>5. iget' = (Freed + 1) % QSIZE
    <3>1. iget = Freed % QSIZE
      BY <1>0, <2>3 DEF Placed
    <3> QED
      BY <1>0, <2>1, <3>1, NextSlot, Zenon
  <2>6. SigTypes' /\ EchoInOrder'
    BY <1>0, <2>1, <2>3, <2>4, Zenon DEF SigTypes, EchoInOrder
  <2>7. Placed'
    BY <1>0, <2>1, <2>3, <2>4, <2>5, Zenon DEF Placed
  <2> QED
    BY <2>2, <2>6, <2>7 DEF SigInv
<1>8. CASE block_sigio
  <2>1. /\ mainpc = "block" /\ mainpc' = "blocked" /\ nqueue' = nqueue - 1
        /\ UNCHANGED <<sockbuf, ndg, dg, iget, iput, echoed>>
    BY <1>8, Zenon DEF block_sigio, main_step
  <2>2. Announced'
    BY <1>0, <1>8, Zenon DEF block_sigio, Announced
  <2>3. Sent = 1 /\ Sent' = 0 /\ Moved = 1 /\ Moved' = 0 /\ nqueue > 0
    BY <1>0, <2>1, Zenon DEF Sent, Moved, SigTypes
  <2>4. Freed' = Freed + 1 /\ Freed' + nqueue' = Freed + nqueue /\ Freed' + Moved' = Freed + Moved
    <3>1. Freed' = Freed + 1
      BY <1>0, <2>1, <2>3 DEF Freed
    <3> QED
      BY <1>0, <2>1, <2>3, <3>1
  <2>5. SigTypes' /\ EchoInOrder'
    BY <1>0, <2>1, <2>3, <2>4 DEF SigTypes, EchoInOrder
  <2>6. Placed'
    <3>1. ASSUME NEW k \in Freed + 1..Freed + nqueue - 1 PROVE dg[k % QSIZE] = k + 1
      <4>1. k \in Freed..Freed + nqueue - 1
        BY <1>0
      <4> QED
        BY <1>0, <4>1, Zenon DEF Placed
    <3> QED
      BY <1>0, <2>1, <2>4, <3>1 DEF Placed
  <2> QED
    BY <2>2, <2>5, <2>6 DEF SigInv
<1>9. CASE UNCHANGED sigiovars
  <2>1. UNCHANGED <<sockbuf, ndg, mainpc, dg, iget, iput, nqueue, echoed>>
    BY <1>9, Zenon DEF sigiovars
  <2>2. Announced'
    BY <1>0, <1>9, Zenon DEF sigiovars, Announced
  <2> QED
    BY <1>0, <1>1, <2>1, <2>2 DEF SigTypes, Sent, Moved
<1> QED
  BY <1>2, <1>3, <1>4, <1>5, <1>6, <1>7, <1>8, <1>9, Zenon DEF SigioNext

(* The signal-driven server sends the datagrams back in the order of       *)
(* arrival and each once, drops none, and sleeps in sigsuspend with a      *)
(* datagram in the socket only when a signal is on its way: for every size *)
(* of the ring and every number of datagrams.                              *)
THEOREM EchoesInOrder == SigioSpec => []EchoSafe
<1>1. SigioInit => SigInv
  BY SigInitially, Zenon
<1>2. SigInv /\ [SigioNext]_sigiovars => SigInv'
  BY SigInductive, Zenon
<1>3. SigInv => EchoSafe
  BY SigBounds, Zenon
<1> QED
  BY <1>1, <1>2, <1>3, PTL DEF SigioSpec

-----------------------------------------------------------------------------
(* Bcast. Where SIGALRM can be, blocked, pending or spent, at each step of *)
(* each version of the client.                                             *)

(* What each way of waiting rests on: only program 6 uses the pipe, and    *)
(* the byte is there only once the alarm has gone off; SIGALRM is pending  *)
(* only where it is blocked, and program 4 keeps it blocked outside its    *)
(* pselect from the first line on.                                         *)
WaysOfWaiting ==
    /\ rcvq <= arrived
    /\ bpipe > 0 => bver = "6" /\ timer = "off"
    /\ timer = "pending" => blocked
    /\ bver \in {"1", "2", "5", "6"} => ~blocked
    /\ bver = "4" /\ bpc \in {"loop", "call", "got"} => blocked
    /\ bpc = "exit" => timer = "off"
    /\ bpc = "open" => bver \in Masking

BcastInv == BcastSafe /\ WaysOfWaiting

(* It holds at the start.                                                  *)
LEMMA BcastInitially == BcastInit => BcastInv
<1> SUFFICES ASSUME BcastInit PROVE BcastInv
  BY Zenon
<1>1. ~blocked /\ blocked \in BOOLEAN
  BY Zenon DEF BcastInit
<1> QED
  BY <1>1, BcastAssumption DEF BcastInit, BcastInv, BcastSafe, BcastTypeOK, NoStaleTimer, WaitCanEnd, WaysOfWaiting, Versions

(* Every step keeps the invariant.                                         *)
LEMMA BcastInductive == BcastInv /\ [BcastNext]_bcastvars => BcastInv'
<1> SUFFICES ASSUME BcastInv, [BcastNext]_bcastvars PROVE BcastInv'
  BY Zenon
<1> USE BcastAssumption DEF BcastInv, BcastSafe, BcastTypeOK, NoStaleTimer, WaitCanEnd, WaysOfWaiting, Versions, Masking, Sound
<1>1. CASE UNCHANGED bcastvars
  BY <1>1 DEF bcastvars
<1>2. CASE send_line
  <2>1. blocked' \in BOOLEAN /\ (blocked' <=> blocked \/ bver \in {"4", "4lib"})
    BY <1>2, Zenon DEF send_line
  <2> QED
    BY <1>2, <2>1 DEF send_line
<1>3. CASE end_of_input
  BY <1>3, Zenon DEF end_of_input
<1>4. CASE unblock_alrm
  BY <1>4, Zenon DEF unblock_alrm
<1>5. CASE enter_call
  BY <1>5, Zenon DEF enter_call
<1>6. CASE call_returns
  BY <1>6 DEF call_returns
<1>7. CASE pipe_readable
  BY <1>7 DEF pipe_readable
<1>8. CASE print_reply
  BY <1>8, Zenon DEF print_reply
<1>9. CASE alarm_expires
  <2>1. CASE blocked /\ ~(bver = "4" /\ bpc = "call")
    BY <1>9, <2>1, Zenon DEF alarm_expires
  <2>2. CASE ~blocked \/ (bver = "4" /\ bpc = "call")
    <3>1. recvfrom_alarm /\ timer = "set" /\ UNCHANGED <<bver, nlines, rcvq, arrived>>
      BY <1>9, <2>2, Zenon DEF alarm_expires
    <3>2. blocked' \in BOOLEAN /\ (blocked' <=> blocked \/ (bver \in Masking /\ bpc = "call"))
      BY <3>1, Zenon DEF recvfrom_alarm
    <3> QED
      BY <2>2, <3>1, <3>2 DEF recvfrom_alarm
  <2> QED
    BY <2>1, <2>2, Zenon
<1>10. CASE pselect_interrupted
  BY <1>10 DEF pselect_interrupted, recvfrom_alarm
<1>11. CASE reply_arrives
  BY <1>11 DEF reply_arrives
<1> QED
  BY <1>1, <1>2, <1>3, <1>4, <1>5, <1>6, <1>7, <1>8, <1>9, <1>10, <1>11, Zenon DEF BcastNext, dg_cli

(* Nothing of the timer of one line is left for the next, and the sound    *)
(* versions never wait with nothing left that could end the wait: in every *)
(* version of the broadcast client and for every number of replies.        *)
THEOREM BroadcastSafe == BcastSpec => []BcastSafe
BY BcastInitially, BcastInductive, PTL DEF BcastSpec, BcastInv

=============================================================================
