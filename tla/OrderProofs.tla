---------------------------- MODULE OrderProofs -----------------------------
(***************************************************************************)
(* Bytes and messages that keep their order on the way: the nonblocking    *)
(* str_cli of src/unixNetV1 and the clients of the System V message queue  *)
(* of src/unixipc.                                                         *)
(*                                                                         *)
(* Each section has a component's inductive invariant, the lemmas that it  *)
(* holds at first and that every step keeps it, and the theorem that       *)
(* follows.                                                                *)
(***************************************************************************)
EXTENDS StrCliNonb, SvMsg, TLAPS

(* The default of every leaf that names no prover: Z3 with twenty seconds, *)
(* then Zenon with thirty.                                                 *)
USE SMTT(20), ZenonT(30)

-----------------------------------------------------------------------------
(* StrCliNonb. The bytes written, those in the buffer and those still to   *)
(* be read follow one another, on the way to the server and on the way     *)
(* back.                                                                   *)

(* The lesser of two numbers.                                              *)
LEMMA MinOfTwo == ASSUME NEW a \in Int, NEW b \in Int PROVE Min({a, b}) = IF a <= b THEN a ELSE b
<1> DEFINE x == IF a <= b THEN a ELSE b
<1>1. x \in {a, b} /\ \A y \in {a, b} : x <= y
  OBVIOUS
<1>2. \A z \in {a, b} : (\A y \in {a, b} : z <= y) => z = x
  OBVIOUS
<1> HIDE DEF x
<1>3. (CHOOSE z \in {a, b} : \A y \in {a, b} : z <= y) = x
  BY <1>1, <1>2, Zenon
<1>4. Min({a, b}) = x
  BY <1>3, Zenon DEF Min
<1> QED
  BY <1>4, Zenon DEF x

(* An index below b.                                                       *)
LEMMA Within == ASSUME NEW a \in Int, NEW b \in Int, NEW k, k \in a..b - 1 PROVE k \in Int /\ a <= k /\ k < b /\ a # b
OBVIOUS

(* Where the stretch of the input that each place holds begins. *)
FrFrom == Len(out)
S2cFrom == FrFrom + (friptr - froptr)
C2sFrom == S2cFrom + Len(s2c)
ToFrom == C2sFrom + Len(c2s)

NonbTypes ==
    /\ npc \in {"select", "stdin", "sockin", "stdout", "sockout", "return", "err_quit"}
    /\ nin \in 0..NBytes
    /\ toiptr \in 0..MAXLINE /\ tooptr \in 0..toiptr
    /\ friptr \in 0..MAXLINE /\ froptr \in 0..friptr
    /\ tobuf \in [0..MAXLINE - 1 -> Nat] /\ frbuf \in [0..MAXLINE - 1 -> Nat]
    /\ c2s \in Seq(Nat) /\ s2c \in Seq(Nat) /\ out \in Seq(Nat) /\ Len(c2s) <= SockRoom

Bytes ==
    /\ nin = ToFrom + (toiptr - tooptr)
    /\ \A k \in 1..Len(out) : out[k] = k
    /\ \A k \in froptr..friptr - 1 : frbuf[k] = FrFrom + (k - froptr) + 1
    /\ \A k \in 1..Len(s2c) : s2c[k] = S2cFrom + k
    /\ \A k \in 1..Len(c2s) : c2s[k] = C2sFrom + k
    /\ \A k \in tooptr..toiptr - 1 : tobuf[k] = ToFrom + (k - tooptr) + 1

Fins ==
    /\ stdineof \in BOOLEAN /\ fins \in 0..1
    /\ npc = "stdin" /\ "stdin" \in ready => stdineof = FALSE
    /\ fins = 1 => stdineof = TRUE /\ tooptr = toiptr
    /\ stdineof = TRUE /\ tooptr = toiptr => fins = 1

NonbInv == NonbTypes /\ Bytes /\ Fins

(* How str_cli comes to its normal return: it has read all of stdin, and   *)
(* the server has closed and left nothing on the way.                      *)
Ends ==
    /\ stdineof = TRUE => nin = NBytes
    /\ npc \in {"stdin", "sockin"} /\ "sockin" \in ready => s2c # <<>> \/ srvclosed
    /\ npc = "return" => stdineof = TRUE /\ srvclosed /\ s2c = <<>>

(* A stretch of the input and the next one make a longer one.              *)
LEMMA Joined ==
    ASSUME NEW s \in Seq(Nat), NEW t \in Seq(Nat),
           \A k \in 1..Len(s) : s[k] = k, \A k \in 1..Len(t) : t[k] = Len(s) + k
    PROVE  /\ s \o t \in Seq(Nat) /\ Len(s \o t) = Len(s) + Len(t)
           /\ \A k \in 1..Len(s \o t) : (s \o t)[k] = k
OBVIOUS

(* The bytes of the buffer that are still to be written.                   *)
LEMMA TheUnwritten ==
    ASSUME NEW buf, NEW o \in Nat, NEW i \in Nat, o <= i, \A k \in o..i - 1 : buf[k] \in Nat
    PROVE  /\ Unwritten(buf, o, i) \in Seq(Nat) /\ Len(Unwritten(buf, o, i)) = i - o
           /\ \A k \in 1..i - o : Unwritten(buf, o, i)[k] = buf[o + k - 1]
<1>1. i - o \in Nat /\ \A k \in 1..i - o : o + k - 1 \in o..i - 1
  OBVIOUS
<1> QED
  BY <1>1 DEF Unwritten

(* They are a stretch of the input.                                        *)
LEMMA TheBytes ==
    ASSUME NEW buf, NEW o \in Nat, NEW i \in Nat, o <= i, NEW from \in Nat, NEW u \in Seq(Nat), Len(u) = i - o,
           \A k \in 1..i - o : u[k] = buf[o + k - 1],
           \A k \in o..i - 1 : buf[k] = from + (k - o) + 1
    PROVE  \A k \in 1..Len(u) : u[k] = from + k
<1> SUFFICES ASSUME NEW k \in 1..Len(u) PROVE u[k] = from + k
  BY Zenon
<1>1. o + k - 1 \in o..i - 1 /\ (o + k - 1) - o + 1 = k
  OBVIOUS
<1> QED
  BY <1>1

(* A sequence in two parts.                                                *)
LEMMA Halves ==
    ASSUME NEW s \in Seq(Nat), NEW n \in 1..Len(s)
    PROVE  /\ SubSeq(s, 1, n) \in Seq(Nat) /\ Len(SubSeq(s, 1, n)) = n
           /\ \A k \in 1..n : SubSeq(s, 1, n)[k] = s[k]
           /\ SubSeq(s, n + 1, Len(s)) \in Seq(Nat) /\ Len(SubSeq(s, n + 1, Len(s))) = Len(s) - n
           /\ \A k \in 1..Len(s) - n : SubSeq(s, n + 1, Len(s))[k] = s[n + k]
<1>1. SubSeq(s, 1, n) \in Seq(Nat) /\ Len(SubSeq(s, 1, n)) = n
  OBVIOUS
<1>2. SubSeq(s, n + 1, Len(s)) \in Seq(Nat)
  OBVIOUS
<1>3. Len(SubSeq(s, n + 1, Len(s))) = Len(s) - n
  OBVIOUS
<1>4. \A k \in 1..n : SubSeq(s, 1, n)[k] = s[k]
  OBVIOUS
<1>5. \A k \in 1..Len(s) - n : SubSeq(s, n + 1, Len(s))[k] = s[n + k]
  OBVIOUS
<1> QED
  BY <1>1, <1>2, <1>3, <1>4, <1>5, Zenon

(* Two sequences joined.                                                   *)
LEMMA Concatenated ==
    ASSUME NEW s \in Seq(Nat), NEW t \in Seq(Nat)
    PROVE  /\ s \o t \in Seq(Nat) /\ Len(s \o t) = Len(s) + Len(t)
           /\ \A k \in 1..Len(s) : (s \o t)[k] = s[k]
           /\ \A k \in Len(s) + 1..Len(s) + Len(t) : (s \o t)[k] = t[k - Len(s)]
OBVIOUS

(* What the invariant says of the output.                                  *)
LEMMA NonbBounds == NonbInv /\ Ends => NonbSafe
<1> SUFFICES ASSUME NonbInv, Ends PROVE NonbSafe
  BY Zenon
<1>0. NonbTypes /\ Bytes /\ Fins /\ NBytes \in Nat /\ MAXLINE \in Nat
  BY NonbAssumption, Zenon DEF NonbInv
<1>1. NonbTypeOK
  BY <1>0, Zenon DEF NonbTypes, NonbTypeOK, Fins
<1>2. FinAfterData
  <2>1. fins > 0 <=> fins = 1
    BY <1>0 DEF Fins
  <2>2. stdineof <=> stdineof = TRUE
    BY <1>0, Zenon DEF Fins
  <2> QED
    BY <1>0, <2>1, <2>2, Zenon DEF Fins, FinAfterData
<1>3. BytesConserved
  <2> DEFINE fr == Unwritten(frbuf, froptr, friptr)
             to == Unwritten(tobuf, tooptr, toiptr)
             s1 == out \o fr
             s2 == s1 \o s2c
             s3 == s2 \o c2s
             s4 == s3 \o to
  <2>1. /\ friptr \in Nat /\ froptr \in Nat /\ froptr <= friptr /\ toiptr \in Nat /\ tooptr \in Nat /\ tooptr <= toiptr
        /\ friptr <= MAXLINE /\ toiptr <= MAXLINE /\ FrFrom \in Nat /\ S2cFrom \in Nat /\ C2sFrom \in Nat /\ ToFrom \in Nat
    BY <1>0 DEF NonbTypes, FrFrom, S2cFrom, C2sFrom, ToFrom
  <2>2. fr \in Seq(Nat) /\ Len(fr) = friptr - froptr /\ \A k \in 1..Len(fr) : fr[k] = FrFrom + k
    <3>1. frbuf \in [0..MAXLINE - 1 -> Nat] /\ \A k \in froptr..friptr - 1 : frbuf[k] = FrFrom + (k - froptr) + 1
      BY <1>0, Zenon DEF NonbTypes, Bytes
    <3>2. MAXLINE \in Nat /\ froptr \in Nat /\ friptr \in Nat /\ froptr <= friptr /\ friptr <= MAXLINE /\ FrFrom \in Nat
      BY <1>0, <2>1, Zenon
    <3>3. \A k \in froptr..friptr - 1 : frbuf[k] \in Nat
      BY <3>1, <3>2
    <3>4. fr \in Seq(Nat) /\ Len(fr) = friptr - froptr /\ \A k \in 1..friptr - froptr : fr[k] = frbuf[froptr + k - 1]
      BY <3>2, <3>3, TheUnwritten, ZenonT(60)
    <3> HIDE DEF fr
    <3> QED
      BY <3>1, <3>2, <3>4, TheBytes
  <2>3. to \in Seq(Nat) /\ Len(to) = toiptr - tooptr /\ \A k \in 1..Len(to) : to[k] = ToFrom + k
    <3>1. tobuf \in [0..MAXLINE - 1 -> Nat] /\ \A k \in tooptr..toiptr - 1 : tobuf[k] = ToFrom + (k - tooptr) + 1
      BY <1>0, Zenon DEF NonbTypes, Bytes
    <3>2. MAXLINE \in Nat /\ tooptr \in Nat /\ toiptr \in Nat /\ tooptr <= toiptr /\ toiptr <= MAXLINE /\ ToFrom \in Nat
      BY <1>0, <2>1, Zenon
    <3>3. \A k \in tooptr..toiptr - 1 : tobuf[k] \in Nat
      BY <3>1, <3>2
    <3>4. to \in Seq(Nat) /\ Len(to) = toiptr - tooptr /\ \A k \in 1..toiptr - tooptr : to[k] = tobuf[tooptr + k - 1]
      BY <3>2, <3>3, TheUnwritten, ZenonT(60)
    <3> HIDE DEF to
    <3> QED
      BY <3>1, <3>2, <3>4, TheBytes
  <2> HIDE DEF fr, to
  <2>4. s1 \in Seq(Nat) /\ Len(s1) = S2cFrom /\ \A k \in 1..Len(s1) : s1[k] = k
    <3>1. out \in Seq(Nat) /\ (\A k \in 1..Len(out) : out[k] = k) /\ \A k \in 1..Len(fr) : fr[k] = Len(out) + k
      BY <1>0, <2>2, Zenon DEF NonbTypes, Bytes, FrFrom
    <3> QED
      BY <2>2, <3>1, Joined, Zenon DEF FrFrom, S2cFrom
  <2> HIDE DEF s1
  <2>5. s2 \in Seq(Nat) /\ Len(s2) = C2sFrom /\ \A k \in 1..Len(s2) : s2[k] = k
    BY <1>0, <2>4, Joined, Zenon DEF NonbTypes, Bytes, C2sFrom
  <2> HIDE DEF s2
  <2>6. s3 \in Seq(Nat) /\ Len(s3) = ToFrom /\ \A k \in 1..Len(s3) : s3[k] = k
    BY <1>0, <2>5, Joined, Zenon DEF NonbTypes, Bytes, ToFrom
  <2> HIDE DEF s3
  <2>7. s4 \in Seq(Nat) /\ Len(s4) = nin /\ \A k \in 1..Len(s4) : s4[k] = k
    <3>1. Len(s3) + Len(to) = nin
      BY <1>0, <2>3, <2>6, Zenon DEF Bytes
    <3>2. \A k \in 1..Len(to) : to[k] = Len(s3) + k
      BY <2>3, <2>6, Zenon
    <3> QED
      BY <2>3, <2>6, <3>1, <3>2, Joined, Zenon
  <2> HIDE DEF s4
  <2>8. s4 = [k \in 1..nin |-> k]
    BY <2>7
  <2> QED
    BY <2>8, Zenon DEF BytesConserved, s4, s3, s2, s1, fr, to
<1>4. OutputIsPrefix
  BY <1>0, Zenon DEF Bytes, OutputIsPrefix
<1>5. UnprintedAtReturn
  <2> SUFFICES ASSUME npc = "return" PROVE NBytes - Len(out) = (friptr - froptr) + Len(c2s) + (toiptr - tooptr)
    BY Zenon DEF UnprintedAtReturn
  <2>1. nin = NBytes /\ s2c = <<>>
    BY Zenon DEF Ends
  <2> QED
    BY <1>0, <2>1 DEF NonbTypes, Bytes, FrFrom, S2cFrom, C2sFrom, ToFrom
<1> QED
  BY <1>1, <1>2, <1>3, <1>4, <1>5, Zenon DEF NonbSafe

(* It holds at the start.                                                  *)
LEMMA NonbInitially == NonbInit => NonbInv
<1> SUFFICES ASSUME NonbInit PROVE NonbInv
  BY Zenon
<1>1. NonbTypes
  BY NonbAssumption DEF NonbInit, NonbTypes
<1>2. Bytes
  BY NonbAssumption DEF NonbInit, Bytes, FrFrom, S2cFrom, C2sFrom, ToFrom
<1>3. Fins
  <2>1. stdineof = FALSE /\ stdineof # TRUE /\ stdineof \in BOOLEAN
    BY Zenon DEF NonbInit
  <2> QED
    BY <2>1 DEF NonbInit, Fins
<1> QED
  BY <1>1, <1>2, <1>3, Zenon DEF NonbInv

(* What read leaves in the buffer.                                         *)
LEMMA Stored ==
    ASSUME NEW N \in Nat, NEW buf \in [0..N - 1 -> Nat], NEW p \in Nat, NEW seq \in Seq(Nat), p + Len(seq) <= N
    PROVE  /\ Store(buf, p, seq) \in [0..N - 1 -> Nat]
           /\ \A k \in 0..p - 1 : Store(buf, p, seq)[k] = buf[k]
           /\ \A k \in p..p + Len(seq) - 1 : Store(buf, p, seq)[k] = seq[k - p + 1]
<1>1. Len(seq) \in Nat /\ \A k \in p..p + Len(seq) - 1 : k - p + 1 \in 1..Len(seq) /\ seq[k - p + 1] \in Nat
  OBVIOUS
<1>2. DOMAIN buf = 0..N - 1 /\ \A k \in 0..N - 1 : buf[k] \in Nat
  BY Zenon
<1>3. Store(buf, p, seq) \in [0..N - 1 -> Nat]
  BY <1>1, <1>2, Zenon DEF Store
<1>4. \A k \in 0..p - 1 : k \in 0..N - 1 /\ k \notin p..p + Len(seq) - 1
  BY <1>1
<1>5. \A k \in p..p + Len(seq) - 1 : k \in 0..N - 1
  BY <1>1
<1> QED
  BY <1>2, <1>3, <1>4, <1>5, Zenon DEF Store

(* Every step keeps the invariant.                                         *)
LEMMA NonbInductive == NonbInv /\ [NonbNext]_nonbvars => NonbInv'
<1> SUFFICES ASSUME NonbInv, [NonbNext]_nonbvars PROVE NonbInv'
  BY Zenon
<1>0. /\ NonbTypes /\ Bytes /\ Fins /\ NBytes \in Nat /\ MAXLINE \in Nat /\ SockRoom \in Nat
      /\ stdineof \in BOOLEAN /\ fins \in 0..1
  BY NonbAssumption, Zenon DEF NonbInv, Fins
<1>a. /\ friptr \in Nat /\ froptr \in Nat /\ froptr <= friptr /\ toiptr \in Nat /\ tooptr \in Nat /\ tooptr <= toiptr
      /\ friptr <= MAXLINE /\ toiptr <= MAXLINE /\ FrFrom \in Nat /\ S2cFrom \in Nat /\ C2sFrom \in Nat /\ ToFrom \in Nat
      /\ Len(out) \in Nat /\ Len(s2c) \in Nat /\ Len(c2s) \in Nat /\ nin \in Nat
  BY <1>0 DEF NonbTypes, FrFrom, S2cFrom, C2sFrom, ToFrom
<1>b. nin = ToFrom + (toiptr - tooptr)
  BY <1>0, Zenon DEF Bytes
(* A step that moves no byte.                                              *)
<1>1. ASSUME UNCHANGED <<nin, tobuf, toiptr, tooptr, frbuf, friptr, froptr, c2s, s2c, out>>,
             npc' \in {"select", "stdin", "sockin", "stdout", "sockout", "return", "err_quit"}
      PROVE  NonbTypes' /\ Bytes'
  BY <1>0, <1>1, Zenon DEF NonbTypes, Bytes, FrFrom, S2cFrom, C2sFrom, ToFrom
(* A step of which the FIN does not depend.                                *)
<1>2. ASSUME UNCHANGED <<stdineof, fins, tooptr, toiptr>>, npc' # "stdin"
      PROVE  Fins'
  BY <1>0, <1>2, Zenon DEF Fins
<1>3. CASE Select
  <2>1. npc' = "stdin" /\ UNCHANGED <<nin, stdineof, tobuf, toiptr, tooptr, frbuf, friptr, froptr, c2s, s2c, fins, srvclosed, out>>
    BY <1>3, Zenon DEF Select
  <2>2. NonbTypes' /\ Bytes'
    BY <1>1, <2>1, Zenon
  <2>3. "stdin" \in ready' => stdineof = FALSE
    <3>1. "stdin" \in ready' => "stdin" \in wanted
      BY <1>3, Zenon DEF Select
    <3>2. "stdin" \in wanted => ~stdineof
      BY Zenon DEF wanted
    <3> QED
      BY <1>0, <3>1, <3>2, Zenon
  <2>4. Fins'
    BY <1>0, <2>1, <2>3, Zenon DEF Fins
  <2> QED
    BY <2>2, <2>4, Zenon DEF NonbInv
<1>4. CASE read_stdin
  <2>0. npc = "stdin" /\ npc' = "sockin" /\ UNCHANGED <<tooptr, frbuf, friptr, froptr, c2s, s2c, srvclosed, out>>
    BY <1>4, Zenon DEF read_stdin
  <2>1. CASE UNCHANGED <<ready, nin, stdineof, tobuf, toiptr, fins>>
    BY <1>1, <1>2, <2>0, <2>1, Zenon DEF NonbInv
  <2>2. CASE /\ "stdin" \in ready /\ nin = NBytes /\ stdineof' = TRUE
             /\ fins' = (IF tooptr = toiptr THEN fins + 1 ELSE fins) /\ UNCHANGED <<ready, nin, tobuf, toiptr>>
    <3>1. NonbTypes' /\ Bytes'
      BY <1>1, <2>0, <2>2, Zenon
    <3>2. stdineof = FALSE /\ stdineof # TRUE
      BY <1>0, <2>0, <2>2, Zenon DEF Fins
    <3>3. fins = 0
      BY <1>0, <3>2 DEF Fins
    <3>4. fins' \in 0..1 /\ (fins' = 1 <=> tooptr' = toiptr')
      BY <2>0, <2>2, <3>3
    <3>5. Fins'
      BY <2>0, <2>2, <3>4, Zenon DEF Fins
    <3> QED
      BY <3>1, <3>5 DEF NonbInv
  <2>3. CASE /\ "stdin" \in ready
             /\ \E n \in 1..NBytes - nin :
                   /\ n <= space(toiptr)
                   /\ tobuf' = Store(tobuf, toiptr, [k \in 1..n |-> nin + k])
                   /\ toiptr' = toiptr + n
                   /\ nin' = nin + n
             /\ UNCHANGED <<stdineof, fins>>
    <3>1. PICK n \in 1..NBytes - nin :
             n <= MAXLINE - toiptr /\ tobuf' = Store(tobuf, toiptr, [k \in 1..n |-> nin + k]) /\ toiptr' = toiptr + n /\ nin' = nin + n
      BY <2>3, Zenon DEF space
    <3> DEFINE seq == [k \in 1..n |-> nin + k]
    <3>2. n \in Nat /\ seq \in Seq(Nat) /\ Len(seq) = n /\ toiptr + Len(seq) <= MAXLINE
      BY <1>0, <1>a, <3>1
    <3>3. /\ tobuf' \in [0..MAXLINE - 1 -> Nat]
          /\ \A k \in 0..toiptr - 1 : tobuf'[k] = tobuf[k]
          /\ \A k \in toiptr..toiptr + n - 1 : tobuf'[k] = seq[k - toiptr + 1]
      <4>1. tobuf \in [0..MAXLINE - 1 -> Nat] /\ tobuf' = Store(tobuf, toiptr, seq)
        BY <1>0, <3>1, Zenon DEF NonbTypes
      <4> HIDE DEF seq
      <4>2. MAXLINE \in Nat /\ toiptr \in Nat /\ seq \in Seq(Nat) /\ toiptr + Len(seq) <= MAXLINE
        BY <1>0, <1>a, <3>2, Zenon
      <4>3. /\ tobuf' \in [0..MAXLINE - 1 -> Nat]
            /\ \A k \in 0..toiptr - 1 : tobuf'[k] = tobuf[k]
            /\ \A k \in toiptr..toiptr + Len(seq) - 1 : tobuf'[k] = seq[k - toiptr + 1]
        BY ONLY <4>1, <4>2, Stored, ZenonT(60)
      <4> QED
        BY <3>2, <4>3, Zenon
    <3>4. FrFrom' = FrFrom /\ S2cFrom' = S2cFrom /\ C2sFrom' = C2sFrom /\ ToFrom' = ToFrom
      BY <2>0, Zenon DEF FrFrom, S2cFrom, C2sFrom, ToFrom
    <3>5. ASSUME NEW k \in tooptr..toiptr + n - 1 PROVE tobuf'[k] = ToFrom + (k - tooptr) + 1
      <4>1. CASE k < toiptr
        <5>1. k \in 0..toiptr - 1 /\ k \in tooptr..toiptr - 1
          BY <1>a, <3>2, <4>1
        <5> QED
          BY <1>0, <3>3, <5>1, Zenon DEF Bytes
      <4>2. CASE k >= toiptr
        <5>1. k \in toiptr..toiptr + n - 1 /\ k - toiptr + 1 \in 1..n /\ seq[k - toiptr + 1] = nin + (k - toiptr + 1)
          BY <1>a, <3>2, <4>2
        <5>2. tobuf'[k] = nin + (k - toiptr + 1)
          BY <3>3, <5>1, Zenon
        <5> QED
          BY <1>a, <1>b, <3>2, <5>1, <5>2
      <4> QED
        BY <1>a, <3>2, <4>1, <4>2
    <3>6. NonbTypes'
      <4>1. toiptr' \in 0..MAXLINE /\ tooptr' \in 0..toiptr' /\ nin' \in 0..NBytes
        BY <1>0, <1>a, <2>0, <3>1, <3>2
      <4> QED
        BY <1>0, <2>0, <3>3, <4>1, Zenon DEF NonbTypes
    <3>7. Bytes'
      <4>1. nin' = ToFrom' + (toiptr' - tooptr')
        BY <1>a, <1>b, <2>0, <3>1, <3>2, <3>4
      <4>2. \A k \in tooptr'..toiptr' - 1 : tobuf'[k] = ToFrom' + (k - tooptr') + 1
        <5>1. tooptr' = tooptr /\ toiptr' = toiptr + n /\ ToFrom' = ToFrom
          BY <2>0, <3>1, <3>4, Zenon
        <5> SUFFICES ASSUME NEW k, k \in tooptr'..toiptr' - 1 PROVE tobuf'[k] = ToFrom' + (k - tooptr') + 1
          BY Zenon
        <5>2. k \in tooptr..toiptr + n - 1
          <6>1. tooptr'..toiptr' - 1 = tooptr..toiptr + n - 1
            BY <1>a, <3>2, <5>1
          <6> QED
            BY <6>1, Zenon
        <5>3. tobuf'[k] = ToFrom + (k - tooptr) + 1
          BY <3>5, <5>2, Zenon
        <5> QED
          BY <5>1, <5>3, Zenon
      <4>3. /\ \A k \in 1..Len(out') : out'[k] = k
            /\ \A k \in froptr'..friptr' - 1 : frbuf'[k] = FrFrom' + (k - froptr') + 1
            /\ \A k \in 1..Len(s2c') : s2c'[k] = S2cFrom' + k
            /\ \A k \in 1..Len(c2s') : c2s'[k] = C2sFrom' + k
        BY <1>0, <2>0, <3>4, Zenon DEF Bytes
      <4> QED
        BY <4>1, <4>2, <4>3, Zenon DEF Bytes
    <3>8. stdineof = FALSE /\ stdineof # TRUE
      BY <1>0, <2>0, <2>3, Zenon DEF Fins
    <3>9. fins # 1
      BY <1>0, <3>8, Zenon DEF Fins
    <3>10. Fins'
      BY <1>0, <2>0, <2>3, <3>8, <3>9, Zenon DEF Fins
    <3> QED
      BY <3>6, <3>7, <3>10, Zenon DEF NonbInv
  <2> QED
    BY <1>4, <2>1, <2>2, <2>3, Zenon DEF read_stdin
<1>5. CASE read_socket
  <2>0. npc' \in {"stdout", "return", "err_quit"} /\ UNCHANGED <<nin, stdineof, tobuf, toiptr, tooptr, froptr, c2s, fins, srvclosed, out>>
    BY <1>5, Zenon DEF read_socket
  <2>f. Fins'
    BY <1>2, <2>0, Zenon
  <2>1. CASE UNCHANGED <<ready, frbuf, friptr, s2c>>
    BY <1>1, <2>0, <2>1, <2>f, Zenon DEF NonbInv
  <2>2. CASE \E n \in 1..Len(s2c) :
                /\ n <= space(friptr)
                /\ frbuf' = Store(frbuf, friptr, SubSeq(s2c, 1, n))
                /\ friptr' = friptr + n
                /\ s2c' = SubSeq(s2c, n + 1, Len(s2c))
    <3>1. PICK n \in 1..Len(s2c) :
                /\ n <= MAXLINE - friptr /\ frbuf' = Store(frbuf, friptr, SubSeq(s2c, 1, n))
                /\ friptr' = friptr + n /\ s2c' = SubSeq(s2c, n + 1, Len(s2c))
      BY <2>2, Zenon DEF space
    <3> DEFINE seq == SubSeq(s2c, 1, n)
    <3>2. s2c \in Seq(Nat) /\ c2s \in Seq(Nat) /\ out \in Seq(Nat)
      BY <1>0, Zenon DEF NonbTypes
    <3>3. n \in Nat /\ n <= Len(s2c) /\ seq \in Seq(Nat) /\ Len(seq) = n /\ friptr + Len(seq) <= MAXLINE
          /\ \A k \in 1..n : seq[k] = s2c[k]
      <4>1. seq \in Seq(Nat) /\ Len(seq) = n /\ \A k \in 1..n : seq[k] = s2c[k]
        BY <3>2, Halves, Zenon
      <4>2. n \in Nat /\ n <= Len(s2c) /\ friptr + n <= MAXLINE
        BY <1>0, <1>a, <3>1
      <4> QED
        BY <4>1, <4>2, Zenon
    <3>4. s2c' \in Seq(Nat) /\ Len(s2c') = Len(s2c) - n /\ \A k \in 1..Len(s2c) - n : s2c'[k] = s2c[n + k]
      BY <3>1, <3>2, Halves, Zenon
    <3>5. /\ frbuf' \in [0..MAXLINE - 1 -> Nat]
          /\ \A k \in 0..friptr - 1 : frbuf'[k] = frbuf[k]
          /\ \A k \in friptr..friptr + n - 1 : frbuf'[k] = seq[k - friptr + 1]
      <4>1. frbuf \in [0..MAXLINE - 1 -> Nat] /\ frbuf' = Store(frbuf, friptr, seq)
        BY <1>0, <3>1, Zenon DEF NonbTypes
      <4> HIDE DEF seq
      <4>2. MAXLINE \in Nat /\ friptr \in Nat /\ seq \in Seq(Nat) /\ friptr + Len(seq) <= MAXLINE
        BY <1>0, <1>a, <3>3, Zenon
      <4>3. /\ frbuf' \in [0..MAXLINE - 1 -> Nat]
            /\ \A k \in 0..friptr - 1 : frbuf'[k] = frbuf[k]
            /\ \A k \in friptr..friptr + Len(seq) - 1 : frbuf'[k] = seq[k - friptr + 1]
        BY ONLY <4>1, <4>2, Stored, ZenonT(60)
      <4> QED
        BY <3>3, <4>3, Zenon
    <3> HIDE DEF seq
    <3>6. FrFrom' = FrFrom /\ S2cFrom' = S2cFrom + n /\ C2sFrom' = C2sFrom /\ ToFrom' = ToFrom
      <4>1. FrFrom' = FrFrom
        BY <2>0, Zenon DEF FrFrom
      <4>2. S2cFrom' = S2cFrom + n
        BY <1>a, <2>0, <3>1, <3>3, <4>1 DEF S2cFrom
      <4>3. C2sFrom' = C2sFrom
        BY <1>a, <3>3, <3>4, <4>2 DEF C2sFrom
      <4> QED
        BY <2>0, <4>1, <4>2, <4>3, Zenon DEF ToFrom
    <3>7. ASSUME NEW k \in froptr..friptr + n - 1 PROVE frbuf'[k] = FrFrom + (k - froptr) + 1
      <4>1. CASE k < friptr
        <5>1. k \in 0..friptr - 1 /\ k \in froptr..friptr - 1
          BY <1>a, <3>3, <4>1
        <5> QED
          BY <1>0, <3>5, <5>1, Zenon DEF Bytes
      <4>2. CASE k >= friptr
        <5>1. k \in friptr..friptr + n - 1 /\ k - friptr + 1 \in 1..n /\ k - friptr + 1 \in 1..Len(s2c)
          BY <1>a, <3>3, <4>2
        <5>2. frbuf'[k] = S2cFrom + (k - friptr + 1)
          BY <1>0, <3>3, <3>5, <5>1 DEF Bytes
        <5> QED
          BY <1>a, <3>3, <5>1, <5>2 DEF S2cFrom
      <4> QED
        BY <1>a, <3>3, <4>1, <4>2
    <3>8. ASSUME NEW k \in 1..Len(s2c') PROVE s2c'[k] = S2cFrom' + k
      <4>0. k \in 1..Len(s2c) - n
        BY <3>4, Zenon
      <4>1. k \in 1..Len(s2c) - n /\ n + k \in 1..Len(s2c)
        BY <1>a, <3>3, <4>0
      <4>2. s2c'[k] = S2cFrom + (n + k)
        BY <1>0, <3>4, <4>1, Zenon DEF Bytes
      <4> QED
        BY <1>a, <3>3, <3>6, <4>1, <4>2
    <3>9. NonbTypes'
      <4>1. friptr' \in 0..MAXLINE /\ froptr' \in 0..friptr'
        BY <1>0, <1>a, <2>0, <3>1, <3>3
      <4> QED
        BY <1>0, <2>0, <3>4, <3>5, <4>1, Zenon DEF NonbTypes
    <3>10. Bytes'
      <4>1. nin' = ToFrom' + (toiptr' - tooptr')
        BY <1>a, <1>b, <2>0, <3>6, Zenon
      <4>2. \A k \in froptr'..friptr' - 1 : frbuf'[k] = FrFrom' + (k - froptr') + 1
        <5>1. froptr' = froptr /\ friptr' = friptr + n /\ FrFrom' = FrFrom
          BY <2>0, <3>1, <3>6, Zenon
        <5> SUFFICES ASSUME NEW k, k \in froptr'..friptr' - 1 PROVE frbuf'[k] = FrFrom' + (k - froptr') + 1
          BY Zenon
        <5>2. k \in froptr..friptr + n - 1
          <6>1. froptr'..friptr' - 1 = froptr..friptr + n - 1
            BY <1>a, <3>3, <5>1
          <6> QED
            BY <6>1, Zenon
        <5>3. frbuf'[k] = FrFrom + (k - froptr) + 1
          BY <3>7, <5>2, Zenon
        <5> QED
          BY <5>1, <5>3, Zenon
      <4>3. /\ \A k \in 1..Len(out') : out'[k] = k
            /\ \A k \in 1..Len(c2s') : c2s'[k] = C2sFrom' + k
            /\ \A k \in tooptr'..toiptr' - 1 : tobuf'[k] = ToFrom' + (k - tooptr') + 1
        BY <1>0, <2>0, <3>6, Zenon DEF Bytes
      <4> QED
        BY <3>8, <4>1, <4>2, <4>3, Zenon DEF Bytes
    <3> QED
      BY <2>f, <3>9, <3>10, Zenon DEF NonbInv
  <2> QED
    BY <1>5, <2>1, <2>2, Zenon DEF read_socket
<1>6. CASE write_stdout
  <2>1. PICK n \in 0..friptr - froptr :
          /\ out' = out \o Unwritten(frbuf, froptr, froptr + n)
          /\ froptr' = IF froptr + n = friptr THEN 0 ELSE froptr + n
          /\ friptr' = IF froptr + n = friptr THEN 0 ELSE friptr
    BY <1>6, Zenon DEF write_stdout
  <2>2. npc' = "sockout" /\ UNCHANGED <<ready, nin, stdineof, tobuf, toiptr, tooptr, frbuf, c2s, s2c, fins, srvclosed>>
    BY <1>6, Zenon DEF write_stdout
  <2>3. Fins'
    BY <1>2, <2>2, Zenon
  <2>4. n \in Nat /\ froptr + n \in Nat /\ froptr + n <= friptr /\ froptr + n <= MAXLINE
    BY <1>0, <1>a, <2>1
  <2> DEFINE w == Unwritten(frbuf, froptr, froptr + n)
  <2>5. w \in Seq(Nat) /\ Len(w) = n /\ \A k \in 1..n : w[k] = Len(out) + k
    <3>1. \A k \in froptr..(froptr + n) - 1 : frbuf[k] = FrFrom + (k - froptr) + 1
      <4> SUFFICES ASSUME NEW k \in froptr..(froptr + n) - 1 PROVE frbuf[k] = FrFrom + (k - froptr) + 1
        BY Zenon
      <4>1. k \in froptr..friptr - 1
        BY <1>a, <2>4
      <4> QED
        BY <1>0, <4>1, Zenon DEF Bytes
    <3>2. frbuf \in [0..MAXLINE - 1 -> Nat] /\ froptr <= froptr + n /\ (froptr + n) - froptr = n
      BY <1>0, <1>a, <2>4 DEF NonbTypes
    <3>3. QED
      <4> DEFINE e == froptr + n
      <4>w. e \in Nat /\ froptr <= e /\ w = Unwritten(frbuf, froptr, e) /\ e - froptr = n
            /\ \A k \in froptr..e - 1 : frbuf[k] = FrFrom + (k - froptr) + 1
        BY <2>4, <3>1, <3>2, Zenon DEF w
      <4> HIDE DEF w, e
      <4>1. \A k \in froptr..e - 1 : frbuf[k] \in Nat
        BY <1>a, <4>w
      <4>f. froptr \in Nat /\ e \in Nat /\ froptr <= e /\ FrFrom \in Nat
        BY <1>a, <4>w, Zenon
      <4>u. /\ Unwritten(frbuf, froptr, e) \in Seq(Nat) /\ Len(Unwritten(frbuf, froptr, e)) = e - froptr
            /\ \A k \in 1..e - froptr : Unwritten(frbuf, froptr, e)[k] = frbuf[froptr + k - 1]
        BY <4>f, <4>1, TheUnwritten, ZenonT(60)
      <4>2. w \in Seq(Nat) /\ Len(w) = e - froptr /\ \A k \in 1..e - froptr : w[k] = frbuf[froptr + k - 1]
        BY <4>u, <4>w, Zenon
      <4>3. \A k \in 1..Len(w) : w[k] = FrFrom + k
        <5> SUFFICES ASSUME NEW k \in 1..e - froptr PROVE w[k] = FrFrom + k
          BY <4>2, Zenon
        <5>1. froptr + k - 1 \in froptr..e - 1 /\ FrFrom + ((froptr + k - 1) - froptr) + 1 = FrFrom + k
          BY <4>f
        <5>2. frbuf[froptr + k - 1] = FrFrom + ((froptr + k - 1) - froptr) + 1
          BY <4>w, <5>1, Zenon
        <5> QED
          BY <4>2, <5>1, <5>2, Zenon
      <4> QED
        BY <4>w, <4>2, <4>3, Zenon DEF FrFrom
  <2> HIDE DEF w
  <2>6. out' = out \o w
    BY <2>1, Zenon DEF w
  <2>7. out' \in Seq(Nat) /\ Len(out') = Len(out) + n /\ \A k \in 1..Len(out') : out'[k] = k
    <3>1. out \in Seq(Nat) /\ \A k \in 1..Len(out) : out[k] = k
      BY <1>0, Zenon DEF NonbTypes, Bytes
    <3>2. /\ out \o w \in Seq(Nat) /\ Len(out \o w) = Len(out) + Len(w)
          /\ \A k \in 1..Len(out \o w) : (out \o w)[k] = k
      BY <2>5, <3>1, Joined, Zenon
    <3> QED
      BY <2>5, <2>6, <3>2, Zenon
  <2>8. /\ friptr' - froptr' = (friptr - froptr) - n /\ friptr' \in 0..MAXLINE /\ froptr' \in 0..friptr'
        /\ friptr' # froptr' => friptr' = friptr /\ froptr' = froptr + n
    BY <1>0, <1>a, <2>1, <2>4
  <2>9. FrFrom' = FrFrom + n /\ S2cFrom' = S2cFrom /\ C2sFrom' = C2sFrom /\ ToFrom' = ToFrom
    <3>1. FrFrom' = FrFrom + n
      BY <2>7, Zenon DEF FrFrom
    <3>2. S2cFrom' = S2cFrom
      <4>1. S2cFrom' = FrFrom' + (friptr' - froptr')
        BY Zenon DEF S2cFrom
      <4>2. S2cFrom' = (FrFrom + n) + ((friptr - froptr) - n)
        BY <2>8, <3>1, <4>1, Zenon
      <4> QED
        BY <1>a, <2>4, <4>2 DEF S2cFrom
    <3> QED
      BY <2>2, <3>1, <3>2, Zenon DEF C2sFrom, ToFrom
  <2>10. ASSUME NEW k, k \in froptr'..friptr' - 1 PROVE frbuf'[k] = FrFrom' + (k - froptr') + 1
    <3>0. friptr' # froptr' /\ k \in Int /\ froptr' <= k /\ k < friptr'
      <4>1. friptr' \in Int /\ froptr' \in Int
        BY <1>0, <2>8
      <4> QED
        BY <2>10, <4>1, Within, Zenon
    <3>1. friptr' = friptr /\ froptr' = froptr + n
      BY <2>8, <3>0, Zenon
    <3>2. k \in froptr..friptr - 1 /\ k \in Nat
      BY <1>a, <2>4, <3>0, <3>1
    <3>3. frbuf'[k] = FrFrom + (k - froptr) + 1
      BY <1>0, <2>2, <3>2, Zenon DEF Bytes
    <3> QED
      BY <1>a, <2>4, <2>9, <3>1, <3>2, <3>3
  <2>11. NonbTypes'
    BY <1>0, <2>2, <2>7, <2>8, Zenon DEF NonbTypes
  <2>12. Bytes'
    BY <1>0, <2>2, <2>7, <2>9, <2>10, Zenon DEF Bytes
  <2> QED
    BY <2>3, <2>11, <2>12, Zenon DEF NonbInv
<1>7. CASE write_socket
  <2> DEFINE n == nwritten
  <2>1. /\ npc' = "select" /\ c2s' = c2s \o Unwritten(tobuf, tooptr, tooptr + n)
        /\ toiptr' = (IF tooptr + n = toiptr THEN 0 ELSE toiptr) /\ tooptr' = (IF tooptr + n = toiptr THEN 0 ELSE tooptr + n)
        /\ fins' = (IF fin_after_write THEN fins + 1 ELSE fins)
        /\ UNCHANGED <<ready, nin, stdineof, tobuf, frbuf, friptr, froptr, s2c, srvclosed, out>>
    BY <1>7, Zenon DEF write_socket
  <2>2. n \in Nat /\ n <= toiptr - tooptr /\ n <= SockRoom - Len(c2s)
    <3>1. toiptr - tooptr \in Nat /\ SockRoom - Len(c2s) \in Nat
      BY <1>0, <1>a DEF NonbTypes
    <3> QED
      BY <3>1, MinOfTwo DEF nwritten
  <2>3. fin_after_write <=> n > 0 /\ tooptr + n = toiptr /\ stdineof
    BY Zenon DEF fin_after_write
  <2> HIDE DEF n
  <2>4. tooptr + n \in Nat /\ tooptr + n <= toiptr /\ tooptr + n <= MAXLINE
    BY <1>0, <1>a, <2>2
  <2> DEFINE w == Unwritten(tobuf, tooptr, tooptr + n)
  <2>5. w \in Seq(Nat) /\ Len(w) = n /\ \A k \in 1..n : w[k] = ToFrom + k
    <3>1. \A k \in tooptr..(tooptr + n) - 1 : tobuf[k] = ToFrom + (k - tooptr) + 1
      <4> SUFFICES ASSUME NEW k \in tooptr..(tooptr + n) - 1 PROVE tobuf[k] = ToFrom + (k - tooptr) + 1
        BY Zenon
      <4>1. k \in tooptr..toiptr - 1
        BY <1>a, <2>2, <2>4
      <4> QED
        BY <1>0, <4>1, Zenon DEF Bytes
    <3>2. tobuf \in [0..MAXLINE - 1 -> Nat] /\ tooptr <= tooptr + n /\ (tooptr + n) - tooptr = n
      BY <1>0, <1>a, <2>2 DEF NonbTypes
    <3>3. QED
      <4> DEFINE e == tooptr + n
      <4>w. e \in Nat /\ tooptr <= e /\ w = Unwritten(tobuf, tooptr, e) /\ e - tooptr = n
            /\ \A k \in tooptr..e - 1 : tobuf[k] = ToFrom + (k - tooptr) + 1
        BY <2>4, <3>1, <3>2, Zenon DEF w
      <4> HIDE DEF w, e
      <4>1. \A k \in tooptr..e - 1 : tobuf[k] \in Nat
        BY <1>a, <4>w
      <4>f. tooptr \in Nat /\ e \in Nat /\ tooptr <= e /\ ToFrom \in Nat
        BY <1>a, <4>w, Zenon
      <4>u. /\ Unwritten(tobuf, tooptr, e) \in Seq(Nat) /\ Len(Unwritten(tobuf, tooptr, e)) = e - tooptr
            /\ \A k \in 1..e - tooptr : Unwritten(tobuf, tooptr, e)[k] = tobuf[tooptr + k - 1]
        BY <4>f, <4>1, TheUnwritten, ZenonT(60)
      <4>2. w \in Seq(Nat) /\ Len(w) = e - tooptr /\ \A k \in 1..e - tooptr : w[k] = tobuf[tooptr + k - 1]
        BY <4>u, <4>w, Zenon
      <4>3. \A k \in 1..Len(w) : w[k] = ToFrom + k
        <5> SUFFICES ASSUME NEW k \in 1..e - tooptr PROVE w[k] = ToFrom + k
          BY <4>2, Zenon
        <5>1. tooptr + k - 1 \in tooptr..e - 1 /\ ToFrom + ((tooptr + k - 1) - tooptr) + 1 = ToFrom + k
          BY <4>f
        <5>2. tobuf[tooptr + k - 1] = ToFrom + ((tooptr + k - 1) - tooptr) + 1
          BY <4>w, <5>1, Zenon
        <5> QED
          BY <4>2, <5>1, <5>2, Zenon
      <4> QED
        BY <4>w, <4>2, <4>3, Zenon DEF FrFrom
  <2> HIDE DEF w
  <2>6. c2s' = c2s \o w
    BY <2>1, Zenon DEF w
  <2>7. c2s' \in Seq(Nat) /\ Len(c2s') = Len(c2s) + n /\ \A k \in 1..Len(c2s') : c2s'[k] = C2sFrom + k
    <3>1. c2s \in Seq(Nat) /\ \A k \in 1..Len(c2s) : c2s[k] = C2sFrom + k
      BY <1>0, Zenon DEF NonbTypes, Bytes
    <3>2. /\ c2s' \in Seq(Nat) /\ Len(c2s') = Len(c2s) + n
          /\ \A k \in 1..Len(c2s) : c2s'[k] = c2s[k]
          /\ \A k \in Len(c2s) + 1..Len(c2s) + n : c2s'[k] = w[k - Len(c2s)]
      BY <2>5, <2>6, <3>1, Concatenated, Zenon
    <3>3. ASSUME NEW k \in 1..Len(c2s') PROVE c2s'[k] = C2sFrom + k
      <4>1. CASE k <= Len(c2s)
        BY <1>a, <3>1, <3>2, <4>1
      <4>2. CASE k > Len(c2s)
        <5>1. k \in Len(c2s) + 1..Len(c2s) + n /\ k - Len(c2s) \in 1..n
          BY <1>a, <2>2, <3>2, <4>2
        <5>2. c2s'[k] = ToFrom + (k - Len(c2s))
          BY <2>5, <3>2, <5>1, Zenon
        <5> QED
          BY <1>a, <5>1, <5>2 DEF ToFrom
      <4> QED
        BY <1>a, <3>2, <4>1, <4>2
    <3> QED
      BY <3>2, <3>3, Zenon
  <2>8. /\ toiptr' - tooptr' = (toiptr - tooptr) - n /\ toiptr' \in 0..MAXLINE /\ tooptr' \in 0..toiptr'
        /\ toiptr' # tooptr' => toiptr' = toiptr /\ tooptr' = tooptr + n
    BY <1>0, <1>a, <2>1, <2>2, <2>4
  <2>9. FrFrom' = FrFrom /\ S2cFrom' = S2cFrom /\ C2sFrom' = C2sFrom /\ ToFrom' = ToFrom + n
    <3>1. FrFrom' = FrFrom /\ S2cFrom' = S2cFrom /\ C2sFrom' = C2sFrom
      BY <2>1, Zenon DEF FrFrom, S2cFrom, C2sFrom
    <3> QED
      BY <1>a, <2>2, <2>7, <3>1 DEF ToFrom
  <2>10. ASSUME NEW k, k \in tooptr'..toiptr' - 1 PROVE tobuf'[k] = ToFrom' + (k - tooptr') + 1
    <3>0. toiptr' # tooptr' /\ k \in Int /\ tooptr' <= k /\ k < toiptr'
      <4>1. toiptr' \in Int /\ tooptr' \in Int
        BY <1>0, <2>8
      <4> QED
        BY <2>10, <4>1, Within, Zenon
    <3>1. toiptr' = toiptr /\ tooptr' = tooptr + n
      BY <2>8, <3>0, Zenon
    <3>2. k \in tooptr..toiptr - 1 /\ k \in Nat
      BY <1>a, <2>2, <2>4, <3>0, <3>1
    <3>3. tobuf'[k] = ToFrom + (k - tooptr) + 1
      BY <1>0, <2>1, <3>2, Zenon DEF Bytes
    <3> QED
      BY <1>a, <2>2, <2>9, <3>1, <3>2, <3>3
  <2>11. NonbTypes'
    <3>1. Len(c2s') <= SockRoom
      BY <1>0, <1>a, <2>2, <2>7
    <3> QED
      BY <1>0, <2>1, <2>7, <2>8, <3>1, Zenon DEF NonbTypes
  <2>12. Bytes'
    <3>1. nin' = ToFrom' + (toiptr' - tooptr')
      BY <1>a, <1>b, <2>1, <2>2, <2>8, <2>9
    <3> QED
      BY <1>0, <2>1, <2>7, <2>9, <2>10, <3>1, Zenon DEF Bytes
  <2>13. Fins'
    <3>1. (stdineof <=> stdineof = TRUE) /\ stdineof' = stdineof /\ (stdineof = TRUE => stdineof)
      BY <1>0, <2>1, Zenon
    <3>2. n > 0 => tooptr # toiptr
      BY <1>a, <2>2
    <3>3. toiptr' = tooptr' <=> tooptr + n = toiptr
      BY <1>a, <2>1, <2>4, Zenon
    <3>4. tooptr # toiptr => fins = 0
      BY <1>0 DEF Fins
    <3>5. CASE fin_after_write
      <4>1. n > 0 /\ tooptr + n = toiptr /\ stdineof = TRUE
        BY <2>3, <3>1, <3>5, Zenon
      <4>2. fins' = 1 /\ tooptr' = toiptr'
        BY <2>1, <3>2, <3>3, <3>4, <3>5, <4>1
      <4>3. 1 \in 0..1
        OBVIOUS
      <4> QED
        BY <1>0, <2>1, <3>1, <4>1, <4>2, <4>3, Zenon DEF Fins
    <3>6. CASE ~fin_after_write
      <4>1. fins' = fins
        BY <2>1, <3>6, Zenon
      <4>2. fins = 1 => stdineof = TRUE /\ tooptr = toiptr
        BY <1>0, Zenon DEF Fins
      <4>3. tooptr = toiptr => n = 0 /\ tooptr + n = toiptr
        BY <1>a, <2>2
      <4>4. fins = 1 => tooptr' = toiptr'
        BY <3>3, <4>2, <4>3, Zenon
      <4>5. stdineof = TRUE /\ tooptr' = toiptr' => ~(n > 0)
        BY <2>3, <3>1, <3>3, <3>6, Zenon
      <4>6. tooptr' = toiptr' /\ ~(n > 0) => tooptr = toiptr
        BY <1>a, <2>2, <3>3
      <4>7. stdineof = TRUE /\ tooptr' = toiptr' => fins = 1
        BY <1>0, <4>5, <4>6, Zenon DEF Fins
      <4>8. npc' # "stdin"
        BY <2>1, Zenon
      <4> QED
        BY <1>0, <3>1, <4>1, <4>2, <4>4, <4>7, <4>8, Zenon DEF Fins
    <3> QED
      BY <3>5, <3>6, Zenon
  <2> QED
    BY <2>11, <2>12, <2>13, Zenon DEF NonbInv
<1>8. CASE server_echoes
  <2>1. /\ c2s # <<>> /\ s2c' = Append(s2c, Head(c2s)) /\ c2s' = Tail(c2s)
        /\ UNCHANGED <<npc, ready, nin, stdineof, tobuf, toiptr, tooptr, frbuf, friptr, froptr, fins, srvclosed, out>>
    BY <1>8, Zenon DEF server_echoes
  <2>2. s2c \in Seq(Nat) /\ c2s \in Seq(Nat)
    BY <1>0, Zenon DEF NonbTypes
  <2>3. /\ Len(c2s) > 0 /\ c2s' \in Seq(Nat) /\ Len(c2s') = Len(c2s) - 1 /\ Head(c2s) = c2s[1] /\ c2s[1] \in Nat
        /\ \A k \in 1..Len(c2s) - 1 : c2s'[k] = c2s[k + 1]
    BY <2>1, <2>2
  <2>4. Head(c2s) = C2sFrom + 1 /\ Head(c2s) \in Nat
    BY <1>0, <1>a, <2>3 DEF Bytes
  <2>5. /\ s2c' \in Seq(Nat) /\ Len(s2c') = Len(s2c) + 1 /\ s2c'[Len(s2c) + 1] = C2sFrom + 1
        /\ \A k \in 1..Len(s2c) : s2c'[k] = s2c[k]
    BY <2>1, <2>2, <2>4
  <2>6. FrFrom' = FrFrom /\ S2cFrom' = S2cFrom /\ C2sFrom' = C2sFrom + 1 /\ ToFrom' = ToFrom
    <3>1. FrFrom' = FrFrom /\ S2cFrom' = S2cFrom
      BY <2>1, Zenon DEF FrFrom, S2cFrom
    <3>2. C2sFrom' = C2sFrom + 1
      BY <1>a, <2>5, <3>1 DEF C2sFrom
    <3> QED
      BY <1>a, <2>3, <3>1, <3>2 DEF ToFrom
  <2>7. ASSUME NEW k \in 1..Len(s2c') PROVE s2c'[k] = S2cFrom + k
    <3>1. CASE k = Len(s2c) + 1
      <4>1. C2sFrom + 1 = S2cFrom + (Len(s2c) + 1)
        BY <1>a DEF C2sFrom
      <4> QED
        BY <2>5, <3>1, <4>1, Zenon
    <3>2. CASE k # Len(s2c) + 1
      <4>1. k \in 1..Len(s2c)
        BY <1>a, <2>5, <3>2
      <4> QED
        BY <1>0, <2>5, <4>1, Zenon DEF Bytes
    <3> QED
      BY <3>1, <3>2, Zenon
  <2>8. ASSUME NEW k \in 1..Len(c2s') PROVE c2s'[k] = C2sFrom' + k
    <3>1. k \in 1..Len(c2s) - 1 /\ k + 1 \in 1..Len(c2s)
      BY <1>a, <2>3
    <3>2. c2s'[k] = C2sFrom + (k + 1)
      BY <1>0, <2>3, <3>1, Zenon DEF Bytes
    <3> QED
      BY <1>a, <2>6, <3>1, <3>2
  <2>9. NonbTypes'
    <3>1. Len(c2s') <= SockRoom
      BY <1>0, <1>a, <2>3 DEF NonbTypes
    <3> QED
      BY <1>0, <2>1, <2>3, <2>5, <3>1, Zenon DEF NonbTypes
  <2>10. Bytes'
    BY <1>0, <2>1, <2>6, <2>7, <2>8, Zenon DEF Bytes
  <2>11. Fins'
    BY <1>0, <2>1, Zenon DEF Fins
  <2> QED
    BY <2>9, <2>10, <2>11 DEF NonbInv
<1>9. CASE server_closes \/ server_terminates \/ UNCHANGED nonbvars
  <2>1. UNCHANGED <<npc, ready, nin, stdineof, tobuf, toiptr, tooptr, frbuf, friptr, froptr, c2s, s2c, fins, out>>
    BY <1>9, Zenon DEF server_closes, server_terminates, nonbvars
  <2>2. NonbTypes' /\ Bytes'
    BY <1>0, <1>1, <2>1, Zenon DEF NonbTypes
  <2>3. Fins'
    BY <1>0, <2>1, Zenon DEF Fins
  <2> QED
    BY <2>2, <2>3 DEF NonbInv
<1> QED
  BY <1>3, <1>4, <1>5, <1>6, <1>7, <1>8, <1>9, Zenon DEF NonbNext, str_cli

(* Every step keeps how the normal return is come to.                      *)
LEMMA EndsInductive == NonbInv /\ Ends /\ [NonbNext]_nonbvars => Ends'
<1> SUFFICES ASSUME NonbInv, Ends, [NonbNext]_nonbvars PROVE Ends'
  BY Zenon
<1>0. stdineof \in BOOLEAN /\ nin \in 0..NBytes /\ s2c \in Seq(Nat) /\ c2s \in Seq(Nat) /\ NBytes \in Nat
  BY NonbAssumption, Zenon DEF NonbInv, NonbTypes, Fins
<1>1. CASE Select
  <2>1. "sockin" \in ready' => s2c # <<>> \/ srvclosed
    BY <1>1, Zenon DEF Select
  <2> QED
    BY <1>1, <2>1, Zenon DEF Select, Ends
<1>2. CASE read_stdin
  <2>1. npc = "stdin" /\ npc' = "sockin" /\ UNCHANGED <<s2c, srvclosed>>
    BY <1>2, Zenon DEF read_stdin
  <2>2. "sockin" \in ready' => "sockin" \in ready
    <3>1. ready' = ready \/ ready' = ready \cup {"sockout"}
      BY <1>2, Zenon DEF read_stdin
    <3> QED
      BY <3>1
  <2>3. stdineof' = TRUE => nin' = NBytes
    <3>1. CASE UNCHANGED <<stdineof, nin>>
      BY <3>1, Zenon DEF Ends
    <3>2. CASE nin = NBytes /\ UNCHANGED nin
      BY <3>2, Zenon
    <3>3. CASE UNCHANGED stdineof /\ \E n \in 1..NBytes - nin : TRUE
      <4>1. nin # NBytes
        BY <1>0, <3>3
      <4> QED
        BY <3>3, <4>1, Zenon DEF Ends
    <3> QED
      BY <1>2, <3>1, <3>2, <3>3, Zenon DEF read_stdin
  <2> QED
    BY <2>1, <2>2, <2>3, Zenon DEF Ends
<1>3. CASE read_socket
  <2>1. npc = "sockin" /\ UNCHANGED <<stdineof, nin, srvclosed>> /\ npc' \in {"stdout", "return", "err_quit"}
    BY <1>3, Zenon DEF read_socket
  <2>2. npc' = "return" => stdineof /\ "sockin" \in ready /\ s2c = <<>> /\ s2c' = s2c
    BY <1>3, Zenon DEF read_socket
  <2>3. npc' = "return" => stdineof' = TRUE /\ srvclosed' /\ s2c' = <<>>
    BY <1>0, <2>1, <2>2, Zenon DEF Ends
  <2> QED
    BY <2>1, <2>3, Zenon DEF Ends
<1>4. CASE write_stdout \/ write_socket
  <2>1. npc' \in {"select", "sockout"} /\ UNCHANGED <<stdineof, nin>>
    BY <1>4, Zenon DEF write_stdout, write_socket
  <2> QED
    BY <2>1, Zenon DEF Ends
<1>5. CASE server_echoes
  <2>1. c2s # <<>> /\ Head(c2s) \in Nat
    BY <1>0, <1>5 DEF server_echoes
  <2>2. Append(s2c, Head(c2s)) # <<>>
    BY <1>0, <2>1
  <2> QED
    BY <1>5, <2>2, Zenon DEF server_echoes, Ends
<1>6. CASE server_closes \/ server_terminates \/ UNCHANGED nonbvars
  BY <1>6, Zenon DEF server_closes, server_terminates, nonbvars, Ends
<1> QED
  BY <1>1, <1>2, <1>3, <1>4, <1>5, <1>6, Zenon DEF NonbNext, str_cli

(* As long as the loop of str_cli runs, every byte read from standard      *)
(* input is in exactly one place and in order; what is printed is the      *)
(* beginning of the input; a normal return leaves unprinted what is in fr  *)
(* and what the server did not echo, and nothing else; and the FIN is sent *)
(* after the last byte: for every number of bytes, every size of the       *)
(* buffers and every room in the socket.                                   *)
THEOREM BytesKeepTheirOrder == NonbSpec => []NonbSafe
<1>0. NonbInit => Ends
  <2>1. ASSUME NonbInit PROVE stdineof # TRUE
    BY <2>1, Zenon DEF NonbInit
  <2> QED
    BY <2>1, Zenon DEF NonbInit, Ends
<1>1. NonbInit => NonbInv /\ Ends
  BY <1>0, NonbInitially, Zenon
<1>2. (NonbInv /\ Ends) /\ [NonbNext]_nonbvars => (NonbInv /\ Ends)'
  BY NonbInductive, EndsInductive, Zenon
<1>3. NonbInv /\ Ends => NonbSafe
  BY NonbBounds, Zenon
<1> QED
  BY <1>1, <1>2, <1>3, PTL DEF NonbSpec

-----------------------------------------------------------------------------
(* SvMsg. The messages for a client that are in the queue are those of its *)
(* answer between what it has read and what the server has written.        *)

(* Which message of the answer a body is: the empty one comes last.        *)
Idx(n) == IF n = 0 THEN FileLines + 1 ELSE n

(* The messages for c in the queue q are those of the answer after the     *)
(* first lo up to the hi-th, each once and in their order.                 *)
Answers(c, q, lo, hi) ==
    /\ \A i \in 1..Len(q) : q[i].type = c => Idx(q[i].body) \in lo + 1..hi
    /\ \A i, j \in 1..Len(q) :
           i < j /\ q[i].type = c /\ q[j].type = c => Idx(q[i].body) < Idx(q[j].body)
    /\ \A k \in lo + 1..hi : \E i \in 1..Len(q) : q[i].type = c /\ Idx(q[i].body) = k

(* first_of is the first message of the type.                              *)
LEMMA FirstOf ==
    ASSUME NEW M, NEW q \in Seq(M), NEW t, NEW i \in first_of(q, t)
    PROVE  /\ i \in 1..Len(q) /\ q[i].type = t
           /\ \A j \in 1..Len(q) : q[j].type = t => i <= j
BY DEF first_of

(* Two sequences joined.                                                   *)
LEMMA Concat ==
    ASSUME NEW M, NEW a \in Seq(M), NEW b \in Seq(M)
    PROVE  a \o b \in Seq(M) /\ Len(a \o b) = Len(a) + Len(b)
OBVIOUS

(* What is left of the queue, and where.                                   *)
LEMMA Removed ==
    ASSUME NEW M, NEW q \in Seq(M), NEW i \in 1..Len(q)
    PROVE  /\ without(q, i) \in Seq(M) /\ Len(without(q, i)) = Len(q) - 1
           /\ \A j \in 1..Len(q) - 1 : without(q, i)[j] = IF j < i THEN q[j] ELSE q[j + 1]
<1> DEFINE a == SubSeq(q, 1, i - 1)
           b == SubSeq(q, i + 1, Len(q))
<1>1. /\ a \in Seq(M) /\ Len(a) = i - 1 /\ \A j \in 1..i - 1 : a[j] = q[j]
  OBVIOUS
<1>2. /\ b \in Seq(M) /\ Len(b) = Len(q) - i /\ \A j \in 1..Len(q) - i : b[j] = q[i + j]
  OBVIOUS
<1>3. without(q, i) = a \o b
  BY Zenon DEF without
<1> HIDE DEF a, b
<1>4. /\ a \o b \in Seq(M) /\ Len(a \o b) = Len(q) - 1
      /\ \A j \in 1..Len(q) - 1 : (a \o b)[j] = IF j <= Len(a) THEN a[j] ELSE b[j - Len(a)]
  <2>1. a \o b \in Seq(M) /\ Len(a \o b) = Len(a) + Len(b)
    BY <1>1, <1>2, Concat, Zenon
  <2>2. \A j \in 1..Len(a) + Len(b) : (a \o b)[j] = IF j <= Len(a) THEN a[j] ELSE b[j - Len(a)]
    BY <1>1, <1>2
  <2>3. Len(a) + Len(b) = Len(q) - 1
    BY <1>1, <1>2
  <2> QED
    BY <2>1, <2>2, <2>3, Zenon
<1>5. ASSUME NEW j \in 1..Len(q) - 1 PROVE (a \o b)[j] = IF j < i THEN q[j] ELSE q[j + 1]
  <2>1. CASE j < i
    BY <2>1, <1>1, <1>4
  <2>2. CASE ~(j < i)
    <3>1. j - Len(a) \in 1..Len(q) - i /\ i + (j - Len(a)) = j + 1
      BY <2>2, <1>1
    <3>2. (a \o b)[j] = b[j - Len(a)]
      BY <2>2, <1>1, <1>4
    <3> QED
      BY <2>2, <3>1, <3>2, <1>2, Zenon
  <2> QED
    BY <2>1, <2>2, Zenon
<1> QED
  BY <1>3, <1>4, <1>5, Zenon

(* A message for another changes nothing for c.                            *)
LEMMA SentToAnother ==
    ASSUME NEW M, NEW q \in Seq(M), NEW c, NEW lo \in Nat, NEW hi \in Nat, Answers(c, q, lo, hi),
           NEW m \in M, m.type # c
    PROVE  Answers(c, Append(q, m), lo, hi)
<1> DEFINE r == Append(q, m)
<1>1. Len(r) = Len(q) + 1 /\ r[Len(q) + 1] = m /\ \A i \in 1..Len(q) : r[i] = q[i]
  OBVIOUS
<1> HIDE DEF r
<1>2. \A i \in 1..Len(r) : r[i].type = c => i \in 1..Len(q) /\ r[i] = q[i]
  BY <1>1
<1>3. ASSUME NEW k \in lo + 1..hi PROVE \E i \in 1..Len(r) : r[i].type = c /\ Idx(r[i].body) = k
  <2>1. PICK i \in 1..Len(q) : q[i].type = c /\ Idx(q[i].body) = k
    BY Zenon DEF Answers
  <2> QED
    BY <1>1, <2>1
<1>4. \A i \in 1..Len(r) : r[i].type = c => Idx(r[i].body) \in lo + 1..hi
  BY <1>2, Zenon DEF Answers
<1>5. \A i, j \in 1..Len(r) : i < j /\ r[i].type = c /\ r[j].type = c => Idx(r[i].body) < Idx(r[j].body)
  BY <1>2, Zenon DEF Answers
<1> QED
  BY <1>3, <1>4, <1>5, Zenon DEF Answers, r

(* The next message for c is its last.                                     *)
LEMMA SentTo ==
    ASSUME NEW M, NEW q \in Seq(M), NEW c, NEW lo \in Nat, NEW hi \in Nat, lo <= hi, Answers(c, q, lo, hi),
           NEW m \in M, m.type = c, Idx(m.body) = hi + 1
    PROVE  Answers(c, Append(q, m), lo, hi + 1)
<1> DEFINE r == Append(q, m)
<1>1. Len(r) = Len(q) + 1 /\ r[Len(q) + 1] = m /\ \A i \in 1..Len(q) : r[i] = q[i]
  OBVIOUS
<1> HIDE DEF r
<1>2. \A i \in 1..Len(r) : i = Len(q) + 1 \/ (i \in 1..Len(q) /\ r[i] = q[i])
  BY <1>1
<1>3. ASSUME NEW k \in lo + 1..hi + 1 PROVE \E i \in 1..Len(r) : r[i].type = c /\ Idx(r[i].body) = k
  <2>1. CASE k = hi + 1
    BY <2>1, <1>1
  <2>2. CASE k \in lo + 1..hi
    <3>1. PICK i \in 1..Len(q) : q[i].type = c /\ Idx(q[i].body) = k
      BY <2>2, Zenon DEF Answers
    <3> QED
      BY <1>1, <3>1
  <2> QED
    BY <2>1, <2>2
<1>4. \A i \in 1..Len(r) : r[i].type = c => Idx(r[i].body) \in lo + 1..hi + 1
  BY <1>1, <1>2 DEF Answers
<1>5. \A i, j \in 1..Len(r) : i < j /\ r[i].type = c /\ r[j].type = c => Idx(r[i].body) < Idx(r[j].body)
  <2> SUFFICES ASSUME NEW i \in 1..Len(r), NEW j \in 1..Len(r), i < j, r[i].type = c, r[j].type = c
               PROVE  Idx(r[i].body) < Idx(r[j].body)
    BY Zenon
  <2>1. i \in 1..Len(q) /\ r[i] = q[i] /\ Idx(q[i].body) \in lo + 1..hi
    BY <1>1 DEF Answers
  <2>2. CASE j = Len(q) + 1
    BY <2>1, <2>2, <1>1
  <2>3. CASE j \in 1..Len(q)
    BY <2>1, <2>3, <1>1, Zenon DEF Answers
  <2> QED
    BY <2>2, <2>3, <1>1
<1> QED
  BY <1>3, <1>4, <1>5, Zenon DEF Answers, r

(* A message taken by another changes nothing for c.                       *)
LEMMA TakenFromAnother ==
    ASSUME NEW M, NEW q \in Seq(M), NEW c, NEW lo \in Nat, NEW hi \in Nat, Answers(c, q, lo, hi),
           NEW i \in 1..Len(q), q[i].type # c
    PROVE  Answers(c, without(q, i), lo, hi)
<1> DEFINE r == without(q, i)
           At(j) == IF j < i THEN j ELSE j + 1
<1>1. Len(r) = Len(q) - 1 /\ \A j \in 1..Len(r) : r[j] = q[At(j)]
  BY Removed, Zenon
<1> HIDE DEF r
<1>2. \A j \in 1..Len(r) : At(j) \in 1..Len(q)
  BY <1>1
<1>3. ASSUME NEW k \in lo + 1..hi PROVE \E j \in 1..Len(r) : r[j].type = c /\ Idx(r[j].body) = k
  <2>1. PICK l \in 1..Len(q) : q[l].type = c /\ Idx(q[l].body) = k
    BY Zenon DEF Answers
  <2>2. PICK j \in 1..Len(r) : At(j) = l
    <3>1. CASE l < i
      BY <3>1, <1>1
    <3>2. CASE l > i
      <4>1. l - 1 \in 1..Len(r) /\ At(l - 1) = l
        BY <3>2, <1>1
      <4> QED
        BY <4>1, Zenon
    <3> QED
      BY <2>1, <3>1, <3>2
  <2> QED
    BY <1>1, <2>1, <2>2, Zenon
<1>4. \A j, l \in 1..Len(r) : j < l => At(j) < At(l)
  BY <1>1
<1> HIDE DEF At
<1>5. /\ \A j \in 1..Len(r) : r[j].type = c => Idx(r[j].body) \in lo + 1..hi
      /\ \A j, l \in 1..Len(r) : j < l /\ r[j].type = c /\ r[l].type = c => Idx(r[j].body) < Idx(r[l].body)
  BY <1>1, <1>2, <1>4, ZenonT(60) DEF Answers
<1> QED
  BY <1>3, <1>5, Zenon DEF Answers, r

(* The first message for c is the next of its answer.                      *)
LEMMA TakenBy ==
    ASSUME NEW M, NEW q \in Seq(M), NEW c, NEW lo \in Nat, NEW hi \in Nat, Answers(c, q, lo, hi),
           NEW i \in first_of(q, c)
    PROVE  i \in 1..Len(q) /\ Idx(q[i].body) = lo + 1 /\ lo < hi /\ Answers(c, without(q, i), lo + 1, hi)
<1> DEFINE r == without(q, i)
           At(j) == IF j < i THEN j ELSE j + 1
<1>0. i \in 1..Len(q) /\ q[i].type = c /\ \A j \in 1..Len(q) : q[j].type = c => i <= j
  BY FirstOf, Zenon
<1>1. Len(r) = Len(q) - 1 /\ \A j \in 1..Len(r) : r[j] = q[At(j)]
  BY <1>0, Removed, Zenon
<1> HIDE DEF r
<1>2. \A j \in 1..Len(r) : At(j) \in 1..Len(q) /\ At(j) # i
  BY <1>0, <1>1
<1>3. Idx(q[i].body) \in lo + 1..hi
  BY <1>0, Zenon DEF Answers
<1>4. Idx(q[i].body) = lo + 1 /\ lo < hi
  <2>1. lo + 1 \in lo + 1..hi
    BY <1>3
  <2>2. PICK l \in 1..Len(q) : q[l].type = c /\ Idx(q[l].body) = lo + 1
    BY <2>1, Zenon DEF Answers
  <2>3. l = i \/ Idx(q[i].body) < lo + 1
    BY <1>0, <2>2 DEF Answers
  <2> QED
    BY <1>3, <2>2, <2>3
<1>5. \A l \in 1..Len(q) : q[l].type = c /\ l # i => i < l /\ Idx(q[l].body) \in lo + 2..hi
  <2> TAKE l \in 1..Len(q)
  <2> HAVE q[l].type = c /\ l # i
  <2>1. i < l
    BY <1>0
  <2>2. Idx(q[i].body) < Idx(q[l].body) /\ Idx(q[l].body) \in lo + 1..hi
    BY <1>0, <2>1, Zenon DEF Answers
  <2> QED
    BY <1>4, <2>1, <2>2
<1>6. ASSUME NEW k \in lo + 2..hi PROVE \E j \in 1..Len(r) : r[j].type = c /\ Idx(r[j].body) = k
  <2>1. PICK l \in 1..Len(q) : q[l].type = c /\ Idx(q[l].body) = k
    BY DEF Answers
  <2>2. l > i
    BY <1>4, <1>5, <2>1
  <2>3. l - 1 \in 1..Len(r) /\ At(l - 1) = l
    BY <1>0, <1>1, <2>2
  <2> QED
    BY <1>1, <2>1, <2>3, Zenon
<1>7. \A j, l \in 1..Len(r) : j < l => At(j) < At(l)
  BY <1>0, <1>1
<1> HIDE DEF At
<1>8. (lo + 1) + 1 = lo + 2
  OBVIOUS
<1>10. \A j \in 1..Len(r) : r[j].type = c => Idx(r[j].body) \in lo + 2..hi
  BY <1>1, <1>2, <1>5, Zenon
<1>11. \A j, l \in 1..Len(r) : j < l /\ r[j].type = c /\ r[l].type = c => Idx(r[j].body) < Idx(r[l].body)
  BY <1>1, <1>2, <1>7, Zenon DEF Answers
<1>9. Answers(c, r, lo + 1, hi)
  BY <1>6, <1>8, <1>10, <1>11, Zenon DEF Answers
<1> QED
  BY <1>0, <1>4, <1>9, Zenon DEF r

Requests == [type : {Req}, body : MsgClients]
Lines == [type : MsgClients, body : 0..FileLines]
Msgs == Requests \cup Lines

MsgTypes ==
    /\ multi \in BOOLEAN
    /\ mqueue \in Seq(Requests \cup Lines) /\ Len(mqueue) <= QBYTES
    /\ own \in [MsgClients -> Seq(0..FileLines)] /\ \A c \in MsgClients : Len(own[c]) <= QBYTES
    /\ cstate \in [MsgClients -> {"start", "waiting", "done", "killed"}]
    /\ got \in [MsgClients -> Seq(0..FileLines)]
    /\ serving \in SUBSET MsgClients
    /\ written \in [MsgClients -> 0..FileLines + 1]

(* A request is in the queue once, before the answer to it is begun.       *)
Requested ==
    /\ \A c \in MsgClients : cstate[c] = "start" => c \notin serving /\ written[c] = 0
    /\ \A c \in serving : written[c] <= FileLines
    /\ \A i \in 1..Len(mqueue) :
           mqueue[i].type = Req =>
               /\ mqueue[i].body \in MsgClients
               /\ cstate[mqueue[i].body] # "start"
               /\ mqueue[i].body \notin serving
               /\ written[mqueue[i].body] = 0
    /\ \A i, j \in 1..Len(mqueue) :
           mqueue[i].type = Req /\ mqueue[j].type = Req /\ mqueue[i].body = mqueue[j].body => i = j
    /\ multi = FALSE => \A c, d \in serving : c = d

(* What a client has read and what is on its way to it are its answer.     *)
Answered ==
    \A c \in MsgClients :
        /\ Len(got[c]) <= written[c]
        /\ \A i \in 1..Len(got[c]) : got[c][i] = answer[i]
        /\ multi = FALSE => Answers(c, mqueue, Len(got[c]), written[c])
        /\ multi = TRUE =>
              /\ Len(own[c]) = written[c] - Len(got[c])
              /\ \A i \in 1..Len(own[c]) : own[c][i] = answer[Len(got[c]) + i]

MsgInv == MsgTypes /\ Requested /\ Answered

(* The answer: the lines and the empty message, each at its index.         *)
LEMMA AnswerIs ==
    /\ FileLines \in Nat /\ QBYTES \in Nat /\ Req \notin MsgClients
    /\ answer \in Seq(0..FileLines) /\ Len(answer) = FileLines + 1
    /\ \A i \in 1..FileLines + 1 : answer[i] \in 0..FileLines /\ Idx(answer[i]) = i
    /\ \A n \in 0..FileLines : Idx(n) \in 1..FileLines + 1 /\ answer[Idx(n)] = n
BY SvMsgAssumption DEF answer, Idx

(* What the invariant says of what the clients have read.                  *)
LEMMA MsgBounds == MsgInv => SvMsgSafe
<1> SUFFICES ASSUME MsgInv PROVE SvMsgSafe
  BY Zenon
<1>0. MsgTypes /\ Requested /\ Answered
  BY Zenon DEF MsgInv
<1>1. multi \/ \A c, d \in serving : c = d
  BY <1>0, Zenon DEF MsgTypes, Requested
<1>2. ASSUME NEW c \in MsgClients PROVE Len(got[c]) <= FileLines + 1 /\ got[c] = SubSeq(answer, 1, Len(got[c]))
  <2>1. /\ got[c] \in Seq(0..FileLines) /\ written[c] \in 0..FileLines + 1 /\ Len(got[c]) <= written[c]
        /\ \A i \in 1..Len(got[c]) : got[c][i] = answer[i]
    BY <1>0, Zenon DEF MsgTypes, Answered
  <2>2. Len(got[c]) <= FileLines + 1 /\ Len(answer) = FileLines + 1
    BY <2>1, AnswerIs
  <2>3. got[c] = SubSeq(answer, 1, Len(got[c]))
    BY <2>1, <2>2, AnswerIs
  <2> QED
    BY <2>2, <2>3, Zenon
<1> QED
  BY <1>0, <1>1, <1>2, Zenon DEF SvMsgSafe, MsgTypeOK, OwnAnswer, MsgTypes

(* It holds at the start.                                                  *)
LEMMA MsgInitially == MsgInit(BOOLEAN) => MsgInv
<1> SUFFICES ASSUME MsgInit(BOOLEAN) PROVE MsgInv
  BY Zenon
<1>1. MsgTypes
  BY AnswerIs DEF MsgInit, MsgTypes
<1>2. Requested
  BY AnswerIs DEF MsgInit, Requested
<1>3. Answered
  <2>1. /\ Len(mqueue) = 0
        /\ \A c \in MsgClients : Len(got[c]) = 0 /\ Len(own[c]) = 0 /\ written[c] = 0
    BY Zenon DEF MsgInit
  <2>2. \A c \in MsgClients : Answers(c, mqueue, 0, 0)
    BY <2>1 DEF Answers
  <2> QED
    BY <2>1, <2>2 DEF Answered
<1> QED
  BY <1>1, <1>2, <1>3, Zenon DEF MsgInv

(* What is left of a queue that is not empty.                              *)
LEMMA TailOf ==
    ASSUME NEW S, NEW s \in Seq(S), s # <<>>
    PROVE  /\ Head(s) = s[1] /\ s[1] \in S /\ Tail(s) \in Seq(S) /\ Len(Tail(s)) = Len(s) - 1
           /\ \A i \in 1..Len(s) - 1 : Tail(s)[i] = s[i + 1]
OBVIOUS

(* The indices after the first.                                            *)
LEMMA OneLater ==
    ASSUME NEW a \in Nat, NEW b \in Nat, NEW i \in 1..a - 1
    PROVE  i + 1 \in 1..a /\ b + (i + 1) = (b + 1) + i
OBVIOUS

(* What the invariant says of the messages of the queue and of each        *)
(* client's count of answers.                                              *)
LEMMA MsgFacts ==
    MsgInv => /\ MsgTypes /\ Requested /\ Answered
              /\ mqueue \in Seq(Msgs)
              /\ \A i \in 1..Len(mqueue) :
                   \/ mqueue[i].type = Req /\ mqueue[i].body \in MsgClients
                   \/ mqueue[i].type \in MsgClients /\ mqueue[i].body \in 0..FileLines
              /\ FileLines \in Nat /\ QBYTES \in Nat /\ Req \notin MsgClients
              /\ Len(mqueue) \in Nat /\ Len(mqueue) <= QBYTES
              /\ \A d \in MsgClients :
                   /\ Len(got[d]) \in Nat /\ written[d] \in Nat /\ Len(got[d]) <= written[d]
                   /\ multi = FALSE => Answers(d, mqueue, Len(got[d]), written[d])
<1> SUFFICES ASSUME MsgInv
             PROVE  /\ MsgTypes /\ Requested /\ Answered
                    /\ mqueue \in Seq(Msgs)
                    /\ \A i \in 1..Len(mqueue) :
                         \/ mqueue[i].type = Req /\ mqueue[i].body \in MsgClients
                         \/ mqueue[i].type \in MsgClients /\ mqueue[i].body \in 0..FileLines
                    /\ FileLines \in Nat /\ QBYTES \in Nat /\ Req \notin MsgClients
                    /\ Len(mqueue) \in Nat /\ Len(mqueue) <= QBYTES
                    /\ \A d \in MsgClients :
                         /\ Len(got[d]) \in Nat /\ written[d] \in Nat /\ Len(got[d]) <= written[d]
                         /\ multi = FALSE => Answers(d, mqueue, Len(got[d]), written[d])
  BY Zenon
<1>0. MsgTypes /\ Requested /\ Answered
  BY DEF MsgInv
<1>a. mqueue \in Seq(Msgs)
  BY <1>0, Zenon DEF MsgTypes, Msgs
<1>b. ASSUME NEW i \in 1..Len(mqueue)
      PROVE  \/ mqueue[i].type = Req /\ mqueue[i].body \in MsgClients
             \/ mqueue[i].type \in MsgClients /\ mqueue[i].body \in 0..FileLines
  <2>1. mqueue[i] \in Msgs
    BY <1>a
  <2> QED
    BY <2>1, Zenon DEF Msgs, Requests, Lines
<1>c. FileLines \in Nat /\ QBYTES \in Nat /\ Req \notin MsgClients /\ Len(mqueue) \in Nat /\ Len(mqueue) <= QBYTES
  BY <1>0, SvMsgAssumption DEF MsgTypes
<1>d. ASSUME NEW d \in MsgClients
      PROVE  /\ Len(got[d]) \in Nat /\ written[d] \in Nat /\ Len(got[d]) <= written[d]
             /\ multi = FALSE => Answers(d, mqueue, Len(got[d]), written[d])
  <2>1. Len(got[d]) \in Nat /\ written[d] \in Nat
    BY <1>0, <1>c DEF MsgTypes
  <2> QED
    BY <1>0, <2>1, Zenon DEF Answered
<1> QED
  BY <1>0, <1>a, <1>b, <1>c, <1>d, Zenon

(* A client sends its request.                                             *)
LEMMA ClientSends == MsgInv => \A c \in MsgClients : client_send(c) => MsgInv'
<1> SUFFICES ASSUME MsgInv, NEW c \in MsgClients, client_send(c) PROVE MsgInv'
  BY Zenon
<1>0. MsgTypes /\ Requested /\ Answered
  BY Zenon DEF MsgInv
<1>a. mqueue \in Seq(Msgs)
  BY MsgFacts, Zenon
<1>b. \A i \in 1..Len(mqueue) :
        \/ mqueue[i].type = Req /\ mqueue[i].body \in MsgClients
        \/ mqueue[i].type \in MsgClients /\ mqueue[i].body \in 0..FileLines
  BY MsgFacts, Zenon
<1>c. FileLines \in Nat /\ QBYTES \in Nat /\ Req \notin MsgClients /\ Len(mqueue) \in Nat /\ Len(mqueue) <= QBYTES
  BY MsgFacts, Zenon
<1>d. \A d \in MsgClients :
        /\ Len(got[d]) \in Nat /\ written[d] \in Nat /\ Len(got[d]) <= written[d]
        /\ multi = FALSE => Answers(d, mqueue, Len(got[d]), written[d])
  BY MsgFacts, Zenon
<1> DEFINE m == [type |-> Req, body |-> c]
<1>1. /\ cstate[c] = "start" /\ Len(mqueue) < QBYTES /\ mqueue' = Append(mqueue, m)
      /\ cstate' = [cstate EXCEPT ![c] = "waiting"]
      /\ multi' = multi /\ own' = own /\ got' = got /\ serving' = serving /\ written' = written
  BY Zenon DEF client_send, room
<1>2. m \in Msgs /\ m.type = Req /\ m.body = c
  BY Zenon DEF Requests, Msgs
<1> HIDE DEF m, Msgs
<1>3. /\ mqueue' \in Seq(Msgs) /\ Len(mqueue') = Len(mqueue) + 1 /\ mqueue'[Len(mqueue) + 1] = m
      /\ \A i \in 1..Len(mqueue) : mqueue'[i] = mqueue[i]
  BY <1>a, <1>1, <1>2
<1>4. MsgTypes'
  <2>1. mqueue' \in Seq(Requests \cup Lines)
    BY <1>3, Zenon DEF Msgs
  <2>2. Len(mqueue') <= QBYTES
    BY <1>c, <1>1, <1>3
  <2>3. cstate' \in [MsgClients -> {"start", "waiting", "done", "killed"}]
    BY <1>0, <1>1, Zenon DEF MsgTypes
  <2> QED
    BY <1>0, <1>1, <2>1, <2>2, <2>3, Zenon DEF MsgTypes
<1>5. Requested'
  <2>1. \A i \in 1..Len(mqueue) : mqueue[i].type = Req => mqueue[i].body # c
    BY <1>0, <1>1, Zenon DEF Requested
  <2>2. \A d \in MsgClients : cstate'[d] = IF d = c THEN "waiting" ELSE cstate[d]
    BY <1>0, <1>1, Zenon DEF MsgTypes
  <2>3. \A i \in 1..Len(mqueue') : i = Len(mqueue) + 1 \/ i \in 1..Len(mqueue)
    BY <1>3
  <2>4. c \notin serving /\ written[c] = 0
    BY <1>0, <1>1, Zenon DEF Requested
  <2>5. /\ \A d \in MsgClients : cstate'[d] = "start" => d \notin serving' /\ written'[d] = 0
        /\ \A d \in serving' : written'[d] <= FileLines
        /\ multi' = FALSE => \A d, e \in serving' : d = e
    BY <1>0, <1>1, <2>2 DEF Requested
  <2>6. ASSUME NEW i \in 1..Len(mqueue'), mqueue'[i].type = Req
        PROVE  /\ mqueue'[i].body \in MsgClients
               /\ cstate'[mqueue'[i].body] # "start"
               /\ mqueue'[i].body \notin serving'
               /\ written'[mqueue'[i].body] = 0
    BY <1>0, <1>1, <1>2, <1>3, <2>2, <2>3, <2>4, <2>6 DEF Requested
  <2>7. \A i, j \in 1..Len(mqueue') :
          mqueue'[i].type = Req /\ mqueue'[j].type = Req /\ mqueue'[i].body = mqueue'[j].body => i = j
    BY <1>0, <1>2, <1>3, <2>1, <2>3 DEF Requested
  <2> QED
    BY <2>5, <2>6, <2>7, Zenon DEF Requested
<1>6. ASSUME NEW d \in MsgClients, multi = FALSE PROVE Answers(d, mqueue', Len(got[d]), written[d])
  <2>1. m.type # d
    BY <1>c, <1>2, Zenon
  <2>2. /\ Len(got[d]) \in Nat /\ written[d] \in Nat
        /\ Answers(d, mqueue, Len(got[d]), written[d])
    BY <1>d, <1>6, Zenon
  <2> QED
    BY <1>a, <1>1, <1>2, <2>1, <2>2, SentToAnother, Zenon
<1>7. Answered'
  BY <1>0, <1>1, <1>6, Zenon DEF Answered
<1> QED
  BY <1>4, <1>5, <1>7, Zenon DEF MsgInv

(* A client that waits is killed.                                          *)
LEMMA ClientKilled == MsgInv => \A c \in MsgClients : client_killed(c) => MsgInv'
<1> SUFFICES ASSUME MsgInv, NEW c \in MsgClients, client_killed(c) PROVE MsgInv'
  OBVIOUS
<1>0. MsgTypes /\ Requested /\ Answered
  BY DEF MsgInv
<1>a. mqueue \in Seq(Msgs)
  BY MsgFacts
<1>b. \A i \in 1..Len(mqueue) :
        \/ mqueue[i].type = Req /\ mqueue[i].body \in MsgClients
        \/ mqueue[i].type \in MsgClients /\ mqueue[i].body \in 0..FileLines
  BY MsgFacts
<1>c. FileLines \in Nat /\ QBYTES \in Nat /\ Req \notin MsgClients /\ Len(mqueue) \in Nat /\ Len(mqueue) <= QBYTES
  BY MsgFacts
<1>d. \A d \in MsgClients :
        /\ Len(got[d]) \in Nat /\ written[d] \in Nat /\ Len(got[d]) <= written[d]
        /\ multi = FALSE => Answers(d, mqueue, Len(got[d]), written[d])
  BY MsgFacts
<1>1. /\ cstate[c] = "waiting" /\ cstate' = [cstate EXCEPT ![c] = "killed"] /\ mqueue' = mqueue
      /\ multi' = multi /\ own' = own /\ got' = got /\ serving' = serving /\ written' = written
  BY Zenon DEF client_killed
<1>2. \A d \in MsgClients : cstate'[d] = IF d = c THEN "killed" ELSE cstate[d]
  BY <1>0, <1>1, Zenon DEF MsgTypes
<1>3. MsgTypes'
  BY <1>0, <1>1, Zenon DEF MsgTypes
<1>4. Requested'
  BY <1>0, <1>1, <1>2 DEF Requested
<1>5. Answered'
  BY <1>0, <1>1, Zenon DEF Answered
<1> QED
  BY <1>3, <1>4, <1>5 DEF MsgInv

(* The server takes the first request of the queue.                        *)
LEMMA ServerReceives == MsgInv /\ server_recv => MsgInv'
<1> SUFFICES ASSUME MsgInv, server_recv PROVE MsgInv'
  BY Zenon
<1>0. MsgTypes /\ Requested /\ Answered
  BY Zenon DEF MsgInv
<1>a. mqueue \in Seq(Msgs)
  BY MsgFacts, Zenon
<1>b. \A i \in 1..Len(mqueue) :
        \/ mqueue[i].type = Req /\ mqueue[i].body \in MsgClients
        \/ mqueue[i].type \in MsgClients /\ mqueue[i].body \in 0..FileLines
  BY MsgFacts, Zenon
<1>c. FileLines \in Nat /\ QBYTES \in Nat /\ Req \notin MsgClients /\ Len(mqueue) \in Nat /\ Len(mqueue) <= QBYTES
  BY MsgFacts, Zenon
<1>d. \A d \in MsgClients :
        /\ Len(got[d]) \in Nat /\ written[d] \in Nat /\ Len(got[d]) <= written[d]
        /\ multi = FALSE => Answers(d, mqueue, Len(got[d]), written[d])
  BY MsgFacts, Zenon
<1>i. PICK i \in first_of(mqueue, Req) :
        serving' = serving \cup {mqueue[i].body} /\ mqueue' = without(mqueue, i)
  BY Zenon DEF server_recv
<1> DEFINE r == without(mqueue, i)
           d == mqueue[i].body
           Was(j) == IF j < i THEN j ELSE j + 1
<1>1. /\ may_read /\ serving' = serving \cup {d} /\ mqueue' = r
      /\ multi' = multi /\ own' = own /\ got' = got /\ cstate' = cstate /\ written' = written
  BY <1>i, Zenon DEF server_recv
<1>2. i \in 1..Len(mqueue) /\ mqueue[i].type = Req
  <2> HIDE DEF Msgs
  <2> QED BY <1>a, FirstOf, Zenon
<1>3. /\ r \in Seq(Msgs) /\ Len(r) = Len(mqueue) - 1
      /\ \A j \in 1..Len(r) : r[j] = mqueue[Was(j)]
  <2> HIDE DEF Msgs
  <2> QED BY <1>a, <1>2, Removed, Zenon
<1>4. /\ d \in MsgClients /\ cstate[d] # "start" /\ d \notin serving /\ written[d] = 0
      /\ \A j \in 1..Len(mqueue) : mqueue[j].type = Req /\ mqueue[j].body = d => j = i
  BY <1>0, <1>2, Zenon DEF Requested
<1> HIDE DEF r, d, Msgs
<1>5. /\ \A j \in 1..Len(r) : Was(j) \in 1..Len(mqueue) /\ Was(j) # i
      /\ \A j, k \in 1..Len(r) : Was(j) = Was(k) => j = k
  BY <1>2, <1>3
<1> HIDE DEF Was
<1>6. MsgTypes'
  <2>1. mqueue' \in Seq(Requests \cup Lines)
    BY <1>1, <1>3, Zenon DEF Msgs
  <2>2. Len(mqueue') <= QBYTES
    BY <1>c, <1>1, <1>3
  <2>3. serving' \in SUBSET MsgClients
    BY <1>0, <1>1, <1>4, Zenon DEF MsgTypes
  <2> QED
    BY <1>0, <1>1, <2>1, <2>2, <2>3 DEF MsgTypes
<1>7. Requested'
  <2>1. multi = FALSE => serving = {}
    BY <1>0, <1>1, Zenon DEF may_read, MsgTypes
  <2>2. /\ \A c \in MsgClients : cstate'[c] = "start" => c \notin serving' /\ written'[c] = 0
        /\ \A c \in serving' : written'[c] <= FileLines
        /\ multi' = FALSE => \A c, e \in serving' : c = e
    BY <1>0, <1>1, <1>4, <2>1, AnswerIs DEF Requested
  <2>3. ASSUME NEW j \in 1..Len(r), r[j].type = Req
        PROVE  /\ r[j].body \in MsgClients
               /\ cstate[r[j].body] # "start"
               /\ r[j].body \notin serving'
               /\ written[r[j].body] = 0
    <3>1. /\ r[j] = mqueue[Was(j)] /\ Was(j) \in 1..Len(mqueue) /\ Was(j) # i
      BY <1>3, <1>5, Zenon
    <3> QED
      BY <1>0, <1>1, <1>4, <2>3, <3>1 DEF Requested
  <2>4. ASSUME NEW j \in 1..Len(r), NEW k \in 1..Len(r), r[j].type = Req, r[k].type = Req, r[j].body = r[k].body
        PROVE  j = k
    <3>1. /\ r[j] = mqueue[Was(j)] /\ Was(j) \in 1..Len(mqueue)
          /\ r[k] = mqueue[Was(k)] /\ Was(k) \in 1..Len(mqueue)
      BY <1>3, <1>5, Zenon
    <3>2. Was(j) = Was(k)
      BY <1>0, <2>4, <3>1, Zenon DEF Requested
    <3> QED
      BY <1>5, <3>2, Zenon
  <2> QED
    BY <1>1, <2>2, <2>3, <2>4 DEF Requested
<1>8. ASSUME NEW c \in MsgClients, multi = FALSE PROVE Answers(c, r, Len(got[c]), written[c])
  <2>1. mqueue[i].type # c
    BY <1>c, <1>2, Zenon
  <2>2. /\ Len(got[c]) \in Nat /\ written[c] \in Nat
        /\ Answers(c, mqueue, Len(got[c]), written[c])
    BY <1>d, <1>8, Zenon
  <2> QED
    BY <1>a, <1>2, <2>1, <2>2, TakenFromAnother, Zenon DEF r
<1>9. Answered'
  BY <1>0, <1>1, <1>8, Zenon DEF Answered
<1> QED
  BY <1>6, <1>7, <1>9, Zenon DEF MsgInv

(* The line of the answer the server sends next to c, and its message.     *)
NextLine(c) == answer[written[c] + 1]
NextMsg(c) == [type |-> c, body |-> NextLine(c)]

(* What sending a line to c does to the server's own state.                *)
LineSent(c) ==
    /\ c \in serving /\ multi' = multi /\ cstate' = cstate /\ got' = got
    /\ written[c] \in 0..FileLines /\ NextLine(c) \in 0..FileLines /\ Idx(NextLine(c)) = written[c] + 1
    /\ NextMsg(c) \in Msgs /\ NextMsg(c).type = c /\ NextMsg(c).body = NextLine(c)
    /\ \A d \in MsgClients : written'[d] = IF d = c THEN written[c] + 1 ELSE written[d]
    /\ written' \in [MsgClients -> 0..FileLines + 1]
    /\ \A i \in 1..Len(mqueue) : mqueue[i].type = Req => mqueue[i].body # c
    /\ serving' \in SUBSET MsgClients /\ serving' \in SUBSET serving
    /\ \A d \in serving' : written'[d] <= FileLines
    /\ \A d \in MsgClients : cstate'[d] = "start" => d \notin serving' /\ written'[d] = 0
    /\ multi' = FALSE => \A d, e \in serving' : d = e

(* The server sends the next line of an answer.                            *)
LEMMA SendsALine == MsgInv => \A c \in MsgClients : server_send(c) => LineSent(c)
<1> SUFFICES ASSUME MsgInv, NEW c \in MsgClients, server_send(c) PROVE LineSent(c)
  BY Zenon
<1>0. MsgTypes /\ Requested /\ Answered
  BY DEF MsgInv
<1>a. mqueue \in Seq(Msgs)
  BY MsgFacts
<1>b. \A i \in 1..Len(mqueue) :
        \/ mqueue[i].type = Req /\ mqueue[i].body \in MsgClients
        \/ mqueue[i].type \in MsgClients /\ mqueue[i].body \in 0..FileLines
  BY MsgFacts
<1>c. FileLines \in Nat /\ QBYTES \in Nat /\ Req \notin MsgClients /\ Len(mqueue) \in Nat /\ Len(mqueue) <= QBYTES
  BY MsgFacts
<1>d. \A d \in MsgClients :
        /\ Len(got[d]) \in Nat /\ written[d] \in Nat /\ Len(got[d]) <= written[d]
        /\ multi = FALSE => Answers(d, mqueue, Len(got[d]), written[d])
  BY MsgFacts
<1>1. /\ c \in serving /\ written' = [written EXCEPT ![c] = written[c] + 1]
      /\ serving' = (IF written'[c] = FileLines + 1 THEN serving \ {c} ELSE serving)
      /\ multi' = multi /\ cstate' = cstate /\ got' = got
  BY Zenon DEF server_send, ended
<1>3. /\ written[c] \in 0..FileLines /\ NextLine(c) \in 0..FileLines /\ Idx(NextLine(c)) = written[c] + 1
      /\ NextMsg(c) \in Msgs /\ NextMsg(c).type = c /\ NextMsg(c).body = NextLine(c)
  <2>1. written[c] \in 0..FileLines
    BY <1>0, <1>c, <1>1 DEF MsgTypes, Requested
  <2>2. NextLine(c) \in 0..FileLines /\ Idx(NextLine(c)) = written[c] + 1
    <3>1. written[c] + 1 \in 1..FileLines + 1
      BY <1>c, <2>1
    <3> QED
      BY <3>1, AnswerIs, Zenon DEF NextLine
  <2> QED
    BY <2>1, <2>2, Zenon DEF Lines, Msgs, NextMsg
<1>4. /\ \A d \in MsgClients : written'[d] = IF d = c THEN written[c] + 1 ELSE written[d]
      /\ written' \in [MsgClients -> 0..FileLines + 1]
  <2>1. written[c] + 1 \in 0..FileLines + 1
    BY <1>c, <1>3
  <2> QED
    BY <1>0, <1>1, <2>1, Zenon DEF MsgTypes
<1>5. \A i \in 1..Len(mqueue) : mqueue[i].type = Req => mqueue[i].body # c
  BY <1>0, <1>1, Zenon DEF Requested
<1>6. /\ serving' \in SUBSET MsgClients /\ serving' \in SUBSET serving
      /\ \A d \in serving' : written'[d] <= FileLines
  <2>1. serving' \in SUBSET MsgClients /\ serving' \in SUBSET serving
    BY <1>0, <1>1, Zenon DEF MsgTypes
  <2>2. c \in serving' => written'[c] # FileLines + 1
    BY <1>1, Zenon
  <2>3. c \in serving' => written'[c] <= FileLines
    BY <2>2, <1>3, <1>4, <1>c
  <2> QED
    BY <1>0, <1>4, <2>1, <2>3, Zenon DEF Requested
<1>7. \A d \in MsgClients : cstate'[d] = "start" => d \notin serving' /\ written'[d] = 0
  BY <1>0, <1>1, <1>4, <1>6, Zenon DEF Requested
<1>8. multi' = FALSE => \A d, e \in serving' : d = e
  BY <1>0, <1>1, <1>6, Zenon DEF Requested
<1> QED
  BY <1>1, <1>3, <1>4, <1>5, <1>6, <1>7, <1>8, Zenon DEF LineSent

(* The iterative server sends a line to the common queue.                  *)
LEMMA SendsToQueue == MsgInv => \A c \in MsgClients : multi = FALSE /\ server_send(c) => MsgInv'
<1> SUFFICES ASSUME MsgInv, NEW c \in MsgClients, multi = FALSE, server_send(c) PROVE MsgInv'
  BY Zenon
<1>0. MsgTypes /\ Requested /\ Answered
  BY Zenon DEF MsgInv
<1>a. mqueue \in Seq(Msgs)
  BY MsgFacts, Zenon
<1>b. \A i \in 1..Len(mqueue) :
        \/ mqueue[i].type = Req /\ mqueue[i].body \in MsgClients
        \/ mqueue[i].type \in MsgClients /\ mqueue[i].body \in 0..FileLines
  BY MsgFacts, Zenon
<1>c. FileLines \in Nat /\ QBYTES \in Nat /\ Req \notin MsgClients /\ Len(mqueue) \in Nat /\ Len(mqueue) <= QBYTES
  BY MsgFacts, Zenon
<1>d. \A d \in MsgClients :
        /\ Len(got[d]) \in Nat /\ written[d] \in Nat /\ Len(got[d]) <= written[d]
        /\ multi = FALSE => Answers(d, mqueue, Len(got[d]), written[d])
  BY MsgFacts, Zenon
<1>e. c \in serving /\ multi' = multi /\ cstate' = cstate /\ got' = got
  BY SendsALine, Zenon DEF LineSent
<1>f. /\ written[c] \in 0..FileLines /\ NextLine(c) \in 0..FileLines /\ Idx(NextLine(c)) = written[c] + 1
      /\ NextMsg(c) \in Msgs /\ NextMsg(c).type = c /\ NextMsg(c).body = NextLine(c)
  BY SendsALine, Zenon DEF LineSent
<1>g. /\ \A d \in MsgClients : written'[d] = IF d = c THEN written[c] + 1 ELSE written[d]
      /\ written' \in [MsgClients -> 0..FileLines + 1]
  BY SendsALine, Zenon DEF LineSent
<1>h. \A i \in 1..Len(mqueue) : mqueue[i].type = Req => mqueue[i].body # c
  BY SendsALine, Zenon DEF LineSent
<1>k. /\ serving' \in SUBSET MsgClients /\ serving' \in SUBSET serving
      /\ \A d \in serving' : written'[d] <= FileLines
  BY SendsALine, Zenon DEF LineSent
<1>l. \A d \in MsgClients : cstate'[d] = "start" => d \notin serving' /\ written'[d] = 0
  BY SendsALine, Zenon DEF LineSent
<1>m. multi' = FALSE => \A d, e \in serving' : d = e
  BY SendsALine, Zenon DEF LineSent
<1>1. multi = FALSE /\ Len(mqueue) < QBYTES /\ mqueue' = Append(mqueue, NextMsg(c)) /\ own' = own
  BY <1>0, Zenon DEF server_send, room, MsgTypes, NextLine, NextMsg
<1>2. /\ mqueue' \in Seq(Msgs) /\ Len(mqueue') = Len(mqueue) + 1 /\ mqueue'[Len(mqueue) + 1] = NextMsg(c)
      /\ \A i \in 1..Len(mqueue) : mqueue'[i] = mqueue[i]
  BY <1>a, <1>1, <1>f
<1>3. MsgTypes'
  <2>1. mqueue' \in Seq(Requests \cup Lines)
    BY <1>2, Zenon DEF Msgs
  <2>2. Len(mqueue') <= QBYTES
    BY <1>c, <1>1, <1>2
  <2> QED
    BY <1>0, <1>e, <1>g, <1>k, <1>1, <2>1, <2>2, Zenon DEF MsgTypes
<1>4. Requested'
  <2>1. \A i \in 1..Len(mqueue') : mqueue'[i].type = Req => i \in 1..Len(mqueue) /\ mqueue'[i] = mqueue[i]
    <3>1. NextMsg(c).type # Req
      BY <1>c, <1>f, Zenon
    <3> QED
      BY <1>2, <3>1
  <2>2. ASSUME NEW i \in 1..Len(mqueue'), mqueue'[i].type = Req
        PROVE  /\ mqueue'[i].body \in MsgClients
               /\ cstate'[mqueue'[i].body] # "start"
               /\ mqueue'[i].body \notin serving'
               /\ written'[mqueue'[i].body] = 0
    BY <1>0, <1>e, <1>g, <1>h, <1>k, <2>1, <2>2 DEF Requested
  <2>3. \A i, j \in 1..Len(mqueue') :
          mqueue'[i].type = Req /\ mqueue'[j].type = Req /\ mqueue'[i].body = mqueue'[j].body => i = j
    BY <1>0, <2>1, ZenonT(60) DEF Requested
  <2> QED
    BY <1>k, <1>l, <1>m, <2>2, <2>3, Zenon DEF Requested
<1>5. ASSUME NEW d \in MsgClients PROVE Answers(d, mqueue', Len(got[d]), written'[d])
  <2>1. /\ Len(got[d]) \in Nat /\ written[d] \in Nat /\ Len(got[d]) <= written[d]
        /\ Answers(d, mqueue, Len(got[d]), written[d])
    BY <1>d, <1>1, Zenon
  <2>2. CASE d # c
    <3>1. NextMsg(c).type # d /\ written'[d] = written[d]
      BY <1>f, <1>g, <2>2, Zenon
    <3> QED
      BY <1>a, <1>f, <1>1, <2>1, <3>1, SentToAnother, Zenon
  <2>3. CASE d = c
    <3>1. NextMsg(c).type = d /\ Idx(NextMsg(c).body) = written[d] + 1 /\ written'[d] = written[d] + 1
      BY <1>f, <1>g, <2>3, Zenon
    <3> QED
      BY <1>a, <1>f, <1>1, <2>1, <3>1, SentTo
  <2> QED
    BY <2>2, <2>3, Zenon
<1>6. ASSUME NEW d \in MsgClients PROVE Len(got[d]) <= written'[d]
  <2>1. Len(got[d]) \in Nat /\ written[d] \in Nat /\ Len(got[d]) <= written[d]
    BY <1>d, Zenon
  <2>2. written'[d] = written[d] \/ written'[d] = written[d] + 1
    BY <1>g, Zenon
  <2> QED
    BY <2>1, <2>2
<1>7. Answered'
  BY <1>0, <1>e, <1>1, <1>5, <1>6, Zenon DEF Answered
<1> QED
  BY <1>3, <1>4, <1>7, Zenon DEF MsgInv

(* The concurrent server sends a line to the queue of the client.          *)
LEMMA SendsToOwn == MsgInv => \A c \in MsgClients : multi = TRUE /\ server_send(c) => MsgInv'
<1> SUFFICES ASSUME MsgInv, NEW c \in MsgClients, multi = TRUE, server_send(c) PROVE MsgInv'
  BY Zenon
<1>0. MsgTypes /\ Requested /\ Answered
  BY Zenon DEF MsgInv
<1>a. mqueue \in Seq(Msgs)
  BY MsgFacts, Zenon
<1>b. \A i \in 1..Len(mqueue) :
        \/ mqueue[i].type = Req /\ mqueue[i].body \in MsgClients
        \/ mqueue[i].type \in MsgClients /\ mqueue[i].body \in 0..FileLines
  BY MsgFacts, Zenon
<1>c. FileLines \in Nat /\ QBYTES \in Nat /\ Req \notin MsgClients /\ Len(mqueue) \in Nat /\ Len(mqueue) <= QBYTES
  BY MsgFacts, Zenon
<1>d. \A d \in MsgClients :
        /\ Len(got[d]) \in Nat /\ written[d] \in Nat /\ Len(got[d]) <= written[d]
        /\ multi = FALSE => Answers(d, mqueue, Len(got[d]), written[d])
  BY MsgFacts, Zenon
<1>e. c \in serving /\ multi' = multi /\ cstate' = cstate /\ got' = got
  BY SendsALine, Zenon DEF LineSent
<1>f. /\ written[c] \in 0..FileLines /\ NextLine(c) \in 0..FileLines /\ Idx(NextLine(c)) = written[c] + 1
      /\ NextMsg(c) \in Msgs /\ NextMsg(c).type = c /\ NextMsg(c).body = NextLine(c)
  BY SendsALine, Zenon DEF LineSent
<1>g. /\ \A d \in MsgClients : written'[d] = IF d = c THEN written[c] + 1 ELSE written[d]
      /\ written' \in [MsgClients -> 0..FileLines + 1]
  BY SendsALine, Zenon DEF LineSent
<1>h. \A i \in 1..Len(mqueue) : mqueue[i].type = Req => mqueue[i].body # c
  BY SendsALine, Zenon DEF LineSent
<1>k. /\ serving' \in SUBSET MsgClients /\ serving' \in SUBSET serving
      /\ \A d \in serving' : written'[d] <= FileLines
  BY SendsALine, Zenon DEF LineSent
<1>l. \A d \in MsgClients : cstate'[d] = "start" => d \notin serving' /\ written'[d] = 0
  BY SendsALine, Zenon DEF LineSent
<1>m. multi' = FALSE => \A d, e \in serving' : d = e
  BY SendsALine, Zenon DEF LineSent
<1>1. multi = TRUE /\ Len(own[c]) < QBYTES /\ own' = [own EXCEPT ![c] = Append(own[c], NextLine(c))] /\ mqueue' = mqueue
  BY <1>0, Zenon DEF server_send, room, MsgTypes, NextLine, NextMsg
<1>2. own[c] \in Seq(0..FileLines)
  BY <1>0, Zenon DEF MsgTypes
<1>3. /\ Append(own[c], NextLine(c)) \in Seq(0..FileLines) /\ Len(Append(own[c], NextLine(c))) = Len(own[c]) + 1
      /\ Append(own[c], NextLine(c))[Len(own[c]) + 1] = NextLine(c)
      /\ \A i \in 1..Len(own[c]) : Append(own[c], NextLine(c))[i] = own[c][i]
  BY <1>f, <1>2
<1>4. /\ own' \in [MsgClients -> Seq(0..FileLines)]
      /\ \A d \in MsgClients : own'[d] = IF d = c THEN Append(own[c], NextLine(c)) ELSE own[d]
  BY <1>0, <1>1, <1>3, Zenon DEF MsgTypes
<1>5. \A d \in MsgClients : Len(own'[d]) <= QBYTES
  BY <1>0, <1>c, <1>1, <1>2, <1>3, <1>4 DEF MsgTypes
<1>6. MsgTypes'
  BY <1>0, <1>e, <1>g, <1>k, <1>1, <1>4, <1>5, Zenon DEF MsgTypes
<1>7. Requested'
  <2>1. mqueue' = mqueue /\ cstate' = cstate
    BY <1>e, <1>1, Zenon
  <2>2. ASSUME NEW i \in 1..Len(mqueue), mqueue[i].type = Req
        PROVE  /\ mqueue[i].body \in MsgClients /\ cstate[mqueue[i].body] # "start"
               /\ mqueue[i].body \notin serving' /\ written'[mqueue[i].body] = 0
    <3>1. /\ mqueue[i].body \in MsgClients /\ cstate[mqueue[i].body] # "start"
          /\ mqueue[i].body \notin serving /\ written[mqueue[i].body] = 0
      BY <1>0, <2>2, Zenon DEF Requested
    <3>2. mqueue[i].body # c
      BY <1>h, <2>2, Zenon
    <3> QED
      BY <1>g, <1>k, <3>1, <3>2, Zenon
  <2>3. \A i, j \in 1..Len(mqueue) :
          mqueue[i].type = Req /\ mqueue[j].type = Req /\ mqueue[i].body = mqueue[j].body => i = j
    BY <1>0, Zenon DEF Requested
  <2> QED
    BY <1>k, <1>l, <1>m, <2>1, <2>2, <2>3, ZenonT(60) DEF Requested
<1>8. ASSUME NEW d \in MsgClients
      PROVE  /\ Len(got[d]) <= written'[d]
             /\ Len(own'[d]) = written'[d] - Len(got[d])
             /\ \A i \in 1..Len(own'[d]) : own'[d][i] = answer[Len(got[d]) + i]
  <2>1. /\ Len(got[d]) \in Nat /\ written[d] \in Nat /\ Len(got[d]) <= written[d]
    BY <1>d, Zenon
  <2>2. /\ Len(own[d]) = written[d] - Len(got[d])
        /\ \A i \in 1..Len(own[d]) : own[d][i] = answer[Len(got[d]) + i]
    BY <1>0, <1>1, Zenon DEF Answered
  <2>3. CASE d # c
    <3>1. written'[d] = written[d] /\ own'[d] = own[d]
      BY <1>g, <1>4, <2>3, Zenon
    <3> QED
      BY <2>1, <2>2, <3>1, Zenon
  <2>4. CASE d = c
    <3>1. written'[d] = written[d] + 1 /\ own'[d] = Append(own[d], NextLine(c))
      BY <1>g, <1>4, <2>4, Zenon
    <3>2. Len(own'[d]) = Len(own[d]) + 1 /\ Len(own[d]) \in Nat
      BY <1>2, <1>3, <2>4, <3>1
    <3>3. NextLine(c) = answer[Len(got[d]) + (Len(own[d]) + 1)]
      <4>1. Len(got[d]) + (Len(own[d]) + 1) = written[d] + 1
        BY <2>1, <2>2
      <4> QED
        BY <2>4, <4>1, Zenon DEF NextLine
    <3>4. ASSUME NEW i \in 1..Len(own[d]) + 1 PROVE own'[d][i] = answer[Len(got[d]) + i]
      <4>1. CASE i = Len(own[d]) + 1
        BY <1>3, <2>4, <3>1, <3>3, <4>1, Zenon
      <4>2. CASE i \in 1..Len(own[d])
        BY <1>3, <2>2, <2>4, <3>1, <4>2, Zenon
      <4> QED
        BY <3>2, <4>1, <4>2
    <3>5. Len(got[d]) <= written'[d] /\ Len(own'[d]) = written'[d] - Len(got[d])
      <4>1. Len(own[d]) = written[d] - Len(got[d])
        BY <2>2, Zenon
      <4>2. Len(got[d]) <= written[d] + 1 /\ Len(own[d]) + 1 = (written[d] + 1) - Len(got[d])
        BY <2>1, <4>1
      <4> QED
        BY <3>1, <3>2, <4>2, Zenon
    <3> QED
      BY <3>2, <3>4, <3>5, Zenon
  <2> QED
    BY <2>3, <2>4, Zenon
<1>9. Answered'
  <2>1. multi' # FALSE /\ got' = got
    BY <1>e, <1>1, Zenon
  <2>2. \A d \in MsgClients : \A i \in 1..Len(got[d]) : got[d][i] = answer[i]
    BY <1>0, Zenon DEF Answered
  <2> QED
    BY <1>8, <2>1, <2>2, Zenon DEF Answered
<1> QED
  BY <1>6, <1>7, <1>9, Zenon DEF MsgInv

(* What taking line n does to the client c that reads it.                  *)
LineRead(c) ==
    /\ multi' = multi /\ serving' = serving /\ written' = written
    /\ got' \in [MsgClients -> Seq(0..FileLines)]
    /\ cstate' \in [MsgClients -> {"start", "waiting", "done", "killed"}]
    /\ \A d \in MsgClients : cstate'[d] = "start" <=> cstate[d] = "start"
    /\ \A d \in MsgClients : d # c => got'[d] = got[d]
    /\ Len(got'[c]) = Len(got[c]) + 1
    /\ \A d \in MsgClients : \A i \in 1..Len(got'[d]) : got'[d][i] = answer[i]
    /\ \A d \in MsgClients : Len(got'[d]) <= written[d]

(* A client that finds its next line takes it.                             *)
LEMMA ReadsALine ==
    MsgInv => \A c \in MsgClients : \A n \in 0..FileLines :
                  client_recv(c) /\ take_answer(c, n) /\ Len(got[c]) < written[c] /\ n = answer[Len(got[c]) + 1]
                      => LineRead(c)
<1> SUFFICES ASSUME MsgInv, NEW c \in MsgClients, NEW n \in 0..FileLines, client_recv(c), take_answer(c, n),
                    Len(got[c]) < written[c], n = answer[Len(got[c]) + 1]
             PROVE  LineRead(c)
  BY Zenon
<1>0. MsgTypes /\ Requested /\ Answered
  BY Zenon DEF MsgInv
<1>d. \A d \in MsgClients : Len(got[d]) \in Nat /\ written[d] \in Nat /\ Len(got[d]) <= written[d]
  BY MsgFacts, Zenon
<1>e. cstate[c] = "waiting" /\ multi' = multi /\ serving' = serving /\ written' = written
  BY Zenon DEF client_recv
<1>1. got' = [got EXCEPT ![c] = Append(got[c], n)] /\ got[c] \in Seq(0..FileLines)
  BY <1>0, Zenon DEF take_answer, MsgTypes
<1>2. /\ Append(got[c], n) \in Seq(0..FileLines) /\ Len(Append(got[c], n)) = Len(got[c]) + 1
      /\ Append(got[c], n)[Len(got[c]) + 1] = n
      /\ \A i \in 1..Len(got[c]) : Append(got[c], n)[i] = got[c][i]
  BY <1>1
<1>3. /\ got' \in [MsgClients -> Seq(0..FileLines)]
      /\ got'[c] = Append(got[c], n)
      /\ \A d \in MsgClients : d # c => got'[d] = got[d]
  BY <1>0, <1>1, <1>2, Zenon DEF MsgTypes
<1>4. cstate' = cstate \/ cstate' = [cstate EXCEPT ![c] = "done"]
  BY Zenon DEF take_answer
<1>5. /\ cstate' \in [MsgClients -> {"start", "waiting", "done", "killed"}]
      /\ \A d \in MsgClients : cstate'[d] = "start" <=> cstate[d] = "start"
  BY <1>0, <1>e, <1>4, Zenon DEF MsgTypes
<1>6. Len(got'[c]) = Len(got[c]) + 1 /\ Len(got[c]) \in Nat /\ written[c] \in Nat
  BY <1>d, <1>2, <1>3, Zenon
<1>7. ASSUME NEW i \in 1..Len(got[c]) + 1 PROVE got'[c][i] = answer[i]
  <2>1. CASE i = Len(got[c]) + 1
    BY <1>2, <1>3, <2>1, Zenon
  <2>2. CASE i \in 1..Len(got[c])
    BY <1>0, <1>2, <1>3, <2>2 DEF Answered
  <2> QED
    BY <1>6, <2>1, <2>2
<1>8. Len(got'[c]) <= written[c]
  BY <1>6
<1>9. ASSUME NEW d \in MsgClients, NEW i \in 1..Len(got'[d]) PROVE got'[d][i] = answer[i]
  <2>1. CASE d = c
    <3>1. i \in 1..Len(got[c]) + 1
      BY <1>6, <2>1, Zenon
    <3> QED
      BY <1>7, <2>1, <3>1, Zenon
  <2>2. CASE d # c
    BY <1>0, <1>3, <2>2 DEF Answered
  <2> QED
    BY <2>1, <2>2, Zenon
<1>10. \A d \in MsgClients : Len(got'[d]) <= written[d]
  BY <1>0, <1>3, <1>8, Zenon DEF Answered
<1> QED
  BY <1>e, <1>3, <1>5, <1>6, <1>9, <1>10, Zenon DEF LineRead

(* A client takes its first line out of the common queue.                  *)
LEMMA ReceivesFromQueue == MsgInv => \A c \in MsgClients : multi = FALSE /\ client_recv(c) => MsgInv'
<1> SUFFICES ASSUME MsgInv, NEW c \in MsgClients, multi = FALSE, client_recv(c) PROVE MsgInv'
  BY Zenon
<1>0. MsgTypes /\ Requested /\ Answered
  BY DEF MsgInv
<1>a. mqueue \in Seq(Msgs)
  BY MsgFacts
<1>b. \A i \in 1..Len(mqueue) :
        \/ mqueue[i].type = Req /\ mqueue[i].body \in MsgClients
        \/ mqueue[i].type \in MsgClients /\ mqueue[i].body \in 0..FileLines
  BY MsgFacts
<1>c. FileLines \in Nat /\ QBYTES \in Nat /\ Req \notin MsgClients /\ Len(mqueue) \in Nat /\ Len(mqueue) <= QBYTES
  BY MsgFacts
<1>d. \A d \in MsgClients :
        /\ Len(got[d]) \in Nat /\ written[d] \in Nat /\ Len(got[d]) <= written[d]
        /\ multi = FALSE => Answers(d, mqueue, Len(got[d]), written[d])
  BY MsgFacts
<1>i. multi = FALSE
  BY <1>0, Zenon DEF MsgTypes
<1>j. PICK i \in first_of(mqueue, c) :
        take_answer(c, mqueue[i].body) /\ mqueue' = without(mqueue, i)
  BY <1>i, Zenon DEF client_recv, my_type
<1> DEFINE r == without(mqueue, i)
           n == mqueue[i].body
           Was(j) == IF j < i THEN j ELSE j + 1
<1>1. multi = FALSE /\ take_answer(c, n) /\ mqueue' = r /\ own' = own
  BY <1>i, <1>j, Zenon DEF client_recv
<1>2. /\ i \in 1..Len(mqueue) /\ mqueue[i].type = c
  <2> HIDE DEF Msgs
  <2> QED BY <1>a, FirstOf, Zenon
<1>3. /\ Idx(n) = Len(got[c]) + 1 /\ Len(got[c]) < written[c]
      /\ Answers(c, r, Len(got[c]) + 1, written[c])
  <2>1. Len(got[c]) \in Nat /\ written[c] \in Nat /\ Answers(c, mqueue, Len(got[c]), written[c])
    BY <1>d, <1>1, Zenon
  <2> HIDE DEF Msgs
  <2> QED
    BY <1>a, <2>1, TakenBy
<1>4. n \in 0..FileLines
  BY <1>b, <1>c, <1>2, Zenon
<1>5. n = answer[Len(got[c]) + 1]
  BY <1>3, <1>4, AnswerIs, Zenon
<1>6. /\ r \in Seq(Msgs) /\ Len(r) = Len(mqueue) - 1
      /\ \A j \in 1..Len(r) : r[j] = mqueue[Was(j)]
  <2> HIDE DEF Msgs
  <2> QED BY <1>a, <1>2, Removed, Zenon
<1> HIDE DEF r, n, Msgs
<1>7. /\ \A j \in 1..Len(r) : Was(j) \in 1..Len(mqueue)
      /\ \A j, k \in 1..Len(r) : Was(j) = Was(k) => j = k
  BY <1>2, <1>6
<1> HIDE DEF Was
<1>7a. LineRead(c)
  BY ReadsALine, <1>1, <1>3, <1>4, <1>5, Zenon
<1>8. /\ got' \in [MsgClients -> Seq(0..FileLines)]
      /\ cstate' \in [MsgClients -> {"start", "waiting", "done", "killed"}]
      /\ \A d \in MsgClients : cstate'[d] = "start" <=> cstate[d] = "start"
      /\ \A d \in MsgClients : d # c => got'[d] = got[d]
      /\ Len(got'[c]) = Len(got[c]) + 1
      /\ \A d \in MsgClients : \A j \in 1..Len(got'[d]) : got'[d][j] = answer[j]
      /\ \A d \in MsgClients : Len(got'[d]) <= written[d]
  BY <1>7a, Zenon DEF LineRead
<1>8a. multi' = multi /\ serving' = serving /\ written' = written
  BY Zenon DEF client_recv
<1>9. MsgTypes'
  <2>1. mqueue' \in Seq(Requests \cup Lines)
    BY <1>1, <1>6, Zenon DEF Msgs
  <2>2. Len(mqueue') <= QBYTES
    BY <1>c, <1>1, <1>6
  <2> QED
    BY <1>0, <1>8a, <1>1, <1>8, <2>1, <2>2 DEF MsgTypes
<1>10. Requested'
  <2>1. ASSUME NEW j \in 1..Len(r), r[j].type = Req
        PROVE  /\ r[j].body \in MsgClients
               /\ cstate'[r[j].body] # "start"
               /\ r[j].body \notin serving
               /\ written[r[j].body] = 0
    <3>1. r[j] = mqueue[Was(j)] /\ Was(j) \in 1..Len(mqueue)
      BY <1>6, <1>7, Zenon
    <3>2. /\ r[j].body \in MsgClients /\ cstate[r[j].body] # "start"
          /\ r[j].body \notin serving /\ written[r[j].body] = 0
      BY <1>0, <2>1, <3>1, Zenon DEF Requested
    <3> QED
      BY <1>8, <3>2, Zenon
  <2>2. ASSUME NEW j \in 1..Len(r), NEW k \in 1..Len(r), r[j].type = Req, r[k].type = Req, r[j].body = r[k].body
        PROVE  j = k
    <3>1. /\ r[j] = mqueue[Was(j)] /\ Was(j) \in 1..Len(mqueue)
          /\ r[k] = mqueue[Was(k)] /\ Was(k) \in 1..Len(mqueue)
      BY <1>6, <1>7, Zenon
    <3>2. Was(j) = Was(k)
      BY <1>0, <2>2, <3>1 DEF Requested
    <3> QED
      BY <1>7, <3>2, Zenon
  <2>3. /\ \A d \in MsgClients : cstate'[d] = "start" => d \notin serving' /\ written'[d] = 0
        /\ \A d \in serving' : written'[d] <= FileLines
        /\ multi' = FALSE => \A d, e \in serving' : d = e
    BY <1>0, <1>8a, <1>8, Zenon DEF Requested
  <2> QED
    BY <1>8a, <1>1, <2>1, <2>2, <2>3, ZenonT(60) DEF Requested
<1>11. ASSUME NEW d \in MsgClients PROVE Answers(d, mqueue', Len(got'[d]), written[d])
  <2>1. CASE d = c
    BY <1>1, <1>3, <1>8, <2>1, Zenon
  <2>2. CASE d # c
    <3>1. /\ Len(got[d]) \in Nat /\ written[d] \in Nat
          /\ Answers(d, mqueue, Len(got[d]), written[d])
      BY <1>d, <1>1, Zenon
    <3>2. mqueue[i].type # d /\ got'[d] = got[d]
      BY <1>2, <1>8, <2>2, Zenon
    <3>3. Answers(d, r, Len(got[d]), written[d])
      BY <1>a, <1>2, <3>1, <3>2, TakenFromAnother, Zenon DEF r
    <3> QED
      BY <1>1, <3>2, <3>3, Zenon
  <2> QED
    BY <2>1, <2>2, Zenon
<1>12. Answered'
  <2>1. multi' # TRUE
    BY <1>8a, <1>1, Zenon
  <2> QED
    BY <1>8a, <1>8, <1>11, <2>1, Zenon DEF Answered
<1> QED
  BY <1>9, <1>10, <1>12, Zenon DEF MsgInv

(* A client takes the first line out of its own queue.                     *)
LEMMA ReceivesFromOwn == MsgInv => \A c \in MsgClients : multi = TRUE /\ client_recv(c) => MsgInv'
<1> SUFFICES ASSUME MsgInv, NEW c \in MsgClients, multi = TRUE, client_recv(c) PROVE MsgInv'
  OBVIOUS
<1>0. MsgTypes /\ Requested /\ Answered
  BY DEF MsgInv
<1>a. mqueue \in Seq(Msgs)
  BY MsgFacts
<1>b. \A i \in 1..Len(mqueue) :
        \/ mqueue[i].type = Req /\ mqueue[i].body \in MsgClients
        \/ mqueue[i].type \in MsgClients /\ mqueue[i].body \in 0..FileLines
  BY MsgFacts
<1>c. FileLines \in Nat /\ QBYTES \in Nat /\ Req \notin MsgClients /\ Len(mqueue) \in Nat /\ Len(mqueue) <= QBYTES
  BY MsgFacts
<1>d. \A d \in MsgClients :
        /\ Len(got[d]) \in Nat /\ written[d] \in Nat /\ Len(got[d]) <= written[d]
        /\ multi = FALSE => Answers(d, mqueue, Len(got[d]), written[d])
  BY MsgFacts
<1> DEFINE n == Head(own[c])
<1>1. /\ multi = TRUE /\ own[c] # <<>> /\ take_answer(c, n)
      /\ own' = [own EXCEPT ![c] = Tail(own[c])] /\ mqueue' = mqueue
  BY <1>0, Zenon DEF client_recv, MsgTypes
<1>2. own[c] \in Seq(0..FileLines) /\ Len(own[c]) \in Nat /\ Len(own[c]) >= 1
  BY <1>0, <1>1 DEF MsgTypes
<1>3. /\ n = own[c][1] /\ n \in 0..FileLines /\ Tail(own[c]) \in Seq(0..FileLines)
      /\ Len(Tail(own[c])) = Len(own[c]) - 1
      /\ \A i \in 1..Len(own[c]) - 1 : Tail(own[c])[i] = own[c][i + 1]
  BY <1>1, <1>2, TailOf, Zenon
<1> HIDE DEF n
<1>4. /\ Len(got[c]) \in Nat /\ written[c] \in Nat
      /\ Len(own[c]) = written[c] - Len(got[c])
      /\ \A i \in 1..Len(own[c]) : own[c][i] = answer[Len(got[c]) + i]
  BY <1>0, <1>d, <1>1, Zenon DEF Answered
<1>5. Len(got[c]) < written[c] /\ n = answer[Len(got[c]) + 1]
  BY <1>2, <1>3, <1>4
<1>7a. LineRead(c)
  BY ReadsALine, <1>1, <1>3, <1>5, Zenon
<1>8. /\ got' \in [MsgClients -> Seq(0..FileLines)]
      /\ cstate' \in [MsgClients -> {"start", "waiting", "done", "killed"}]
      /\ \A d \in MsgClients : cstate'[d] = "start" <=> cstate[d] = "start"
      /\ \A d \in MsgClients : d # c => got'[d] = got[d]
      /\ Len(got'[c]) = Len(got[c]) + 1
      /\ \A d \in MsgClients : \A j \in 1..Len(got'[d]) : got'[d][j] = answer[j]
      /\ \A d \in MsgClients : Len(got'[d]) <= written[d]
  BY <1>7a, Zenon DEF LineRead
<1>8a. multi' = multi /\ serving' = serving /\ written' = written
  BY Zenon DEF client_recv
<1>9. /\ own' \in [MsgClients -> Seq(0..FileLines)]
      /\ own'[c] = Tail(own[c]) /\ \A d \in MsgClients : d # c => own'[d] = own[d]
  BY <1>0, <1>1, <1>3, Zenon DEF MsgTypes
<1>10. MsgTypes'
  <2>1. \A d \in MsgClients : Len(own'[d]) <= QBYTES
    <3>1. Len(own[c]) <= QBYTES
      BY <1>0, Zenon DEF MsgTypes
    <3>2. Len(own'[c]) <= QBYTES
      BY <1>c, <1>2, <1>3, <1>9, <3>1
    <3> QED
      BY <1>0, <1>9, <3>2, Zenon DEF MsgTypes
  <2> QED
    BY <1>0, <1>8a, <1>1, <1>8, <1>9, <2>1, Zenon DEF MsgTypes
<1>11. Requested'
  BY <1>0, <1>8a, <1>1, <1>8, ZenonT(60) DEF Requested
<1>12. ASSUME NEW d \in MsgClients
       PROVE  /\ Len(own'[d]) = written[d] - Len(got'[d])
              /\ \A i \in 1..Len(own'[d]) : own'[d][i] = answer[Len(got'[d]) + i]
  <2>1. CASE d # c
    <3>1. own'[d] = own[d] /\ got'[d] = got[d]
      BY <1>8, <1>9, <2>1, Zenon
    <3>2. /\ Len(own[d]) = written[d] - Len(got[d])
          /\ \A i \in 1..Len(own[d]) : own[d][i] = answer[Len(got[d]) + i]
      BY <1>0, <1>1, Zenon DEF Answered
    <3> QED
      BY <3>1, <3>2, Zenon
  <2>2. CASE d = c
    <3>0. Len(own'[c]) = Len(own[c]) - 1 /\ Len(got'[c]) = Len(got[c]) + 1
      BY <1>3, <1>8, <1>9, Zenon
    <3>1. Len(own'[c]) = Len(own[c]) - 1 /\ Len(own'[c]) = written[c] - Len(got'[c])
      <4>1. Len(own[c]) = written[c] - Len(got[c]) /\ Len(got[c]) \in Nat /\ written[c] \in Nat
        BY <1>4, Zenon
      <4>2. Len(own[c]) - 1 = written[c] - (Len(got[c]) + 1)
        BY <4>1
      <4> QED
        BY <3>0, <4>2, Zenon
    <3>2. ASSUME NEW i \in 1..Len(own[c]) - 1 PROVE own'[c][i] = answer[Len(got'[c]) + i]
      <4>1. i + 1 \in 1..Len(own[c]) /\ Len(got[c]) + (i + 1) = Len(got'[c]) + i
        <5>1. Len(got[c]) \in Nat /\ Len(own[c]) \in Nat
          BY <1>2, <1>4, Zenon
        <5>2. i + 1 \in 1..Len(own[c]) /\ Len(got[c]) + (i + 1) = (Len(got[c]) + 1) + i
          BY <5>1, OneLater, Zenon
        <5> QED
          BY <3>0, <5>2, Zenon
      <4>2. own'[c][i] = own[c][i + 1]
        BY <1>3, <1>9, Zenon
      <4> QED
        BY <1>4, <4>1, <4>2, Zenon
    <3> QED
      BY <2>2, <3>1, <3>2, Zenon
  <2> QED
    BY <2>1, <2>2, Zenon
<1>13. Answered'
  <2>1. multi' # FALSE
    BY <1>8a, <1>1, Zenon
  <2> QED
    BY <1>8a, <1>8, <1>12, <2>1, Zenon DEF Answered
<1> QED
  BY <1>10, <1>11, <1>13 DEF MsgInv

(* Every step keeps the invariant.                                         *)
LEMMA MsgInductive == MsgInv /\ [MsgNext]_svmvars => MsgInv'
<1> SUFFICES ASSUME MsgInv, [MsgNext]_svmvars PROVE MsgInv'
  BY Zenon
<1>1. CASE UNCHANGED svmvars
  <2>1. MsgTypes /\ Requested /\ Answered
    BY Zenon DEF MsgInv
  <2>2. /\ multi' = multi /\ mqueue' = mqueue /\ own' = own /\ cstate' = cstate /\ got' = got
        /\ serving' = serving /\ written' = written
    BY <1>1, Zenon DEF svmvars
  <2>3. MsgTypes'
    BY <2>1, <2>2, Zenon DEF MsgTypes
  <2>4. Requested'
    BY <2>1, <2>2, ZenonT(60) DEF Requested
  <2>5. Answered'
    BY <2>1, <2>2, Zenon DEF Answered
  <2> QED
    BY <2>3, <2>4, <2>5, Zenon DEF MsgInv
<1>2. CASE MsgNext
  <2>1. multi = TRUE \/ multi = FALSE
    BY Zenon DEF MsgInv, MsgTypes
  <2> QED
    BY <1>2, <2>1, ClientSends, ClientKilled, ServerReceives, SendsToQueue, SendsToOwn, ReceivesFromQueue,
       ReceivesFromOwn, Zenon DEF MsgNext
<1> QED
  BY <1>1, <1>2, Zenon

(* A client of the System V message servers reads the lines of its own     *)
(* file in order, and a queue never holds more than it has room for.       *)
THEOREM ClientsReadTheirAnswers == MsgSpec => []SvMsgSafe
<1>1. MsgInv => SvMsgSafe
  BY MsgBounds, Zenon
<1> QED
  BY <1>1, MsgInitially, MsgInductive, PTL DEF MsgSpec

=============================================================================
