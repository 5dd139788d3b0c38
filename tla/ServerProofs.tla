---------------------------- MODULE ServerProofs ----------------------------
(***************************************************************************)
(* Servers that hand connections or messages from one process or thread to *)
(* another: serv05.c, the chat server of src/mail and the pools that       *)
(* accept in the children.                                                 *)
(*                                                                         *)
(* Each section has a component's inductive invariant, the lemmas that it  *)
(* holds at first and that every step keeps it, and the theorem that       *)
(* follows.                                                                *)
(***************************************************************************)
EXTENDS Serv05, ChatServer, AcceptPool, CountingLemmas

(* The default of every leaf that names no prover: Z3 with twenty seconds, *)
(* then Zenon with thirty.                                                 *)
USE SMTT(20), ZenonT(30)

-----------------------------------------------------------------------------
(* Serv05. What the parent believes of a child, what is in the pipe        *)
(* between them and what the child does agree.                             *)

(* The least of a set of numbers is one of them.                           *)
LEMMA MinIsMember == ASSUME NEW S \in SUBSET Nat, S # {} PROVE Min(S) \in S
<1>1. \E x \in S : \A y \in S : x <= y
  BY Least, Zenon
<1> QED
  BY <1>1, Zenon DEF Min

Available == Those(Children5, child_status, {0})
Left == {d \in rset : d >= nexti}

Owed ==
    \A c \in Children5 : child5[c] = "dead" => fddown[c] + byteup[c] <= child_status[c]

Scanned ==
    /\ navail = Cardinality(Available)
    /\ p5pc = "accept" => navail > 0 /\ listenfd \in rset /\ nexti = 1 /\ nsel = Cardinality(rset)
    /\ p5pc = "scan" => nsel > 0 /\ nsel = Cardinality(Left)

Serv05Inv == Serv05Safe /\ Owed /\ Scanned

(* The children are numbered.                                              *)
LEMMA Children5Finite == IsFiniteSet(Children5) /\ Cardinality(Children5) = nchildren /\ nchildren \in Nat
<1>1. nchildren \in Nat
  BY ChildrenAssumption, Zenon
<1>2. IsFiniteSet(1..nchildren) /\ Cardinality(1..nchildren) = nchildren
  BY <1>1, FS_Interval
<1> QED
  BY <1>1, <1>2, Zenon DEF Children5

(* It holds at the start.                                                  *)
LEMMA S5Initially == Serv05Init => Serv05Inv
<1> SUFFICES ASSUME Serv05Init PROVE Serv05Inv
  BY Zenon
<1>1. Available = Children5
  BY Zenon DEF Serv05Init, Available, Those
<1>2. navail = Cardinality(Available)
  BY <1>1, Children5Finite, Zenon DEF Serv05Init
<1> QED
  BY <1>2, Children5Finite DEF Serv05Init, Serv05Inv, Serv05Safe, Serv05TypeOK, AvailableIsIdle, NeverOutOfChildren, Owed, Scanned

(* How a change of the status of c changes the number of free children.    *)
LEMMA AvailableMoves ==
    ASSUME NEW c \in Children5, \A d \in Children5 : d # c => child_status'[d] = child_status[d]
    PROVE  /\ Cardinality(Available') = Cardinality(Available)
                + (IF child_status'[c] \in {0} THEN 1 ELSE 0) - (IF child_status[c] \in {0} THEN 1 ELSE 0)
           /\ Cardinality(Available) \in Nat /\ Cardinality(Available') <= nchildren
<1>0. IsFiniteSet(Children5) /\ Cardinality(Children5) = nchildren
  BY Children5Finite, Zenon
<1>1. Cardinality(Those(Children5, child_status', {0})) = Cardinality(Those(Children5, child_status, {0}))
         + (IF child_status'[c] \in {0} THEN 1 ELSE 0) - (IF child_status[c] \in {0} THEN 1 ELSE 0)
  BY <1>0, OneMoves, SMTT(20)
<1>2. Available' = Those(Children5, child_status', {0})
  BY Zenon DEF Available, Those, Children5
<1>3. Cardinality(Those(Children5, child_status, {0})) \in Nat /\ Cardinality(Those(Children5, child_status', {0})) <= nchildren
  BY <1>0, Number, Zenon
<1> QED
  BY <1>1, <1>2, <1>3, Zenon DEF Available

(* Every step keeps the invariant.                                         *)
LEMMA S5Inductive == Serv05Inv /\ [Serv05Next]_serv05vars => Serv05Inv'
<1> SUFFICES ASSUME Serv05Inv, [Serv05Next]_serv05vars PROVE Serv05Inv'
  BY Zenon
<1>0. /\ Serv05TypeOK /\ AvailableIsIdle /\ NeverOutOfChildren /\ Owed /\ Scanned
      /\ nchildren \in Nat /\ IsFiniteSet(Children5) /\ Cardinality(Children5) = nchildren
      /\ Children5 = 1..nchildren
  BY Children5Finite, Zenon DEF Serv05Inv, Serv05Safe, Children5
<1>01. \A d \in rset : d \in Int /\ 0 <= d /\ d <= nchildren
  BY <1>0 DEF Serv05TypeOK
<1>00. \A c \in Children5 : /\ fddown[c] \in 0..1 /\ byteup[c] \in 0..1 /\ child_status[c] \in 0..1
                            /\ child5[c] \in {"read_fd", "web_child", "dead"}
  BY <1>0, Zenon DEF Serv05TypeOK
(* A step of a child: it leaves what the parent keeps alone.               *)
<1>1. ASSUME NEW c \in Children5, UNCHANGED <<p5pc, navail, child_status, rset, nsel, nexti>>,
             child5' \in [Children5 -> {"read_fd", "web_child", "dead"}],
             fddown' \in [Children5 -> 0..1], byteup' \in [Children5 -> 0..1],
             \A d \in Children5 : d # c => child5'[d] = child5[d] /\ fddown'[d] = fddown[d] /\ byteup'[d] = byteup[d],
             child5'[c] # "dead" =>
               fddown'[c] + byteup'[c] + (IF child5'[c] = "web_child" THEN 1 ELSE 0) = child_status[c],
             child5'[c] = "dead" => fddown'[c] + byteup'[c] <= child_status[c]
      PROVE  Serv05Inv'
  <2>1. Serv05TypeOK' /\ NeverOutOfChildren'
    BY <1>0, <1>1, Zenon DEF Serv05TypeOK, NeverOutOfChildren, Children5
  <2>2. AvailableIsIdle' /\ Owed'
    BY <1>0, <1>1 DEF AvailableIsIdle, Owed, Children5
  <2>3. Available' = Available /\ Left' = Left
    BY <1>1, Zenon DEF Available, Left, Those, Children5
  <2>4. Scanned'
    BY <1>0, <1>1, <2>3, Zenon DEF Scanned
  <2> QED
    BY <2>1, <2>2, <2>4, Zenon DEF Serv05Inv, Serv05Safe
<1>2. ASSUME NEW c \in Children5, child_main5(c) PROVE Serv05Inv'
  <2>1. CASE Read_fd(c)
    <3>1. /\ UNCHANGED <<p5pc, navail, child_status, rset, nsel, nexti, byteup>>
          /\ child5[c] = "read_fd" /\ fddown[c] > 0
          /\ child5' = [child5 EXCEPT ![c] = "web_child"] /\ fddown' = [fddown EXCEPT ![c] = @ - 1]
      BY <2>1, Zenon DEF Read_fd
    <3>2. fddown[c] = 1 /\ byteup[c] = 0 /\ child_status[c] = 1
      BY <1>0, <1>00, <3>1 DEF AvailableIsIdle
    <3>3. /\ child5'[c] = "web_child" /\ byteup'[c] = 0 /\ fddown'[c] = 0
          /\ \A d \in Children5 : d # c => child5'[d] = child5[d] /\ fddown'[d] = fddown[d] /\ byteup'[d] = byteup[d]
      BY <1>0, <3>1, <3>2 DEF Serv05TypeOK
    <3>4. /\ child5' \in [Children5 -> {"read_fd", "web_child", "dead"}]
          /\ fddown' \in [Children5 -> 0..1] /\ byteup' \in [Children5 -> 0..1]
      BY <1>0, <3>1, <3>2 DEF Serv05TypeOK
    <3> QED
      BY <1>1, <3>1, <3>2, <3>3, <3>4
  <2>2. CASE Read_fd_eof(c)
    BY <1>0, <1>00, <1>1, <2>2 DEF Read_fd_eof, Serv05TypeOK, AvailableIsIdle
  <2>3. CASE web_child_done(c)
    <3>1. CASE pipe_closed(c)
      <4>1. /\ UNCHANGED <<p5pc, navail, child_status, rset, nsel, nexti, fddown, byteup>>
            /\ child5[c] = "web_child" /\ child5' = [child5 EXCEPT ![c] = "dead"]
        BY <2>3, <3>1, Zenon DEF web_child_done
      <4> QED
        <5>1. /\ child5'[c] = "dead" /\ \A d \in Children5 : d # c => child5'[d] = child5[d]
              /\ child5' \in [Children5 -> {"read_fd", "web_child", "dead"}]
          BY <1>0, <4>1, Zenon DEF Serv05TypeOK
        <5>2. fddown[c] + byteup[c] <= child_status[c]
          BY <1>0, <1>00, <4>1 DEF AvailableIsIdle
        <5> QED
          BY <1>0, <1>1, <4>1, <5>1, <5>2, Zenon DEF Serv05TypeOK
    <3>2. CASE ~pipe_closed(c)
      <4>1. fddown[c] = 0 /\ byteup[c] = 0 /\ child_status[c] = 1
        BY <1>0, <1>00, <2>3 DEF web_child_done, AvailableIsIdle
      <4> QED
        <5>1. /\ UNCHANGED <<p5pc, navail, child_status, rset, nsel, nexti, fddown>>
              /\ child5' = [child5 EXCEPT ![c] = "read_fd"] /\ byteup' = [byteup EXCEPT ![c] = @ + 1]
          BY <2>3, <3>2, Zenon DEF web_child_done, tell_parent
        <5>2. /\ child5'[c] = "read_fd" /\ byteup'[c] = 1 /\ fddown'[c] = 0
              /\ \A d \in Children5 : d # c => child5'[d] = child5[d] /\ fddown'[d] = fddown[d] /\ byteup'[d] = byteup[d]
          BY <1>0, <4>1, <5>1 DEF Serv05TypeOK
        <5>3. /\ child5' \in [Children5 -> {"read_fd", "web_child", "dead"}]
              /\ fddown' \in [Children5 -> 0..1] /\ byteup' \in [Children5 -> 0..1]
          BY <1>0, <4>1, <5>1 DEF Serv05TypeOK
        <5> QED
          BY <1>1, <4>1, <5>1, <5>2, <5>3
    <3> QED
      BY <3>1, <3>2, Zenon
  <2> QED
    BY <1>2, <2>1, <2>2, <2>3, Zenon DEF child_main5
<1>3. ASSUME NEW c \in Children5, child_dies(c) PROVE Serv05Inv'
  BY <1>0, <1>00, <1>1, <1>3 DEF child_dies, Serv05TypeOK, AvailableIsIdle
<1>4. CASE sig_int5
  <2>1. Serv05TypeOK' /\ NeverOutOfChildren'
    BY <1>0, <1>4, Zenon DEF sig_int5, Serv05TypeOK, NeverOutOfChildren, Children5
  <2>2. AvailableIsIdle' /\ Owed'
    BY <1>0, <1>00, <1>4 DEF sig_int5, AvailableIsIdle, Owed, Children5
  <2>3. Available' = Available
    BY <1>4, Zenon DEF sig_int5, Available, Those, Children5
  <2>4. Scanned'
    BY <1>0, <1>4, <2>3, Zenon DEF sig_int5, Scanned
  <2> QED
    BY <2>1, <2>2, <2>4, Zenon DEF Serv05Inv, Serv05Safe
<1>5. CASE client_connects \/ UNCHANGED serv05vars
  <2>1. UNCHANGED <<p5pc, navail, child_status, rset, nsel, nexti, child5, fddown, byteup>>
    BY <1>5, Zenon DEF client_connects, serv05vars
  <2>2. Available' = Available /\ Left' = Left
    BY <2>1, Zenon DEF Available, Left, Those, Children5
  <2> QED
    BY <1>0, <2>1, <2>2, Zenon DEF Serv05Inv, Serv05Safe, Serv05TypeOK, AvailableIsIdle, NeverOutOfChildren, Owed, Scanned, Children5
<1>6. CASE Select5
  <2> DEFINE isset == {d \in select_set : IF d = listenfd THEN clients > accepted5 ELSE pipe_ready(d)}
  <2>1. /\ isset # {} /\ rset' = isset /\ nsel' = Cardinality(isset)
        /\ p5pc' = (IF listenfd \in isset THEN "accept" ELSE "scan") /\ nexti' = 1
        /\ UNCHANGED <<navail, child_status, child5, fddown, byteup>>
    BY <1>6, Zenon DEF Select5
  <2>2. isset \in SUBSET (0..nchildren) /\ (listenfd \in isset => navail > 0)
    BY <1>0 DEF select_set, listenfd, Serv05TypeOK
  <2> HIDE DEF isset
  <2>3. /\ IsFiniteSet(isset) /\ Cardinality(isset) \in 0..nchildren + 1 /\ Cardinality(isset) # 0
    <3>1. IsFiniteSet(0..nchildren) /\ Cardinality(0..nchildren) = nchildren + 1
      BY <1>0, FS_Interval
    <3>2. IsFiniteSet(isset) /\ Cardinality(isset) <= nchildren + 1
      BY <2>2, <3>1, FS_Subset, Zenon
    <3>3. Cardinality(isset) \in Nat /\ Cardinality(isset) # 0
      BY <2>1, <3>2, FS_CardinalityType, FS_EmptySet, Zenon
    <3> QED
      BY <1>0, <3>2, <3>3
  <2>4. Serv05TypeOK' /\ NeverOutOfChildren' /\ AvailableIsIdle' /\ Owed'
    BY <1>0, <2>1, <2>2, <2>3 DEF Serv05TypeOK, NeverOutOfChildren, AvailableIsIdle, Owed, Children5
  <2>5. Available' = Available
    BY <2>1, Zenon DEF Available, Those, Children5
  <2>6. listenfd \notin isset => Left' = isset
    <3>1. listenfd \notin isset => \A d \in isset : d >= 1
      BY <1>0, <2>2 DEF listenfd
    <3> QED
      BY <2>1, <3>1, Zenon DEF Left
  <2>7. Scanned'
    BY <1>0, <2>1, <2>2, <2>3, <2>5, <2>6 DEF Scanned
  <2> QED
    BY <2>4, <2>7, Zenon DEF Serv05Inv, Serv05Safe
<1>7. CASE accept_pass
  <2> DEFINE a == Min(Available)
  <2>0. /\ IsFiniteSet(rset) /\ listenfd \in rset /\ nexti = 1 /\ nsel = Cardinality(rset) /\ navail > 0
        /\ p5pc = "accept" /\ Cardinality(Available) = navail
    <3>1. p5pc = "accept"
      BY <1>7, Zenon DEF accept_pass
    <3>2. IsFiniteSet(0..nchildren) /\ rset \in SUBSET (0..nchildren)
      BY <1>0, FS_Interval DEF Serv05TypeOK
    <3> QED
      BY <1>0, <3>1, <3>2, FS_Subset, Zenon DEF Scanned
  <2>1. a \in Children5 /\ child_status[a] = 0
    <3>1. Available # {}
      BY <1>0, <2>0, FS_EmptySet
    <3>2. Available \in SUBSET Nat
      BY <1>0 DEF Available, Those
    <3>3. a \in Available
      BY <3>1, <3>2, MinIsMember, Zenon
    <3> QED
      BY <3>3, Zenon DEF Available, Those
  <2> HIDE DEF a
  <2>2. /\ child_status' = [child_status EXCEPT ![a] = 1] /\ navail' = navail - 1 /\ nsel' = nsel - 1
        /\ \/ child5[a] = "dead" /\ p5pc' = "sigpipe" /\ fddown' = fddown
           \/ /\ child5[a] # "dead" /\ fddown' = [fddown EXCEPT ![a] = @ + 1]
              /\ p5pc' = IF nsel = 1 THEN "select" ELSE "scan"
        /\ UNCHANGED <<rset, nexti, child5, byteup>>
    <3>1. {c \in Children5 : child_status[c] = 0} = Available
      BY Zenon DEF Available, Those
    <3>2. {c \in Children5 : child_status[c] = 0} # {}
      BY <2>1, Zenon
    <3> QED
      BY <1>7, <3>1, <3>2, Zenon DEF accept_pass, a
  <2>3. Cardinality(Available') = navail - 1
    <3>1. \A c \in Children5 : c # a => child_status'[c] = child_status[c]
      BY <2>2, <1>0, Zenon DEF Serv05TypeOK
    <3>2. child_status'[a] = 1
      BY <1>0, <2>1, <2>2, Zenon DEF Serv05TypeOK
    <3>3. /\ Cardinality(Available') = Cardinality(Available)
                + (IF child_status'[a] \in {0} THEN 1 ELSE 0) - (IF child_status[a] \in {0} THEN 1 ELSE 0)
          /\ Cardinality(Available) \in Nat
      BY <2>1, <3>1, AvailableMoves, Zenon
    <3> QED
      BY <2>0, <2>1, <3>2, <3>3
  <2>4. nsel - 1 = Cardinality(Left) /\ nsel \in Nat /\ nsel > 0
    <3>1. Left = rset \ {listenfd}
      <4>1. \A d \in rset : d >= nexti <=> d # listenfd
        BY <1>01, <2>0 DEF listenfd
      <4> QED
        BY <4>1, Zenon DEF Left
    <3>2. Cardinality(Left) = Cardinality(rset) - 1
      BY <2>0, <3>1, FS_RemoveElement, Zenon
    <3>3. nsel \in Nat /\ nsel # 0
      BY <2>0, FS_CardinalityType, FS_EmptySet, Zenon
    <3> QED
      BY <2>0, <3>2, <3>3
  <2>5. Serv05TypeOK' /\ NeverOutOfChildren'
    <3>1. /\ p5pc' \in {"select", "scan", "sigpipe"} /\ navail' \in 0..nchildren /\ nsel' \in 0..nchildren + 1
          /\ child_status' \in [Children5 -> 0..1]
      <4>1. navail \in 0..nchildren /\ nsel \in 0..nchildren + 1
        BY <1>0, Zenon DEF Serv05TypeOK
      <4>2. navail' \in 0..nchildren /\ nsel' \in 0..nchildren + 1
        BY <1>0, <2>0, <2>2, <2>4, <4>1
      <4>3. child_status' \in [Children5 -> 0..1]
        <5>1. child_status \in [Children5 -> 0..1] /\ child_status' = [child_status EXCEPT ![a] = 1]
          BY <1>0, <2>2, Zenon DEF Serv05TypeOK
        <5>2. 1 \in 0..1
          OBVIOUS
        <5> QED
          BY <5>1, <5>2, Zenon
      <4> QED
        BY <2>2, <4>2, <4>3, Zenon
    <3>2. fddown' \in [Children5 -> 0..1]
      BY <1>0, <1>00, <2>1, <2>2 DEF AvailableIsIdle, Serv05TypeOK
    <3> QED
      BY <1>0, <2>2, <3>1, <3>2, Zenon DEF Serv05TypeOK, NeverOutOfChildren, Children5
  <2>6. AvailableIsIdle' /\ Owed'
    <3>1. ASSUME NEW c \in Children5
          PROVE  /\ child5'[c] # "dead" => fddown'[c] + byteup'[c] + (IF child5'[c] = "web_child" THEN 1 ELSE 0) = child_status'[c]
                 /\ child5'[c] = "dead" => fddown'[c] + byteup'[c] <= child_status'[c]
      <4>1. CASE c # a
        <5>1. child_status'[c] = child_status[c] /\ fddown'[c] = fddown[c]
          BY <1>0, <2>2, <4>1, Zenon DEF Serv05TypeOK
        <5> QED
          BY <1>0, <2>2, <5>1, Zenon DEF AvailableIsIdle, Owed
      <4>2. CASE c = a /\ child5[a] = "dead"
        <5>1. child_status'[c] = 1 /\ fddown'[c] = fddown[c] /\ fddown[c] + byteup[c] <= 0
          BY <1>0, <2>1, <2>2, <4>2, Zenon DEF Serv05TypeOK, Owed
        <5> QED
          BY <1>00, <2>2, <4>2, <5>1
      <4>3. CASE c = a /\ child5[a] # "dead"
        <5>1. child_status'[c] = 1 /\ fddown'[c] = fddown[c] + 1
              /\ fddown[c] + byteup[c] + (IF child5[c] = "web_child" THEN 1 ELSE 0) = 0
          BY <1>0, <2>1, <2>2, <4>3, Zenon DEF Serv05TypeOK, AvailableIsIdle
        <5> QED
          BY <1>00, <2>2, <4>3, <5>1
      <4> QED
        BY <4>1, <4>2, <4>3, Zenon
    <3> QED
      BY <3>1, Zenon DEF AvailableIsIdle, Owed, Children5
  <2>7. Scanned'
    <3>1. Left' = Left
      BY <2>2, Zenon DEF Left
    <3> QED
      BY <2>2, <2>3, <2>4, <3>1 DEF Scanned
  <2> QED
    BY <2>5, <2>6, <2>7 DEF Serv05Inv, Serv05Safe
<1>8. CASE find_available
  <2>0. /\ p5pc = "scan" /\ nexti' = nexti + 1 /\ UNCHANGED <<rset, child5, fddown>>
        /\ nsel \in Nat /\ nsel > 0 /\ nsel = Cardinality(Left) /\ nexti \in Nat /\ rset \in SUBSET (0..nchildren)
        /\ IsFiniteSet(Left)
    <3>1. p5pc = "scan" /\ nexti' = nexti + 1 /\ UNCHANGED <<rset, child5, fddown>>
      BY <1>8, Zenon DEF find_available
    <3>2. IsFiniteSet(0..nchildren) /\ Left \in SUBSET (0..nchildren)
      <4>1. IsFiniteSet(0..nchildren)
        BY <1>0, FS_Interval
      <4> QED
        BY <1>0, <4>1, Zenon DEF Serv05TypeOK, Left
    <3>3. IsFiniteSet(Left)
      BY <3>2, FS_Subset, Zenon
    <3> QED
      BY <1>0, <3>1, <3>3 DEF Scanned, Serv05TypeOK
  <2>1. nexti \in Children5
    <3>1. Left # {}
      BY <2>0, FS_EmptySet
    <3> QED
      <4>1. \E d \in rset : d >= nexti
        BY <3>1, Zenon DEF Left
      <4>2. nexti >= 1
        BY <1>0 DEF Serv05TypeOK
      <4> QED
        BY <1>0, <1>01, <2>0, <4>1, <4>2
  <2>2. CASE nexti \notin rset
    <3>1. UNCHANGED <<p5pc, navail, child_status, nsel, byteup>>
      BY <1>8, <2>2, Zenon DEF find_available
    <3>2. Left' = Left /\ Available' = Available
      <4>1. \A d \in rset : d >= nexti <=> d >= nexti + 1
        BY <1>01, <2>0, <2>2
      <4> QED
        BY <2>0, <3>1, <4>1, Zenon DEF Left, Available, Those, Children5
    <3>3. Serv05TypeOK' /\ NeverOutOfChildren' /\ AvailableIsIdle' /\ Owed'
      BY <1>0, <2>0, <2>1, <3>1 DEF Serv05TypeOK, NeverOutOfChildren, AvailableIsIdle, Owed, Children5
    <3>4. Scanned'
      BY <1>0, <2>0, <3>1, <3>2, Zenon DEF Scanned
    <3> QED
      BY <3>3, <3>4 DEF Serv05Inv, Serv05Safe
  <2>3. CASE nexti \in rset /\ byteup[nexti] = 0
    <3>1. p5pc' = "childdied" /\ UNCHANGED <<navail, child_status, nsel, byteup>>
      BY <1>8, <2>3, Zenon DEF find_available
    <3>2. Available' = Available
      BY <3>1, Zenon DEF Available, Those, Children5
    <3>3. Serv05TypeOK' /\ NeverOutOfChildren' /\ AvailableIsIdle' /\ Owed'
      BY <1>0, <2>0, <2>1, <3>1 DEF Serv05TypeOK, NeverOutOfChildren, AvailableIsIdle, Owed, Children5
    <3>4. Scanned'
      BY <1>0, <3>1, <3>2, Zenon DEF Scanned
    <3> QED
      BY <3>3, <3>4 DEF Serv05Inv, Serv05Safe
  <2>4. CASE nexti \in rset /\ byteup[nexti] # 0
    <3>1. /\ byteup' = [byteup EXCEPT ![nexti] = @ - 1] /\ child_status' = [child_status EXCEPT ![nexti] = 0]
          /\ navail' = navail + 1 /\ nsel' = nsel - 1 /\ p5pc' = IF nsel = 1 THEN "select" ELSE "scan"
      BY <1>8, <2>4, Zenon DEF find_available
    <3>2. /\ byteup[nexti] = 1 /\ child_status[nexti] = 1 /\ fddown[nexti] = 0 /\ child5[nexti] # "web_child"
      BY <1>0, <1>00, <2>1, <2>4 DEF AvailableIsIdle, Owed
    <3>3. /\ byteup'[nexti] = 0 /\ child_status'[nexti] = 0
          /\ \A c \in Children5 : c # nexti => byteup'[c] = byteup[c] /\ child_status'[c] = child_status[c]
      BY <1>0, <2>1, <3>1, <3>2 DEF Serv05TypeOK
    <3>4. AvailableIsIdle' /\ Owed'
      <4>1. ASSUME NEW c \in Children5
            PROVE  /\ child5'[c] # "dead" => fddown'[c] + byteup'[c] + (IF child5'[c] = "web_child" THEN 1 ELSE 0) = child_status'[c]
                   /\ child5'[c] = "dead" => fddown'[c] + byteup'[c] <= child_status'[c]
        <5>1. CASE c = nexti
          BY <2>0, <3>2, <3>3, <5>1
        <5>2. CASE c # nexti
          BY <1>0, <2>0, <3>3, <5>2, Zenon DEF AvailableIsIdle, Owed
        <5> QED
          BY <5>1, <5>2, Zenon
      <4> QED
        BY <4>1 DEF AvailableIsIdle, Owed, Children5
    <3>5. Cardinality(Available') = navail + 1 /\ Cardinality(Available') <= nchildren
      <4>1. /\ Cardinality(Available') = Cardinality(Available)
                 + (IF child_status'[nexti] \in {0} THEN 1 ELSE 0) - (IF child_status[nexti] \in {0} THEN 1 ELSE 0)
            /\ Cardinality(Available') <= nchildren
        BY <2>1, <3>3, AvailableMoves, Zenon
      <4>2. Cardinality(Available) = navail /\ navail \in Nat
        BY <1>0 DEF Scanned, Serv05TypeOK
      <4> QED
        BY <3>2, <3>3, <4>1, <4>2
    <3>6. Left' = Left \ {nexti} /\ nexti \in Left
      <4>1. \A d \in rset : d >= nexti + 1 <=> d >= nexti /\ d # nexti
        BY <1>01, <2>0
      <4>2. nexti >= nexti
        BY <2>0
      <4> QED
        BY <2>0, <2>4, <4>1, <4>2, Zenon DEF Left
    <3>7. Cardinality(Left') = nsel - 1
      BY <2>0, <3>6, FS_RemoveElement, Zenon
    <3>8. Serv05TypeOK' /\ NeverOutOfChildren'
      <4>1. navail' \in 0..nchildren /\ nsel' \in 0..nchildren + 1 /\ nexti' \in 1..nchildren + 1
        BY <1>0, <2>0, <2>1, <3>1, <3>5 DEF Serv05TypeOK
      <4>2. byteup' \in [Children5 -> 0..1] /\ child_status' \in [Children5 -> 0..1] /\ p5pc' \in {"select", "scan"}
        BY <1>0, <2>1, <3>1, <3>2 DEF Serv05TypeOK
      <4> QED
        BY <1>0, <2>0, <4>1, <4>2, Zenon DEF Serv05TypeOK, NeverOutOfChildren, Children5
    <3>9. Scanned'
      BY <2>0, <3>1, <3>5, <3>7 DEF Scanned
    <3> QED
      BY <3>4, <3>8, <3>9, Zenon DEF Serv05Inv, Serv05Safe
  <2> QED
    BY <2>2, <2>3, <2>4, Zenon
<1> QED
  BY <1>2, <1>3, <1>4, <1>5, <1>6, <1>7, <1>8, Zenon DEF Serv05Next, parent5

(* A child that the parent calls available has nothing in its pipe and     *)
(* nothing in hand, and the parent never ends with "no available           *)
(* children": for every number of children and of clients.                 *)
THEOREM DescriptorsGoToIdleChildren == Serv05Spec => []Serv05Safe
BY S5Initially, S5Inductive, PTL DEF Serv05Spec, Serv05Inv

-----------------------------------------------------------------------------
(* ChatServer. Two invariants: one of the queue and the semaphore, one of  *)
(* the client list and the searches that other threads change it under.    *)

(* Two sequences joined.                                                   *)
LEMMA Concat ==
    ASSUME NEW M, NEW a \in Seq(M), NEW b \in Seq(M)
    PROVE  a \o b \in Seq(M) /\ Len(a \o b) = Len(a) + Len(b)
OBVIOUS

(* What is left of a tail queue, and where.                                *)
LEMMA Unlinked ==
    ASSUME NEW M, NEW q \in Seq(M), NEW i \in 1..Len(q)
    PROVE  /\ unlink(q, i) \in Seq(M) /\ Len(unlink(q, i)) = Len(q) - 1
           /\ \A j \in 1..Len(q) - 1 : unlink(q, i)[j] = IF j < i THEN q[j] ELSE q[j + 1]
<1> DEFINE a == SubSeq(q, 1, i - 1)
           b == SubSeq(q, i + 1, Len(q))
<1>1. /\ a \in Seq(M) /\ Len(a) = i - 1 /\ \A j \in 1..i - 1 : a[j] = q[j]
  OBVIOUS
<1>2. /\ b \in Seq(M) /\ Len(b) = Len(q) - i /\ \A j \in 1..Len(q) - i : b[j] = q[i + j]
  OBVIOUS
<1>3. unlink(q, i) = a \o b
  BY Zenon DEF unlink
<1> HIDE DEF a, b
<1>4. a \o b \in Seq(M) /\ Len(a \o b) = Len(a) + Len(b)
  BY <1>1, <1>2, Concat, Zenon
<1>5. \A j \in 1..Len(a) + Len(b) : (a \o b)[j] = IF j <= Len(a) THEN a[j] ELSE b[j - Len(a)]
  BY <1>1, <1>2
<1>6. Len(a) + Len(b) = Len(q) - 1
  BY <1>1, <1>2
<1>7. ASSUME NEW j \in 1..Len(q) - 1 PROVE (a \o b)[j] = IF j < i THEN q[j] ELSE q[j + 1]
  <2>1. CASE j < i
    BY <2>1, <1>1, <1>5, <1>6
  <2>2. CASE ~(j < i)
    <3>1. j - Len(a) \in 1..Len(q) - i /\ i + (j - Len(a)) = j + 1
      BY <2>2, <1>1
    <3>2. (a \o b)[j] = b[j - Len(a)]
      BY <2>2, <1>1, <1>5, <1>6
    <3> QED
      BY <2>2, <3>1, <3>2, <1>2, Zenon
  <2> QED
    BY <2>1, <2>2, Zenon
<1> QED
  BY <1>3, <1>4, <1>6, <1>7, Zenon

(* The members of a sequence, by their places.                             *)
LEMMA RangeOf ==
    ASSUME NEW M, NEW q \in Seq(M)
    PROVE  /\ Range(q) \subseteq M
           /\ \A e : e \in Range(q) <=> \E i \in 1..Len(q) : q[i] = e
<1>1. DOMAIN q = 1..Len(q) /\ \A i \in 1..Len(q) : q[i] \in M
  OBVIOUS
<1> QED
  BY <1>1, Zenon DEF Range

(* No entry is twice in a tail queue.                                      *)
Once(q) == \A i, j \in 1..Len(q) : q[i] = q[j] => i = j

(* An entry is found at its place.                                         *)
LEMMA PlaceOf ==
    ASSUME NEW M, NEW q \in Seq(M), NEW e \in Range(q)
    PROVE  place_of(q, e) \in 1..Len(q) /\ q[place_of(q, e)] = e
<1>1. \E i \in 1..Len(q) : q[i] = e
  BY RangeOf, Zenon
<1> QED
  BY <1>1, Zenon DEF place_of

(* TAILQ_REMOVE takes one entry out and leaves the others.                 *)
LEMMA RemoveEntry ==
    ASSUME NEW M, NEW q \in Seq(M), Once(q), NEW e \in Range(q)
    PROVE  LET r == unlink(q, place_of(q, e))
           IN  r \in Seq(M) /\ Once(r) /\ Range(r) = Range(q) \ {e}
<1> DEFINE i == place_of(q, e)
           r == unlink(q, i)
<1>1. i \in 1..Len(q) /\ q[i] = e
  BY PlaceOf, Zenon
<1> HIDE DEF i
<1>2. /\ r \in Seq(M) /\ Len(r) = Len(q) - 1
      /\ \A j \in 1..Len(q) - 1 : r[j] = IF j < i THEN q[j] ELSE q[j + 1]
  BY <1>1, Unlinked, Zenon
<1> HIDE DEF r
<1>3. Once(r)
  BY <1>1, <1>2 DEF Once
<1>4. ASSUME NEW x \in Range(r) PROVE x \in Range(q) \ {e}
  <2>1. PICK j \in 1..Len(r) : r[j] = x
    BY <1>2, RangeOf, Zenon
  <2>2. PICK k \in 1..Len(q) : q[k] = x /\ k # i
    BY <1>1, <1>2, <2>1
  <2>3. x # e
    BY <1>1, <2>2, Zenon DEF Once
  <2> QED
    BY <2>2, <2>3, RangeOf, Zenon
<1>5. ASSUME NEW x \in Range(q), x # e PROVE x \in Range(r)
  <2>1. PICK k \in 1..Len(q) : q[k] = x
    BY RangeOf, Zenon
  <2>2. k # i
    BY <1>1, <1>5, <2>1, Zenon
  <2>3. \E j \in 1..Len(r) : r[j] = x
    <3>1. CASE k < i
      <4>1. k \in 1..Len(r) /\ r[k] = x
        BY <1>1, <1>2, <2>1, <3>1
      <4> QED
        BY <4>1, Zenon
    <3>2. CASE k > i
      <4>1. k - 1 \in 1..Len(r) /\ r[k - 1] = q[(k - 1) + 1] /\ (k - 1) + 1 = k
        BY <1>1, <1>2, <2>1, <3>2
      <4> QED
        BY <4>1, <2>1, Zenon
    <3> QED
      BY <1>1, <2>1, <2>2, <3>1, <3>2
  <2> QED
    BY <1>2, <2>3, RangeOf, Zenon
<1> QED
  BY <1>2, <1>3, <1>4, <1>5, Zenon DEF r, i

(* TAILQ_INSERT_TAIL of a new entry.                                       *)
LEMMA InsertEntry ==
    ASSUME NEW M, NEW q \in Seq(M), Once(q), NEW e \in M, e \notin Range(q)
    PROVE  /\ Append(q, e) \in Seq(M) /\ Once(Append(q, e))
           /\ Range(Append(q, e)) = Range(q) \cup {e}
<1> DEFINE r == Append(q, e)
<1>1. /\ r \in Seq(M) /\ Len(r) = Len(q) + 1 /\ r[Len(q) + 1] = e
      /\ \A j \in 1..Len(q) : r[j] = q[j]
  OBVIOUS
<1>2. \A j \in 1..Len(q) : q[j] # e
  BY RangeOf, Zenon
<1> HIDE DEF r
<1>3. Once(r)
  BY <1>1, <1>2 DEF Once
<1>4. \A x : (\E j \in 1..Len(r) : r[j] = x) <=> (\E j \in 1..Len(q) : q[j] = x) \/ x = e
  BY <1>1
<1>5. \A x : x \in Range(r) <=> x \in Range(q) \/ x = e
  BY <1>1, <1>4, RangeOf, Zenon
<1> QED
  BY <1>1, <1>3, <1>5, Zenon DEF r
(* The queue and the semaphore: what makes SemCountsQueue inductive is     *)
(* their types, and that main removes a message that is in the queue.      *)
RecvPlaces == {"none", "refused", "recv", "queued", "search", "remove", "close", "free", "ended"}

QueueInv ==
    /\ rpc \in [ChatClients -> RecvPlaces] /\ sent \in [ChatClients -> Nat]
    /\ gMsgQueue \in Seq(ChatClients \X Nat) /\ gMainMsgSem \in 0..Len(gMsgQueue)
    /\ mpc \in {"sem_wait", "walk", "crashed"}
    /\ SemCountsQueue

(* The threads between the insertion and sem_post.                         *)
Unposted(f) == Cardinality(Those(ChatClients, f, {"queued"}))

(* The same number, as a function of the places.                          *)
LEMMA PostingIs == Posting = Unposted(rpc) /\ Posting' = Unposted(rpc')
BY Zenon DEF Posting, Unposted, Those

(* A thread that goes from one place to another.                           *)
LEMMA UnpostedMoves ==
    ASSUME QueueInv, NEW c \in ChatClients, NEW l, rgoto(c, l)
    PROVE  /\ Unposted(rpc) \in Nat
           /\ Unposted(rpc') = Unposted(rpc) + (IF l = "queued" THEN 1 ELSE 0)
                                         - (IF rpc[c] = "queued" THEN 1 ELSE 0)
<1>1. rpc'[c] = l /\ \A d \in ChatClients : d # c => rpc'[d] = rpc[d]
  BY Zenon DEF rgoto, QueueInv
<1>2. IsFiniteSet(ChatClients)
  BY ChatAssumption, Zenon
<1>3. Unposted(rpc) \in Nat
  BY <1>2, Number, Zenon DEF Unposted
<1>4. Unposted(rpc') = Unposted(rpc) + (IF l \in {"queued"} THEN 1 ELSE 0) - (IF rpc[c] \in {"queued"} THEN 1 ELSE 0)
  <2> DEFINE A == {"queued"}
             g == rpc'
  <2>1. g[c] = l /\ \A d \in ChatClients : d # c => g[d] = rpc[d]
    BY <1>1, Zenon
  <2> HIDE DEF A, g
  <2>2. Cardinality(Those(ChatClients, g, A)) = Cardinality(Those(ChatClients, rpc, A))
          + (IF l \in A THEN 1 ELSE 0) - (IF rpc[c] \in A THEN 1 ELSE 0)
    BY <2>1, <1>2, OneMoves, SMTT(20)
  <2> QED
    BY <2>2, Zenon DEF Unposted, A, g
<1> QED
  BY <1>3, <1>4, Zenon

(* Every step keeps the semaphore in step with the queue.                  *)
LEMMA QueueInductive == QueueInv /\ [ChatNext]_chatvars => QueueInv'
<1> SUFFICES ASSUME QueueInv, [ChatNext]_chatvars PROVE QueueInv'
  BY Zenon
<1> DEFINE p == Unposted(rpc)
           pp == Unposted(rpc')
<1>a. p \in Nat
  BY ChatAssumption, Number, Zenon DEF Unposted
<1>b. /\ rpc \in [ChatClients -> RecvPlaces] /\ sent \in [ChatClients -> Nat]
      /\ gMsgQueue \in Seq(ChatClients \X Nat) /\ gMainMsgSem \in 0..Len(gMsgQueue)
      /\ mpc \in {"sem_wait", "walk", "crashed"}
      /\ mpc # "crashed" =>
           /\ Len(gMsgQueue) = gMainMsgSem + p + (IF mpc = "walk" THEN 1 ELSE 0)
           /\ mpc = "walk" => msg = Head(gMsgQueue)
  BY PostingIs, Zenon DEF QueueInv, SemCountsQueue
<1>c. ASSUME rpc' \in [ChatClients -> RecvPlaces], sent' \in [ChatClients -> Nat],
             gMsgQueue' \in Seq(ChatClients \X Nat), gMainMsgSem' \in 0..Len(gMsgQueue'),
             mpc' \in {"sem_wait", "walk", "crashed"},
             mpc' # "crashed" =>
                /\ Len(gMsgQueue') = gMainMsgSem' + pp + (IF mpc' = "walk" THEN 1 ELSE 0)
                /\ mpc' = "walk" => msg' = Head(gMsgQueue')
      PROVE  QueueInv'
  BY <1>c, PostingIs, Zenon DEF QueueInv, SemCountsQueue
<1>m. ASSUME NEW c \in ChatClients, NEW l \in RecvPlaces, rgoto(c, l)
      PROVE  /\ rpc' \in [ChatClients -> RecvPlaces]
             /\ pp = p + (IF l = "queued" THEN 1 ELSE 0) - (IF rpc[c] = "queued" THEN 1 ELSE 0)
  <2>1. rpc' \in [ChatClients -> RecvPlaces]
    BY <1>b, <1>m, Zenon DEF rgoto
  <2>2. pp = p + (IF l = "queued" THEN 1 ELSE 0) - (IF rpc[c] = "queued" THEN 1 ELSE 0)
    BY <1>m, UnpostedMoves, Zenon
  <2> QED
    BY <2>1, <2>2, Zenon
<1>u. UNCHANGED rpc => pp = p
  BY Zenon
<1> HIDE DEF p, pp
<1>1. CASE UNCHANGED chatvars
  BY <1>1, <1>b, <1>c, <1>u, Zenon DEF chatvars
<1>2. ASSUME NEW c \in ChatClients, accept_create(c) PROVE QueueInv'
  <2>1. \E l \in {"refused", "recv"} : rgoto(c, l)
    BY <1>2, Zenon DEF accept_create
  <2>2. rpc[c] = "none" /\ UNCHANGED <<sent, gMsgQueue, gMainMsgSem, mpc, msg>>
    BY <1>2, Zenon DEF accept_create
  <2>3. rpc' \in [ChatClients -> RecvPlaces] /\ pp = p
    BY <1>a, <1>m, <2>1, <2>2 DEF RecvPlaces
  <2> QED
    BY <1>b, <1>c, <2>2, <2>3, Zenon
<1>3. CASE accept_insert
  BY <1>3, <1>b, <1>c, <1>u, Zenon DEF accept_insert
<1>4. ASSUME NEW c \in ChatClients, recv_msg(c) PROVE QueueInv'
  <2>1. rpc[c] = "recv" /\ rgoto(c, "queued") /\ mpc # "crashed" /\ UNCHANGED <<gMainMsgSem, mpc, msg>>
        /\ sent' = [sent EXCEPT ![c] = @ + 1] /\ gMsgQueue' = Append(gMsgQueue, <<c, sent[c] + 1>>)
    BY <1>4, Zenon DEF recv_msg
  <2>2. rpc' \in [ChatClients -> RecvPlaces] /\ pp = p + 1
    BY <1>a, <1>m, <2>1 DEF RecvPlaces
  <2>3. sent' \in [ChatClients -> Nat] /\ <<c, sent[c] + 1>> \in ChatClients \X Nat
    BY <1>b, <2>1
  <2>4. /\ gMsgQueue' \in Seq(ChatClients \X Nat) /\ Len(gMsgQueue') = Len(gMsgQueue) + 1
        /\ Len(gMsgQueue) > 0 => Head(gMsgQueue') = Head(gMsgQueue)
    BY <1>b, <2>1, <2>3
  <2>5. mpc = "walk" => Len(gMsgQueue) > 0
    BY <1>a, <1>b
  <2> QED
    BY <1>a, <1>b, <1>c, <2>1, <2>2, <2>3, <2>4, <2>5
<1>5. ASSUME NEW c \in ChatClients, post_msg(c) PROVE QueueInv'
  <2>1. rpc[c] = "queued" /\ rgoto(c, "recv") /\ mpc # "crashed" /\ gMainMsgSem' = gMainMsgSem + 1
        /\ UNCHANGED <<sent, gMsgQueue, mpc, msg>>
    BY <1>5, Zenon DEF post_msg, posted
  <2>2. rpc' \in [ChatClients -> RecvPlaces] /\ pp = p - 1
    BY <1>a, <1>m, <2>1 DEF RecvPlaces
  <2>3. pp \in Nat
    BY ChatAssumption, Number, Zenon DEF pp, Unposted
  <2>4. /\ Len(gMsgQueue) = (gMainMsgSem + 1) + pp + (IF mpc = "walk" THEN 1 ELSE 0)
        /\ gMainMsgSem + 1 \in 0..Len(gMsgQueue)
    <3> DEFINE w == IF mpc = "walk" THEN 1 ELSE 0
    <3>1. w \in {0, 1} /\ Len(gMsgQueue) = gMainMsgSem + p + w
      BY <1>b, <2>1, Zenon
    <3>2. gMainMsgSem \in Nat /\ Len(gMsgQueue) \in Nat
      BY <1>b
    <3> HIDE DEF w
    <3>3. Len(gMsgQueue) = (gMainMsgSem + 1) + pp + w /\ gMainMsgSem + 1 \in 0..Len(gMsgQueue)
      BY <1>a, <2>2, <2>3, <3>1, <3>2
    <3> QED
      BY <3>3, Zenon DEF w
  <2> QED
    BY <1>b, <1>c, <2>1, <2>2, <2>4, Zenon
<1>6. ASSUME NEW c \in ChatClients, disconnect(c) \/ search(c) \/ remove_client(c) \/ close_client(c) PROVE QueueInv'
  <2>1. UNCHANGED <<sent, gMsgQueue, gMainMsgSem, msg>> /\ mpc' \in {mpc, "crashed"}
    BY <1>6, Zenon DEF disconnect, search, remove_client, close_client
  <2>2. \/ UNCHANGED rpc
        \/ rpc[c] \in {"recv", "search", "remove", "close", "free"} /\ \E l \in {"search", "remove", "close", "free", "ended"} : rgoto(c, l)
    BY <1>6, Zenon DEF disconnect, search, remove_client, close_client
  <2>3. rpc' \in [ChatClients -> RecvPlaces] /\ pp = p
    <3>1. CASE UNCHANGED rpc
      BY <1>b, <1>u, <3>1, Zenon
    <3>2. ASSUME rpc[c] # "queued", NEW l \in RecvPlaces, l # "queued", rgoto(c, l)
          PROVE  rpc' \in [ChatClients -> RecvPlaces] /\ pp = p
      BY <1>a, <1>m, <3>2
    <3> QED
      BY <2>2, <3>1, <3>2 DEF RecvPlaces
  <2> QED
    BY <1>b, <1>c, <2>1, <2>3, Zenon
<1>7. CASE main_wait
  <2>1. mpc = "sem_wait" /\ gMainMsgSem > 0 /\ gMainMsgSem' = gMainMsgSem - 1 /\ UNCHANGED <<rpc, sent, gMsgQueue>>
    BY <1>7, Zenon DEF main_wait
  <2>2. gMsgQueue # << >>
    BY <1>a, <1>b, <2>1
  <2>3. msg' = Head(gMsgQueue) /\ mpc' = "walk"
    BY <1>7, <2>2, Zenon DEF main_wait
  <2> QED
    BY <1>a, <1>b, <1>c, <1>u, <2>1, <2>3
<1>8. CASE main_send
  <2>1. mpc = "walk" /\ mpc' \in {"walk", "crashed"} /\ UNCHANGED <<rpc, sent, gMsgQueue, gMainMsgSem, msg>>
    BY <1>8, Zenon DEF main_send
  <2> QED
    BY <1>b, <1>c, <1>u, <2>1, Zenon
<1>9. CASE main_remove
  <2>1. mpc = "walk" /\ mpc' = "sem_wait" /\ UNCHANGED <<rpc, sent, gMainMsgSem>>
        /\ gMsgQueue' = unlink(gMsgQueue, place_of(gMsgQueue, msg))
    BY <1>9, Zenon DEF main_remove
  <2>2. Len(gMsgQueue) = gMainMsgSem + p + 1 /\ msg = Head(gMsgQueue)
    BY <1>b, <2>1, Zenon
  <2>3. Len(gMsgQueue) > 0 /\ msg = gMsgQueue[1]
    BY <1>a, <1>b, <2>2
  <2>4. msg \in Range(gMsgQueue)
    BY <1>b, <2>3, RangeOf
  <2>5. place_of(gMsgQueue, msg) \in 1..Len(gMsgQueue)
    BY <1>b, <2>4, PlaceOf, Zenon
  <2>6. gMsgQueue' \in Seq(ChatClients \X Nat) /\ Len(gMsgQueue') = Len(gMsgQueue) - 1
    BY <1>b, <2>1, <2>5, Unlinked, Zenon
  <2> QED
    BY <1>a, <1>b, <1>c, <1>u, <2>1, <2>2, <2>6
<1> QED
  BY <1>1, <1>2, <1>3, <1>4, <1>5, <1>6, <1>7, <1>8, <1>9, Zenon DEF ChatNext, chat_main, recvThread

(* The client list.  Entries are the clients listed or about to be;        *)
(* Running the threads that have not ended their search; Missed those      *)
(* that may find no entry; Due the threads that account for an entry;      *)
(* Holding those with an open descriptor.                                  *)
Entries == Range(clientList) \cup {c \in ChatClients : c = accpc}
Running == {c \in ChatClients : rpc[c] \in {"recv", "queued", "search", "remove"}}
Missed == early \cup misled
Due == Running \cup Missed
Holding == {c \in ChatClients : rpc[c] \notin {"none", "free", "ended"}}

ListTypes ==
    /\ rpc \in [ChatClients -> RecvPlaces] /\ cfd \in [ChatClients -> Nat]
    /\ found \in [ChatClients -> ChatClients \cup {NoNode}]
    /\ unlisted \in [ChatClients -> ChatClients \cup {NoNode}]
    /\ clientList \in Seq(ChatClients) /\ Once(clientList)
    /\ accpc \in (ChatClients \ Range(clientList)) \cup {NoNode, "returned"}
    /\ early \in SUBSET ChatClients /\ misled \in SUBSET ChatClients

(* Every running thread has an entry, that of a client that was accepted;  *)
(* descriptors in use differ; a thread about to remove an entry found one  *)
(* with its own descriptor, which is still listed; one that has removed an *)
(* entry has taken it out for good.                                        *)
ListLinks ==
    /\ Running \subseteq Entries
    /\ \A c \in Entries : rpc[c] \notin {"none", "refused"}
    /\ \A c, d \in Holding : cfd[c] = cfd[d] => c = d
    /\ \A c \in ChatClients : rpc[c] = "remove" => found[c] \in Range(clientList) /\ cfd[found[c]] = cfd[c]
    /\ \A c \in Missed : rpc[c] # "none"
    /\ \A c \in ChatClients : rpc[c] \in {"close", "free", "ended"} =>
           found[c] \notin Entries /\ (found[c] # NoNode => rpc[found[c]] # "none")

(* The entries of the list q up to that of c.                              *)
Upto(q, c) == {q[i] : i \in {k \in 1..Len(q) : \E j \in 1..Len(q) : k <= j /\ q[j] = c}}

(* Where a search may be led: a thread that was not early and read no      *)
(* freed entry comes past no entry behind its own.                         *)
Ahead(c) == IF c \in Missed THEN Range(clientList) \cup {NoNode} ELSE Upto(clientList, c)

(* A search stands on such an entry, or on one of a set B of entries taken *)
(* out of the list since it began; none of these has its descriptor, and   *)
(* they lead to each other or back to such an entry.                       *)
Walk(c, B) ==
    /\ found[c] \in B \cup Ahead(c)
    /\ \A b \in B : /\ b \in ChatClients /\ b \notin Entries /\ rpc[b] # "none" /\ cfd[b] # cfd[c]
                    /\ unlisted[b] \in B \cup Ahead(c)
ListWalks == \A c \in ChatClients : rpc[c] = "search" => \E B \in SUBSET ChatClients : Walk(c, B)

(* There are no more entries than threads that will remove one and threads *)
(* that may find none.                                                     *)
ListCounts == Cardinality(Entries) <= Cardinality(Due)

ListInv == ListTypes /\ ListLinks /\ ListWalks /\ ListCounts

(* All these sets are finite.                                              *)
LEMMA ChatFinite ==
    ASSUME NEW S \in SUBSET ChatClients
    PROVE  IsFiniteSet(S) /\ Cardinality(S) \in Nat
<1>1. IsFiniteSet(S)
  BY ChatAssumption, FS_Subset, Zenon
<1> QED
  BY <1>1, FS_CardinalityType, Zenon

(* A set of clients with one more in it.                                   *)
LEMMA ChatOneMore ==
    ASSUME NEW S \in SUBSET ChatClients, NEW c \in ChatClients, c \notin S
    PROVE  Cardinality(S \cup {c}) = Cardinality(S) + 1
BY ChatFinite, FS_AddElement, Zenon

(* And one without it.                                                     *)
LEMMA ChatOneLess ==
    ASSUME NEW S \in SUBSET ChatClients, NEW c \in S
    PROVE  Cardinality(S \ {c}) = Cardinality(S) - 1
BY ChatFinite, FS_RemoveElement, Zenon

(* With a client not accepted yet a descriptor is free: accept returns one *)
(* that no client has.                                                     *)
LEMMA LowestFree ==
    ASSUME ListTypes, NEW c \in ChatClients, rpc[c] = "none"
    PROVE  lowest_fd \in Nat /\ lowest_fd \notin open_fds
<1> DEFINE N == Cardinality(ChatClients)
           f == [d \in Holding |-> cfd[d]]
<1>1. N \in Nat /\ IsFiniteSet(ChatClients)
  BY ChatAssumption, FS_CardinalityType, Zenon
<1>2. Holding \subseteq ChatClients \ {c}
  BY Zenon DEF Holding
<1>3. IsFiniteSet(Holding) /\ Cardinality(Holding) <= N - 1
  <2>1. IsFiniteSet(ChatClients \ {c}) /\ Cardinality(ChatClients \ {c}) = N - 1
    BY <1>1, FS_RemoveElement, Zenon
  <2> QED
    BY <1>2, <2>1, FS_Subset
<1>4. open_fds = {cfd[d] : d \in Holding}
  BY Zenon DEF open_fds, Holding
<1>5. f \in Surjection(Holding, open_fds)
  BY <1>4, Zenon DEF Surjection
<1>6. IsFiniteSet(open_fds) /\ Cardinality(open_fds) <= Cardinality(Holding)
  BY <1>3, <1>5, FS_Surjection, Zenon
<1>7. Cardinality(Holding) \in Nat /\ Cardinality(open_fds) \in Nat
  BY <1>3, <1>6, FS_CardinalityType, Zenon
<1> HIDE DEF N
<1>8. Cardinality(1..N) = N
  BY <1>1, FS_Interval
<1>9. ~ (1..N \subseteq open_fds)
  <2> SUFFICES ASSUME 1..N \subseteq open_fds PROVE FALSE
    BY Zenon
  <2>1. Cardinality(1..N) <= Cardinality(open_fds)
    BY <1>6, FS_Subset, Zenon
  <2> QED
    BY <2>1, <1>1, <1>3, <1>6, <1>7, <1>8
<1>10. (1..N) \ open_fds # {} /\ (1..N) \ open_fds \in SUBSET Nat
  BY <1>1, <1>9
<1>11. Min((1..N) \ open_fds) \in (1..N) \ open_fds
  BY <1>10, MinIsMember, Zenon
<1> QED
  BY <1>1, <1>11 DEF lowest_fd, N

(* The sets the invariant counts are sets of clients.                      *)
LEMMA ListSets ==
    ASSUME ListTypes
    PROVE  /\ Entries \in SUBSET ChatClients /\ Range(clientList) \in SUBSET ChatClients
           /\ Running \in SUBSET ChatClients /\ Missed \in SUBSET ChatClients /\ Due \in SUBSET ChatClients
           /\ Cardinality(Entries) \in Nat /\ Cardinality(Due) \in Nat
<1>1. Range(clientList) \in SUBSET ChatClients
  BY RangeOf, Zenon DEF ListTypes
<1>2. /\ Entries \in SUBSET ChatClients /\ Running \in SUBSET ChatClients /\ Missed \in SUBSET ChatClients
      /\ Due \in SUBSET ChatClients
  BY <1>1, Zenon DEF Entries, Running, Missed, Due, ListTypes
<1> QED
  BY <1>1, <1>2, ChatFinite, Zenon

(* The members of Upto, by their places.                                   *)
LEMMA UptoOf ==
    ASSUME NEW q \in Seq(ChatClients), NEW c
    PROVE  /\ \A e : e \in Upto(q, c) <=> \E i, j \in 1..Len(q) : i <= j /\ q[i] = e /\ q[j] = c
           /\ Upto(q, c) \subseteq Range(q)
<1>1. \A e : e \in Upto(q, c) <=> \E i, j \in 1..Len(q) : i <= j /\ q[i] = e /\ q[j] = c
  BY Zenon DEF Upto
<1> QED
  BY <1>1, RangeOf, Zenon

(* TAILQ_FIRST, when the entry of c is listed.                             *)
LEMMA UptoFirst ==
    ASSUME NEW q \in Seq(ChatClients), NEW c \in Range(q)
    PROVE  q # << >> /\ Head(q) \in Upto(q, c)
<1>1. PICK j \in 1..Len(q) : q[j] = c
  BY RangeOf, Zenon
<1>2. 1 \in 1..Len(q) /\ 1 <= j /\ q[1] = Head(q) /\ q # << >>
  BY <1>1
<1> QED
  BY <1>1, <1>2, UptoOf, Zenon

(* The entry behind e, of those up to c.                                   *)
LEMMA UptoNext ==
    ASSUME NEW q \in Seq(ChatClients), Once(q), NEW c, NEW e \in Upto(q, c), e # c
    PROVE  LET i == place_of(q, e) IN i # Len(q) /\ q[i + 1] \in Upto(q, c) /\ q[i + 1] # e
<1> DEFINE p == place_of(q, e)
<1>1. PICK i \in 1..Len(q), j \in 1..Len(q) : i <= j /\ q[i] = e /\ q[j] = c
  BY UptoOf, SMT
<1>2. p \in 1..Len(q) /\ q[p] = e
  BY UptoOf, PlaceOf, Zenon
<1> HIDE DEF p
<1>3. p = i /\ i # j
  BY <1>1, <1>2, Zenon DEF Once
<1>4. p # Len(q) /\ p + 1 \in 1..Len(q) /\ p + 1 <= j /\ p + 1 # p
  BY <1>1, <1>2, <1>3
<1>5. q[p + 1] # e
  BY <1>2, <1>4, Zenon DEF Once
<1> QED
  BY <1>1, <1>4, <1>5, UptoOf, Zenon DEF p

(* TAILQ_REMOVE of another entry than that of c.                           *)
LEMMA UptoRemove ==
    ASSUME NEW q \in Seq(ChatClients), Once(q), NEW x \in Range(q), NEW c, c # x
    PROVE  Upto(q, c) \ {x} \subseteq Upto(unlink(q, place_of(q, x)), c)
<1> DEFINE p == place_of(q, x)
           r == unlink(q, p)
<1>1. p \in 1..Len(q) /\ q[p] = x
  BY PlaceOf, Zenon
<1> HIDE DEF p
<1>2. /\ r \in Seq(ChatClients) /\ Len(r) = Len(q) - 1
      /\ \A j \in 1..Len(q) - 1 : r[j] = IF j < p THEN q[j] ELSE q[j + 1]
  BY <1>1, Unlinked, Zenon
<1> HIDE DEF r
<1>3. ASSUME NEW e \in Upto(q, c), e # x PROVE e \in Upto(r, c)
  <2>1. PICK i \in 1..Len(q), j \in 1..Len(q) : i <= j /\ q[i] = e /\ q[j] = c
    BY <1>3, UptoOf, SMT
  <2>2. i # p /\ j # p
    BY <1>1, <1>3, <2>1
  <2> DEFINE m(k) == IF k < p THEN k ELSE k - 1
  <2>3. \A k \in 1..Len(q) : k # p => m(k) \in 1..Len(r) /\ r[m(k)] = q[k]
    <3> SUFFICES ASSUME NEW k \in 1..Len(q), k # p PROVE m(k) \in 1..Len(r) /\ r[m(k)] = q[k]
      BY Zenon
    <3>1. CASE k < p
      BY <1>1, <1>2, <3>1
    <3>2. CASE k > p
      <4>1. k - 1 \in 1..Len(q) - 1 /\ ~(k - 1 < p) /\ (k - 1) + 1 = k /\ ~(k < p)
        BY <1>1, <3>2
      <4>2. r[k - 1] = q[(k - 1) + 1]
        BY <1>2, <4>1
      <4> QED
        BY <1>2, <4>1, <4>2
    <3> QED
      BY <1>1, <3>1, <3>2
  <2>4. m(i) <= m(j)
    BY <1>1, <2>1, <2>2
  <2> HIDE DEF m
  <2> QED
    BY <1>2, <2>1, <2>2, <2>3, <2>4, UptoOf, Zenon
<1> QED
  BY <1>3, Zenon DEF r, p

(* TAILQ_INSERT_TAIL.                                                      *)
LEMMA UptoInsert ==
    ASSUME NEW q \in Seq(ChatClients), NEW x \in ChatClients, NEW c
    PROVE  Upto(q, c) \subseteq Upto(Append(q, x), c)
<1> DEFINE r == Append(q, x)
<1>1. r \in Seq(ChatClients) /\ Len(r) = Len(q) + 1 /\ \A j \in 1..Len(q) : j \in 1..Len(r) /\ r[j] = q[j]
  OBVIOUS
<1> HIDE DEF r
<1>2. ASSUME NEW e \in Upto(q, c) PROVE e \in Upto(r, c)
  <2>1. PICK i \in 1..Len(q), j \in 1..Len(q) : i <= j /\ q[i] = e /\ q[j] = c
    BY <1>2, UptoOf, SMT
  <2> QED
    BY <1>1, <2>1, UptoOf, Zenon
<1> QED
  BY <1>2, Zenon DEF r

(* What a search may be led to is a client or nothing.                     *)
LEMMA AheadOf ==
    ASSUME ListTypes, NEW c
    PROVE  /\ Ahead(c) \subseteq Range(clientList) \cup {NoNode} /\ Ahead(c) \subseteq ChatClients \cup {NoNode}
           /\ c \notin Missed => Ahead(c) \subseteq Range(clientList)
<1>1. clientList \in Seq(ChatClients) /\ Range(clientList) \subseteq ChatClients
  BY ListSets, Zenon DEF ListTypes
<1> QED
  BY <1>1, UptoOf, Zenon DEF Ahead

(* TAILQ_NEXT of a listed entry is another one or NULL.                    *)
LEMMA NextListed ==
    ASSUME ListTypes, NEW e \in Range(clientList)
    PROVE  next_of(e) \in Range(clientList) \cup {NoNode} /\ next_of(e) # e
<1> DEFINE p == place_of(clientList, e)
<1>1. clientList \in Seq(ChatClients) /\ Once(clientList) /\ e \in ChatClients
  BY ListSets, Zenon DEF ListTypes
<1>2. p \in 1..Len(clientList) /\ clientList[p] = e
  BY <1>1, PlaceOf, Zenon
<1>3. next_of(e) = IF p = Len(clientList) THEN NoNode ELSE clientList[p + 1]
  BY Zenon DEF next_of
<1> HIDE DEF p
<1>4. CASE p = Len(clientList)
  BY <1>1, <1>3, <1>4, ChatAssumption, Zenon
<1>5. CASE p # Len(clientList)
  <2>1. p + 1 \in 1..Len(clientList) /\ p + 1 # p
    BY <1>1, <1>2, <1>5
  <2> QED
    BY <1>1, <1>2, <1>3, <1>5, <2>1, RangeOf, Zenon DEF Once
<1> QED
  BY <1>4, <1>5, Zenon

(* A freed entry is not in the list.                                       *)
LEMMA FreedUnlisted ==
    ASSUME ListTypes, ListLinks, NEW e \in freed_entries
    PROVE  e \in ChatClients /\ e \notin Range(clientList)
<1>1. PICK d \in ChatClients : rpc[d] = "ended" /\ e = found[d] /\ e # NoNode
  BY Zenon DEF freed_entries
<1> QED
  BY <1>1, Zenon DEF ListTypes, ListLinks, Entries

(* A step that leaves the list, the threads and their descriptors alone.   *)
LEMMA ListSame ==
    ASSUME ListInv, UNCHANGED <<accpc, rpc, cfd, clientList, found, unlisted, early, misled>>
    PROVE  ListInv'
<1>1. /\ Entries' = Entries /\ Missed' = Missed /\ Running' = Running /\ Holding' = Holding /\ Range(clientList)' = Range(clientList)
  BY Zenon DEF Entries, Missed, Running, Holding
<1>2. Due' = Due /\ \A c : Ahead(c)' = Ahead(c)
  BY <1>1, Zenon DEF Due, Ahead, Upto
<1>3. \A c, B : Walk(c, B)' <=> Walk(c, B)
  BY <1>1, <1>2, Zenon DEF Walk
<1> QED
  BY <1>1, <1>2, <1>3, Zenon DEF ListInv, ListTypes, ListLinks, ListWalks, ListCounts

(* A search that a step leaves alone: what it may be led to grows, and     *)
(* nothing is inserted or accepted again of what was taken out.            *)
LEMMA WalkKeeps ==
    ASSUME NEW d, NEW B, Walk(d, B), found'[d] = found[d], Ahead(d) \subseteq Ahead(d)',
           cfd'[d] = cfd[d], \A b \in B : b \notin Entries' /\ rpc'[b] # "none" /\ cfd'[b] = cfd[b] /\ unlisted'[b] = unlisted[b]
    PROVE  Walk(d, B)'
<1>1. found'[d] \in B \cup Ahead(d)'
  BY Zenon DEF Walk
<1>2. \A b \in B : /\ b \in ChatClients /\ b \notin Entries' /\ rpc'[b] # "none" /\ cfd'[b] # cfd'[d]
                   /\ unlisted'[b] \in B \cup Ahead(d)'
  BY Zenon DEF Walk
<1> QED
  BY <1>1, <1>2, Zenon DEF Walk

(* accept_create keeps the invariant.                                      *)
LEMMA CreateKeepsList == ASSUME ListInv, NEW c \in ChatClients, accept_create(c) PROVE ListInv'
<1>0. ListTypes /\ ListLinks /\ ListWalks /\ ListCounts
  BY Zenon DEF ListInv
<1>1. /\ accpc = NoNode /\ rpc[c] = "none" /\ cfd' = [cfd EXCEPT ![c] = lowest_fd]
      /\ UNCHANGED <<clientList, found, unlisted, early, misled>>
  BY Zenon DEF accept_create
<1>2. lowest_fd \in Nat /\ lowest_fd \notin open_fds
  BY <1>0, <1>1, LowestFree, Zenon
<1>3. Entries = Range(clientList) /\ Entries \in SUBSET ChatClients /\ Missed \in SUBSET ChatClients
  BY <1>0, <1>1, ListSets, ChatAssumption, Zenon DEF Entries
<1>4. c \notin Entries /\ c \notin Missed /\ c \notin Running
  BY <1>0, <1>1, Zenon DEF ListLinks
<1>5. cfd' \in [ChatClients -> Nat] /\ cfd'[c] = lowest_fd /\ \A d \in ChatClients : d # c => cfd'[d] = cfd[d]
  BY <1>0, <1>1, <1>2, Zenon DEF ListTypes
<1>6. \A d \in Holding : cfd[d] # lowest_fd
  BY <1>2, Zenon DEF open_fds, Holding
<1>7. /\ rpc' \in [ChatClients -> RecvPlaces] /\ rpc'[c] \in {"refused", "recv"}
      /\ \A d \in ChatClients : d # c => rpc'[d] = rpc[d]
      /\ accpc' = c <=> rpc'[c] = "recv"
      /\ accpc' \in {c, NoNode, "returned"}
  <2>1. \/ accpc' = accpc /\ rpc' = [rpc EXCEPT ![c] = "refused"]
        \/ accpc' = "returned" /\ rpc' = [rpc EXCEPT ![c] = "refused"]
        \/ accpc' = c /\ rpc' = [rpc EXCEPT ![c] = "recv"]
    BY <1>1, Zenon DEF accept_create, rgoto
  <2>2. accpc = NoNode
    BY <1>1, Zenon DEF accept_create
  <2>3. rpc \in [ChatClients -> RecvPlaces]
    BY <1>0, Zenon DEF ListTypes
  <2>4. c # NoNode /\ c # "returned"
    BY ChatAssumption
  <2>5. rpc' \in [ChatClients -> RecvPlaces] /\ \A d \in ChatClients : d # c => rpc'[d] = rpc[d]
    BY <2>1, <2>3 DEF RecvPlaces
  <2>6. CASE accpc' = accpc /\ rpc' = [rpc EXCEPT ![c] = "refused"]
    BY <2>2, <2>3, <2>4, <2>5, <2>6
  <2>7. CASE accpc' = "returned" /\ rpc' = [rpc EXCEPT ![c] = "refused"]
    BY <2>3, <2>4, <2>5, <2>7
  <2>8. CASE accpc' = c /\ rpc' = [rpc EXCEPT ![c] = "recv"]
    BY <2>3, <2>5, <2>8
  <2> QED
    BY <2>1, <2>6, <2>7, <2>8, Zenon
<1>8. Range(clientList') = Range(clientList) /\ Missed' = Missed /\ \A d : Ahead(d)' = Ahead(d)
  BY <1>1, Zenon DEF Missed, Ahead
<1>9. ListTypes'
  BY <1>0, <1>1, <1>3, <1>4, <1>5, <1>7, Zenon DEF ListTypes
<1>10. Entries' = IF accpc' = c THEN Entries \cup {c} ELSE Entries
  BY <1>3, <1>7, <1>8, ChatAssumption, Zenon DEF Entries
<1>11. Holding' = Holding \cup {c}
  BY <1>0, <1>7, Zenon DEF Holding
<1>12. ListLinks'
  <2>1. (Running \subseteq Entries)'
    BY <1>0, <1>7, <1>10, Zenon DEF Running, ListLinks
  <2>2. \A d \in Entries' : rpc'[d] \notin {"none", "refused"}
    BY <1>0, <1>3, <1>4, <1>7, <1>10 DEF ListLinks
  <2>3. \A d, e \in Holding' : cfd'[d] = cfd'[e] => d = e
    <3>1. \A d \in Holding : d \in ChatClients /\ d # c
      BY <1>1, Zenon DEF Holding
    <3> QED
      BY <1>0, <1>5, <1>6, <1>11, <3>1 DEF ListLinks
  <2>4. \A d \in ChatClients : rpc'[d] = "remove" => found'[d] \in Range(clientList') /\ cfd'[found'[d]] = cfd'[d]
    BY <1>0, <1>1, <1>3, <1>4, <1>5, <1>7, <1>8 DEF ListLinks
  <2>5. \A d \in Missed' : rpc'[d] # "none"
    BY <1>0, <1>3, <1>4, <1>7, <1>8, Zenon DEF ListLinks
  <2>6. \A d \in ChatClients : rpc'[d] \in {"close", "free", "ended"} =>
           found'[d] \notin Entries' /\ (found'[d] # NoNode => rpc'[found'[d]] # "none")
    <3> SUFFICES ASSUME NEW d \in ChatClients, rpc'[d] \in {"close", "free", "ended"}
                 PROVE  found'[d] \notin Entries' /\ (found'[d] # NoNode => rpc'[found'[d]] # "none")
      BY Zenon
    <3>1. d # c /\ rpc[d] \in {"close", "free", "ended"}
      BY <1>7
    <3>2. found[d] \notin Entries /\ (found[d] # NoNode => rpc[found[d]] # "none") /\ found[d] \in ChatClients \cup {NoNode}
      BY <1>0, <3>1, Zenon DEF ListLinks, ListTypes
    <3>3. found[d] # c
      BY <1>1, <3>2, ChatAssumption, Zenon
    <3> QED
      BY <1>1, <1>7, <1>10, <3>2, <3>3, Zenon
  <2> QED
    BY <2>1, <2>2, <2>3, <2>4, <2>5, <2>6, Zenon DEF ListLinks
<1>13. ListWalks'
  <2> SUFFICES ASSUME NEW d \in ChatClients, rpc'[d] = "search" PROVE \E B \in SUBSET ChatClients : Walk(d, B)'
    BY Zenon DEF ListWalks
  <2>1. d # c /\ rpc[d] = "search"
    BY <1>7, Zenon
  <2>2. PICK B \in SUBSET ChatClients : Walk(d, B)
    BY <1>0, <2>1, Zenon DEF ListWalks
  <2>3. \A b \in B : b \in ChatClients /\ b # c /\ b \notin Entries /\ rpc[b] # "none"
    BY <1>1, <2>2, Zenon DEF Walk
  <2>4. \A b \in B : b \notin Entries' /\ rpc'[b] # "none" /\ cfd'[b] = cfd[b] /\ unlisted'[b] = unlisted[b]
    BY <1>1, <1>5, <1>7, <1>10, <2>3, Zenon
  <2>5. found'[d] = found[d] /\ cfd'[d] = cfd[d] /\ Ahead(d) \subseteq Ahead(d)'
    BY <1>1, <1>5, <1>8, <2>1, Zenon
  <2>6. Walk(d, B)'
    BY <2>2, <2>4, <2>5, WalkKeeps, Zenon
  <2> QED
    BY <2>6, Zenon
<1>14. ListCounts'
  <2>1. c \notin Due /\ Due' = IF accpc' = c THEN Due \cup {c} ELSE Due
    <3>1. c \notin Due /\ (c \in Due' <=> accpc' = c)
      BY <1>4, <1>7, <1>8, Zenon DEF Due, Running
    <3>2. \A d \in ChatClients : d # c => (d \in Due' <=> d \in Due)
      BY <1>7, <1>8, Zenon DEF Due, Running
    <3>3. Due \in SUBSET ChatClients /\ Due' \in SUBSET ChatClients
      BY <1>3, <1>8, Zenon DEF Due, Running
    <3> QED
      BY <3>1, <3>2, <3>3
  <2>2. Cardinality(Entries) \in Nat /\ Cardinality(Due) \in Nat /\ Due \in SUBSET ChatClients
    BY <1>0, ListSets, Zenon
  <2>3. CASE accpc' = c
    <3>1. Cardinality(Entries') = Cardinality(Entries) + 1
      BY <1>3, <1>4, <1>10, <2>3, ChatOneMore, Zenon
    <3>2. Cardinality(Due') = Cardinality(Due) + 1
      BY <2>1, <2>2, <2>3, ChatOneMore, Zenon
    <3> QED
      BY <1>0, <2>2, <3>1, <3>2 DEF ListCounts
  <2>4. CASE accpc' # c
    BY <1>0, <1>10, <2>1, <2>4, Zenon DEF ListCounts
  <2> QED
    BY <2>3, <2>4, Zenon
<1> QED
  BY <1>9, <1>12, <1>13, <1>14, Zenon DEF ListInv

(* accept_insert keeps the invariant: the entry was counted already.       *)
LEMMA InsertKeepsList == ASSUME ListInv, accept_insert PROVE ListInv'
<1>0. ListTypes /\ ListLinks /\ ListWalks /\ ListCounts
  BY Zenon DEF ListInv
<1>1. /\ accpc \in ChatClients /\ clientList' = Append(clientList, accpc) /\ accpc' = NoNode
      /\ UNCHANGED <<rpc, cfd, found, unlisted, early, misled>>
  BY Zenon DEF accept_insert
<1>2. accpc \notin Range(clientList) /\ clientList \in Seq(ChatClients) /\ Once(clientList)
  BY <1>0, <1>1, ChatAssumption, Zenon DEF ListTypes
<1>3. clientList' \in Seq(ChatClients) /\ Once(clientList') /\ Range(clientList') = Range(clientList) \cup {accpc}
  BY <1>1, <1>2, InsertEntry
<1>4. Entries' = Entries /\ Missed' = Missed /\ Running' = Running /\ Due' = Due
  BY <1>1, <1>3, ChatAssumption, Zenon DEF Entries, Missed, Running, Due
<1>5. ListTypes'
  BY <1>0, <1>1, <1>3, Zenon DEF ListTypes
<1>6. ListLinks'
  BY <1>0, <1>1, <1>3, <1>4, Zenon DEF ListLinks, Holding
<1>7. ListWalks'
  <2> SUFFICES ASSUME NEW d \in ChatClients, rpc'[d] = "search" PROVE \E B \in SUBSET ChatClients : Walk(d, B)'
    BY Zenon DEF ListWalks
  <2>1. PICK B \in SUBSET ChatClients : Walk(d, B)
    BY <1>0, <1>1, Zenon DEF ListWalks
  <2>2. Upto(clientList, d) \subseteq Upto(clientList', d)
    BY <1>1, <1>2, UptoInsert, Zenon
  <2>3. Ahead(d) \subseteq Ahead(d)'
    BY <1>3, <1>4, <2>2, Zenon DEF Ahead
  <2>4. \A b \in B : b \notin Entries' /\ rpc'[b] # "none" /\ cfd'[b] = cfd[b] /\ unlisted'[b] = unlisted[b]
    BY <1>1, <1>4, <2>1, Zenon DEF Walk
  <2>5. Walk(d, B)'
    BY <1>1, <2>1, <2>3, <2>4, WalkKeeps, Zenon
  <2> QED
    BY <2>5, Zenon
<1>8. ListCounts'
  BY <1>0, <1>4, Zenon DEF ListCounts
<1> QED
  BY <1>5, <1>6, <1>7, <1>8, Zenon DEF ListInv

(* A step of the thread of c that leaves the list alone, and the search of *)
(* every other thread.                                                     *)
LEMMA OthersWalk ==
    ASSUME ListInv, NEW c \in ChatClients, NEW l \in RecvPlaces \ {"none", "refused"}, rpc[c] # "none",
           rpc' = [rpc EXCEPT ![c] = l], UNCHANGED <<accpc, cfd, clientList, unlisted>>,
           \A d \in ChatClients : d # c => found'[d] = found[d],
           Missed' \in {Missed, Missed \cup {c}}, l = "search" => \E B \in SUBSET ChatClients : Walk(c, B)'
    PROVE  ListWalks'
<1>0. ListTypes /\ ListWalks
  BY Zenon DEF ListInv
<1>1. rpc'[c] = l /\ \A d \in ChatClients : d # c => rpc'[d] = rpc[d]
  BY <1>0, Zenon DEF ListTypes
<1>2. Entries' = Entries
  BY Zenon DEF Entries
<1> SUFFICES ASSUME NEW d \in ChatClients, d # c, rpc'[d] = "search" PROVE \E B \in SUBSET ChatClients : Walk(d, B)'
  BY <1>1, Zenon DEF ListWalks
<1>3. PICK B \in SUBSET ChatClients : Walk(d, B)
  BY <1>0, <1>1, Zenon DEF ListWalks
<1>4. Ahead(d)' = Ahead(d)
  <2>1. d \in Missed' <=> d \in Missed
    BY Zenon
  <2> QED
    BY <2>1, Zenon DEF Ahead
<1>5. \A b \in B : b \notin Entries' /\ rpc'[b] # "none" /\ cfd'[b] = cfd[b] /\ unlisted'[b] = unlisted[b]
  <2>1. l # "none"
    OBVIOUS
  <2> QED
    BY <1>1, <1>2, <1>3, <2>1, Zenon DEF Walk
<1>6. Walk(d, B)'
  BY <1>3, <1>4, <1>5, WalkKeeps, Zenon
<1> QED
  BY <1>6, Zenon

(* Such a step keeps the rest of the invariant when the thread stays       *)
(* running, or has ended a search and may have missed its entry.           *)
LEMMA ThreadKeepsList ==
    ASSUME ListInv, NEW c \in ChatClients, NEW l \in RecvPlaces \ {"none", "refused"},
           rpc[c] \notin {"none", "refused"}, rpc' = [rpc EXCEPT ![c] = l],
           UNCHANGED <<accpc, cfd, clientList, unlisted>>,
           found' \in [ChatClients -> ChatClients \cup {NoNode}], \A d \in ChatClients : d # c => found'[d] = found[d],
           early' \in SUBSET ChatClients, misled' \in SUBSET ChatClients, Missed' \in {Missed, Missed \cup {c}},
           l = "search" => \E B \in SUBSET ChatClients : Walk(c, B)',
           l = "remove" => found'[c] \in Range(clientList) /\ cfd[found'[c]] = cfd[c],
           l \in {"close", "free", "ended"} => found'[c] \notin Entries /\ (found'[c] # NoNode => rpc[found'[c]] # "none"),
           l \in {"recv", "queued", "search", "remove"} => c \in Running,
           l \notin {"free", "ended"} => c \in Holding,
           c \in Due => c \in Due', c \notin Running => Missed' = Missed
    PROVE  ListInv'
<1>0. ListTypes /\ ListLinks /\ ListWalks /\ ListCounts
  BY Zenon DEF ListInv
<1>1. /\ rpc' \in [ChatClients -> RecvPlaces] /\ rpc'[c] = l /\ l \notin {"none", "refused"}
      /\ \A d \in ChatClients : d # c => rpc'[d] = rpc[d]
  BY <1>0, Zenon DEF ListTypes
<1>2. Entries' = Entries /\ Entries \in SUBSET ChatClients /\ Range(clientList') = Range(clientList)
  BY <1>0, ListSets, Zenon DEF Entries
<1>3. ListTypes'
  BY <1>0, <1>1, Zenon DEF ListTypes
<1>4. Running' \subseteq Running /\ Holding' \subseteq Holding
  BY <1>1, Zenon DEF Running, Holding
<1>m. \A d : d # c => (d \in Missed' <=> d \in Missed)
  OBVIOUS
<1>5. ListLinks'
  <2>1. (Running \subseteq Entries)'
    BY <1>0, <1>2, <1>4, Zenon DEF ListLinks
  <2>2. \A d \in Entries' : rpc'[d] \notin {"none", "refused"}
    BY <1>0, <1>1, <1>2, Zenon DEF ListLinks
  <2>3. \A d, e \in Holding' : cfd'[d] = cfd'[e] => d = e
    BY <1>0, <1>4, Zenon DEF ListLinks
  <2>4. \A d \in ChatClients : rpc'[d] = "remove" => found'[d] \in Range(clientList') /\ cfd'[found'[d]] = cfd'[d]
    BY <1>0, <1>1, <1>2, Zenon DEF ListLinks
  <2>5. \A d \in Missed' : rpc'[d] # "none"
    <3>1. Missed \in SUBSET ChatClients
      BY <1>0, ListSets, Zenon
    <3>2. ASSUME NEW d \in Missed', d # c PROVE rpc'[d] # "none"
      BY <1>0, <1>1, <1>m, <3>1, <3>2, Zenon DEF ListLinks
    <3>3. rpc'[c] # "none"
      BY <1>1
    <3> QED
      BY <3>2, <3>3, Zenon
  <2>6. ASSUME NEW d \in ChatClients, rpc'[d] \in {"close", "free", "ended"}
        PROVE  found'[d] \notin Entries' /\ (found'[d] # NoNode => rpc'[found'[d]] # "none")
    <3>1. found'[d] \notin Entries /\ (found'[d] # NoNode => rpc[found'[d]] # "none")
      <4>1. CASE d = c
        BY <1>1, <2>6, <4>1, Zenon
      <4>2. CASE d # c
        BY <1>0, <1>1, <2>6, <4>2, Zenon DEF ListLinks
      <4> QED
        BY <4>1, <4>2, Zenon
    <3>2. found'[d] \in ChatClients \cup {NoNode} /\ rpc'[c] # "none"
      BY <1>1
    <3> QED
      BY <1>1, <1>2, <3>1, <3>2, Zenon
  <2> QED
    BY <2>1, <2>2, <2>3, <2>4, <2>5, <2>6, Zenon DEF ListLinks
<1>6. ListWalks'
  BY OthersWalk, Zenon
<1>7. ListCounts'
  <2>1. \A d : d # c => (d \in Due' <=> d \in Due)
    <3>1. \A d : d # c => (d \in Running' <=> d \in Running)
      BY <1>1, Zenon DEF Running
    <3> QED
      BY <1>m, <3>1, Zenon DEF Due
  <2>2. c \in Due' => c \in Due
    BY <1>4, Zenon DEF Due
  <2>3. Due' = Due
    <3>1. \A d : d \in Due' <=> d \in Due
      BY <2>1, <2>2, Zenon
    <3> QED
      BY <3>1
  <2> QED
    BY <1>0, <1>2, <2>3, Zenon DEF ListCounts
<1> QED
  BY <1>3, <1>5, <1>6, <1>7, Zenon DEF ListInv

(* A thread that goes on to receive or to post, or that closes and frees,  *)
(* keeps the invariant.                                                    *)
LEMMA GoingOnKeepsList ==
    ASSUME ListInv, NEW c \in ChatClients, recv_msg(c) \/ post_msg(c) \/ close_client(c)
    PROVE  ListInv'
<1>0. ListTypes /\ ListLinks
  BY Zenon DEF ListInv
<1>1. UNCHANGED <<accpc, cfd, clientList, unlisted, found, early, misled>> /\ Missed' = Missed
  BY Zenon DEF recv_msg, post_msg, close_client, Missed
<1>2. PICK l \in {"recv", "queued", "free", "ended"} :
         /\ rpc' = [rpc EXCEPT ![c] = l]
         /\ l \in {"recv", "queued"} => rpc[c] \in {"recv", "queued"}
         /\ l \in {"free", "ended"} => rpc[c] \in {"close", "free"}
  BY Zenon DEF recv_msg, post_msg, close_client, rgoto
<1>3. /\ l \in RecvPlaces \ {"none", "refused"} /\ l \notin {"search", "remove"}
      /\ rpc[c] \notin {"none", "refused"}
  BY <1>2 DEF RecvPlaces
<1>4. /\ l \in {"recv", "queued", "search", "remove"} => c \in Running
      /\ l \notin {"free", "ended"} => c \in Holding
  BY <1>2 DEF Running, Holding
<1>5. c \in Due => c \in Due'
  <2>1. c \in Running => l \in {"recv", "queued"}
    BY <1>2 DEF Running
  <2>2. rpc'[c] = l
    BY <1>0, <1>2, Zenon DEF ListTypes
  <2> QED
    BY <1>1, <2>1, <2>2 DEF Due, Running
<1>6. l \in {"close", "free", "ended"} => found'[c] \notin Entries /\ (found'[c] # NoNode => rpc[found'[c]] # "none")
  <2>1. l \in {"close", "free", "ended"} => rpc[c] \in {"close", "free", "ended"}
    BY <1>2
  <2> QED
    BY <1>0, <1>1, <2>1, Zenon DEF ListLinks
<1> QED
  BY <1>0, <1>1, <1>2, <1>3, <1>4, <1>5, <1>6, ThreadKeepsList, Zenon DEF ListTypes

(* disconnect keeps the invariant: the search begins at the first entry,   *)
(* and the entry of the thread is behind it unless the thread is early.    *)
LEMMA DisconnectKeepsList == ASSUME ListInv, NEW c \in ChatClients, disconnect(c) PROVE ListInv'
<1> DEFINE e == IF clientList = << >> THEN NoNode ELSE Head(clientList)
<1>0. ListTypes /\ ListLinks
  BY Zenon DEF ListInv
<1>1. /\ rpc[c] = "recv" /\ rpc' = [rpc EXCEPT ![c] = "search"] /\ found' = [found EXCEPT ![c] = e]
      /\ early' = IF c = accpc THEN early \cup {c} ELSE early
      /\ UNCHANGED <<accpc, cfd, clientList, unlisted, misled>>
  BY Zenon DEF disconnect, rgoto
<1>2. clientList \in Seq(ChatClients) /\ Range(clientList) \in SUBSET ChatClients
  BY <1>0, ListSets, Zenon DEF ListTypes
<1>3. e = NoNode \/ e \in Range(clientList)
  <2>1. clientList # << >> => 1 \in 1..Len(clientList) /\ clientList[1] = Head(clientList)
    BY <1>2
  <2> QED
    BY <1>2, <2>1, RangeOf, Zenon
<1>4. e \in ChatClients \cup {NoNode}
  BY <1>2, <1>3, Zenon
<1> HIDE DEF e
<1>5. /\ found' \in [ChatClients -> ChatClients \cup {NoNode}] /\ found'[c] = e
      /\ \A d \in ChatClients : d # c => found'[d] = found[d]
  BY <1>0, <1>1, <1>4, Zenon DEF ListTypes
<1>6. Missed' \in {Missed, Missed \cup {c}} /\ (c = accpc => c \in Missed') /\ early' \in SUBSET ChatClients /\ misled' \in SUBSET ChatClients
  BY <1>0, <1>1, Zenon DEF Missed, ListTypes
<1>7. c \in Running /\ c \in Holding /\ rpc[c] \notin {"none", "refused"}
  BY <1>1 DEF Running, Holding
<1>8. e \in Ahead(c)'
  <2>1. CASE c \in Missed'
    BY <1>1, <1>3, <2>1, Zenon DEF Ahead
  <2>2. CASE c \notin Missed'
    <3>1. c \in Range(clientList)
      BY <1>0, <1>6, <1>7, <2>2, Zenon DEF ListLinks, Entries
    <3>2. e \in Upto(clientList, c)
      BY <1>2, <3>1, UptoFirst, Zenon DEF e
    <3> QED
      BY <1>1, <2>2, <3>2, Zenon DEF Ahead
  <2> QED
    BY <2>1, <2>2, Zenon
<1>9. \E B \in SUBSET ChatClients : Walk(c, B)'
  <2>1. Walk(c, {})'
    BY <1>5, <1>8, Zenon DEF Walk
  <2> QED
    BY <2>1, Zenon
<1>10. "search" \in RecvPlaces \ {"none", "refused"} /\ c \in Due'
  <2>1. rpc'[c] = "search"
    BY <1>0, <1>1, Zenon DEF ListTypes
  <2> QED
    BY <2>1 DEF RecvPlaces, Due, Running
<1> QED
  BY <1>1, <1>5, <1>6, <1>7, <1>9, <1>10, ThreadKeepsList, Zenon

(* search keeps the invariant: an entry with the thread's descriptor is    *)
(* one of the list, and a thread that comes to the end may have missed its *)
(* own.                                                                    *)
LEMMA SearchKeepsList == ASSUME ListInv, NEW c \in ChatClients, search(c) PROVE ListInv'
<1> DEFINE e == found[c]
<1>0. ListTypes /\ ListLinks /\ ListWalks
  BY Zenon DEF ListInv
<1>1. rpc[c] = "search" /\ UNCHANGED <<accpc, cfd, clientList, unlisted, early>>
  BY Zenon DEF search
<1>2. /\ clientList \in Seq(ChatClients) /\ Range(clientList) \in SUBSET ChatClients /\ Once(clientList)
      /\ found \in [ChatClients -> ChatClients \cup {NoNode}] /\ rpc \in [ChatClients -> RecvPlaces]
      /\ early \in SUBSET ChatClients /\ misled \in SUBSET ChatClients
  BY <1>0, ListSets, Zenon DEF ListTypes
<1>3. PICK B \in SUBSET ChatClients : Walk(c, B)
  BY <1>0, <1>1, Zenon DEF ListWalks
<1>4. c \in Running /\ c \in Holding /\ c \in Due /\ rpc[c] \notin {"none", "refused"}
  BY <1>1 DEF Running, Holding, Due
<1>5. {"search", "remove", "close"} \subseteq RecvPlaces \ {"none", "refused"}
  BY DEF RecvPlaces
<1>6. e \in B \cup Ahead(c)
  BY <1>3, Zenon DEF Walk
(* It ends, or finds its descriptor.                                       *)
<1>7. ASSUME UNCHANGED <<found, misled>>, NEW l \in {"remove", "close"}, rpc' = [rpc EXCEPT ![c] = l],
             l = "remove" => e \in Range(clientList) /\ cfd[e] = cfd[c], l = "close" => c \in Missed /\ e = NoNode
      PROVE  ListInv'
  <2>1. Missed' = Missed /\ l \in RecvPlaces \ {"none", "refused"} /\ l # "search"
        /\ l \notin {"free", "ended"} /\ e' = e
    BY <1>1, <1>5, <1>7 DEF Missed
  <2>2. rpc'[c] = l
    BY <1>2, <1>7, Zenon
  <2>3. c \in Due'
    BY <1>7, <2>1, <2>2 DEF Due, Running
  <2>4. l \in {"close", "free", "ended"} => found'[c] \notin Entries /\ (found'[c] # NoNode => rpc[found'[c]] # "none")
    <3>1. NoNode \notin Entries
      BY <1>0, ListSets, ChatAssumption, Zenon
    <3> QED
      BY <1>7, <2>1, <3>1
  <2> QED
    BY <1>1, <1>2, <1>4, <1>7, <2>1, <2>3, <2>4, ThreadKeepsList, Zenon
(* It goes on to another entry.                                            *)
<1>8. ASSUME NEW n, found' = [found EXCEPT ![c] = n], misled' \in {misled, misled \cup {c}}, UNCHANGED rpc,
             n \in B \cup Ahead(c)'
      PROVE  ListInv'
  <2>1. Missed' \in {Missed, Missed \cup {c}} /\ misled' \in SUBSET ChatClients /\ Missed \subseteq Missed'
    BY <1>1, <1>2, <1>8, Zenon DEF Missed
  <2>2. Ahead(c) \subseteq Ahead(c)' /\ Ahead(c)' \subseteq ChatClients \cup {NoNode}
    <3>1. Upto(clientList, c) \subseteq Range(clientList)
      BY <1>2, UptoOf, Zenon
    <3> QED
      BY <1>1, <1>2, <2>1, <3>1, Zenon DEF Ahead
  <2>3. n \in ChatClients \cup {NoNode}
    BY <1>8, <2>2, Zenon
  <2>4. /\ found' \in [ChatClients -> ChatClients \cup {NoNode}] /\ found'[c] = n
        /\ \A d \in ChatClients : d # c => found'[d] = found[d]
    BY <1>2, <1>8, <2>3, Zenon
  <2>5. rpc' = [rpc EXCEPT ![c] = "search"] /\ c \in Due'
    BY <1>1, <1>2, <1>8, <1>4 DEF Due, Running
  <2>6. Entries' = Entries
    BY <1>1, Zenon DEF Entries
  <2>7. Walk(c, B)'
    <3>1. found'[c] \in B \cup Ahead(c)'
      BY <1>8, <2>4, Zenon
    <3>2. \A b \in B : /\ b \in ChatClients /\ b \notin Entries' /\ rpc'[b] # "none" /\ cfd'[b] # cfd'[c]
                       /\ unlisted'[b] \in B \cup Ahead(c)'
      BY <1>1, <1>3, <1>8, <2>2, <2>6, Zenon DEF Walk
    <3> QED
      BY <3>1, <3>2, Zenon DEF Walk
  <2>8. "search" \in RecvPlaces \ {"none", "refused"} /\ early' \in SUBSET ChatClients
    BY <1>1, <1>2, <1>5, Zenon
  <2> QED
    BY <1>1, <1>4, <2>1, <2>4, <2>5, <2>7, <2>8, ThreadKeepsList, Zenon
<1>9. CASE e = NoNode /\ rgoto(c, "close") /\ UNCHANGED <<found, misled>>
  <2>1. c \in Missed
    <3>1. NoNode \notin B /\ NoNode \notin Range(clientList)
      BY <1>2, ChatAssumption, Zenon
    <3> QED
      BY <1>0, <1>6, <1>9, <3>1, AheadOf, Zenon
  <2> QED
    BY <1>7, <1>9, <2>1 DEF rgoto
<1>10. CASE e \in ChatClients /\ cfd[e] = cfd[c] /\ rgoto(c, "remove") /\ UNCHANGED <<found, misled>>
  <2>1. e \in Range(clientList)
    <3>1. e \notin B
      BY <1>3, <1>10, Zenon DEF Walk
    <3> QED
      BY <1>0, <1>6, <1>10, <3>1, AheadOf, ChatAssumption, Zenon
  <2> QED
    BY <1>7, <1>10, <2>1 DEF rgoto
<1>11. CASE e \in ChatClients /\ cfd[e] # cfd[c] /\ found' = [found EXCEPT ![c] = next_read(e)] /\ UNCHANGED <<rpc, misled>>
  <2>0. Ahead(c)' = Ahead(c)
    BY <1>1, <1>11, Zenon DEF Ahead, Missed
  <2>1. next_read(e) \in B \cup Ahead(c)
    <3>1. CASE e \notin Range(clientList)
      <4>1. e \in B
        BY <1>0, <1>6, <1>11, <3>1, AheadOf, ChatAssumption, Zenon
      <4> QED
        BY <1>3, <3>1, <4>1, Zenon DEF Walk, next_read
    <3>2. CASE e \in Range(clientList) /\ c \in Missed
      <4>1. next_of(e) \in Range(clientList) \cup {NoNode}
        BY <1>0, <3>2, NextListed, Zenon
      <4> QED
        BY <3>2, <4>1, Zenon DEF next_read, Ahead
    <3>3. CASE e \in Range(clientList) /\ c \notin Missed
      <4>1. e \notin B
        BY <1>3, <3>3, Zenon DEF Walk, Entries
      <4>2. e \in Upto(clientList, c) /\ e # c
        BY <1>6, <1>11, <3>3, <4>1, Zenon DEF Ahead
      <4>3. next_of(e) \in Upto(clientList, c)
        BY <1>2, <4>2, UptoNext, Zenon DEF next_of
      <4> QED
        BY <3>3, <4>3, Zenon DEF next_read, Ahead
    <3> QED
      BY <3>1, <3>2, <3>3, Zenon
  <2> HIDE DEF e
  <2> QED
    BY <1>8, <1>11, <2>0, <2>1, Zenon
<1>12. CASE misled' = misled \cup {c} /\ UNCHANGED rpc /\ e \in freed_entries
            /\ ((\E n \in next_freed(e) : found' = [found EXCEPT ![c] = n]) \/ UNCHANGED found)
  <2>1. Ahead(c)' = Range(clientList) \cup {NoNode}
    BY <1>1, <1>12, Zenon DEF Ahead, Missed
  <2>2. Ahead(c) \subseteq Ahead(c)'
    BY <1>0, <2>1, AheadOf, Zenon
  <2>3. CASE UNCHANGED found
    <3>1. found' = [found EXCEPT ![c] = e]
      BY <1>2, <2>3, Zenon
    <3>2. e \in B \cup Ahead(c)'
      BY <1>6, <2>2, Zenon
    <3> HIDE DEF e
    <3> QED
      BY <1>8, <1>12, <3>1, <3>2, Zenon
  <2>4. ASSUME NEW n \in next_freed(e), found' = [found EXCEPT ![c] = n] PROVE ListInv'
    <3>1. n \in B \cup Ahead(c)'
      <4>1. CASE n \in Range(clientList) \cup {NoNode}
        BY <2>1, <4>1, Zenon
      <4>2. CASE n = unlisted[e] /\ e \in B
        BY <1>3, <2>2, <4>2, Zenon DEF Walk
      <4>3. e \in B
        <5>1. e \in ChatClients /\ e \notin Range(clientList)
          BY <1>0, <1>12, FreedUnlisted, Zenon
        <5> QED
          BY <1>0, <1>6, <5>1, AheadOf, ChatAssumption, Zenon
      <4> QED
        BY <2>4, <4>1, <4>2, <4>3, Zenon DEF next_freed
    <3> QED
      BY <1>8, <1>12, <2>4, <3>1, Zenon
  <2> QED
    BY <1>12, <2>3, <2>4, Zenon
<1> QED
  BY <1>9, <1>10, <1>11, <1>12, Zenon DEF search

(* remove_client keeps the invariant: it removes the entry of a thread     *)
(* that has ended or its own, because no other running thread has its      *)
(* descriptor; a search that stood on the entry is led on as before.       *)
LEMMA RemoveKeepsList == ASSUME ListInv, NEW c \in ChatClients, remove_client(c) PROVE ListInv'
<1> DEFINE e == found[c]
<1>0. ListTypes /\ ListLinks /\ ListWalks /\ ListCounts
  BY Zenon DEF ListInv
<1>1. /\ rpc[c] = "remove" /\ rpc' = [rpc EXCEPT ![c] = "close"] /\ UNCHANGED <<accpc, cfd, found, early, misled>>
      /\ clientList' = unlink(clientList, place_of(clientList, e)) /\ unlisted' = [unlisted EXCEPT ![e] = next_of(e)]
  BY Zenon DEF remove_client, rgoto
<1>2. e \in Range(clientList) /\ cfd[e] = cfd[c]
  BY <1>0, <1>1, Zenon DEF ListLinks
<1>3. /\ rpc' \in [ChatClients -> RecvPlaces] /\ rpc'[c] = "close"
      /\ \A d \in ChatClients : d # c => rpc'[d] = rpc[d]
  BY <1>0, <1>1 DEF ListTypes, RecvPlaces
<1>4. /\ Range(clientList) \in SUBSET ChatClients /\ Entries \in SUBSET ChatClients
      /\ Due \in SUBSET ChatClients /\ Missed \in SUBSET ChatClients
      /\ Cardinality(Entries) \in Nat /\ Cardinality(Due) \in Nat
      /\ clientList \in Seq(ChatClients) /\ Once(clientList)
  BY <1>0, ListSets, Zenon DEF ListTypes
<1>5. e \in ChatClients /\ e # NoNode /\ accpc # e /\ e \in Entries /\ rpc[e] # "none"
  <2> HIDE DEF e
  <2>1. e \in ChatClients /\ e # NoNode /\ e \in Entries
    BY <1>2, <1>4, ChatAssumption, Zenon DEF Entries
  <2>2. rpc[e] # "none"
    BY <1>0, <2>1, Zenon DEF ListLinks
  <2>3. accpc # e
    BY <1>0, <1>2, <2>1, ChatAssumption, Zenon DEF ListTypes
  <2> QED
    BY <2>1, <2>2, <2>3, Zenon
<1>6. \A d \in Holding : d # c => d # e /\ cfd[d] # cfd[e]
  <2>1. c \in Holding
    BY <1>1 DEF Holding
  <2> QED
    BY <1>0, <1>2, <2>1, Zenon DEF ListLinks
<1>7. clientList' \in Seq(ChatClients) /\ Once(clientList') /\ Range(clientList') = Range(clientList) \ {e}
  <2> HIDE DEF e
  <2> QED
    BY <1>1, <1>2, <1>4, RemoveEntry, Zenon
<1>8. Entries' = Entries \ {e} /\ Missed' = Missed
  BY <1>1, <1>5, <1>7, Zenon DEF Entries, Missed
<1>9. next_of(e) \in (Range(clientList) \ {e}) \cup {NoNode}
  BY <1>0, <1>2, <1>5, NextListed, Zenon
<1>10. /\ unlisted' \in [ChatClients -> ChatClients \cup {NoNode}] /\ unlisted'[e] = next_of(e)
       /\ \A b \in ChatClients : b # e => unlisted'[b] = unlisted[b]
  <2>1. next_of(e) \in ChatClients \cup {NoNode}
    BY <1>4, <1>9, Zenon
  <2> HIDE DEF e
  <2> QED
    BY <1>0, <1>1, <1>5, <2>1, Zenon DEF ListTypes
<1>11. ListTypes'
  BY <1>0, <1>1, <1>3, <1>7, <1>10, Zenon DEF ListTypes
<1>12. Running' = Running \ {c} /\ Holding' = Holding /\ Running \subseteq Holding /\ c \in Running /\ c \in Holding
  <2>1. \A d \in ChatClients \ {c} : (d \in Running' <=> d \in Running) /\ (d \in Holding' <=> d \in Holding)
    BY <1>3, Zenon DEF Running, Holding
  <2>2. c \notin Running' /\ c \in Holding' /\ c \in Running /\ c \in Holding
    BY <1>1, <1>3 DEF Running, Holding
  <2>3. Running \subseteq Holding /\ Holding \subseteq ChatClients /\ Holding' \subseteq ChatClients /\ Running' \subseteq ChatClients
    BY DEF Running, Holding
  <2> QED
    BY <2>1, <2>2, <2>3, Zenon
<1>13. ListLinks'
  <2>1. (Running \subseteq Entries)'
    BY <1>0, <1>6, <1>8, <1>12, Zenon DEF ListLinks
  <2>2. \A d \in Entries' : rpc'[d] \notin {"none", "refused"}
    BY <1>0, <1>3, <1>4, <1>8 DEF ListLinks
  <2>3. \A d, f \in Holding' : cfd'[d] = cfd'[f] => d = f
    BY <1>0, <1>1, <1>12, Zenon DEF ListLinks
  <2>4. ASSUME NEW d \in ChatClients, rpc'[d] = "remove"
        PROVE  found'[d] \in Range(clientList') /\ cfd'[found'[d]] = cfd'[d]
    <3>1. d # c /\ rpc[d] = "remove"
      BY <1>3, <2>4
    <3>2. found[d] \in Range(clientList) /\ cfd[found[d]] = cfd[d]
      BY <1>0, <3>1, Zenon DEF ListLinks
    <3>3. d \in Holding
      BY <3>1 DEF Holding
    <3>4. found[d] # e
      BY <1>6, <3>1, <3>2, <3>3, Zenon
    <3> QED
      BY <1>1, <1>7, <3>2, <3>4, Zenon
  <2>5. \A d \in Missed' : rpc'[d] # "none"
    BY <1>0, <1>3, <1>4, <1>8 DEF ListLinks
  <2>6. ASSUME NEW d \in ChatClients, rpc'[d] \in {"close", "free", "ended"}
        PROVE  found'[d] \notin Entries' /\ (found'[d] # NoNode => rpc'[found'[d]] # "none")
    <3>1. found[d] \notin Entries' /\ (found[d] # NoNode => rpc[found[d]] # "none")
      BY <1>0, <1>3, <1>5, <1>8, <2>6, Zenon DEF ListLinks
    <3>2. found[d] # NoNode => rpc'[found[d]] # "none"
      <4>1. found[d] \in ChatClients \cup {NoNode} /\ rpc'[c] # "none"
        BY <1>0, <1>3 DEF ListTypes
      <4> QED
        BY <1>3, <3>1, <4>1, Zenon
    <3> QED
      BY <1>1, <3>1, <3>2, Zenon
  <2> QED
    BY <2>1, <2>2, <2>3, <2>4, <2>5, <2>6, Zenon DEF ListLinks
<1>14. ListWalks'
  <2> SUFFICES ASSUME NEW d \in ChatClients, rpc'[d] = "search" PROVE \E B \in SUBSET ChatClients : Walk(d, B)'
    BY Zenon DEF ListWalks
  <2>1. d # c /\ rpc[d] = "search" /\ d \in Holding
    BY <1>3 DEF Holding
  <2>2. PICK B \in SUBSET ChatClients : Walk(d, B)
    BY <1>0, <2>1, Zenon DEF ListWalks
  <2>3. d # e /\ cfd[e] # cfd[d]
    BY <1>6, <2>1, Zenon
  <2>4. Ahead(d) \ {e} \subseteq Ahead(d)'
    <3>1. Upto(clientList, d) \ {e} \subseteq Upto(clientList', d)
      <4> HIDE DEF e
      <4> QED
        BY <1>1, <1>2, <1>4, <2>3, UptoRemove, Zenon
    <3> QED
      BY <1>7, <1>8, <3>1, Zenon DEF Ahead
  <2>5. e \in Ahead(d) => next_of(e) \in Ahead(d)'
    <3>1. CASE d \in Missed
      BY <1>7, <1>8, <1>9, <3>1, Zenon DEF Ahead
    <3>2. CASE d \notin Missed
      <4>1. ASSUME e \in Upto(clientList, d) PROVE next_of(e) \in Upto(clientList, d) /\ next_of(e) # e
        <5> HIDE DEF e
        <5> QED
          BY <1>4, <2>3, <4>1, UptoNext, Zenon DEF next_of
      <4> QED
        BY <2>4, <3>2, <4>1, Zenon DEF Ahead
    <3> QED
      BY <3>1, <3>2, Zenon
  <2>6. /\ found'[d] \in B \cup Ahead(d) /\ cfd' = cfd
        /\ \A b \in B : /\ b \in ChatClients /\ b # e /\ b \notin Entries' /\ rpc'[b] # "none" /\ cfd[b] # cfd[d]
                        /\ unlisted'[b] \in B \cup Ahead(d)
    <3>1. \A b \in B : b \in ChatClients /\ b # e /\ rpc'[b] # "none"
      <4>1. \A b \in B : b \in ChatClients /\ b # e /\ rpc[b] # "none"
        BY <1>5, <2>2, Zenon DEF Walk
      <4>2. rpc'[c] # "none"
        BY <1>3
      <4> QED
        BY <1>3, <4>1, <4>2, Zenon
    <3> QED
      BY <1>1, <1>8, <1>10, <2>2, <3>1, Zenon DEF Walk
  <2>7. CASE e \in Ahead(d)
    <3>0. PICK C \in SUBSET ChatClients : C = B \cup {e}
      BY <1>5, Zenon
    <3>1. B \cup Ahead(d) \subseteq C \cup Ahead(d)'
      BY <2>4, <3>0, Zenon
    <3>2. e \in ChatClients /\ e \notin Entries' /\ rpc'[e] # "none" /\ cfd'[e] # cfd'[d] /\ unlisted'[e] \in C \cup Ahead(d)'
      <4>1. rpc'[e] # "none"
        BY <1>3, <1>5
      <4> QED
        BY <1>1, <1>5, <1>8, <1>10, <2>3, <2>5, <2>7, <3>0, <4>1, Zenon
    <3>3. /\ found'[d] \in C \cup Ahead(d)'
          /\ \A b \in C : /\ b \in ChatClients /\ b \notin Entries' /\ rpc'[b] # "none" /\ cfd'[b] # cfd'[d]
                          /\ unlisted'[b] \in C \cup Ahead(d)'
      BY <2>6, <3>0, <3>1, <3>2, Zenon
    <3>4. Walk(d, C)'
      BY <3>3, Zenon DEF Walk
    <3> QED
      BY <3>4, Zenon
  <2>8. CASE e \notin Ahead(d)
    <3>1. Walk(d, B)'
      BY <2>4, <2>6, <2>8, Zenon DEF Walk
    <3> QED
      BY <3>1, Zenon
  <2> QED
    BY <2>7, <2>8, Zenon
<1>15. ListCounts'
  <2>1. Cardinality(Entries') = Cardinality(Entries) - 1
    BY <1>4, <1>5, <1>8, ChatOneLess, Zenon
  <2>2. Due' = IF c \in Missed THEN Due ELSE Due \ {c}
    BY <1>8, <1>12, Zenon DEF Due
  <2>3. c \in Due
    BY <1>12, Zenon DEF Due
  <2>4. Cardinality(Due') \in {Cardinality(Due), Cardinality(Due) - 1}
    BY <1>4, <2>2, <2>3, ChatOneLess, Zenon
  <2> QED
    BY <1>0, <1>4, <2>1, <2>4 DEF ListCounts
<1> QED
  BY <1>11, <1>13, <1>14, <1>15, Zenon DEF ListInv

(* Every step keeps the invariant of the list.                             *)
LEMMA ListInductive == ListInv /\ [ChatNext]_chatvars => ListInv'
<1> SUFFICES ASSUME ListInv, [ChatNext]_chatvars PROVE ListInv'
  OBVIOUS
<1>1. CASE UNCHANGED chatvars
  BY <1>1, ListSame, Zenon DEF chatvars
<1>2. ASSUME NEW c \in ChatClients, accept_create(c) PROVE ListInv'
  BY <1>2, CreateKeepsList, Zenon
<1>3. CASE accept_insert
  BY <1>3, InsertKeepsList, Zenon
<1>4. ASSUME NEW c \in ChatClients, recv_msg(c) \/ post_msg(c) \/ close_client(c) PROVE ListInv'
  BY <1>4, GoingOnKeepsList, Zenon
<1>5. ASSUME NEW c \in ChatClients, disconnect(c) PROVE ListInv'
  BY <1>5, DisconnectKeepsList, Zenon
<1>6. ASSUME NEW c \in ChatClients, search(c) PROVE ListInv'
  BY <1>6, SearchKeepsList, Zenon
<1>7. ASSUME NEW c \in ChatClients, remove_client(c) PROVE ListInv'
  BY <1>7, RemoveKeepsList, Zenon
<1>8. CASE chat_main
  BY <1>8, ListSame, Zenon DEF chat_main, main_wait, main_send, main_remove
<1> QED
  BY <1>1, <1>2, <1>3, <1>4, <1>5, <1>6, <1>7, <1>8, Zenon DEF ChatNext, recvThread

(* The counts give the bound on the stale entries: the entries of running  *)
(* threads are entries too, and are as many as the threads.                *)
LEMMA StaleBounded == ListInv => StaleOnlyMissed
<1> SUFFICES ASSUME ListInv PROVE Cardinality(Stale) <= Cardinality(Missed)
  BY Zenon DEF StaleOnlyMissed, Missed
<1>0. ListTypes /\ ListLinks /\ ListCounts
  BY Zenon DEF ListInv
<1>1. Entries \in SUBSET ChatClients /\ Missed \in SUBSET ChatClients /\ Running \in SUBSET ChatClients
  BY <1>0, ListSets, Zenon
<1>2. Stale \in SUBSET ChatClients /\ Stale \cup Running \in SUBSET Entries /\ Stale \cap Running = {}
  BY <1>0, <1>1 DEF Stale, Running, Entries, ListLinks
<1>3. /\ IsFiniteSet(Stale) /\ IsFiniteSet(Running) /\ IsFiniteSet(Entries) /\ IsFiniteSet(Missed)
      /\ Cardinality(Stale) \in Nat /\ Cardinality(Running) \in Nat /\ Cardinality(Entries) \in Nat
      /\ Cardinality(Due) \in Nat /\ Cardinality(Missed) \in Nat /\ Cardinality(Running \cap Missed) \in Nat
  <2>1. Running \cap Missed \in SUBSET ChatClients
    BY <1>1, Zenon
  <2> QED
    BY <1>0, <1>1, <1>2, <2>1, ChatFinite, ListSets, Zenon
<1>4. Cardinality(Due) = Cardinality(Running) + Cardinality(Missed) - Cardinality(Running \cap Missed)
  BY <1>3, FS_Union, Zenon DEF Due
<1>5. Cardinality(Stale \cup Running) <= Cardinality(Entries)
  BY <1>2, <1>3, FS_Subset, Zenon
<1>6. Cardinality(Stale \cup Running) = Cardinality(Stale) + Cardinality(Running)
  <2>1. Cardinality(Stale \cup Running) = Cardinality(Stale) + Cardinality(Running) - Cardinality(Stale \cap Running)
    BY <1>3, FS_Union, Zenon
  <2>2. Cardinality(Stale \cap Running) = 0
    BY <1>2, FS_EmptySet, Zenon
  <2> QED
    BY <1>3, <2>1, <2>2
<1> QED
  BY <1>0, <1>3, <1>4, <1>5, <1>6 DEF ListCounts

(* Both invariants hold at the start, with nobody accepted.                *)
LEMMA ChatInitially == ChatInit => QueueInv /\ ListInv
<1> SUFFICES ASSUME ChatInit PROVE QueueInv /\ ListInv
  BY Zenon
<1>1. /\ accpc = NoNode /\ rpc = [c \in ChatClients |-> "none"] /\ sent = [c \in ChatClients |-> 0]
      /\ clientList = << >> /\ found = [c \in ChatClients |-> NoNode] /\ cfd = [c \in ChatClients |-> 0]
      /\ unlisted = [c \in ChatClients |-> NoNode]
      /\ gMsgQueue = << >> /\ gMainMsgSem = 0 /\ mpc = "sem_wait" /\ early = {} /\ misled = {}
  BY Zenon DEF ChatInit
<1>2. QueueInv
  <2>1. {c \in ChatClients : rpc[c] = "queued"} = {}
    BY <1>1, Zenon
  <2>2. Posting = 0
    BY <2>1, FS_EmptySet, Zenon DEF Posting
  <2> QED
    BY <1>1, <2>2 DEF QueueInv, SemCountsQueue, RecvPlaces
<1>3. Range(clientList) = {}
  BY <1>1 DEF Range
<1>4. Entries = {} /\ Missed = {} /\ Running = {} /\ Holding = {} /\ Due = {}
  BY <1>1, <1>3, ChatAssumption, Zenon DEF Entries, Missed, Running, Holding, Due
<1>5. ListTypes
  BY <1>1, <1>3 DEF ListTypes, RecvPlaces, Once
<1>6. ListLinks /\ ListWalks
  BY <1>1, <1>4, Zenon DEF ListLinks, ListWalks
<1>7. ListCounts
  BY <1>4, FS_EmptySet DEF ListCounts
<1> QED
  BY <1>2, <1>5, <1>6, <1>7, Zenon DEF ListInv

(* In the chat server the semaphore counts the queued messages, so main    *)
(* never finds the queue empty after sem_wait; no entry of the client list *)
(* is taken out twice; and no more entries outlive their threads than      *)
(* there were threads that searched before their client was listed or read *)
(* a freed entry: for every set of clients and every number of messages.   *)
THEOREM ChatServerIsSafe == ChatSpec => []ChatSafe
<1>1. QueueInv /\ ListInv => ChatSafe
  <2> SUFFICES ASSUME QueueInv, ListInv PROVE ChatSafe
    BY Zenon
  <2>1. Range(clientList) \subseteq ChatClients
    BY ListSets, Zenon DEF ListInv
  <2>2. ChatTypeOK
    BY <2>1, Zenon DEF ChatTypeOK, QueueInv, ListInv, ListTypes, RecvPlaces
  <2>3. RemovesListed
    BY Zenon DEF RemovesListed, ListInv, ListLinks
  <2> QED
    BY <2>2, <2>3, StaleBounded, Zenon DEF ChatSafe, QueueInv
<1> QED
  BY <1>1, ChatInitially, QueueInductive, ListInductive, PTL DEF ChatSpec

-----------------------------------------------------------------------------
(* AcceptPool. Whoever is between the lock and the unlock around accept is *)
(* the lock's holder, for every set of workers.                            *)

(* Around accept a worker has the lock, unless the program has none: this  *)
(* is what makes PoolSafe inductive.                                       *)
InAccept == {w \in Workers : workerpc[w] \in {"accept", "release"}}

HolderIn == server # "serv02" => \A w \in InAccept : holder = w

PoolInv == PoolTypeOK /\ HolderIn

(* It holds at the start.                                                  *)
LEMMA PoolInitially == PoolInit => PoolInv
BY PoolAssumption DEF PoolInit, PoolInv, PoolTypeOK, HolderIn, InAccept

(* Every step keeps the invariant.                                         *)
LEMMA PoolInductive == PoolInv /\ [PoolNext]_poolvars => PoolInv'
<1> SUFFICES ASSUME PoolInv, [PoolNext]_poolvars PROVE PoolInv'
  BY Zenon
<1> USE PoolAssumption DEF PoolInv, PoolTypeOK
<1>1. CASE UNCHANGED poolvars
  BY <1>1, Zenon DEF poolvars, HolderIn, InAccept
<1>2. CASE client_arrives
  BY <1>2 DEF client_arrives, HolderIn, InAccept
<1>3. CASE sig_int
  BY <1>3 DEF sig_int, HolderIn, InAccept
<1>4. ASSUME NEW w \in Workers, my_lock_wait(w) PROVE PoolInv'
  BY <1>4, Zenon DEF my_lock_wait, may_enter, wgoto, HolderIn, InAccept
<1>5. ASSUME NEW w \in Workers, Accept(w) PROVE PoolInv'
  BY <1>5 DEF Accept, pending_conn, wgoto, HolderIn, InAccept
<1>6. ASSUME NEW w \in Workers, my_lock_release(w) PROVE PoolInv'
  BY <1>6, Zenon DEF my_lock_release, wgoto, HolderIn, InAccept
<1>7. ASSUME NEW w \in Workers, web_child(w) PROVE PoolInv'
  BY <1>7 DEF web_child, wgoto, HolderIn, InAccept
<1>8. ASSUME NEW w \in Workers, pool_killed(w) PROVE PoolInv'
  BY <1>8 DEF pool_killed, left_by, wgoto, HolderIn, InAccept
<1> QED
  BY <1>1, <1>2, <1>3, <1>4, <1>5, <1>6, <1>7, <1>8, Zenon DEF PoolNext, worker

(* In the servers that lock around accept at most one living worker is in  *)
(* accept, whoever was killed where: for every set of workers and every    *)
(* number of connections.                                                  *)
THEOREM PoolIsSafe == PoolSpec => []PoolSafe
<1>1. PoolInv => PoolSafe
  BY Zenon DEF PoolInv, HolderIn, InAccept, PoolSafe, OneInAccept
<1> QED
  BY <1>1, PoolInitially, PoolInductive, PTL DEF PoolSpec

=============================================================================
