--------------------------- MODULE CountingLemmas ---------------------------
(***************************************************************************)
(* Facts the proofs about the programs share: the number of the threads,   *)
(* slots or clients that are at a place of their program, how one step     *)
(* changes it, and arithmetic modulo the size of a ring.                   *)
(***************************************************************************)
EXTENDS Integers, FiniteSets, FiniteSetTheorems, WellFoundedInduction, TLAPS

(* The members of S that f maps into A.                                    *)
Those(S, f, A) == {x \in S : f[x] \in A}

(* Their number is a natural number, zero when there is none.              *)
LEMMA Number ==
    ASSUME NEW S, IsFiniteSet(S), NEW f, NEW A
    PROVE  /\ IsFiniteSet(Those(S, f, A))
           /\ Cardinality(Those(S, f, A)) \in Nat
           /\ Cardinality(Those(S, f, A)) <= Cardinality(S)
           /\ Cardinality(Those(S, f, A)) = 0 <=> \A x \in S : f[x] \notin A
<1>1. Those(S, f, A) \in SUBSET S
  BY DEF Those
<1>2. IsFiniteSet(Those(S, f, A)) /\ Cardinality(Those(S, f, A)) <= Cardinality(S)
  BY <1>1, FS_Subset
<1>3. Cardinality(Those(S, f, A)) \in Nat
  BY <1>2, FS_CardinalityType
<1>4. Cardinality(Those(S, f, A)) = 0 <=> Those(S, f, A) = {}
  BY <1>2, FS_EmptySet
<1> QED
  BY <1>2, <1>3, <1>4 DEF Those

(* A step that moves one member only changes the number by that member.    *)
LEMMA OneChanges ==
    ASSUME NEW S, IsFiniteSet(S), NEW f, NEW g, NEW A, NEW x \in S,
           \A y \in S : y # x => (g[y] \in A <=> f[y] \in A)
    PROVE  /\ g[x] \in A /\ f[x] \notin A => Cardinality(Those(S, g, A)) = Cardinality(Those(S, f, A)) + 1
           /\ g[x] \notin A /\ f[x] \in A => Cardinality(Those(S, g, A)) = Cardinality(Those(S, f, A)) - 1
           /\ (g[x] \in A <=> f[x] \in A) => Cardinality(Those(S, g, A)) = Cardinality(Those(S, f, A))
<1>0. IsFiniteSet(Those(S, f, A))
  BY Number
<1>1. ASSUME g[x] \in A, f[x] \notin A
      PROVE  Cardinality(Those(S, g, A)) = Cardinality(Those(S, f, A)) + 1
  <2>1. Those(S, g, A) = Those(S, f, A) \cup {x} /\ x \notin Those(S, f, A)
    BY <1>1 DEF Those
  <2> QED
    BY <1>0, <2>1, FS_AddElement
<1>2. ASSUME g[x] \notin A, f[x] \in A
      PROVE  Cardinality(Those(S, g, A)) = Cardinality(Those(S, f, A)) - 1
  <2>1. Those(S, g, A) = Those(S, f, A) \ {x} /\ x \in Those(S, f, A)
    BY <1>2 DEF Those
  <2> QED
    BY <1>0, <2>1, FS_RemoveElement
<1>3. ASSUME g[x] \in A <=> f[x] \in A
      PROVE  Cardinality(Those(S, g, A)) = Cardinality(Those(S, f, A))
  <2>1. Those(S, g, A) = Those(S, f, A)
    BY <1>3 DEF Those
  <2> QED
    BY <2>1
<1> QED
  BY <1>1, <1>2, <1>3

(* The same for a step that moves x to s.                                  *)
LEMMA OneMoves ==
    ASSUME NEW S, IsFiniteSet(S), NEW f, NEW g, NEW A, NEW x \in S, NEW s,
           g[x] = s, \A y \in S : y # x => g[y] = f[y]
    PROVE  Cardinality(Those(S, g, A)) =
             Cardinality(Those(S, f, A)) + (IF s \in A THEN 1 ELSE 0) - (IF f[x] \in A THEN 1 ELSE 0)
<1>1. \A y \in S : y # x => (g[y] \in A <=> f[y] \in A)
  OBVIOUS
<1>2. Cardinality(Those(S, f, A)) \in Nat
  BY Number
<1>3. /\ g[x] \in A /\ f[x] \notin A => Cardinality(Those(S, g, A)) = Cardinality(Those(S, f, A)) + 1
      /\ g[x] \notin A /\ f[x] \in A => Cardinality(Those(S, g, A)) = Cardinality(Those(S, f, A)) - 1
      /\ (g[x] \in A <=> f[x] \in A) => Cardinality(Those(S, g, A)) = Cardinality(Those(S, f, A))
  BY <1>1, OneChanges, SMT
<1> QED
  BY <1>2, <1>3

(* The same for a step that may move x anywhere.                           *)
LEMMA OneStep ==
    ASSUME NEW S, IsFiniteSet(S), NEW f, NEW g, NEW A, NEW x \in S, \A y \in S : y # x => g[y] = f[y]
    PROVE  Cardinality(Those(S, g, A)) =
             Cardinality(Those(S, f, A)) + (IF g[x] \in A THEN 1 ELSE 0) - (IF f[x] \in A THEN 1 ELSE 0)
BY OneMoves, SMT

(* The same where what moves need not be a member.                         *)
LEMMA OneStepIn ==
    ASSUME NEW S, IsFiniteSet(S), NEW f, NEW g, NEW A, NEW x, \A y \in S : y # x => g[y] = f[y]
    PROVE  Cardinality(Those(S, g, A)) = Cardinality(Those(S, f, A))
             + (IF x \in S /\ g[x] \in A THEN 1 ELSE 0) - (IF x \in S /\ f[x] \in A THEN 1 ELSE 0)
<1>1. CASE x \in S
  BY <1>1, OneStep, SMT
<1>2. CASE x \notin S
  <2>1. Those(S, g, A) = Those(S, f, A)
    BY <1>2 DEF Those
  <2>2. Cardinality(Those(S, f, A)) \in Nat
    BY Number
  <2> QED
    BY <2>1, <2>2, <1>2
<1> QED
  BY <1>1, <1>2

(* A remainder is below the modulus.                                       *)
LEMMA ModRange == ASSUME NEW a \in Int, NEW N \in Nat \ {0} PROVE a % N \in 0..N-1
OBVIOUS

(* Quotient and remainder.                                                 *)
LEMMA DivMod ==
    ASSUME NEW a \in Int, NEW N \in Nat \ {0}
    PROVE  a = N * (a \div N) + (a % N) /\ (a \div N) \in Int
OBVIOUS

(* The only multiple of N closer to zero than N is zero.                   *)
LEMMA Mult ==
    ASSUME NEW q \in Int, NEW N \in Nat \ {0}, N * q < N, -N < N * q
    PROVE  q = 0
OBVIOUS

(* Multiplication distributes over subtraction.                            *)
LEMMA Distr ==
    ASSUME NEW p \in Int, NEW q \in Int, NEW N \in Int
    PROVE  N * (p - q) = N * p - N * q
OBVIOUS

(* The product of integers is an integer.                                  *)
LEMMA Closed == ASSUME NEW p \in Int, NEW q \in Int PROVE p * q \in Int
OBVIOUS

(* A remainder below the modulus is the remainder.                         *)
LEMMA ModUnique ==
    ASSUME NEW a \in Int, NEW N \in Nat \ {0}, NEW q \in Int, NEW r \in 0..N-1, a = N * q + r
    PROVE  a % N = r
<1> DEFINE d == (a \div N) - q
<1>0. a = N * (a \div N) + (a % N) /\ a % N \in 0..N-1 /\ (a \div N) \in Int
  BY DivMod, ModRange
<1>1. d \in Int /\ N * d = N * (a \div N) - N * q /\ a = N * (a \div N) + (a % N) /\ a % N \in 0..N-1
  BY <1>0, Distr
<1>2. N * (a \div N) \in Int /\ N * q \in Int
  BY DivMod, Closed
<1>3. N * d = r - (a % N)
  BY <1>1, <1>2
<1> HIDE DEF d
<1>4. d = 0
  BY <1>1, <1>3, Mult
<1> QED
  BY <1>1, <1>3, <1>4

(* Numbers less than N apart have different remainders: the slots of a ring. *)
LEMMA Apart ==
    ASSUME NEW a \in Nat, NEW b \in Nat, NEW N \in Nat \ {0}, b < a, a < b + N
    PROVE  a % N # b % N
<1> SUFFICES ASSUME a % N = b % N PROVE FALSE
  OBVIOUS
<1> DEFINE q == (a \div N) - (b \div N)
<1>1. q \in Int /\ a - b = N * q
  BY DivMod, Distr
<1> HIDE DEF q
<1> QED
  BY <1>1, Mult

(* The remainder of the successor: a ring index that wraps around.         *)
LEMMA NextMod ==
    ASSUME NEW a \in Nat, NEW N \in Nat \ {0}
    PROVE  (a + 1) % N = IF (a % N) + 1 >= N THEN 0 ELSE (a % N) + 1
<1>1. a = N * (a \div N) + (a % N) /\ (a \div N) \in Int /\ a % N \in 0..N-1 /\ N * (a \div N) \in Int
  BY DivMod, ModRange, Closed
<1>2. CASE (a % N) + 1 >= N
  <2>1. N * ((a \div N) - (-1)) = N * (a \div N) - N * (-1) /\ N * (-1) = - N
    BY <1>1, Distr
  <2>2. a + 1 = N * ((a \div N) - (-1)) + 0
    BY <1>1, <1>2, <2>1
  <2>3. a + 1 \in Int /\ (a \div N) - (-1) \in Int /\ 0 \in 0..N-1
    BY <1>1
  <2>4. (a + 1) % N = 0
    BY <2>2, <2>3, ModUnique
  <2> QED
    BY <1>2, <2>4
<1>3. CASE ~((a % N) + 1 >= N)
  <2>1. a + 1 = N * (a \div N) + ((a % N) + 1) /\ (a % N) + 1 \in 0..N-1
    BY <1>1, <1>3
  <2>2. a + 1 \in Int
    OBVIOUS
  <2>3. (a + 1) % N = (a % N) + 1
    BY <1>1, <2>1, <2>2, ModUnique
  <2> QED
    BY <1>3, <2>3
<1> QED
  BY <1>2, <1>3

(* The distance of two ring indices is that of the counts modulo N.        *)
LEMMA DiffMod ==
    ASSUME NEW a \in Nat, NEW b \in Nat, NEW N \in Nat \ {0}
    PROVE  ((a % N) - (b % N)) % N = (a - b) % N
<1> DEFINE qa == a \div N
           qb == b \div N
           qd == (a - b) \div N
           r == (a - b) % N
           q == qd - (qa - qb)
<1>1. /\ a = N * qa + (a % N) /\ b = N * qb + (b % N) /\ a - b = N * qd + r
      /\ qa \in Int /\ qb \in Int /\ qd \in Int /\ r \in 0..N-1
      /\ a % N \in Int /\ b % N \in Int
  BY DivMod, ModRange
<1>2. N * qa \in Int /\ N * qb \in Int /\ N * qd \in Int /\ q \in Int
  BY <1>1, Closed
<1>3. N * (qa - qb) = N * qa - N * qb /\ N * q = N * qd - N * (qa - qb)
  BY <1>1, Distr
<1>4. (a % N) - (b % N) = N * q + r
  BY <1>1, <1>2, <1>3
<1> HIDE DEF qa, qb, qd, q, r
<1>5. (a % N) - (b % N) \in Int
  BY <1>1
<1>6. ((a % N) - (b % N)) % N = r
  BY <1>1, <1>2, <1>4, <1>5, ModUnique
<1> QED
  BY <1>6 DEF r

(* A set of natural numbers that is not empty has a least member.          *)
LEMMA Least ==
    ASSUME NEW T \in SUBSET Nat, T # {}
    PROVE  \E m \in T : \A k \in T : m <= k
<1>1. \E x \in T : \A y \in T : ~ (<<y, x>> \in OpToRel(<, Nat))
  BY NatLessThanWellFounded, WFMin
<1>2. \E x \in T : \A y \in T : ~ (<<y, x>> \in {ss \in Nat \X Nat : ss[1] < ss[2]})
  BY <1>1 DEF OpToRel
<1>3. PICK x \in T : \A y \in T : ~ (<<y, x>> \in {ss \in Nat \X Nat : ss[1] < ss[2]})
  BY <1>2
<1>4. ASSUME NEW y \in T PROVE x <= y
  <2>1. ~ (<<y, x>> \in {ss \in Nat \X Nat : ss[1] < ss[2]})
    BY <1>3
  <2>2. x \in Nat /\ y \in Nat
    OBVIOUS
  <2>3. ~ (y < x)
    BY <2>1, <2>2
  <2> QED
  BY <2>2, <2>3
<1> QED
  BY <1>4

=============================================================================
