-------------------------- MODULE ArithmeticLemmas --------------------------
(***************************************************************************)
(* Facts about natural numbers that the proofs about counters, ring        *)
(* indices and windows share.                                              *)
(***************************************************************************)
EXTENDS Integers, FiniteSets, FiniteSetsExt, WellFoundedInduction, TLAPS

\* Every nonempty set of naturals has a smallest element: the loops that stop
\* at the first index with some property (queue eviction, session table).
LEMMA SmallestNat ==
    ASSUME NEW S, S \subseteq Nat, S # {}
    PROVE  \E x \in S : \A y \in S : x <= y
PROOF
  <1>1. PICK x \in S : \A y \in S : ~(<<y, x>> \in OpToRel(<, Nat))
    BY NatLessThanWellFounded, WFMin
  <1>2. \A y \in Nat : <<y, x>> \in OpToRel(<, Nat) <=> y < x
    BY <1>1 DEF OpToRel
  <1>3. \A y \in S : ~(y < x)
    BY <1>1, <1>2
  <1>4. \A y \in S : x <= y
    <2> TAKE y \in S
    <2>1. x \in Nat /\ y \in Nat /\ ~(y < x)
      BY <1>3
    <2> QED BY <2>1
  <1> QED BY <1>4

\* Min of a set of naturals is its smallest element.
LEMMA MinNat ==
    ASSUME NEW S, S \subseteq Nat, S # {}
    PROVE  Min(S) \in S /\ \A y \in S : Min(S) <= y
  BY SmallestNat DEF Min

\* Max of a bounded set of naturals is its largest element: the loops that
\* run as long as some condition holds (draining a window).
LEMMA MaxNat ==
    ASSUME NEW S, S \subseteq Nat, S # {}, NEW b \in Nat, \A y \in S : y <= b
    PROVE  Max(S) \in S /\ \A y \in S : y <= Max(S)
PROOF
  <1> DEFINE T == {b - y : y \in S}
  <1>1. T \subseteq Nat /\ T # {}
    <2>1. PICK s \in S : TRUE
      OBVIOUS
    <2>2. \A y \in S : b - y \in Nat
      OBVIOUS
    <2>3. b - s \in T
      BY <2>1
    <2> QED BY <2>2, <2>3
  <1>2. PICK t \in T : \A u \in T : t <= u
    BY <1>1, SmallestNat
  <1>3. PICK x \in S : t = b - x
    BY <1>2
  <1>4. \A y \in S : y <= x
    <2> SUFFICES ASSUME NEW y \in S PROVE y <= x
      OBVIOUS
    <2>1. b - x <= b - y
      BY <1>2, <1>3
    <2> QED BY <2>1
  <1> QED BY <1>3, <1>4 DEF Max

\* Indices of a ring of C slots: one wrap at most.
LEMMA ModSmall ==
    ASSUME NEW C \in Nat \ {0}, NEW a \in 0 .. (2 * C)
    PROVE  a % C = IF a < C THEN a ELSE IF a < 2 * C THEN a - C ELSE 0
  OBVIOUS

\* Division with remainder.
LEMMA DivMod ==
    ASSUME NEW C \in Nat \ {0}, NEW a \in Int
    PROVE  /\ a = C * (a \div C) + (a % C)
           /\ a \div C \in Int
           /\ a % C \in 0 .. (C - 1)
  OBVIOUS

\* A product of an integer with a positive number is at least that number, or at
\* most its opposite, or zero.
LEMMA Multiples ==
    ASSUME NEW C \in Nat \ {0}, NEW q \in Int, -C < C * q, C * q < C
    PROVE  q = 0
PROOF
  <1>1. CASE q >= 1
    <2>1. q - 1 \in Nat /\ C * q = C * (q - 1) + C
      BY <1>1
    <2>2. C * (q - 1) >= 0
      BY <2>1
    <2> QED BY <2>1, <2>2
  <1>2. CASE q <= -1
    <2>1. -q - 1 \in Nat /\ C * q = -(C * (-q - 1)) - C
      BY <1>2
    <2>2. C * (-q - 1) >= 0
      BY <2>1
    <2> QED BY <2>1, <2>2
  <1> QED BY <1>1, <1>2

\* The remainder is the only one.
LEMMA ModUnique ==
    ASSUME NEW C \in Nat \ {0}, NEW a \in Int, NEW q \in Int,
           NEW r \in 0 .. (C - 1), a = C * q + r
    PROVE  a % C = r
PROOF
  <1> DEFINE p == a \div C
             s == a % C
  <1>1. a = C * p + s /\ p \in Int /\ s \in 0 .. (C - 1)
    BY DivMod
  <1> HIDE DEF p, s
  <1>2. C * (q - p) = s - r
    <2>1. C * (q - p) = C * q - C * p
      BY <1>1
    <2> QED BY <1>1, <2>1
  <1>3. q - p \in Int /\ -C < C * (q - p) /\ C * (q - p) < C
    BY <1>1, <1>2
  <1>4. q - p = 0
    BY <1>3, Multiples
  <1>5. s = r
    BY <1>1, <1>2, <1>4
  <1> QED BY <1>5 DEF s

\* Adding to a remainder: counters that wrap.
LEMMA ModAdd ==
    ASSUME NEW C \in Nat \ {0}, NEW a \in Int, NEW b \in Int
    PROVE  ((a % C) + b) % C = (a + b) % C
PROOF
  <1> DEFINE p == a \div C
             s == a % C
             q == (a + b) \div C
             r == (a + b) % C
  <1>1. a = C * p + s /\ p \in Int /\ s \in 0 .. (C - 1)
    BY DivMod
  <1>2. a + b = C * q + r /\ q \in Int /\ r \in 0 .. (C - 1)
    <2>1. a + b \in Int
      OBVIOUS
    <2> QED BY <2>1, DivMod
  <1> HIDE DEF p, s, q, r
  <1>3. s + b = C * (q - p) + r
    <2>1. C * (q - p) = C * q - C * p
      BY <1>1, <1>2
    <2> QED BY <1>1, <1>2, <2>1
  <1>4. (s + b) % C = r
    <2>1. s + b \in Int /\ q - p \in Int
      BY <1>1, <1>2
    <2> QED BY <1>2, <1>3, <2>1, ModUnique
  <1> QED BY <1>4 DEF s, r

\* Subtracting remainders.
LEMMA ModSub ==
    ASSUME NEW C \in Nat \ {0}, NEW a \in Int, NEW b \in Int
    PROVE  ((a % C) - (b % C)) % C = (a - b) % C
PROOF
  <1> DEFINE p == b \div C
             s == b % C
             q == (a - b) \div C
             r == (a - b) % C
  <1>1. b = C * p + s /\ p \in Int /\ s \in 0 .. (C - 1)
    BY DivMod
  <1>2. a - b = C * q + r /\ q \in Int /\ r \in 0 .. (C - 1)
    <2>1. a - b \in Int
      OBVIOUS
    <2> QED BY <2>1, DivMod
  <1>3. ((a % C) + (-s)) % C = (a + (-s)) % C
    <2>1. -s \in Int
      BY <1>1
    <2> QED BY <2>1, ModAdd
  <1>4. a % C \in Int
    BY DivMod
  <1> HIDE DEF p, s, q, r
  <1>5. a + (-s) = C * (q + p) + r
    <2>1. C * (q + p) = C * q + C * p
      BY <1>1, <1>2
    <2> QED BY <1>1, <1>2, <2>1
  <1>6. (a + (-s)) % C = r
    <2>1. a + (-s) \in Int /\ q + p \in Int
      BY <1>1, <1>2
    <2> QED BY <1>2, <1>5, <2>1, ModUnique
  <1>7. (a % C) - s = (a % C) + (-s)
    BY <1>1, <1>4
  <1> QED BY <1>3, <1>6, <1>7 DEF s, r

\* Remainders by a divisor: ring indices of wrapping counters.
LEMMA ModOfMod ==
    ASSUME NEW C \in Nat \ {0}, NEW M \in Nat \ {0}, M % C = 0, NEW a \in Int
    PROVE  (a % M) % C = a % C
PROOF
  <1> DEFINE k == M \div C
             p == a \div M
             s == a % M
             t == s \div C
             u == s % C
  <1>1. M = C * k /\ k \in Int
    BY DivMod
  <1>2. a = M * p + s /\ p \in Int /\ s \in 0 .. (M - 1)
    BY DivMod
  <1>3. s = C * t + u /\ t \in Int /\ u \in 0 .. (C - 1)
    BY <1>2, DivMod
  <1> HIDE DEF k, p, s, t, u
  <1>4. a = C * (k * p + t) + u
    <2>1. C * (k * p + t) = C * (k * p) + C * t
      BY <1>1, <1>2, <1>3
    <2>2. M * p = C * (k * p)
      BY <1>1, <1>2
    <2> QED BY <1>2, <1>3, <2>1, <2>2
  <1>5. a % C = u
    BY <1>1, <1>2, <1>3, <1>4, ModUnique
  <1> QED BY <1>5 DEF s, u

\* Numbers less than C apart have different remainders.
LEMMA ModApart ==
    ASSUME NEW C \in Nat \ {0}, NEW a \in Int, NEW b \in Int,
           a - b < C, b - a < C, a % C = b % C
    PROVE  a = b
PROOF
  <1> DEFINE p == a \div C
             q == b \div C
             s == a % C
  <1>1. a = C * p + s /\ p \in Int /\ s \in 0 .. (C - 1)
    BY DivMod
  <1>2. b = C * q + s /\ q \in Int
    BY DivMod
  <1> HIDE DEF p, q, s
  <1>3. C * (p - q) = a - b
    <2>1. C * (p - q) = C * p - C * q
      BY <1>1, <1>2
    <2> QED BY <1>1, <1>2, <2>1
  <1>4. p - q \in Int /\ -C < C * (p - q) /\ C * (p - q) < C
    BY <1>1, <1>2, <1>3
  <1>5. p - q = 0
    BY <1>4, Multiples
  <1> QED BY <1>1, <1>2, <1>5
=============================================================================
