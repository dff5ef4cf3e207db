---------------------------- MODULE NaturalLemmas ----------------------------
(***************************************************************************)
(* Natural numbers: induction, stated for sets of numbers, division, and   *)
(* powers of two with the bits they stand for.                             *)
(***************************************************************************)
EXTENDS Integers, WellFoundedInduction, FunctionTheorems, FiniteSetTheorems, TLAPS

-----------------------------------------------------------------------------
(* Induction *)

NatLT == {ss \in Nat \X Nat : ss[1] < ss[2]}

\* A set of naturals that contains every number all of whose predecessors it
\* contains is Nat.
LEMMA NatSetStrongInduction ==
    ASSUME NEW S \in SUBSET Nat,
           \A n \in Nat : (\A m \in 0..(n - 1) : m \in S) => n \in S
    PROVE  S = Nat
<1> DEFINE T == Nat \ S
<1>1. SUFFICES ASSUME T # {} PROVE FALSE
  OBVIOUS
<1>2. IsWellFoundedOn(NatLT, Nat)
  BY NatLessThanWellFounded DEF OpToRel, NatLT
<1>3. T \subseteq Nat
  OBVIOUS
<1>4. \E n \in T : \A m \in T : <<m, n>> \notin NatLT
  <2> HIDE DEF T
  <2> QED BY <1>1, <1>2, <1>3, WFMin
<1>5. PICK n \in T : \A m \in T : ~(m < n)
  BY <1>4 DEF NatLT
<1>6. \A m \in 0..(n - 1) : m \in S
  BY <1>5
<1> QED BY <1>6

\* The same with one step.
LEMMA NatSetInduction ==
    ASSUME NEW S \in SUBSET Nat, 0 \in S, \A n \in S : n + 1 \in S
    PROVE  S = Nat
<1>1. ASSUME NEW n \in Nat, \A m \in 0..(n - 1) : m \in S
      PROVE  n \in S
  <2>1. CASE n = 0
    BY <2>1
  <2>2. CASE n > 0
    <3>1. n - 1 \in S
      BY <1>1, <2>2
    <3>2. (n - 1) + 1 \in S
      BY <3>1
    <3> QED BY <3>2
  <2> QED BY <2>1, <2>2
<1> QED BY <1>1, NatSetStrongInduction

-----------------------------------------------------------------------------
(* Division *)

\* Multiplying by one more.
LEMMA TimesNext ==
    ASSUME NEW a \in Nat, NEW b \in Nat
    PROVE  /\ a * b \in Nat
           /\ (a + 1) * b = a * b + b
OBVIOUS

\* Multiplying keeps the order.
LEMMA TimesMonotonic ==
    ASSUME NEW a \in Nat, NEW c \in Nat, a <= c, NEW b \in Nat
    PROVE  a * b \in Nat /\ c * b \in Nat /\ a * b <= c * b
<1>1. PICK d \in Nat : c = a + d
  <2>1. c - a \in Nat /\ c = a + (c - a)
    OBVIOUS
  <2> QED BY <2>1
<1>2. c * b = a * b + d * b
  BY <1>1
<1>3. d * b \in Nat /\ a * b \in Nat
  OBVIOUS
<1> HIDE <1>1
<1> QED BY <1>2, <1>3

\* Quotient and remainder.
LEMMA Division ==
    ASSUME NEW n \in Nat, NEW b \in Nat, b > 0
    PROVE  /\ n \div b \in Nat
           /\ n % b \in 0..(b - 1)
           /\ n = (n \div b) * b + (n % b)
<1>1. n % b \in 0..(b - 1)
  OBVIOUS
<1>2. n \div b \in Nat
  OBVIOUS
<1>3. n = (n \div b) * b + (n % b)
  OBVIOUS
<1> QED BY <1>1, <1>2, <1>3

\* The quotient is smaller than the number.
LEMMA Quotient ==
    ASSUME NEW n \in Nat \ {0}, NEW b \in Nat, b > 1
    PROVE  n \div b \in 0..(n - 1)
<1> DEFINE q == n \div b
           r == n % b
<1>1. q \in Nat /\ r \in 0..(b - 1) /\ n = q * b + r
  BY Division
<1>2. 2 * q <= b * q /\ b * q = q * b
  <2>1. 2 \in Nat /\ 2 <= b
    OBVIOUS
  <2> HIDE DEF q
  <2>2. 2 * q <= b * q
    BY <1>1, <2>1, TimesMonotonic
  <2>3. b * q = q * b
    BY <1>1
  <2> QED BY <2>2, <2>3
<1> HIDE DEF q, r
<1>3. q * b \in Nat
  BY <1>1
<1>4. q < n
  BY <1>1, <1>2, <1>3
<1>5. q \in 0..(n - 1)
  BY <1>1, <1>4
<1> QED BY <1>5 DEF q

\* What is divided and what is left over are the only ones.
LEMMA DivisionUnique ==
    ASSUME NEW b \in Nat, NEW p \in Nat, NEW q \in Nat,
           NEW r \in 0..(b - 1), NEW s \in 0..(b - 1), p * b + r = q * b + s
    PROVE  p = q /\ r = s
<1>1. r \in Nat /\ s \in Nat /\ r < b /\ s < b
  OBVIOUS
<1>2. ASSUME NEW x \in Nat, NEW y \in Nat, x < y, NEW t \in Nat, t < b, NEW u \in Nat
      PROVE  x * b + t < y * b + u
  <2>1. x * b \in Nat /\ (x + 1) * b = x * b + b
    BY TimesNext
  <2>2. x + 1 \in Nat /\ x + 1 <= y
    BY <1>2
  <2>3. (x + 1) * b <= y * b /\ y * b \in Nat
    BY <2>2, TimesMonotonic
  <2> QED BY <1>2, <2>1, <2>3
<1>3. p * b \in Nat /\ q * b \in Nat
  BY TimesNext
<1>4. p = q
  <2>1. ~(p < q)
    <3>1. p < q => p * b + r < q * b + s
      BY <1>1, <1>2
    <3> QED BY <3>1, <1>1, <1>3
  <2>2. ~(q < p)
    <3>1. q < p => q * b + s < p * b + r
      BY <1>1, <1>2
    <3> QED BY <3>1, <1>1, <1>3
  <2> QED BY <2>1, <2>2
<1> QED BY <1>1, <1>3, <1>4

-----------------------------------------------------------------------------
(* Powers of two *)

\* The provers know nothing of x ^ y; the library's theorem on the number of
\* subsets of a finite set does.
LEMMA TwoPower ==
    ASSUME NEW n \in Nat
    PROVE  /\ 2 ^ n \in Nat
           /\ 2 ^ n > 0
           /\ 2 ^ (n + 1) = 2 * 2 ^ n
           /\ 2 ^ 0 = 1
<1> DEFINE S == 1..n
           T == 1..(n + 1)
           x == n + 1
           With == {B \union {x} : B \in SUBSET S}
<1>1. /\ IsFiniteSet(S) /\ Cardinality(S) = n
      /\ IsFiniteSet(T) /\ Cardinality(T) = n + 1
  <2>1. IsFiniteSet(1..n) /\ Cardinality(1..n) = IF 1 > n THEN 0 ELSE n - 1 + 1
    BY FS_Interval
  <2>2. /\ IsFiniteSet(1..(n + 1))
        /\ Cardinality(1..(n + 1)) = IF 1 > n + 1 THEN 0 ELSE (n + 1) - 1 + 1
    BY FS_Interval
  <2> QED BY <2>1, <2>2
<1>2. x \notin S /\ T = S \union {x}
  OBVIOUS
<1> HIDE DEF S, T, x
<1>3. /\ IsFiniteSet(SUBSET S) /\ Cardinality(SUBSET S) = 2 ^ n
      /\ IsFiniteSet(SUBSET T) /\ Cardinality(SUBSET T) = 2 ^ (n + 1)
  BY <1>1, FS_SUBSET, Zenon
<1>4. IsFiniteSet(With) /\ Cardinality(With) = Cardinality(SUBSET S)
  <2> DEFINE f == [B \in SUBSET S |-> B \union {x}]
  <2>1. f \in [SUBSET S -> With]
    BY Zenon
  <2>2. ASSUME NEW B \in SUBSET S, NEW C \in SUBSET S, f[B] = f[C] PROVE B = C
    BY <2>2, <1>2, Zenon
  <2>3. f \in Injection(SUBSET S, With)
    BY <2>1, <2>2, Fun_IsInj, Zenon
  <2>4. f \in Surjection(SUBSET S, With)
    BY <2>1, Zenon DEF Surjection
  <2>5. ExistsBijection(SUBSET S, With)
    BY <2>3, <2>4, Zenon DEF Bijection, ExistsBijection
  <2> QED BY <2>5, <1>3, FS_Bijection, Zenon
<1>5. SUBSET T = (SUBSET S) \union With
  <2>1. ASSUME NEW B \in SUBSET T PROVE B \in SUBSET S \/ B \in With
    <3>1. CASE x \in B
      <4>1. B = (B \ {x}) \union {x} /\ B \ {x} \in SUBSET S
        BY <3>1, <1>2
      <4> QED BY <4>1, Zenon
    <3>2. CASE x \notin B
      BY <3>2, <1>2
    <3> QED BY <3>1, <3>2
  <2>2. ASSUME NEW B \in With PROVE B \in SUBSET T
    BY <1>2, Zenon
  <2> QED BY <2>1, <2>2, <1>2
<1>6. (SUBSET S) \intersect With = {}
  BY <1>2, Zenon
<1>7. Cardinality(SUBSET T) =
        Cardinality(SUBSET S) + Cardinality(With) - Cardinality((SUBSET S) \intersect With)
  BY <1>3, <1>4, <1>5, FS_Union, Zenon
<1>8. Cardinality((SUBSET S) \intersect With) = 0
  BY <1>6, FS_EmptySet, Zenon
<1>9. Cardinality(SUBSET S) \in Nat /\ Cardinality(SUBSET S) # 0
  <2>1. Cardinality(SUBSET S) \in Nat
    BY <1>3, FS_CardinalityType, Zenon
  <2>2. SUBSET S # {}
    OBVIOUS
  <2> QED BY <2>1, <2>2, <1>3, FS_EmptySet, Zenon
<1>10. 2 ^ 0 = 1
  OBVIOUS
<1> QED BY <1>3, <1>4, <1>7, <1>8, <1>9, <1>10

\* A power of two is a multiple of twice any smaller one.
LEMMA PowerSplits ==
    ASSUME NEW i \in Nat, NEW n \in Nat, i < n
    PROVE  \E k \in Nat : 2 ^ n = k * (2 * 2 ^ i)
<1> DEFINE S == {d \in Nat : \E k \in Nat : 2 ^ ((i + 1) + d) = k * (2 * 2 ^ i)}
<1>1. 0 \in S
  <2>1. 2 ^ (i + 1) = 1 * (2 * 2 ^ i) /\ (i + 1) + 0 = i + 1
    BY TwoPower
  <2> QED BY <2>1
<1>2. ASSUME NEW d \in S PROVE d + 1 \in S
  <2>1. PICK k \in Nat : 2 ^ ((i + 1) + d) = k * (2 * 2 ^ i)
    OBVIOUS
  <2>2. (i + 1) + d \in Nat /\ ((i + 1) + d) + 1 = (i + 1) + (d + 1)
    OBVIOUS
  <2>3. 2 ^ (((i + 1) + d) + 1) = 2 * 2 ^ ((i + 1) + d)
    BY <2>2, TwoPower
  <2>4. 2 * (k * (2 * 2 ^ i)) = (2 * k) * (2 * 2 ^ i)
    <3>1. 2 ^ i \in Nat
      BY TwoPower
    <3> DEFINE m == 2 * 2 ^ i
    <3>2. m \in Nat
      BY <3>1
    <3> HIDE DEF m
    <3>3. 2 * (k * m) = (2 * k) * m
      BY <3>2
    <3> QED BY <3>3 DEF m
  <2>5. 2 * k \in Nat /\ 2 ^ ((i + 1) + (d + 1)) = (2 * k) * (2 * 2 ^ i)
    BY <2>1, <2>2, <2>3, <2>4
  <2>6. d + 1 \in Nat
    OBVIOUS
  <2> QED BY <2>5, <2>6, Zenon
<1>3. S = Nat
  <2>1. S \in SUBSET Nat
    OBVIOUS
  <2> HIDE DEF S
  <2> QED BY <2>1, <1>1, <1>2, NatSetInduction
<1> DEFINE d == n - (i + 1)
<1>4. d \in Nat /\ (i + 1) + d = n
  OBVIOUS
<1> HIDE DEF d
<1>5. \E k \in Nat : 2 ^ ((i + 1) + d) = k * (2 * 2 ^ i)
  <2>1. d \in S
    <3> HIDE DEF S
    <3> QED BY <1>3, <1>4
  <2> QED BY <2>1
<1> QED BY <1>4, <1>5

\* Bit i of a number.
Bit(b, i) == (b \div 2 ^ i) % 2

\* Setting a bit above bit i leaves that one as it is.
LEMMA HigherBitKeeps ==
    ASSUME NEW b \in Nat, NEW i \in Nat, NEW n \in Nat, i < n
    PROVE  Bit(b + 2 ^ n, i) = Bit(b, i)
<1> DEFINE m == 2 ^ i
           q == b \div m
           r == b % m
           p == (b + 2 ^ n) \div m
           s == (b + 2 ^ n) % m
<1>1. m \in Nat /\ m > 0 /\ 2 ^ n \in Nat
  BY TwoPower
<1>2. PICK k \in Nat : 2 ^ n = k * (2 * m)
  BY PowerSplits
<1>3. /\ q \in Nat /\ r \in 0..(m - 1) /\ b = q * m + r
      /\ p \in Nat /\ s \in 0..(m - 1) /\ b + 2 ^ n = p * m + s
  <2> HIDE DEF m
  <2>1. b + 2 ^ n \in Nat
    BY <1>1
  <2> QED BY <2>1, <1>1, Division
<1> HIDE DEF q, r, p, s, m
<1>4. p * m + s = (q + 2 * k) * m + r
  <2>1. k * (2 * m) = (2 * k) * m
    BY <1>1
  <2>2. (q + 2 * k) * m = q * m + (2 * k) * m
    BY <1>1, <1>3
  <2>3. q * m \in Nat /\ (2 * k) * m \in Nat /\ p * m \in Nat /\ r \in Nat /\ s \in Nat
    BY <1>1, <1>3
  <2> QED BY <2>1, <2>2, <2>3, <1>2, <1>3
<1>5. p = q + 2 * k
  <2>1. q + 2 * k \in Nat
    BY <1>3
  <2> QED BY <2>1, <1>1, <1>3, <1>4, DivisionUnique
<1>6. p % 2 = q % 2
  BY <1>3, <1>5
<1> QED BY <1>6 DEF Bit, p, q, m

\* Bit n of a number below 2 ^ n is 0, and 1 once 2 ^ n is added.
LEMMA TopBit ==
    ASSUME NEW n \in Nat, NEW b \in 0..(2 ^ n - 1)
    PROVE  /\ Bit(b, n) = 0 /\ Bit(b + 2 ^ n, n) = 1
           /\ b \in 0..(2 ^ (n + 1) - 1)
           /\ b + 2 ^ n \in 0..(2 ^ (n + 1) - 1)
<1> DEFINE m == 2 ^ n
<1>1. m \in Nat /\ m > 0 /\ 2 ^ (n + 1) = 2 * m
  BY TwoPower
<1> HIDE DEF m
<1>2. b \in Nat /\ b < m
  BY <1>1 DEF m
<1>3. ASSUME NEW c \in Nat, NEW q \in Nat, c = q * m + b PROVE c \div m = q
  <2>1. c \div m \in Nat /\ c % m \in 0..(m - 1) /\ c = (c \div m) * m + (c % m)
    BY <1>1, Division
  <2>2. b \in 0..(m - 1)
    BY <1>1, <1>2
  <2>3. (c \div m) * m + (c % m) = q * m + b
    BY <2>1, <1>3
  <2> HIDE DEF m
  <2> QED BY <2>1, <2>2, <2>3, <1>1, <1>3, DivisionUnique
<1>4. b \div m = 0
  <2>1. b = 0 * m + b
    BY <1>1, <1>2
  <2> QED BY <2>1, <1>2, <1>3
<1>5. (b + m) \div m = 1
  <2>1. b + m = 1 * m + b /\ b + m \in Nat
    BY <1>1, <1>2
  <2> QED BY <2>1, <1>3
<1>6. b \in 0..(2 * m - 1) /\ b + m \in 0..(2 * m - 1)
  BY <1>1, <1>2
<1>7. Bit(b, n) = (b \div m) % 2 /\ Bit(b + m, n) = ((b + m) \div m) % 2
  BY DEF Bit, m
<1>8. 0 % 2 = 0 /\ 1 % 2 = 1
  OBVIOUS
<1> QED BY <1>1, <1>4, <1>5, <1>6, <1>7, <1>8 DEF m

\* Halving l times divides by 2 ^ l.
LEMMA HalvedAgain ==
    ASSUME NEW i \in Nat, NEW l \in Nat
    PROVE  /\ i \div 2 ^ 0 = i
           /\ i \div 2 ^ l \in Nat
           /\ (i \div 2 ^ l) \div 2 = i \div 2 ^ (l + 1)
<1> DEFINE m == 2 ^ l
           q == i \div m
           r == i % m
           h == q \div 2
           b == q % 2
<1>1. m \in Nat /\ m > 0 /\ 2 ^ (l + 1) = 2 * m /\ 2 ^ 0 = 1
  BY TwoPower
<1> HIDE DEF m
<1>2. q \in Nat /\ r \in 0..(m - 1) /\ i = q * m + r
  BY <1>1, Division
<1> HIDE DEF q, r
<1>3. h \in Nat /\ b \in {0, 1} /\ q = 2 * h + b
  BY <1>2
<1> HIDE DEF h, b
<1>4. i = h * (2 * m) + (b * m + r)
  <2>1. q * m = (2 * h) * m + b * m
    BY <1>1, <1>3
  <2>2. (2 * h) * m = h * (2 * m)
    BY <1>1, <1>3
  <2>3. h * (2 * m) \in Nat /\ b * m \in Nat /\ r \in Nat
    BY <1>1, <1>2, <1>3
  <2> QED BY <2>1, <2>2, <2>3, <1>2
<1>5. b * m + r \in 0..(2 * m - 1)
  <2>1. b * m = 0 \/ b * m = m
    BY <1>1, <1>3
  <2> QED BY <2>1, <1>1, <1>2
<1>6. i \div (2 * m) = h
  <2> DEFINE n == 2 * m
             p == i \div n
             s == i % n
  <2>1. n \in Nat /\ n > 0
    BY <1>1
  <2> HIDE DEF n
  <2>2. p \in Nat /\ s \in 0..(n - 1) /\ i = p * n + s
    BY <2>1, Division
  <2>3. b * m + r \in 0..(n - 1) /\ i = h * n + (b * m + r)
    BY <1>4, <1>5 DEF n
  <2> HIDE DEF p, s
  <2>4. p = h
    <3>1. p * n + s = h * n + (b * m + r)
      BY <2>2, <2>3
    <3> QED BY <3>1, <2>1, <2>2, <2>3, <1>3, DivisionUnique
  <2> QED BY <2>4 DEF p, n
<1> QED BY <1>1, <1>2, <1>6 DEF m, q, h

=============================================================================
