----------------------------- MODULE CodecProofs -----------------------------
(***************************************************************************)
(* Proofs about Codec, for every width and every base.                     *)
(***************************************************************************)
EXTENDS Codec, NaturalLemmas, SequenceTheorems, TLAPS

-----------------------------------------------------------------------------
(* Digits *)

\* The functions on 0..n that satisfy the recursion of Digits.
DigitsUpTo(n, b) ==
    {f \in [0..n -> Seq(0..(b - 1))] :
        \A x \in 0..n : f[x] = IF x = 0 THEN <<>> ELSE Append(f[x \div b], x % b)}

\* There is such a function for every n.
LEMMA DigitsUpToNonEmpty ==
    ASSUME NEW b \in Nat, b > 1
    PROVE  \A n \in Nat : DigitsUpTo(n, b) # {}
<1> DEFINE S == {n \in Nat : DigitsUpTo(n, b) # {}}
<1>1. 0 \in S
  <2> DEFINE f == [x \in 0..0 |-> <<>>]
  <2>1. f \in [0..0 -> Seq(0..(b - 1))]
    OBVIOUS
  <2>2. \A x \in 0..0 : f[x] = IF x = 0 THEN <<>> ELSE Append(f[x \div b], x % b)
    OBVIOUS
  <2> HIDE DEF f
  <2>3. f \in DigitsUpTo(0, b)
    BY <2>1, <2>2 DEF DigitsUpTo
  <2> QED BY <2>3
<1>2. ASSUME NEW n \in S PROVE n + 1 \in S
  <2>1. PICK f \in DigitsUpTo(n, b) : TRUE
    OBVIOUS
  <2>2. /\ f \in [0..n -> Seq(0..(b - 1))]
        /\ \A x \in 0..n : f[x] = IF x = 0 THEN <<>> ELSE Append(f[x \div b], x % b)
    BY <2>1 DEF DigitsUpTo
  <2> DEFINE last == Append(f[(n + 1) \div b], (n + 1) % b)
             g == [x \in 0..(n + 1) |-> IF x = n + 1 THEN last ELSE f[x]]
  <2>3. \A x \in 1..(n + 1) : x \div b \in 0..(x - 1) /\ x \div b \in 0..n
    <3>1. SUFFICES ASSUME NEW x \in 1..(n + 1)
                   PROVE  x \div b \in 0..(x - 1) /\ x \div b \in 0..n
      OBVIOUS
    <3>2. x \in Nat \ {0}
      OBVIOUS
    <3>3. x \div b \in 0..(x - 1)
      BY <3>2, Quotient
    <3> QED BY <3>3
  <2>4. last \in Seq(0..(b - 1))
    <3>1. (n + 1) % b \in 0..(b - 1)
      BY Division
    <3>2. (n + 1) \div b \in 0..n
      BY <2>3
    <3>3. f[(n + 1) \div b] \in Seq(0..(b - 1))
      BY <2>2, <3>2
    <3> HIDE <2>2
    <3> QED BY <3>1, <3>3, AppendProperties
  <2>5. g \in [0..(n + 1) -> Seq(0..(b - 1))]
    <3> DEFINE R == Seq(0..(b - 1))
    <3>1. f \in [0..n -> R] /\ last \in R
      BY <2>2, <2>4
    <3> HIDE DEF last, R
    <3>2. g \in [0..(n + 1) -> R]
      BY <3>1
    <3> QED BY <3>2 DEF R
  <2>6. \A x \in 0..(n + 1) : g[x] = IF x = 0 THEN <<>> ELSE Append(g[x \div b], x % b)
    <3>1. SUFFICES ASSUME NEW x \in 0..(n + 1)
                   PROVE  g[x] = IF x = 0 THEN <<>> ELSE Append(g[x \div b], x % b)
      OBVIOUS
    <3>2. CASE x = 0
      BY <3>2, <2>2
    <3>3. CASE x > 0
      <4>1. x \div b \in 0..n /\ x \div b # n + 1 /\ x \div b \in 0..(n + 1)
        <5>1. x \in 1..(n + 1)
          BY <3>3
        <5>2. x \div b \in 0..n
          BY <5>1, <2>3
        <5> QED BY <5>2
      <4>2. g[x \div b] = f[x \div b]
        BY <4>1
      <4>3. g[x] = Append(f[x \div b], x % b)
        <5>1. CASE x = n + 1
          <6>1. g[n + 1] = last
            BY DEF g
          <6> QED BY <6>1, <5>1
        <5>2. CASE x # n + 1
          <6>1. x \in 0..n
            BY <5>2
          <6>2. g[x] = f[x]
            BY <5>2
          <6>3. f[x] = IF x = 0 THEN <<>> ELSE Append(f[x \div b], x % b)
            BY <6>1, <2>2, Zenon
          <6> HIDE DEF g, last
          <6> QED BY <6>2, <6>3, <3>3
        <5> QED BY <5>1, <5>2
      <4> HIDE DEF g
      <4> QED BY <3>3, <4>2, <4>3
    <3> QED BY <3>2, <3>3
  <2>7. g \in DigitsUpTo(n + 1, b)
    <3> HIDE DEF g
    <3> QED BY <2>5, <2>6 DEF DigitsUpTo
  <2> QED BY <2>7
<1>3. S = Nat
  <2> HIDE DEF S
  <2>1. S \in SUBSET Nat
    BY DEF S
  <2> QED BY <1>1, <1>2, <2>1, NatSetInduction
<1> QED BY <1>3

\* So the recursion of Digits has a solution.
LEMMA DigitsIsDefined ==
    ASSUME NEW b \in Nat, b > 1, NEW n \in Nat
    PROVE  \E f \in DigitsUpTo(n, b) : Digits(n, b) = f[n]
<1> DEFINE Def(f) == f = [x \in 0..n |-> IF x = 0 THEN <<>> ELSE Append(f[x \div b], x % b)]
<1>1. PICK g \in DigitsUpTo(n, b) : TRUE
  BY DigitsUpToNonEmpty
<1>2. Def(g)
  BY <1>1 DEF DigitsUpTo
<1> DEFINE f == CHOOSE h : Def(h)
<1>3. Def(f)
  <2> HIDE DEF Def
  <2> QED BY <1>2, Zenon
<1>4. Digits(n, b) = f[n]
  BY DEF Digits
<1> HIDE DEF f
<1>5. \A x \in 0..n : f[x] = IF x = 0 THEN <<>> ELSE Append(f[x \div b], x % b)
  BY <1>3
<1> DEFINE S == {x \in Nat : x <= n => f[x] = g[x]}
<1>6. ASSUME NEW x \in Nat, \A y \in 0..(x - 1) : y \in S
      PROVE  x \in S
  <2>1. SUFFICES ASSUME x <= n PROVE f[x] = g[x]
    OBVIOUS
  <2>2. x \in 0..n
    BY <2>1
  <2>3. /\ f[x] = IF x = 0 THEN <<>> ELSE Append(f[x \div b], x % b)
        /\ g[x] = IF x = 0 THEN <<>> ELSE Append(g[x \div b], x % b)
    BY <1>5, <1>1, <2>2 DEF DigitsUpTo
  <2>4. CASE x = 0
    BY <2>3, <2>4
  <2>5. CASE x # 0
    <3>1. x \div b \in 0..(x - 1)
      BY <2>5, Quotient
    <3>2. x \div b \in S /\ x \div b <= n
      BY <1>6, <2>1, <3>1
    <3>3. f[x \div b] = g[x \div b]
      BY <3>2
    <3> QED BY <2>3, <2>5, <3>3
  <2> QED BY <2>4, <2>5
<1>7. S = Nat
  <2> HIDE DEF S
  <2>1. S \in SUBSET Nat
    BY DEF S
  <2> QED BY <1>6, <2>1, NatSetStrongInduction
<1>8. f[n] = g[n]
  <2>1. n \in S
    BY <1>7
  <2> QED BY <2>1
<1> QED BY <1>1, <1>4, <1>8

-----------------------------------------------------------------------------
(* The number that digits stand for *)

\* f satisfies the recursion of Number for the first k digits of s.
Counts(f, s, b, k) ==
    \A i \in 0..k : f[i] = IF i = 0 THEN 0 ELSE f[i - 1] * b + s[i]

\* Two such functions agree where the digits do.
LEMMA CountsAgree ==
    ASSUME NEW b, NEW s, NEW t, NEW f, NEW g, NEW k \in Nat,
           \A i \in 1..k : s[i] = t[i], Counts(f, s, b, k), Counts(g, t, b, k)
    PROVE  f[k] = g[k]
<1> DEFINE S == {i \in Nat : i <= k => f[i] = g[i]}
<1>1. 0 \in S
  <2>1. f[0] = 0 /\ g[0] = 0
    BY DEF Counts
  <2> QED BY <2>1
<1>2. ASSUME NEW i \in S PROVE i + 1 \in S
  <2>1. SUFFICES ASSUME i + 1 <= k PROVE f[i + 1] = g[i + 1]
    OBVIOUS
  <2>2. i + 1 \in 0..k /\ i + 1 \in 1..k /\ i + 1 # 0 /\ (i + 1) - 1 = i /\ f[i] = g[i]
    BY <2>1
  <2>3. /\ f[i + 1] = f[i] * b + s[i + 1]
        /\ g[i + 1] = g[i] * b + t[i + 1]
    BY <2>2 DEF Counts
  <2>4. s[i + 1] = t[i + 1]
    BY <2>2
  <2> QED BY <2>2, <2>3, <2>4
<1>3. S = Nat
  <2> HIDE DEF S
  <2>1. S \in SUBSET Nat
    BY DEF S
  <2> QED BY <1>1, <1>2, <2>1, NatSetInduction
<1>4. k \in S
  BY <1>3
<1> QED BY <1>4

\* There is such a function for every sequence of digits.
LEMMA CountsExists ==
    ASSUME NEW b \in Nat, NEW s \in Seq(Nat)
    PROVE  \E f \in [0..Len(s) -> Nat] : Counts(f, s, b, Len(s))
<1> DEFINE S == {k \in Nat : k <= Len(s) => \E f \in [0..k -> Nat] : Counts(f, s, b, k)}
<1>1. 0 \in S
  <2> DEFINE f == [i \in 0..0 |-> 0]
  <2>1. f \in [0..0 -> Nat] /\ Counts(f, s, b, 0)
    BY DEF Counts
  <2> QED BY <2>1
<1>2. ASSUME NEW k \in S PROVE k + 1 \in S
  <2>1. SUFFICES ASSUME k + 1 <= Len(s)
                 PROVE  \E g \in [0..(k + 1) -> Nat] : Counts(g, s, b, k + 1)
    <3>1. k + 1 \in Nat
      OBVIOUS
    <3> QED BY <3>1, Zenon
  <2>2. k \in Nat /\ k <= Len(s)
    BY <2>1
  <2>3. PICK f \in [0..k -> Nat] : Counts(f, s, b, k)
    BY <2>2
  <2>4. f[k] \in Nat /\ s[k + 1] \in Nat
    <3>1. k + 1 \in 1..Len(s)
      BY <2>1, <2>2
    <3>2. f[k] \in Nat
      BY <2>3, <2>2
    <3> QED BY <3>1, <3>2, ElementOfSeq
  <2>5. f[k] * b + s[k + 1] \in Nat
    BY <2>4
  <2> DEFINE g == [i \in 0..(k + 1) |-> IF i = k + 1 THEN f[k] * b + s[k + 1] ELSE f[i]]
  <2>6. g \in [0..(k + 1) -> Nat]
    BY <2>3, <2>5, <2>2
  <2>7. g[k + 1] = f[k] * b + s[k + 1]
    BY <2>2
  <2>8. \A i \in 0..k : g[i] = f[i]
    BY <2>2
  <2> HIDE DEF g
  <2>9. Counts(g, s, b, k + 1)
    <3>1. SUFFICES ASSUME NEW i \in 0..(k + 1)
                   PROVE  g[i] = IF i = 0 THEN 0 ELSE g[i - 1] * b + s[i]
      BY DEF Counts
    <3>2. CASE i = k + 1
      <4>1. g[k] = f[k] /\ i - 1 = k /\ i # 0
        BY <3>2, <2>2, <2>8
      <4> QED BY <4>1, <3>2, <2>7
    <3>3. CASE i = 0
      <4>1. f[0] = 0
        BY <2>3, <2>2 DEF Counts
      <4>2. 0 \in 0..k
        BY <2>2
      <4> QED BY <4>1, <4>2, <3>3, <2>8
    <3>4. CASE i \in 1..k
      <4>1. f[i] = f[i - 1] * b + s[i]
        BY <2>3, <3>4 DEF Counts
      <4>2. i \in 0..k /\ i - 1 \in 0..k /\ i # 0
        BY <3>4, <2>2
      <4>3. g[i] = f[i] /\ g[i - 1] = f[i - 1]
        BY <4>2, <2>8
      <4> QED BY <4>1, <4>2, <4>3
    <3> QED BY <3>2, <3>3, <3>4, <2>2
  <2> QED BY <2>6, <2>9
<1>3. S = Nat
  <2> HIDE DEF S
  <2>1. S \in SUBSET Nat
    BY DEF S
  <2> QED BY <1>1, <1>2, <2>1, NatSetInduction
<1>4. Len(s) \in Nat
  OBVIOUS
<1>5. Len(s) \in S
  BY <1>3, <1>4
<1> QED BY <1>4, <1>5

\* So the recursion of Number has a solution.
LEMMA NumberIsDefined ==
    ASSUME NEW b \in Nat, NEW s \in Seq(Nat), NEW f, Counts(f, s, b, Len(s))
    PROVE  Number(s, b) = f[Len(s)] /\ Number(s, b) \in Nat
<1> DEFINE Def(h) == h = [i \in 0..Len(s) |-> IF i = 0 THEN 0 ELSE h[i - 1] * b + s[i]]
           c == CHOOSE h : Def(h)
<1>1. PICK g \in [0..Len(s) -> Nat] : Counts(g, s, b, Len(s))
  BY CountsExists
<1>2. Def(g)
  BY <1>1 DEF Counts
<1>3. Def(c)
  <2> HIDE DEF Def
  <2> QED BY <1>2, Zenon
<1>4. Number(s, b) = c[Len(s)]
  BY DEF Number
<1> HIDE DEF c
<1>5. Counts(c, s, b, Len(s))
  BY <1>3 DEF Counts
<1>6. Len(s) \in Nat
  OBVIOUS
<1>7. f[Len(s)] = c[Len(s)] /\ g[Len(s)] = c[Len(s)]
  BY <1>1, <1>5, <1>6, CountsAgree
<1>8. g[Len(s)] \in Nat
  BY <1>1, <1>6
<1> QED BY <1>4, <1>7, <1>8

\* No digits are zero.
LEMMA NumberEmpty ==
    ASSUME NEW b \in Nat
    PROVE  Number(<<>>, b) = 0
<1> DEFINE f == [i \in 0..0 |-> 0]
           s == <<>>
<1>1. s \in Seq(Nat) /\ Len(s) = 0
  OBVIOUS
<1>2. Counts(f, s, b, 0) /\ f[0] = 0
  BY DEF Counts
<1> HIDE DEF f
<1>3. Number(s, b) = f[Len(s)]
  <2> HIDE DEF s
  <2> QED BY <1>1, <1>2, NumberIsDefined
<1> QED BY <1>1, <1>2, <1>3

\* One more digit.
LEMMA NumberAppend ==
    ASSUME NEW b \in Nat, NEW s \in Seq(Nat), NEW d \in Nat
    PROVE  /\ Number(s, b) \in Nat
           /\ Number(Append(s, d), b) = Number(s, b) * b + d
<1> DEFINE t == Append(s, d)
           n == Len(s)
<1>1. t \in Seq(Nat) /\ Len(t) = n + 1 /\ n \in Nat /\ t[n + 1] = d
  OBVIOUS
<1>2. \A i \in 1..n : s[i] = t[i]
  OBVIOUS
<1>3. PICK f \in [0..n -> Nat] : Counts(f, s, b, n)
  BY CountsExists
<1> HIDE DEF t
<1>4. PICK g \in [0..Len(t) -> Nat] : Counts(g, t, b, Len(t))
  BY <1>1, CountsExists
<1>5. Number(s, b) = f[n] /\ Number(s, b) \in Nat
  BY <1>3, NumberIsDefined
<1>6. Number(t, b) = g[n + 1]
  BY <1>1, <1>4, NumberIsDefined
<1> HIDE DEF n
<1>7. Counts(g, t, b, n)
  <2>1. SUFFICES ASSUME NEW i \in 0..n
                 PROVE  g[i] = IF i = 0 THEN 0 ELSE g[i - 1] * b + t[i]
    BY DEF Counts
  <2>2. i \in 0..Len(t)
    BY <1>1
  <2> QED BY <1>4, <2>2, Zenon DEF Counts
<1>8. f[n] = g[n]
  <2>1. n \in Nat
    BY <1>1
  <2> QED BY <1>2, <1>3, <1>7, <2>1, CountsAgree, SMTT(30)
<1>9. g[n + 1] = g[n] * b + t[n + 1]
  <2>1. n + 1 \in 0..Len(t) /\ n + 1 # 0 /\ (n + 1) - 1 = n
    BY <1>1
  <2> QED BY <1>4, <2>1 DEF Counts
<1> QED BY <1>1, <1>5, <1>6, <1>8, <1>9 DEF t

-----------------------------------------------------------------------------
(* What is written is read back *)

\* The digits of a number stand for it.
LEMMA DigitsInverse ==
    ASSUME NEW b \in Nat, b > 1, NEW n \in Nat
    PROVE  /\ Digits(n, b) \in Seq(0..(b - 1))
           /\ Number(Digits(n, b), b) = n
<1>1. PICK f \in DigitsUpTo(n, b) : Digits(n, b) = f[n]
  BY DigitsIsDefined
<1>2. /\ f \in [0..n -> Seq(0..(b - 1))]
      /\ \A x \in 0..n : f[x] = IF x = 0 THEN <<>> ELSE Append(f[x \div b], x % b)
  BY DEF DigitsUpTo
<1> DEFINE S == {x \in Nat : x <= n => Number(f[x], b) = x}
<1>3. ASSUME NEW x \in Nat, \A y \in 0..(x - 1) : y \in S
      PROVE  x \in S
  <2>1. SUFFICES ASSUME x <= n PROVE Number(f[x], b) = x
    OBVIOUS
  <2>2. x \in 0..n
    BY <2>1
  <2>3. f[x] = IF x = 0 THEN <<>> ELSE Append(f[x \div b], x % b)
    BY <1>2, <2>2, Zenon
  <2>4. CASE x = 0
    <3>1. f[x] = <<>>
      BY <2>3, <2>4
    <3> QED BY <2>4, <3>1, NumberEmpty
  <2>5. CASE x # 0
    <3> DEFINE q == x \div b
               r == x % b
    <3>1. q \in 0..(x - 1)
      BY <2>5, Quotient
    <3>2. r \in 0..(b - 1) /\ r \in Nat /\ x = q * b + r
      BY Division
    <3>3. f[x] = Append(f[q], r)
      BY <2>3, <2>5
    <3> HIDE DEF q, r
    <3>4. q \in S /\ q \in 0..n
      BY <1>3, <2>1, <3>1
    <3>5. Number(f[q], b) = q
      BY <3>4
    <3>6. f[q] \in Seq(Nat)
      <4>1. f[q] \in Seq(0..(b - 1))
        BY <1>2, <3>4
      <4>2. 0..(b - 1) \subseteq Nat
        OBVIOUS
      <4> QED BY <4>1, <4>2
    <3>7. Number(Append(f[q], r), b) = Number(f[q], b) * b + r
      BY <3>2, <3>6, NumberAppend
    <3> QED BY <3>2, <3>3, <3>5, <3>7
  <2> QED BY <2>4, <2>5
<1>4. S = Nat
  <2> HIDE DEF S
  <2>1. S \in SUBSET Nat
    BY DEF S
  <2> QED BY <1>3, <2>1, NatSetStrongInduction
<1>5. n \in S /\ n \in 0..n
  BY <1>4
<1>6. Number(f[n], b) = n
  BY <1>5
<1>7. f[n] \in Seq(0..(b - 1))
  BY <1>2, <1>5
<1> QED BY <1>1, <1>6, <1>7

\* A zero digit stands for zero.
LEMMA NumberZero ==
    ASSUME NEW b \in Nat
    PROVE  Number(<<0>>, b) = 0
<1>1. <<>> \in Seq(Nat) /\ Append(<<>>, 0) = <<0>>
  OBVIOUS
<1>2. Number(Append(<<>>, 0), b) = Number(<<>>, b) * b + 0
  BY <1>1, NumberAppend
<1> QED BY <1>1, <1>2, NumberEmpty

\* A leaf comes back from its bytes.
LEMMA BytesInverse ==
    ASSUME NEW n \in Nat
    PROVE  /\ BigIntEncoder(n) \in Seq(0..(ByteBase - 1))
           /\ BigIntDecoder(BigIntEncoder(n)) = n
<1>1. ByteBase \in Nat /\ ByteBase > 1
  BY CodecAssumption
<1>2. CASE n = 0
  <2>1. BigIntEncoder(n) = <<0>>
    BY <1>2 DEF BigIntEncoder
  <2>2. <<0>> \in Seq(0..(ByteBase - 1))
    BY <1>1
  <2> QED BY <1>1, <1>2, <2>1, <2>2, NumberZero DEF BigIntDecoder
<1>3. CASE n # 0
  <2>1. BigIntEncoder(n) = Digits(n, ByteBase)
    BY <1>3 DEF BigIntEncoder
  <2> QED BY <1>1, <2>1, DigitsInverse DEF BigIntDecoder
<1> QED BY <1>2, <1>3

\* Any bytes are a number.
LEMMA BytesTyped ==
    ASSUME NEW data \in Seq(0..(ByteBase - 1))
    PROVE  BigIntDecoder(data) \in Nat
<1>1. ByteBase \in Nat
  BY CodecAssumption
<1>2. 0..(ByteBase - 1) \subseteq Nat
  BY <1>1
<1>3. data \in Seq(Nat)
  <2> DEFINE R == 0..(ByteBase - 1)
  <2>1. data \in Seq(R) /\ R \subseteq Nat
    BY <1>2
  <2> HIDE DEF R
  <2>2. Len(data) \in Nat /\ data = [i \in 1..Len(data) |-> data[i]]
    BY <2>1
  <2>3. \A i \in 1..Len(data) : data[i] \in Nat
    BY <2>1, ElementOfSeq
  <2> QED BY <2>2, <2>3
<1>4. \E f \in [0..Len(data) -> Nat] : Counts(f, data, ByteBase, Len(data))
  BY <1>1, <1>3, CountsExists
<1> QED BY <1>1, <1>3, <1>4, NumberIsDefined DEF BigIntDecoder

\* An int comes back from its digits.
LEMMA IntInverse ==
    ASSUME NEW n \in 0..(IntLimit - 1)
    PROVE  /\ EncodeInt(n) \in Seq(Digit)
           /\ DecodeInt(EncodeInt(n)) = n
<1>1. n \in Nat /\ IntLimit \in Nat /\ n < IntLimit
  BY CodecAssumption
<1>2. EncodeInt(n) \in Seq(Digit) /\ Number(EncodeInt(n), 10) = n
  <2>1. CASE n = 0
    <3>1. EncodeInt(n) = <<0>>
      BY <2>1 DEF EncodeInt
    <3>2. Number(<<0>>, 10) = 0
      BY NumberZero
    <3>3. <<0>> \in Seq(Digit)
      BY DEF Digit
    <3> QED BY <2>1, <3>1, <3>2, <3>3
  <2>2. CASE n # 0
    <3>1. EncodeInt(n) = Digits(n, 10)
      BY <2>2 DEF EncodeInt
    <3>2. Digits(n, 10) \in Seq(0..(10 - 1)) /\ Number(Digits(n, 10), 10) = n
      <4> DEFINE b == 10
      <4>1. b \in Nat /\ b > 1
        OBVIOUS
      <4> HIDE DEF b
      <4>2. Digits(n, b) \in Seq(0..(b - 1)) /\ Number(Digits(n, b), b) = n
        BY <1>1, <4>1, DigitsInverse
      <4> QED BY <4>2 DEF b
    <3>3. 10 - 1 = 9
      OBVIOUS
    <3> QED BY <3>1, <3>2, <3>3 DEF Digit
  <2> QED BY <2>1, <2>2
<1>3. (n + IntLimit) % (2 * IntLimit) = n + IntLimit
  BY <1>1
<1> QED BY <1>1, <1>2, <1>3 DEF DecodeInt

-----------------------------------------------------------------------------
(* The invariant *)

Packed == Pack(origin.address, origin.weight)

\* A float64 has never stood between the leaf and what it was.
Exact == mapped => Packed < FloatLimit

\* Where the leaf is, what form it and the size have there.
CodecIInv ==
    /\ CodecTypeOK
    /\ at = "panicked" <=> at # "caller" /\ ~FitsLeaf(origin.address, origin.weight)
    /\ at # "disk" => size = origin.size
    /\ at = "disk" => size = EncodeInt(origin.size)
    /\ at = "caller" => ~mapped
    /\ at = "panicked" => ~mapped
    /\ at \in {"tree", "json"} /\ Exact => leaf = Packed
    /\ at = "disk" /\ Exact => leaf = BigIntEncoder(Packed)
    /\ at = "failed" => ~Exact

\* What an origin is made of.
LEMMA OriginTyped ==
    ASSUME CodecTypeOK
    PROVE  /\ origin.address \in Nat /\ origin.weight \in Nat
           /\ origin.size \in 0..(IntLimit - 1)
           /\ Packed \in Nat
<1>1. origin \in [address : Nat, weight : Nat, size : 0..(IntLimit - 1)]
  BY CodecAssumption DEF CodecTypeOK
<1>2. origin.address \in Nat /\ origin.weight \in Nat /\ origin.size \in 0..(IntLimit - 1)
  BY <1>1
<1>3. WeightLimit \in Nat
  BY CodecAssumption
<1>4. origin.address * WeightLimit \in Nat
  BY <1>2, <1>3, TimesNext
<1> QED BY <1>2, <1>4 DEF Packed, Pack

\* The caller's entry is nowhere yet.
LEMMA CodecInitial == Init => CodecIInv
<1> SUFFICES ASSUME Init PROVE CodecIInv
  OBVIOUS
<1>1. origin.size \in 0..(IntLimit - 1)
  <2>1. origin \in [address : Nat, weight : Nat, size : 0..(IntLimit - 1)]
    BY CodecAssumption DEF Init
  <2> QED BY <2>1
<1> QED BY <1>1 DEF Init, CodecIInv, CodecTypeOK

\* Add packs what fits.
LEMMA AddPreserves == CodecIInv /\ Add => CodecIInv'
<1> SUFFICES ASSUME CodecIInv, Add PROVE CodecIInv'
  OBVIOUS
<1>1. CodecTypeOK /\ at = "caller" /\ origin' = origin /\ size' = size /\ mapped' = mapped
  BY DEF CodecIInv, Add, Move
<1>2. Packed \in Nat
  BY <1>1, OriginTyped
<1>3. size = origin.size /\ ~mapped
  BY <1>1 DEF CodecIInv
<1>4. CASE FitsLeaf(origin.address, origin.weight)
  <2>1. at' = "tree" /\ leaf' = Packed
    BY <1>4 DEF Add, Move, Packed
  <2> QED BY <1>1, <1>2, <1>3, <1>4, <2>1
          DEF CodecIInv, CodecTypeOK, Exact, Packed, FitsLeaf
<1>5. CASE ~FitsLeaf(origin.address, origin.weight)
  <2>1. at' = "panicked" /\ leaf' = leaf
    BY <1>5 DEF Add, Move
  <2> QED BY <1>1, <1>3, <1>5, <2>1 DEF CodecIInv, CodecTypeOK, Exact, Packed, FitsLeaf
<1> QED BY <1>4, <1>5

\* Sync writes bytes and digits.
LEMMA SyncPreserves == CodecIInv /\ Sync => CodecIInv'
<1> SUFFICES ASSUME CodecIInv, Sync PROVE CodecIInv'
  OBVIOUS
<1>1. /\ CodecTypeOK /\ at = "tree" /\ at' = "disk" /\ origin' = origin /\ mapped' = mapped
      /\ leaf' = BigIntEncoder(leaf) /\ size' = EncodeInt(size)
  BY DEF CodecIInv, Sync, Move
<1>2. leaf \in Nat /\ size = origin.size /\ size \in 0..(IntLimit - 1)
  BY <1>1 DEF CodecIInv, CodecTypeOK
<1>3. leaf' \in Seq(0..(ByteBase - 1)) /\ size' \in Seq(Digit)
  BY <1>1, <1>2, BytesInverse, IntInverse
<1>4. FitsLeaf(origin.address, origin.weight) /\ (Exact => leaf = Packed)
  BY <1>1 DEF CodecIInv
<1>5. Packed' = Packed /\ (Exact' <=> Exact)
  BY <1>1 DEF Packed, Exact
<1>6. CodecTypeOK'
  BY <1>1, <1>3 DEF CodecTypeOK
<1> HIDE DEF Packed
<1> QED BY <1>1, <1>2, <1>4, <1>5, <1>6 DEF CodecIInv, FitsLeaf

\* Load reads them back.
LEMMA LoadPreserves == CodecIInv /\ Load => CodecIInv'
<1> SUFFICES ASSUME CodecIInv, Load PROVE CodecIInv'
  OBVIOUS
<1>1. /\ CodecTypeOK /\ at = "disk" /\ at' = "tree" /\ origin' = origin /\ mapped' = mapped
      /\ leaf' = BigIntDecoder(leaf) /\ size' = DecodeInt(size)
  BY DEF CodecIInv, Load, Move
<1>2. leaf \in Seq(0..(ByteBase - 1)) /\ size = EncodeInt(origin.size)
  BY <1>1 DEF CodecIInv, CodecTypeOK
<1>3. origin.size \in 0..(IntLimit - 1) /\ Packed \in Nat
  BY <1>1, OriginTyped
<1>4. leaf' \in Nat /\ size' = origin.size
  BY <1>1, <1>2, <1>3, BytesTyped, IntInverse
<1>5. FitsLeaf(origin.address, origin.weight) /\ (Exact => leaf = BigIntEncoder(Packed))
  BY <1>1 DEF CodecIInv
<1>6. Exact => leaf' = Packed
  BY <1>1, <1>3, <1>5, BytesInverse
<1>7. Packed' = Packed /\ (Exact' <=> Exact)
  BY <1>1 DEF Packed, Exact
<1>8. CodecTypeOK'
  BY <1>1, <1>3, <1>4 DEF CodecTypeOK
<1> QED BY <1>1, <1>4, <1>5, <1>6, <1>7, <1>8 DEF CodecIInv, FitsLeaf

\* JSON holds the number, and Import without mapFn reads it.
LEMMA ExportImportPreserve == CodecIInv /\ (Export \/ Import) => CodecIInv'
<1> SUFFICES ASSUME CodecIInv, Export \/ Import PROVE CodecIInv'
  OBVIOUS
<1>1. /\ at \in {"tree", "json"} /\ at' \in {"tree", "json"} /\ origin' = origin
      /\ leaf' = leaf /\ size' = size /\ mapped' = mapped
  BY DEF Export, Import, Move
<1>2. Packed' = Packed /\ (Exact' <=> Exact)
  BY <1>1 DEF Packed, Exact
<1>3. CodecTypeOK'
  BY <1>1 DEF CodecIInv, CodecTypeOK
<1>4. /\ FitsLeaf(origin.address, origin.weight) /\ size = origin.size
      /\ Exact => leaf = Packed
  BY <1>1 DEF CodecIInv
<1> QED BY <1>1, <1>2, <1>3, <1>4 DEF CodecIInv, FitsLeaf

\* With mapFn, a leaf that a float64 holds comes back too.
LEMMA ImportMappedPreserves == CodecIInv /\ ImportMapped => CodecIInv'
<1> SUFFICES ASSUME CodecIInv, ImportMapped PROVE CodecIInv'
  OBVIOUS
<1>1. /\ CodecTypeOK /\ at = "json" /\ origin' = origin /\ size' = size /\ mapped' = TRUE
      /\ \/ at' = "tree" /\ leaf' \in Reprinted(leaf)
         \/ at' = "failed" /\ Reprinted(leaf) = {} /\ leaf' = leaf
  BY DEF CodecIInv, ImportMapped, Move
<1>2. /\ FitsLeaf(origin.address, origin.weight) /\ size = origin.size
      /\ Exact => leaf = Packed
      /\ leaf \in Nat /\ size \in 0..(IntLimit - 1)
  BY <1>1 DEF CodecIInv, CodecTypeOK
<1>3. Packed' = Packed /\ (Exact' <=> Packed < FloatLimit) /\ (Exact' => Exact)
  BY <1>1 DEF Packed, Exact
<1>4. Exact' => leaf = Packed /\ Reprinted(leaf) = {leaf}
  BY <1>2, <1>3 DEF Reprinted
<1>5. leaf' \in Nat
  <2>1. Reprinted(leaf) \subseteq Nat
    BY <1>2 DEF Reprinted
  <2> QED BY <1>1, <1>2, <2>1
<1>6. CodecTypeOK'
  BY <1>1, <1>2, <1>5 DEF CodecTypeOK
<1>7. at' = "failed" => ~Exact'
  BY <1>1, <1>4
<1>8. at' = "tree" /\ Exact' => leaf' = Packed'
  BY <1>1, <1>3, <1>4
<1> QED BY <1>1, <1>2, <1>3, <1>6, <1>7, <1>8 DEF CodecIInv, FitsLeaf

\* The invariant holds in every reachable state.
LEMMA CodecInvariant == Spec => []CodecIInv
<1>1. CodecIInv /\ [Next]_vars => CodecIInv'
  <2> SUFFICES ASSUME CodecIInv, [Next]_vars PROVE CodecIInv'
    OBVIOUS
  <2>1. CASE UNCHANGED vars
    BY <2>1 DEF vars, CodecIInv, CodecTypeOK, Exact, Packed
  <2>2. CASE Next
    BY <2>2, AddPreserves, SyncPreserves, LoadPreserves, ExportImportPreserve,
       ImportMappedPreserves DEF Next
  <2> QED BY <2>1, <2>2
<1> QED BY CodecInitial, <1>1, PTL DEF Spec

-----------------------------------------------------------------------------
(* Theorems *)

\* Leaf and size always have the type of the place they are in.
THEOREM CodecTypeCorrect == Spec => []CodecTypeOK
<1>1. CodecIInv => CodecTypeOK
  BY DEF CodecIInv
<1> QED BY <1>1, CodecInvariant, PTL

\* Whatever the widths and the base: no path over disk and JSON changes a leaf, unless a
\* float64 on it could not hold the leaf.
THEOREM LeavesAreKept == Spec => []LeavesSurvive
<1>1. CodecIInv => LeavesSurvive
  BY DEF CodecIInv, LeavesSurvive, Exact, Packed
<1> QED BY <1>1, CodecInvariant, PTL

\* Every int comes back from the digits that it is written with.
THEOREM SizesAreKept == Spec => []SizesSurvive
<1>1. CodecIInv => SizesSurvive
  BY DEF CodecIInv, SizesSurvive
<1> QED BY <1>1, CodecInvariant, PTL

\* Whatever the widths that fit the field: PackAddressWeight and the circuit pack the same
\* entries to the same leaves, and no two entries to one.
THEOREM PackingsAgree == Spec => []PackingAgrees
<1>1. ASSUME CodecIInv PROVE PackingAgrees
  <2> DEFINE a == origin.address
             w == origin.weight
  <2>1. a \in Nat /\ w \in Nat
    BY <1>1, OriginTyped DEF CodecIInv
  <2>2. /\ WeightLimit \in Nat /\ WeightLimit > 0 /\ AddressLimit \in Nat
        /\ FieldSize \in Nat /\ AddressLimit * WeightLimit <= FieldSize
    BY CodecAssumption
  <2> HIDE DEF a, w
  <2>3. CASE at = "panicked"
    <3>1. ~FitsLeaf(a, w)
      BY <1>1, <2>3 DEF CodecIInv, a, w
    <3>2. ~ \E value \in 0..(FieldSize - 1) : PackLeaf(a, w, value)
      BY <3>1 DEF PackLeaf, FitsLeaf
    <3> QED BY <2>3, <3>2 DEF PackingAgrees, a, w
  <2>4. CASE at = "tree" /\ ~mapped
    <3>1. a < AddressLimit /\ w < WeightLimit /\ leaf = a * WeightLimit + w
      BY <1>1, <2>4 DEF CodecIInv, FitsLeaf, Exact, Packed, Pack, a, w
    <3>2. a * WeightLimit \in Nat /\ leaf \in Nat
      BY <2>1, <2>2, <3>1, TimesNext
    <3>3. UnpackAddressWeight(leaf) = <<a, w>>
      <4>1. /\ leaf \div WeightLimit \in Nat /\ leaf % WeightLimit \in 0..(WeightLimit - 1)
            /\ leaf = (leaf \div WeightLimit) * WeightLimit + (leaf % WeightLimit)
        BY <2>2, <3>2, Division
      <4>2. w \in 0..(WeightLimit - 1)
        BY <2>1, <2>2, <3>1
      <4>3. leaf \div WeightLimit = a /\ leaf % WeightLimit = w
        <5> DEFINE q == leaf \div WeightLimit
                   r == leaf % WeightLimit
        <5>1. q \in Nat /\ r \in 0..(WeightLimit - 1) /\ leaf = q * WeightLimit + r
          BY <4>1
        <5> HIDE DEF q, r
        <5>2. q * WeightLimit + r = a * WeightLimit + w
          BY <5>1, <3>1
        <5>3. q = a /\ r = w
          BY <2>1, <2>2, <4>2, <5>1, <5>2, DivisionUnique
        <5> QED BY <5>3 DEF q, r
      <4> QED BY <4>3 DEF UnpackAddressWeight
    <3>4. ASSUME NEW x \in 0..(FieldSize - 1), NEW y \in 0..(FieldSize - 1)
          PROVE  PackLeaf(x, y, leaf) <=> <<x, y>> = <<a, w>>
      <4>1. x \in Nat /\ y \in Nat
        OBVIOUS
      <4>2. ASSUME NEW p \in Nat, NEW q \in Nat, p < AddressLimit, q < WeightLimit
            PROVE  /\ p * WeightLimit \in Nat
                   /\ (p * WeightLimit + q) % FieldSize = p * WeightLimit + q
        <5>1. p + 1 \in Nat /\ p + 1 <= AddressLimit
          BY <4>2, <2>2
        <5>2. (p + 1) * WeightLimit <= AddressLimit * WeightLimit
          BY <5>1, <2>2, TimesMonotonic
        <5>3. p * WeightLimit \in Nat /\ (p + 1) * WeightLimit = p * WeightLimit + WeightLimit
          BY <2>2, TimesNext
        <5>4. AddressLimit * WeightLimit \in Nat
          BY <2>2, TimesNext
        <5> DEFINE n == p * WeightLimit + q
        <5>5. n \in Nat /\ n < FieldSize
          BY <4>2, <5>2, <5>3, <5>4, <2>2
        <5> HIDE DEF n
        <5>6. n % FieldSize = n
          BY <5>5, <2>2
        <5> QED BY <5>3, <5>6 DEF n
      <4>3. ASSUME PackLeaf(x, y, leaf) PROVE <<x, y>> = <<a, w>>
        <5>1. x < AddressLimit /\ y < WeightLimit /\ leaf = (x * WeightLimit + y) % FieldSize
          BY <4>3 DEF PackLeaf
        <5>2. x * WeightLimit + y = a * WeightLimit + w
          BY <5>1, <4>1, <4>2, <3>1
        <5>3. y \in 0..(WeightLimit - 1) /\ w \in 0..(WeightLimit - 1)
          BY <2>1, <2>2, <3>1, <4>1, <5>1
        <5>4. x = a /\ y = w
          BY <2>1, <2>2, <4>1, <5>2, <5>3, DivisionUnique
        <5> QED BY <5>4
      <4>4. ASSUME <<x, y>> = <<a, w>> PROVE PackLeaf(x, y, leaf)
        <5>1. x = a /\ y = w
          BY <4>4
        <5>2. (x * WeightLimit + y) % FieldSize = x * WeightLimit + y
          BY <5>1, <2>1, <3>1, <4>2
        <5> QED BY <5>1, <5>2, <3>1 DEF PackLeaf
      <4> QED BY <4>3, <4>4
    <3> QED BY <2>4, <3>3, <3>4 DEF PackingAgrees, a, w
  <2>5. CASE at # "panicked" /\ ~(at = "tree" /\ ~mapped)
    BY <2>5 DEF PackingAgrees
  <2> QED BY <2>3, <2>4, <2>5
<1> QED BY <1>1, CodecInvariant, PTL

-----------------------------------------------------------------------------
(* PairsToldApart *)

\* The first digit of a number is not zero.
LEMMA FirstDigit ==
    ASSUME NEW b \in Nat, b > 1, NEW n \in Nat \ {0}
    PROVE  Len(Digits(n, b)) > 0 /\ Digits(n, b)[1] # 0
<1>1. PICK f \in DigitsUpTo(n, b) : Digits(n, b) = f[n]
  BY DigitsIsDefined
<1>2. /\ f \in [0..n -> Seq(0..(b - 1))]
      /\ \A x \in 0..n : f[x] = IF x = 0 THEN <<>> ELSE Append(f[x \div b], x % b)
  BY DEF DigitsUpTo
<1> DEFINE S == {x \in Nat : x # 0 /\ x <= n => Len(f[x]) > 0 /\ f[x][1] # 0}
<1>3. ASSUME NEW x \in Nat, \A y \in 0..(x - 1) : y \in S
      PROVE  x \in S
  <2>1. SUFFICES ASSUME x # 0, x <= n PROVE Len(f[x]) > 0 /\ f[x][1] # 0
    OBVIOUS
  <2> DEFINE q == x \div b
             r == x % b
  <2>2. q \in 0..(x - 1) /\ q \in 0..n /\ 0 \in 0..n
    <3>1. q \in 0..(x - 1)
      BY <2>1, Quotient
    <3> QED BY <2>1, <3>1
  <2>3. r \in 0..(b - 1) /\ x = q * b + r
    BY Division
  <2>4. f[x] = Append(f[q], r)
    <3>1. x \in 0..n
      BY <2>1
    <3>2. f[x] = IF x = 0 THEN <<>> ELSE Append(f[x \div b], x % b)
      BY <1>2, <3>1, Zenon
    <3> QED BY <2>1, <3>2
  <2> HIDE DEF q, r
  <2>5. f[q] \in Seq(0..(b - 1))
    BY <1>2, <2>2
  <2>6. CASE q = 0
    <3>1. f[q] = <<>>
      BY <1>2, <2>2, <2>6
    <3>2. r # 0
      BY <2>1, <2>3, <2>6
    <3>3. f[x] = <<r>>
      BY <2>4, <3>1
    <3> QED BY <3>2, <3>3
  <2>7. CASE q # 0
    <3>1. q \in S /\ q \in Nat /\ q <= n
      BY <1>3, <2>2
    <3>2. Len(f[q]) > 0 /\ f[q][1] # 0
      BY <2>7, <3>1
    <3>3. Len(f[x]) = Len(f[q]) + 1 /\ f[x][1] = f[q][1]
      <4> HIDE <1>2
      <4> DEFINE s == f[q]
      <4>1. s \in Seq(0..(b - 1)) /\ Len(s) > 0 /\ f[x] = Append(s, r)
        BY <2>4, <2>5, <3>2
      <4> HIDE DEF s
      <4>2. Len(Append(s, r)) = Len(s) + 1 /\ Append(s, r)[1] = s[1]
        BY <4>1, <2>3
      <4> QED BY <4>1, <4>2 DEF s
    <3>4. Len(f[q]) \in Nat
      BY <2>5
    <3> QED BY <3>2, <3>3, <3>4
  <2> QED BY <2>6, <2>7
<1>4. S = Nat
  <2> HIDE DEF S
  <2>1. S \in SUBSET Nat
    BY DEF S
  <2> QED BY <1>3, <2>1, NatSetStrongInduction
<1>5. n \in S /\ n # 0 /\ n <= n
  BY <1>4
<1> QED BY <1>1, <1>5

\* Digits that are filled up with zeros on the left.
Padded(digits, width) ==
    [i \in 1..width |-> IF i <= width - Len(digits) THEN 0 ELSE digits[i - (width - Len(digits))]]

\* The more of them there are the fewer zeros come before.
LEMMA PaddedShorter ==
    ASSUME NEW width \in Nat, NEW s \in Seq(Nat), NEW t \in Seq(Nat),
           Len(s) <= width, s # <<>> => s[1] # 0, Padded(s, width) = Padded(t, width)
    PROVE  Len(s) <= Len(t)
<1> SUFFICES ASSUME Len(t) < Len(s) PROVE FALSE
  OBVIOUS
<1> DEFINE i == width - Len(s) + 1
<1>1. Len(s) \in Nat /\ Len(t) \in Nat
  OBVIOUS
<1>2. /\ i \in 1..width /\ ~(i <= width - Len(s)) /\ i - (width - Len(s)) = 1
      /\ i <= width - Len(t)
  BY <1>1
<1> HIDE DEF i
<1>3. Padded(s, width)[i] = s[1]
  BY <1>2 DEF Padded
<1>4. Padded(t, width)[i] = 0
  BY <1>2 DEF Padded
<1>5. s # <<>>
  BY <1>1
<1> QED BY <1>3, <1>4, <1>5

\* So digits that do not begin with a zero can be told from what they are filled up to.
LEMMA PaddedApart ==
    ASSUME NEW width \in Nat, NEW s \in Seq(Nat), NEW t \in Seq(Nat),
           Len(s) <= width, s # <<>> => s[1] # 0,
           Len(t) <= width, t # <<>> => t[1] # 0,
           Padded(s, width) = Padded(t, width)
    PROVE  s = t
<1>1. Len(s) \in Nat /\ Len(t) \in Nat
  OBVIOUS
<1>2. Len(s) <= Len(t) /\ Len(t) <= Len(s)
  BY PaddedShorter
<1>3. Len(s) = Len(t)
  BY <1>1, <1>2
<1>4. ASSUME NEW k \in 1..Len(s) PROVE s[k] = t[k]
  <2> DEFINE i == k + (width - Len(s))
  <2>1. i \in 1..width /\ ~(i <= width - Len(s)) /\ i - (width - Len(s)) = k
    BY <1>1
  <2> HIDE DEF i
  <2>2. Padded(s, width)[i] = s[k]
    BY <2>1 DEF Padded
  <2>3. Padded(t, width)[i] = t[k]
    BY <1>3, <2>1 DEF Padded
  <2> QED BY <2>2, <2>3
<1> QED BY <1>3, <1>4, SeqEqual

\* Sequences in a row can be told from others with the same lengths.
LEMMA ConcatApart ==
    ASSUME NEW S, NEW s \in Seq(S), NEW t \in Seq(S), NEW u \in Seq(S), NEW v \in Seq(S),
           Len(s) = Len(u), s \o t = u \o v
    PROVE  s = u /\ t = v
<1>1. /\ Len(s) \in Nat /\ Len(t) \in Nat /\ Len(v) \in Nat
      /\ Len(s) + Len(t) = Len(u) + Len(v)
  <2>1. Len(s) \in Nat /\ Len(t) \in Nat /\ Len(v) \in Nat
    BY LenProperties
  <2>2. Len(s \o t) = Len(s) + Len(t)
    BY ConcatProperties
  <2>3. Len(u \o v) = Len(u) + Len(v)
    BY ConcatProperties
  <2> QED BY <2>1, <2>2, <2>3
<1>2. Len(t) = Len(v)
  BY <1>1
<1>3. ASSUME NEW i \in 1..Len(s) PROVE s[i] = u[i]
  <2>1. i \in 1..(Len(s) + Len(t)) /\ i <= Len(s)
    BY <1>1
  <2>2. (s \o t)[i] = s[i] /\ (u \o v)[i] = u[i]
    BY <1>1, <2>1, ConcatProperties
  <2> QED BY <2>2
<1>4. ASSUME NEW i \in 1..Len(t) PROVE t[i] = v[i]
  <2> DEFINE k == Len(s) + i
  <2>1. k \in 1..(Len(s) + Len(t)) /\ ~(k <= Len(s)) /\ k - Len(s) = i
    BY <1>1
  <2> HIDE DEF k
  <2>2. (s \o t)[k] = t[i]
    BY <1>1, <2>1, ConcatProperties
  <2>3. (u \o v)[k] = v[i]
    BY <1>1, <2>1, ConcatProperties
  <2> QED BY <2>2, <2>3
<1>5. s = u
  BY <1>3, SeqEqual
<1>6. t = v
  BY <1>2, <1>4, SeqEqual
<1> QED BY <1>5, <1>6

\* A number is its digits.
LEMMA DigitsApart ==
    ASSUME NEW m \in Nat, NEW n \in Nat, Digits(m, ByteBase) = Digits(n, ByteBase)
    PROVE  m = n
BY CodecAssumption, DigitsInverse

\* The bytes of a number are bytes, and numbers.
LEMMA DigitsAreNumbers ==
    ASSUME NEW n \in Nat
    PROVE  Digits(n, ByteBase) \in Seq(0..(ByteBase - 1)) /\ Digits(n, ByteBase) \in Seq(Nat)
<1>1. ByteBase \in Nat /\ ByteBase > 1
  BY CodecAssumption
<1>2. Digits(n, ByteBase) \in Seq(0..(ByteBase - 1))
  BY <1>1, DigitsInverse
<1>3. 0..(ByteBase - 1) \subseteq Nat
  BY <1>1
<1> QED BY <1>2, <1>3, SeqMonotonic

\* FillBytes gives each element of the field bytes of its own.
LEMMA FillBytesApart ==
    ASSUME NEW m \in 0..(FieldSize - 1), NEW n \in 0..(FieldSize - 1)
    PROVE  /\ FillBytes(m) \in Seq(Nat) /\ Len(FillBytes(m)) = HashWidth
           /\ FillBytes(m) = FillBytes(n) => m = n
<1>1. FieldSize \in Nat /\ HashWidth \in Nat /\ ByteBase \in Nat /\ ByteBase > 1
  BY CodecAssumption
<1>2. ASSUME NEW x \in 0..(FieldSize - 1)
      PROVE  /\ x \in Nat /\ FillBytes(x) = Padded(Digits(x, ByteBase), HashWidth)
             /\ Digits(x, ByteBase) \in Seq(Nat) /\ Len(Digits(x, ByteBase)) <= HashWidth
             /\ Digits(x, ByteBase) # <<>> => Digits(x, ByteBase)[1] # 0
  <2>1. x \in Nat /\ x % FieldSize = x
    BY <1>1
  <2>2. FillBytes(x) = Padded(Digits(x, ByteBase), HashWidth)
    BY <2>1 DEF FillBytes, Padded
  <2>3. Len(Digits(x, ByteBase)) <= HashWidth
    BY WidthAssumption
  <2>4. CASE x = 0
    <3>1. Digits(0, ByteBase) = <<>>
      <4>1. PICK f \in DigitsUpTo(0, ByteBase) : Digits(0, ByteBase) = f[0]
        BY <1>1, DigitsIsDefined
      <4> QED BY <4>1 DEF DigitsUpTo
    <3> QED BY <2>1, <2>2, <2>3, <2>4, <3>1, DigitsAreNumbers
  <2>5. CASE x # 0
    BY <1>1, <2>1, <2>2, <2>3, <2>5, FirstDigit, DigitsAreNumbers
  <2> QED BY <2>4, <2>5
<1>3. FillBytes(m) \in Seq(Nat) /\ Len(FillBytes(m)) = HashWidth
  <2> DEFINE s == Digits(m, ByteBase)
  <2>1. s \in Seq(Nat) /\ Len(s) \in Nat /\ Len(s) <= HashWidth
    BY <1>2
  <2>2. FillBytes(m) = Padded(s, HashWidth)
    BY <1>2
  <2> HIDE DEF s
  <2>3. ASSUME NEW i \in 1..HashWidth PROVE Padded(s, HashWidth)[i] \in Nat
    <3>1. CASE i <= HashWidth - Len(s)
      BY <3>1 DEF Padded
    <3>2. CASE ~(i <= HashWidth - Len(s))
      <4> DEFINE k == i - (HashWidth - Len(s))
      <4>1. k \in 1..Len(s)
        BY <1>1, <2>1, <3>2
      <4>2. Padded(s, HashWidth)[i] = s[k]
        BY <3>2 DEF Padded
      <4> HIDE DEF k
      <4> QED BY <2>1, <4>1, <4>2, ElementOfSeq
    <3> QED BY <3>1, <3>2
  <2>4. Padded(s, HashWidth) \in [1..HashWidth -> Nat]
    <3>1. Padded(s, HashWidth) = [i \in 1..HashWidth |-> Padded(s, HashWidth)[i]]
      BY DEF Padded
    <3> QED BY <2>3, <3>1
  <2> QED BY <1>1, <2>2, <2>4
<1>4. ASSUME FillBytes(m) = FillBytes(n) PROVE m = n
  <2>1. Digits(m, ByteBase) = Digits(n, ByteBase)
    <3>1. Padded(Digits(m, ByteBase), HashWidth) = Padded(Digits(n, ByteBase), HashWidth)
      BY <1>2, <1>4
    <3> QED BY <1>1, <1>2, <3>1, PaddedApart
  <2> QED BY <1>2, <2>1, DigitsApart
<1> QED BY <1>3, <1>4

\* What fits a leaf packs to an element of the field.
LEMMA PackedInField ==
    ASSUME NEW a \in Nat, NEW w \in Nat, FitsLeaf(a, w)
    PROVE  Pack(a, w) \in 0..(FieldSize - 1)
<1>1. /\ WeightLimit \in Nat /\ AddressLimit \in Nat
      /\ FieldSize \in Nat /\ AddressLimit * WeightLimit <= FieldSize
      /\ a < AddressLimit /\ w < WeightLimit
  BY CodecAssumption DEF FitsLeaf
<1>2. a + 1 \in Nat /\ a + 1 <= AddressLimit
  BY <1>1
<1>3. (a + 1) * WeightLimit <= AddressLimit * WeightLimit
  BY <1>1, <1>2, TimesMonotonic
<1>4. a * WeightLimit \in Nat /\ (a + 1) * WeightLimit = a * WeightLimit + WeightLimit
  BY <1>1, TimesNext
<1>5. AddressLimit * WeightLimit \in Nat
  BY <1>1, TimesNext
<1> DEFINE n == a * WeightLimit + w
<1>6. n \in Nat /\ n < FieldSize
  BY <1>1, <1>3, <1>4, <1>5
<1> HIDE DEF n
<1>7. n \in 0..(FieldSize - 1)
  BY <1>1, <1>6
<1> QED BY <1>7 DEF n, Pack

\* For any widths: a hasher that fills its bytes never reads another pair of children from
\* the bytes of a leaf and its sibling, and one that does not only where the lengths differ.
THEOREM NoOtherPair == Spec => []PairsToldApart
<1>1. ASSUME CodecIInv PROVE PairsToldApart
  <2> SUFFICES ASSUME at = "tree", ~mapped,
                      NEW right \in Child, NEW c \in Child, NEW d \in Child,
                      \/ Filled(leaf, right) = Filled(c, d)
                      \/ /\ Concatenated(leaf, right) = Concatenated(c, d)
                         /\ Len(Digits(leaf, ByteBase)) = Len(Digits(c, ByteBase))
               PROVE  <<c, d>> = <<leaf, right>>
    BY DEF PairsToldApart
  <2>1. leaf \in 0..(FieldSize - 1)
    <3>1. origin.address \in Nat /\ origin.weight \in Nat
      BY <1>1, OriginTyped DEF CodecIInv
    <3>2. leaf = Pack(origin.address, origin.weight) /\ FitsLeaf(origin.address, origin.weight)
      BY <1>1 DEF CodecIInv, Exact, Packed
    <3> QED BY <3>1, <3>2, PackedInField
  <2>2. right \in 0..(FieldSize - 1) /\ c \in 0..(FieldSize - 1) /\ d \in 0..(FieldSize - 1)
    BY CodecAssumption
  <2>3. leaf \in Nat /\ right \in Nat /\ c \in Nat /\ d \in Nat
    BY <2>1, <2>2
  <2>4. CASE Filled(leaf, right) = Filled(c, d)
    <3>1. FillBytes(leaf) \o FillBytes(right) = FillBytes(c) \o FillBytes(d)
      BY <2>4 DEF Filled
    <3>2. FillBytes(leaf) = FillBytes(c) /\ FillBytes(right) = FillBytes(d)
      <4>1. /\ FillBytes(leaf) \in Seq(Nat) /\ FillBytes(right) \in Seq(Nat)
            /\ FillBytes(c) \in Seq(Nat) /\ FillBytes(d) \in Seq(Nat)
            /\ Len(FillBytes(leaf)) = Len(FillBytes(c))
        BY <2>1, <2>2, FillBytesApart
      <4> QED BY <3>1, <4>1, ConcatApart
    <3>3. leaf = c /\ right = d
      BY <2>1, <2>2, <3>2, FillBytesApart
    <3> QED BY <3>3
  <2>5. CASE /\ Concatenated(leaf, right) = Concatenated(c, d)
             /\ Len(Digits(leaf, ByteBase)) = Len(Digits(c, ByteBase))
    <3>1. Digits(leaf, ByteBase) \o Digits(right, ByteBase)
          = Digits(c, ByteBase) \o Digits(d, ByteBase)
      BY <2>5 DEF Concatenated
    <3>2. /\ Digits(leaf, ByteBase) \in Seq(Nat) /\ Digits(right, ByteBase) \in Seq(Nat)
          /\ Digits(c, ByteBase) \in Seq(Nat) /\ Digits(d, ByteBase) \in Seq(Nat)
      BY <2>3, DigitsAreNumbers
    <3>3. /\ Digits(leaf, ByteBase) = Digits(c, ByteBase)
          /\ Digits(right, ByteBase) = Digits(d, ByteBase)
      BY <2>5, <3>1, <3>2, ConcatApart
    <3>4. leaf = c /\ right = d
      BY <2>3, <3>3, DigitsApart
    <3> QED BY <3>4
  <2> QED BY <2>4, <2>5
<1> QED BY <1>1, CodecInvariant, PTL

=============================================================================
