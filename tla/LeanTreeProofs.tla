--------------------------- MODULE LeanTreeProofs ----------------------------
(***************************************************************************)
(* Lemmas about the operators of LeanTree.                                 *)
(***************************************************************************)
EXTENDS LeanTree, NaturalLemmas, SequenceTheorems, TLAPS

-----------------------------------------------------------------------------
(* BitLen is well defined. *)

BitLenDef(f) == f = [x \in Nat |-> IF x = 0 THEN 0 ELSE 1 + f[x \div 2]]

\* The functions on 0..n that satisfy the recursion of BitLen.
BitLenUpTo(n) ==
    {f \in [0..n -> Nat] :
        \A x \in 0..n : f[x] = IF x = 0 THEN 0 ELSE 1 + f[x \div 2]}

\* There is such a function for every n.
LEMMA BitLenUpToNonEmpty == \A n \in Nat : BitLenUpTo(n) # {}
<1> DEFINE S == {n \in Nat : BitLenUpTo(n) # {}}
<1>1. 0 \in S
  <2> DEFINE f == [x \in 0..0 |-> 0]
  <2>1. f \in [0..0 -> Nat]
    OBVIOUS
  <2>2. \A x \in 0..0 : f[x] = IF x = 0 THEN 0 ELSE 1 + f[x \div 2]
    OBVIOUS
  <2>3. f \in BitLenUpTo(0)
    BY <2>1, <2>2 DEF BitLenUpTo
  <2> QED BY <2>3
<1>2. ASSUME NEW n \in S PROVE n + 1 \in S
  <2>1. PICK f \in BitLenUpTo(n) : TRUE
    OBVIOUS
  <2>2. /\ f \in [0..n -> Nat]
        /\ \A x \in 0..n : f[x] = IF x = 0 THEN 0 ELSE 1 + f[x \div 2]
    BY <2>1 DEF BitLenUpTo
  <2> DEFINE g == [x \in 0..(n + 1) |-> IF x = n + 1 THEN 1 + f[x \div 2] ELSE f[x]]
  <2>3. \A x \in 1..(n + 1) : x \div 2 \in 0..n
    OBVIOUS
  <2>4. g \in [0..(n + 1) -> Nat]
    BY <2>2, <2>3
  <2>5. \A x \in 0..(n + 1) : g[x] = IF x = 0 THEN 0 ELSE 1 + g[x \div 2]
    BY <2>2, <2>3
  <2>6. g \in BitLenUpTo(n + 1)
    <3> HIDE DEF g
    <3> QED BY <2>4, <2>5 DEF BitLenUpTo
  <2> QED BY <2>6
<1>3. S = Nat
  <2> HIDE DEF S
  <2>1. S \in SUBSET Nat
    BY DEF S
  <2> QED BY <1>1, <1>2, <2>1, NatSetInduction
<1> QED BY <1>3

\* Two such functions agree where both are defined.
LEMMA BitLenUpToAgree ==
    ASSUME NEW m \in Nat, NEW f \in BitLenUpTo(m),
           NEW n \in Nat, NEW g \in BitLenUpTo(n)
    PROVE  \A x \in Nat : x <= m /\ x <= n => f[x] = g[x]
<1> DEFINE S == {x \in Nat : x <= m /\ x <= n => f[x] = g[x]}
<1>1. ASSUME NEW x \in Nat, \A y \in 0..(x - 1) : y \in S
      PROVE  x \in S
  <2>1. SUFFICES ASSUME x <= m, x <= n PROVE f[x] = g[x]
    OBVIOUS
  <2>2. f[x] = IF x = 0 THEN 0 ELSE 1 + f[x \div 2]
    BY <2>1 DEF BitLenUpTo
  <2>3. g[x] = IF x = 0 THEN 0 ELSE 1 + g[x \div 2]
    BY <2>1 DEF BitLenUpTo
  <2>4. CASE x = 0
    BY <2>2, <2>3, <2>4
  <2>5. CASE x > 0
    <3>1. x \div 2 \in 0..(x - 1)
      BY <2>5
    <3>2. x \div 2 \in S
      BY <1>1, <3>1
    <3>3. f[x \div 2] = g[x \div 2]
      BY <3>1, <3>2, <2>1
    <3> QED BY <2>2, <2>3, <3>3, <2>5
  <2> QED BY <2>4, <2>5
<1>2. S = Nat
  <2> HIDE DEF S
  <2>1. S \in SUBSET Nat
    BY DEF S
  <2> QED BY <1>1, <2>1, NatSetStrongInduction
<1> QED BY <1>2

\* BitLen is the number of halvings: the recursion has a solution.
LEMMA BitLenIsDefined == BitLenDef(BitLen) /\ BitLen \in [Nat -> Nat]
<1> DEFINE part(x) == CHOOSE f : f \in BitLenUpTo(x)
           h == [x \in Nat |-> part(x)[x]]
<1>1. \A x \in Nat : part(x) \in BitLenUpTo(x)
  BY BitLenUpToNonEmpty, Zenon
<1> HIDE DEF part
<1>2. ASSUME NEW x \in Nat
      PROVE  h[x] \in Nat /\ h[x] = IF x = 0 THEN 0 ELSE 1 + h[x \div 2]
  <2>1. /\ part(x) \in [0..x -> Nat]
        /\ part(x)[x] = IF x = 0 THEN 0 ELSE 1 + part(x)[x \div 2]
    BY <1>1 DEF BitLenUpTo
  <2>2. x \div 2 \in Nat /\ x \div 2 <= x
    OBVIOUS
  <2>3. part(x)[x \div 2] = part(x \div 2)[x \div 2]
    BY <1>1, <2>2, BitLenUpToAgree
  <2> QED BY <2>1, <2>2, <2>3
<1>3. h \in [Nat -> Nat]
  BY <1>2
<1>4. BitLenDef(h)
  BY <1>2 DEF BitLenDef
<1> HIDE DEF h
<1>5. BitLenDef(BitLen)
  BY <1>4, Zenon DEF BitLenDef, BitLen
<1>6. \A x \in Nat : BitLen[x] = h[x]
  <2> DEFINE S == {x \in Nat : BitLen[x] = h[x]}
  <2>1. ASSUME NEW x \in Nat, \A y \in 0..(x - 1) : y \in S
        PROVE  x \in S
    <3>1. BitLen[x] = IF x = 0 THEN 0 ELSE 1 + BitLen[x \div 2]
      BY <1>5, Zenon DEF BitLenDef
    <3>2. h[x] = IF x = 0 THEN 0 ELSE 1 + h[x \div 2]
      BY <1>4, Zenon DEF BitLenDef
    <3>3. x > 0 => x \div 2 \in 0..(x - 1)
      OBVIOUS
    <3> QED BY <2>1, <3>1, <3>2, <3>3
  <2>2. S = Nat
    <3> HIDE DEF S
    <3>1. S \in SUBSET Nat
      BY DEF S
    <3> QED BY <2>1, <3>1, NatSetStrongInduction
  <2> QED BY <2>2
<1>7. BitLen = [x \in Nat |-> IF x = 0 THEN 0 ELSE 1 + BitLen[x \div 2]]
  BY <1>5 DEF BitLenDef
<1>8. BitLen \in [Nat -> Nat]
  BY <1>3, <1>6, <1>7
<1> QED BY <1>5, <1>8

\* The recursion of BitLen, to be used instead of its definition.
LEMMA BitLenUnfold ==
    ASSUME NEW x \in Nat
    PROVE  /\ BitLen[x] \in Nat
           /\ x = 0 => BitLen[x] = 0
           /\ x > 0 => /\ x \div 2 \in Nat
                       /\ BitLen[x] = 1 + BitLen[x \div 2]
<1>1. BitLen[x] = IF x = 0 THEN 0 ELSE 1 + BitLen[x \div 2]
  BY BitLenIsDefined, Zenon DEF BitLenDef
<1>2. BitLen[x] \in Nat
  BY BitLenIsDefined
<1> QED BY <1>1, <1>2

\* One more leaf adds at most one level, and never removes one.
LEMMA BitLenNext ==
    \A x \in Nat : BitLen[x + 1] = BitLen[x] \/ BitLen[x + 1] = BitLen[x] + 1
<1> DEFINE S == {x \in Nat : \/ BitLen[x + 1] = BitLen[x]
                             \/ BitLen[x + 1] = BitLen[x] + 1}
<1>1. ASSUME NEW x \in Nat, \A y \in 0..(x - 1) : y \in S
      PROVE  x \in S
  <2>1. BitLen[x + 1] = 1 + BitLen[(x + 1) \div 2] /\ BitLen[x] \in Nat
    BY BitLenUnfold
  <2>2. CASE x = 0
    <3>1. (x + 1) \div 2 = 0
      BY <2>2
    <3> QED BY <2>1, <2>2, <3>1, BitLenUnfold
  <2>3. CASE x > 0
    <3>1. BitLen[x] = 1 + BitLen[x \div 2] /\ BitLen[x \div 2] \in Nat
      BY <2>3, BitLenUnfold
    <3>2. x \div 2 \in 0..(x - 1)
      BY <2>3
    <3>3. x \div 2 \in S
      BY <1>1, <3>2
    <3>4. (x + 1) \div 2 = x \div 2 \/ (x + 1) \div 2 = x \div 2 + 1
      OBVIOUS
    <3>5. BitLen[(x + 1) \div 2] = BitLen[x \div 2]
          \/ BitLen[(x + 1) \div 2] = BitLen[x \div 2] + 1
      BY <3>3, <3>4
    <3> QED BY <2>1, <3>1, <3>5
  <2> QED BY <2>2, <2>3
<1>2. S = Nat
  <2> HIDE DEF S
  <2>1. S \in SUBSET Nat
    BY DEF S
  <2> QED BY <1>1, <2>1, NatSetStrongInduction
<1> QED BY <1>2

\* A larger number has no fewer bits.
LEMMA BitLenMonotonic ==
    ASSUME NEW x \in Nat, NEW y \in Nat, x <= y
    PROVE  BitLen[x] <= BitLen[y]
<1> DEFINE S == {d \in Nat : BitLen[x] <= BitLen[x + d]}
<1>1. 0 \in S
  BY BitLenUnfold
<1>2. ASSUME NEW d \in S PROVE d + 1 \in S
  <2>1. BitLen[(x + d) + 1] = BitLen[x + d] \/ BitLen[(x + d) + 1] = BitLen[x + d] + 1
    BY BitLenNext
  <2>2. BitLen[x] \in Nat /\ BitLen[x + d] \in Nat
    BY BitLenUnfold
  <2>3. (x + d) + 1 = x + (d + 1)
    OBVIOUS
  <2> QED BY <2>1, <2>2, <2>3
<1>3. S = Nat
  <2> HIDE DEF S
  <2>1. S \in SUBSET Nat
    BY DEF S
  <2> QED BY <1>1, <1>2, <2>1, NatSetInduction
<1>4. y - x \in S
  <2>1. y - x \in Nat
    OBVIOUS
  <2> HIDE DEF S
  <2> QED BY <1>3, <2>1
<1>5. x + (y - x) = y
  OBVIOUS
<1> QED BY <1>4, <1>5

-----------------------------------------------------------------------------
(* Storing a node at the end of a level or over an old one. *)

\* Put at an index no greater than the length stores x there, lengthens the
\* sequence by one at most and leaves the other elements.
LEMMA PutProperties ==
    ASSUME NEW V, NEW s \in Seq(V), NEW i \in Nat, i <= Len(s), NEW x \in V
    PROVE  /\ Put(s, i, x) \in Seq(V)
           /\ Len(Put(s, i, x)) = IF i < Len(s) THEN Len(s) ELSE Len(s) + 1
           /\ \A j \in Nat : j < Len(Put(s, i, x)) =>
                Put(s, i, x)[j + 1] = IF j = i THEN x ELSE s[j + 1]
<1>1. CASE i < Len(s)
  BY <1>1 DEF Put, EnsureIndex
<1>2. CASE i = Len(s)
  <2> DEFINE pad == [k \in 1..(i + 1 - Len(s)) |-> Nil]
             e == s \o pad
  <2>1. /\ pad \in Seq(V \union {Nil})
        /\ Len(pad) = 1
    BY <1>2
  <2>2. s \in Seq(V \union {Nil})
    OBVIOUS
  <2>3. Put(s, i, x) = [e EXCEPT ![i + 1] = x]
    BY <1>2 DEF Put, EnsureIndex
  <2> HIDE DEF pad
  <2>4. /\ e \in Seq(V \union {Nil})
        /\ Len(e) = Len(s) + 1
        /\ \A k \in 1..Len(s) : e[k] = s[k]
    <3>1. e \in Seq(V \union {Nil}) /\ Len(e) = Len(s) + 1
      BY <2>1, <2>2, ConcatProperties
    <3>2. ASSUME NEW k \in 1..Len(s) PROVE e[k] = s[k]
      BY <2>1, <2>2, ConcatProperties
    <3> QED BY <3>1, <3>2
  <2> HIDE DEF e
  <2>5. /\ Put(s, i, x) \in Seq(V \union {Nil})
        /\ Len(Put(s, i, x)) = Len(s) + 1
        /\ Put(s, i, x)[i + 1] = x
        /\ \A k \in 1..Len(s) : Put(s, i, x)[k] = s[k]
    BY <2>3, <2>4, <1>2
  <2>6. \A k \in 1..Len(Put(s, i, x)) : Put(s, i, x)[k] \in V
    BY <2>5, <1>2
  <2>7. Put(s, i, x) \in Seq(V)
    BY <2>5, <2>6
  <2> QED BY <2>5, <2>7, <1>2
<1> QED BY <1>1, <1>2

\* p is s with the node x stored at i.
IsPut(p, s, i, x) ==
    /\ p \in Seq(Node)
    /\ Len(p) = IF i < Len(s) THEN Len(s) ELSE Len(s) + 1
    /\ \A j \in Nat : j < Len(p) => p[j + 1] = IF j = i THEN x ELSE s[j + 1]

\* The case of nodes, cited where the set V would have to be guessed.
LEMMA PutNode ==
    ASSUME NEW s \in Seq(Node), NEW i \in Nat, i <= Len(s), NEW x \in Node
    PROVE  IsPut(Put(s, i, x), s, i, x)
BY PutProperties DEF IsPut

\* The case of leaves.
LEMMA PutLeaf ==
    ASSUME NEW s \in Seq(Leaf), NEW i \in Nat, i <= Len(s), NEW x \in Leaf
    PROVE  Put(s, i, x) \in Seq(Leaf)
BY PutProperties

\* PutAt changes one level only.
LEMMA PutAtProperties ==
    ASSUME NEW V, NEW t \in Seq(Seq(V)), NEW l \in Nat, l < Len(t),
           NEW i \in Nat, i <= Len(Level(t, l)), NEW x \in V
    PROVE  /\ PutAt(t, l, i, x) \in Seq(Seq(V))
           /\ Len(PutAt(t, l, i, x)) = Len(t)
           /\ Level(PutAt(t, l, i, x), l) = Put(Level(t, l), i, x)
           /\ \A k \in Nat : k < Len(t) /\ k # l =>
                Level(PutAt(t, l, i, x), k) = Level(t, k)
<1>1. Level(t, l) \in Seq(V)
  BY DEF Level
<1>2. Put(Level(t, l), i, x) \in Seq(V)
  BY <1>1, PutProperties
<1>3. PutAt(t, l, i, x) = [t EXCEPT ![l + 1] = Put(Level(t, l), i, x)]
  BY DEF PutAt, Level
<1> QED BY <1>2, <1>3 DEF Level

\* A parent of nodes is a node.
LEMMA ParentIsNode ==
    ASSUME NEW s \in Seq(Node), NEW i \in Nat, 2 * i < Len(s)
    PROVE  Parent(s, i) \in Node
BY NodeAssumption DEF Parent

=============================================================================
