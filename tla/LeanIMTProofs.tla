---------------------------- MODULE LeanIMTProofs ----------------------------
(***************************************************************************)
(* The proof that IInv is an invariant of LeanIMT, and what follows from   *)
(* it for every set of leaves, every hash function and every bound.        *)
(***************************************************************************)
EXTENDS LeanIMTInd, LeanTreeProofs

-----------------------------------------------------------------------------
(* Mending one level.  low, s and up are three levels, one above the       *)
(* other, of which s gets a node stored.                                   *)

\* What the parents in up of s become when s[i] changes or is added: only
\* the one above i is touched.
LEMMA PutKeepsRight ==
    ASSUME NEW s \in Seq(Node), NEW up \in Seq(Node),
           NEW i \in Nat, i <= Len(s), NEW v \in Node,
           NEW j \in Nat, j # i \div 2, 2 * j < Len(s),
           Right(s, up, j)
    PROVE  Right(Put(s, i, v), up, j)
<1> DEFINE p == Put(s, i, v)
<1>1. IsPut(p, s, i, v)
  BY PutNode
<1> HIDE DEF p
<1>2. 2 * j # i /\ 2 * j + 1 # i
  OBVIOUS
<1>3. p[2 * j + 1] = s[2 * j + 1]
  BY <1>1, <1>2 DEF IsPut
<1>4. CASE 2 * j + 1 < Len(s)
  <2>1. p[(2 * j + 1) + 1] = s[(2 * j + 1) + 1]
    BY <1>1, <1>2, <1>4 DEF IsPut
  <2>2. p[2 * j + 2] = s[2 * j + 2] /\ 2 * j + 1 < Len(p)
    BY <2>1, <1>4, <1>1 DEF IsPut
  <2> QED BY <1>3, <2>2, <1>4 DEF Right, Parent, p
<1>5. CASE ~(2 * j + 1 < Len(s))
  <2>1. ~(2 * j + 1 < Len(p))
    BY <1>1, <1>2, <1>5 DEF IsPut
  <2> QED BY <1>3, <2>1, <1>5 DEF Right, Parent, p
<1> QED BY <1>4, <1>5

\* Storing a right node leaves the other nodes of the level as right as
\* they were.
LEMMA PutRight ==
    ASSUME NEW low \in Seq(Node), NEW s \in Seq(Node),
           NEW i \in Nat, i <= Len(s), NEW v \in Node, v = Parent(low, i)
    PROVE  /\ Right(low, Put(s, i, v), i)
           /\ \A j \in Nat : j < Len(s) /\ Right(low, s, j)
                               => Right(low, Put(s, i, v), j)
<1> DEFINE p == Put(s, i, v)
<1>1. IsPut(p, s, i, v)
  BY PutNode
<1> HIDE DEF p
<1>2. p[i + 1] = v
  BY <1>1 DEF IsPut
<1>3. ASSUME NEW j \in Nat, j < Len(s), Right(low, s, j)
      PROVE  Right(low, p, j)
  <2>1. p[j + 1] = IF j = i THEN v ELSE s[j + 1]
    BY <1>1, <1>3 DEF IsPut
  <2> QED BY <2>1, <1>3 DEF Right
<1>4. Right(low, p, i)
  BY <1>2 DEF Right
<1> QED BY <1>3, <1>4 DEF p

\* How long a level is after a store.
LEMMA PutLength ==
    ASSUME NEW s \in Seq(Node), NEW i \in Nat, i <= Len(s), NEW x \in Node
    PROVE  Len(Put(s, i, x)) = IF i < Len(s) THEN Len(s) ELSE Len(s) + 1
BY PutNode DEF IsPut

\* Insert: the last node of a level is stored, the level is full.
LEMMA InsertMends ==
    ASSUME NEW low \in Seq(Node), NEW s \in Seq(Node), NEW i \in Nat,
           NEW v \in Node, v = Parent(low, i),
           Len(low) \in {2 * i + 1, 2 * i + 2},
           RightUpToOver(low, s, i), Len(s) <= i + 1
    PROVE  FullOver(low, Put(s, i, v)) /\ Len(Put(s, i, v)) = i + 1
<1>1. i <= Len(s)
  BY DEF RightUpToOver
<1>2. Len(Put(s, i, v)) = i + 1
  BY <1>1, PutLength
<1>3. \A j \in 0..(i - 1) : Right(low, Put(s, i, v), j)
  BY <1>1, PutRight DEF RightUpToOver
<1>4. Right(low, Put(s, i, v), i)
  BY <1>1, PutRight
<1> QED BY <1>2, <1>3, <1>4 DEF FullOver

\* Insert: the level above is right up to the parent of the new node.
LEMMA InsertLeavesUp ==
    ASSUME NEW s \in Seq(Node), NEW up \in Seq(Node), NEW i \in Nat,
           NEW v \in Node, Len(s) \in {i, i + 1}, UntouchedOver(s, up)
    PROVE  /\ RightUpToOver(Put(s, i, v), up, i \div 2)
           /\ Len(up) <= i \div 2 + 1
<1>1. Len(up) >= i \div 2 /\ Len(up) <= i \div 2 + 1
  BY DEF UntouchedOver
<1>2. ASSUME NEW j \in 0..(i \div 2 - 1)
      PROVE  Right(Put(s, i, v), up, j)
  <2>1. Right(s, up, j)
    BY <1>1 DEF UntouchedOver
  <2>2. j # i \div 2 /\ 2 * j < Len(s) /\ i <= Len(s)
    OBVIOUS
  <2> QED BY <2>1, <2>2, PutKeepsRight
<1> QED BY <1>1, <1>2 DEF RightUpToOver

\* Update: the node that was wrong is stored, the level is full.
LEMMA UpdateMends ==
    ASSUME NEW low \in Seq(Node), NEW s \in Seq(Node), NEW i \in Nat,
           i < Len(s), NEW v \in Node, v = Parent(low, i),
           NEW S, RightExceptOver(low, s, S)
    PROVE  RightExceptOver(low, Put(s, i, v), S \ {i})
<1>1. Len(Put(s, i, v)) = Len(s)
  BY PutLength
<1>2. ASSUME NEW j \in 0..(Len(s) - 1), j \notin S \ {i}
      PROVE  Right(low, Put(s, i, v), j)
  <2>1. CASE j = i
    BY <2>1, PutRight
  <2>2. CASE j # i
    BY <1>2, <2>2, PutRight DEF RightExceptOver
  <2> QED BY <2>1, <2>2
<1> QED BY <1>1, <1>2 DEF RightExceptOver

\* Update: above, the parent of the node that was stored may now be wrong.
LEMMA UpdateSoilsUp ==
    ASSUME NEW s \in Seq(Node), NEW up \in Seq(Node), NEW i \in Nat,
           i < Len(s), NEW v \in Node,
           NEW S, RightExceptOver(s, up, S)
    PROVE  RightExceptOver(Put(s, i, v), up, S \union {i \div 2})
<1>1. Len(Put(s, i, v)) = Len(s)
  BY PutLength
<1>2. ASSUME NEW j \in 0..(Len(up) - 1), j \notin S \union {i \div 2}
      PROVE  Right(Put(s, i, v), up, j)
  <2>1. Right(s, up, j)
    BY <1>2 DEF RightExceptOver
  <2>2. 2 * j < Len(s)
    BY DEF RightExceptOver
  <2> QED BY <1>2, <2>1, <2>2, PutKeepsRight
<1> QED BY <1>1, <1>2 DEF RightExceptOver

\* Full means right everywhere, and implies right everywhere but in S.
LEMMA FullIsRightExcept ==
    ASSUME NEW low, NEW up
    PROVE  /\ FullOver(low, up) <=> RightExceptOver(low, up, {})
           /\ \A S : FullOver(low, up) => RightExceptOver(low, up, S)
BY DEF FullOver, RightExceptOver

\* InsertMany: one more parent of the level is there.
LEMMA InsertManyMends ==
    ASSUME NEW low \in Seq(Node), NEW s \in Seq(Node), NEW i \in Nat,
           NEW v \in Node, v = Parent(low, i),
           RightUpToOver(low, s, i),
           i < (Len(low) + 1) \div 2, Len(s) <= (Len(low) + 1) \div 2
    PROVE  /\ RightUpToOver(low, Put(s, i, v), i + 1)
           /\ Len(Put(s, i, v)) <= (Len(low) + 1) \div 2
           /\ Len(Put(s, i, v)) >= Len(s)
<1>1. i <= Len(s)
  BY DEF RightUpToOver
<1>2. \A j \in 0..(i - 1) : Right(low, Put(s, i, v), j)
  BY <1>1, PutRight DEF RightUpToOver
<1>3. Right(low, Put(s, i, v), i)
  BY <1>1, PutRight
<1>4. Len(Put(s, i, v)) = IF i < Len(s) THEN Len(s) ELSE Len(s) + 1
  BY <1>1, PutLength
<1> QED BY <1>1, <1>2, <1>3, <1>4 DEF RightUpToOver

\* InsertMany: above, what lies left of the first new parent stands.
LEMMA InsertManyKeepsUp ==
    ASSUME NEW s \in Seq(Node), NEW up \in Seq(Node), NEW i \in Nat,
           i <= Len(s), NEW v \in Node, NEW m \in Nat, m <= i,
           RightUpToOver(s, up, m \div 2)
    PROVE  RightUpToOver(Put(s, i, v), up, m \div 2)
<1>1. ASSUME NEW j \in 0..(m \div 2 - 1)
      PROVE  Right(Put(s, i, v), up, j)
  <2>1. Right(s, up, j)
    BY DEF RightUpToOver
  <2>2. j # i \div 2 /\ 2 * j < Len(s)
    OBVIOUS
  <2> QED BY <2>1, <2>2, PutKeepsRight
<1> QED BY <1>1 DEF RightUpToOver

-----------------------------------------------------------------------------
(* The levels of a tree. *)

Typed(t) == t \in Seq(Seq(Node)) /\ Len(t) >= 1

\* The levels of a typed tree are sequences of nodes.
LEMMA LevelTyped ==
    ASSUME NEW t, Typed(t), NEW l \in Nat, l <= Depth(t)
    PROVE  /\ Depth(t) \in Nat
           /\ Level(t, l) \in Seq(Node)
           /\ LenAt(t, l) \in Nat
           /\ LenAt(t, l) = Len(Level(t, l))
BY DEF Typed, Depth, Level, LenAt

\* t2 is t with level l replaced by s.
Replaced(t2, t, l, s) ==
    /\ Typed(t2)
    /\ Depth(t2) = Depth(t)
    /\ Level(t2, l) = s
    /\ \A k \in Nat : k <= Depth(t) /\ k # l => Level(t2, k) = Level(t, k)

\* PutAt replaces one level and leaves the others.
LEMMA PutAtReplaces ==
    ASSUME NEW t, Typed(t), NEW l \in Nat, l <= Depth(t),
           NEW i \in Nat, i <= LenAt(t, l), NEW v \in Node
    PROVE  Replaced(PutAt(t, l, i, v), t, l, Put(Level(t, l), i, v))
<1>1. t \in Seq(Seq(Node)) /\ l < Len(t) /\ i <= Len(Level(t, l))
  BY DEF Typed, Depth, LenAt
<1>2. /\ PutAt(t, l, i, v) \in Seq(Seq(Node))
      /\ Len(PutAt(t, l, i, v)) = Len(t)
      /\ Level(PutAt(t, l, i, v), l) = Put(Level(t, l), i, v)
      /\ \A k \in Nat : k < Len(t) /\ k # l =>
           Level(PutAt(t, l, i, v), k) = Level(t, k)
  BY <1>1, PutAtProperties
<1> QED BY <1>2 DEF Replaced, Typed, Depth

\* t2 is t with m empty levels on top.
Grown(t2, t, m) ==
    /\ Typed(t2)
    /\ Depth(t2) = Depth(t) + m
    /\ \A k \in Nat : k <= Depth(t2) =>
         Level(t2, k) = IF k <= Depth(t) THEN Level(t, k) ELSE <<>>

\* Insert's append adds one empty level on top.
LEMMA AppendGrows ==
    ASSUME NEW t, Typed(t)
    PROVE  Grown(Append(t, <<>>), t, 1) /\ Grown(t, t, 0)
<1>1. Append(t, <<>>) \in Seq(Seq(Node)) /\ <<>> \in Seq(Node)
  BY DEF Typed
<1>2. /\ Len(Append(t, <<>>)) = Len(t) + 1
      /\ \A k \in 1..Len(t) : Append(t, <<>>)[k] = t[k]
      /\ Append(t, <<>>)[Len(t) + 1] = <<>>
  BY DEF Typed
<1>3. Len(t) \in Nat
  BY DEF Typed
<1>4. Grown(Append(t, <<>>), t, 1)
  BY <1>1, <1>2, <1>3 DEF Grown, Typed, Depth, Level
<1>5. Grown(t, t, 0)
  BY <1>3 DEF Grown, Typed, Depth
<1> QED BY <1>4, <1>5

\* Whatever levels are added to a settled tree, each level has all parents
\* of two nodes of the level below.
LEMMA GrownIsUntouched ==
    ASSUME NEW t, Typed(t), Settled(t), NEW m \in Nat, NEW t2, Grown(t2, t, m)
    PROVE  \A k \in 1..Depth(t2) : Untouched(t2, k)
<1> SUFFICES ASSUME NEW k \in 1..Depth(t2) PROVE Untouched(t2, k)
  OBVIOUS
<1>1. Depth(t) \in Nat /\ Depth(t2) \in Nat
  BY DEF Typed, Depth, Grown
<1>2. Level(t2, k - 1) \in Seq(Node) /\ Level(t2, k) \in Seq(Node)
  BY <1>1, LevelTyped DEF Grown
<1>3. CASE k <= Depth(t)
  <2>1. Level(t2, k) = Level(t, k) /\ Level(t2, k - 1) = Level(t, k - 1)
    BY <1>1, <1>3 DEF Grown
  <2>2. FullOver(Level(t2, k - 1), Level(t2, k))
    BY <2>1, <1>1, <1>3 DEF Settled, Full
  <2> QED BY <2>2, <1>2 DEF FullOver, Untouched, UntouchedOver
<1>4. CASE k > Depth(t)
  <2>1. Level(t2, k) = <<>>
    BY <1>1, <1>4 DEF Grown
  <2>2. Len(Level(t2, k - 1)) <= 1
    <3>1. CASE k - 1 <= Depth(t)
      <4>1. k - 1 = Depth(t)
        BY <3>1, <1>4, <1>1
      <4> QED BY <4>1, <1>1 DEF Grown, Settled, LenAt
    <3>2. CASE k - 1 > Depth(t)
      <4>1. Level(t2, k - 1) = <<>>
        BY <3>2, <1>1 DEF Grown
      <4> QED BY <4>1
    <3> QED BY <3>1, <3>2, <1>1
  <2> QED BY <2>1, <2>2, <1>2 DEF Untouched, UntouchedOver
<1> QED BY <1>3, <1>4, <1>1

\* The depth of a tree with one leaf more.
LEMMA CeilLog2Next ==
    ASSUME NEW n \in Nat
    PROVE  /\ CeilLog2(n) \in Nat
           /\ CeilLog2(n + 1) = BitLen[n]
           /\ CeilLog2(n + 1) \in {CeilLog2(n), CeilLog2(n) + 1}
<1>1. CASE n = 0
  BY <1>1, BitLenUnfold DEF CeilLog2
<1>2. CASE n = 1
  <2>1. BitLen[0] = 0 /\ BitLen[1] = 1 + BitLen[1 \div 2] /\ 1 \div 2 = 0
    BY BitLenUnfold
  <2> QED BY <1>2, <2>1 DEF CeilLog2
<1>3. CASE n > 1
  <2>1. n - 1 \in Nat /\ (n - 1) + 1 = n
    BY <1>3
  <2>2. BitLen[n] = BitLen[n - 1] \/ BitLen[n] = BitLen[n - 1] + 1
    BY <2>1, BitLenNext
  <2>3. BitLen[n - 1] \in Nat
    BY <2>1, BitLenUnfold
  <2> QED BY <1>3, <2>2, <2>3 DEF CeilLog2
<1> QED BY <1>1, <1>2, <1>3

-----------------------------------------------------------------------------
(* Insert *)

\* The grown tree in which Insert stores its leaf.
GrownFor(t, n) == IF Depth(t) < CeilLog2(n) THEN Append(t, <<>>) ELSE t

\* Insert, once the leaf is stored: the loop starts at the new leaf.
LEMMA InsertStarts ==
    ASSUME NEW t, Shaped(t), Settled(t), NEW leaf \in Leaf,
           Size(t) < MaxSize, MaxSize \in Nat,
           NEW t2, t2 = PutAt(GrownFor(t, Size(t) + 1), 0, Size(t), leaf)
    PROVE  Shaped(t2) /\ Inserting(t2, 0, Size(t), leaf)
<1> DEFINE g == GrownFor(t, Size(t) + 1)
           i == Size(t)
<1>1. /\ Typed(t)
      /\ i = LenAt(t, 0)
      /\ Depth(t) = CeilLog2(i)
      /\ Level(t, 0) \in Seq(Leaf)
  BY DEF Shaped, Typed, Size, LenAt, Level
<1>2. i \in Nat /\ Depth(t) \in Nat
  BY <1>1, LevelTyped DEF Typed, Depth
<1>3. PICK m \in {0, 1} : Grown(g, t, m) /\ Depth(g) = BitLen[i]
  <2>1. /\ CeilLog2(i + 1) = BitLen[i]
        /\ CeilLog2(i + 1) \in {CeilLog2(i), CeilLog2(i) + 1}
    BY <1>2, CeilLog2Next
  <2>2. CASE Depth(t) < CeilLog2(i + 1)
    <3>1. g = Append(t, <<>>) /\ Grown(Append(t, <<>>), t, 1)
      BY <2>2, <1>1, AppendGrows DEF GrownFor
    <3>2. Depth(g) = Depth(t) + 1
      BY <3>1 DEF Grown
    <3>3. Depth(g) = BitLen[i]
      BY <3>2, <2>1, <2>2, <1>1, <1>2
    <3> QED BY <3>1, <3>3
  <2>3. CASE ~(Depth(t) < CeilLog2(i + 1))
    <3>1. g = t /\ Grown(t, t, 0)
      BY <2>3, <1>1, AppendGrows DEF GrownFor
    <3>2. Depth(g) = BitLen[i]
      BY <3>1, <2>1, <2>3, <1>1, <1>2
    <3> QED BY <3>1, <3>2
  <2> QED BY <2>2, <2>3
<1> HIDE DEF g
<1>4. /\ Typed(g)
      /\ Depth(g) \in Nat
      /\ Level(g, 0) = Level(t, 0)
      /\ LenAt(g, 0) = i
  BY <1>1, <1>2, <1>3 DEF Grown, Typed, Depth, LenAt
<1>5. \A k \in 1..Depth(g) : Untouched(g, k)
  BY <1>1, <1>3, GrownIsUntouched
<1>6. leaf \in Node
  BY NodeAssumption
<1>7. Replaced(t2, g, 0, Put(Level(t, 0), i, leaf))
  BY <1>2, <1>4, <1>6, PutAtReplaces DEF g
<1>8. /\ Put(Level(t, 0), i, leaf) \in Seq(Leaf)
      /\ Len(Put(Level(t, 0), i, leaf)) = i + 1
      /\ Put(Level(t, 0), i, leaf)[i + 1] = leaf
  <2>1. i = Len(Level(t, 0))
    BY <1>1 DEF LenAt
  <2>2. Put(Level(t, 0), i, leaf) \in Seq(Leaf)
    BY <1>1, <1>2, <2>1, PutLeaf
  <2>3. Level(t, 0) \in Seq(Node)
    BY <1>1, <1>2, LevelTyped
  <2>4. IsPut(Put(Level(t, 0), i, leaf), Level(t, 0), i, leaf)
    BY <1>2, <1>6, <2>1, <2>3, PutNode
  <2> QED BY <1>2, <2>1, <2>2, <2>4 DEF IsPut
<1>9. Shaped(t2)
  <2>1. Size(t2) = i + 1 /\ Level(t2, 0) \in Seq(Leaf)
    BY <1>7, <1>8 DEF Replaced, Size, Level
  <2>2. Depth(t2) = CeilLog2(Size(t2))
    BY <2>1, <1>2, <1>3, <1>7, CeilLog2Next DEF Replaced
  <2> QED BY <2>1, <2>2, <1>2, <1>7 DEF Shaped, Replaced, Typed
<1>10. \A k \in 2..Depth(t2) : Untouched(t2, k)
  <2> SUFFICES ASSUME NEW k \in 2..Depth(t2) PROVE Untouched(t2, k)
    OBVIOUS
  <2>1. Level(t2, k) = Level(g, k) /\ Level(t2, k - 1) = Level(g, k - 1)
    BY <1>4, <1>7 DEF Replaced
  <2>2. k \in 1..Depth(g)
    BY <1>4, <1>7 DEF Replaced
  <2> QED BY <2>1, <2>2, <1>5 DEF Untouched
<1>11. Depth(t2) > 0 => RightUpTo(t2, 1, i \div 2) /\ LenAt(t2, 1) <= i \div 2 + 1
  <2> SUFFICES ASSUME Depth(t2) > 0
               PROVE  RightUpTo(t2, 1, i \div 2) /\ LenAt(t2, 1) <= i \div 2 + 1
    OBVIOUS
  <2>1. Depth(g) >= 1
    BY <1>4, <1>7 DEF Replaced
  <2>2. UntouchedOver(Level(t, 0), Level(g, 1))
    BY <2>1, <1>4, <1>5 DEF Untouched
  <2>3. Level(t, 0) \in Seq(Node) /\ Level(g, 1) \in Seq(Node)
    BY <2>1, <1>4, LevelTyped
  <2>4. Level(t2, 1) = Level(g, 1) /\ Level(t2, 0) = Put(Level(t, 0), i, leaf)
    BY <2>1, <1>4, <1>7 DEF Replaced
  <2>5. Len(Level(t, 0)) = i
    BY <1>1 DEF LenAt
  <2>6. RightUpToOver(Put(Level(t, 0), i, leaf), Level(g, 1), i \div 2)
        /\ Len(Level(g, 1)) <= i \div 2 + 1
    BY <2>2, <2>3, <2>5, <1>2, <1>6, InsertLeavesUp
  <2> QED BY <2>4, <2>6 DEF RightUpTo, LenAt
<1>12. /\ BitLen[i] = Depth(t2) - 0
       /\ 0 <= Depth(t2)
       /\ LenAt(t2, 0) = i + 1
       /\ leaf = At(t2, 0, i)
  BY <1>3, <1>4, <1>7, <1>8 DEF Replaced, LenAt, At, Level
<1>13. \A k \in 1..(0 - 1) : Full(t2, k)
  OBVIOUS
<1>14. 0 + 2 = 2
  OBVIOUS
<1> QED BY <1>6, <1>9, <1>10, <1>11, <1>12, <1>13, <1>14 DEF Inserting

\* A tree of the same depth and the same leaves has a good shape too.
LEMMA SameLeaves ==
    ASSUME NEW t, Shaped(t), NEW t2, Typed(t2), Depth(t2) = Depth(t),
           Level(t2, 0) = Level(t, 0)
    PROVE  Shaped(t2)
BY DEF Shaped, Typed, Size, Level

\* What the shape of a tree says of its levels and its size.
LEMMA ShapedIsTyped ==
    ASSUME NEW t, Shaped(t)
    PROVE  Typed(t) /\ Depth(t) \in Nat /\ Size(t) = LenAt(t, 0)
BY DEF Shaped, Typed, Depth, Size, LenAt, Level

\* One iteration of Insert's loop: level l is mended and the loop goes on at
\* the parent of the node that was stored.
LEMMA InsertSteps ==
    ASSUME NEW t, Shaped(t), NEW l \in Nat, NEW i \in Nat, NEW v,
           Inserting(t, l, i, v), l < Depth(t),
           NEW t2, t2 = IF l > 0 THEN PutAt(t, l, i, v) ELSE t,
           NEW v2, v2 = IF i % 2 = 1 THEN Hash(At(t, l, i - 1), v) ELSE v
    PROVE  Shaped(t2) /\ Inserting(t2, l + 1, i \div 2, v2)
<1> DEFINE D == Depth(t)
           s == Level(t, l)
           p == Level(t2, l)
<1>1. Typed(t) /\ D \in Nat
  BY ShapedIsTyped
<1>2. s \in Seq(Node) /\ v \in Node /\ Level(t, l + 1) \in Seq(Node)
  BY <1>1, LevelTyped DEF Inserting
\* Level l once v is stored in it.
<1>3. /\ Typed(t2) /\ Depth(t2) = D
      /\ \A k \in Nat : k <= D /\ k # l => Level(t2, k) = Level(t, k)
      /\ p \in Seq(Node) /\ Len(p) = i + 1 /\ p[i + 1] = v
      /\ i > 0 => p[i] = s[i]
      /\ l > 0 => p = Put(s, i, v)
  <2>1. CASE l = 0
    <3>1. t2 = t /\ p = s
      BY <2>1
    <3>2. Len(s) = i + 1 /\ v = s[i + 1]
      BY <2>1 DEF Inserting, LenAt, At, Level
    <3> QED BY <3>1, <3>2, <2>1, <1>1, <1>2
  <2>2. CASE l > 0
    <3>1. i <= Len(s) /\ Len(s) <= i + 1
      BY <2>2 DEF Inserting, RightUpTo, RightUpToOver, LenAt
    <3>2. Replaced(t2, t, l, Put(s, i, v))
      BY <2>2, <3>1, <1>1, <1>2, PutAtReplaces DEF LenAt
    <3>3. IsPut(p, s, i, v)
      BY <3>1, <3>2, <1>2, PutNode DEF Replaced
    <3>4. p[i + 1] = v /\ Len(p) = i + 1
      BY <3>1, <3>3, <1>2 DEF IsPut
    <3>5. i > 0 => p[(i - 1) + 1] = s[(i - 1) + 1]
      BY <3>4, <3>3 DEF IsPut
    <3> QED BY <2>2, <3>2, <3>3, <3>4, <3>5 DEF Replaced, IsPut
  <2> QED BY <2>1, <2>2
<1> HIDE DEF p
<1>4. v2 = Parent(p, i \div 2)
  <2>1. CASE i % 2 = 1
    <3>1. i > 0 /\ 2 * (i \div 2) + 1 = i /\ 2 * (i \div 2) + 2 = i + 1
      BY <2>1
    <3>2. At(t, l, i - 1) = s[i]
      BY <3>1 DEF At, Level
    <3>3. 2 * (i \div 2) + 1 < Len(p)
      BY <3>1, <1>3
    <3>4. Parent(p, i \div 2) = Hash(p[2 * (i \div 2) + 1], p[2 * (i \div 2) + 2])
      BY <3>3 DEF Parent
    <3> QED BY <2>1, <3>1, <3>2, <3>4, <1>3
  <2>2. CASE i % 2 = 0
    <3>1. 2 * (i \div 2) + 1 = i + 1
      BY <2>2
    <3> QED BY <2>2, <3>1, <1>3 DEF Parent
  <2> QED BY <2>1, <2>2
<1>5. v2 \in Node
  BY <1>3, <1>4, ParentIsNode
<1>6. BitLen[i \div 2] = D - (l + 1)
  <2>1. BitLen[i] = D - l /\ BitLen[i] > 0
    BY <1>1 DEF Inserting
  <2> QED BY <2>1, <1>1, BitLenUnfold
<1>7. \A k \in 1..l : Full(t2, k)
  <2> SUFFICES ASSUME NEW k \in 1..l PROVE Full(t2, k)
    OBVIOUS
  <2> /\ k - 1 \in Nat /\ k - 1 <= D /\ k - 1 # l
      /\ k \in Nat /\ k <= D
    BY <1>1
  <2>1. Level(t2, k - 1) = Level(t, k - 1)
    BY <1>3
  <2>2. CASE k = l
    <3>1. Level(t, l - 1) \in Seq(Node)
      BY <2>2, <1>1, LevelTyped
    <3>2. FullOver(Level(t, l - 1), Put(s, i, v))
      BY <2>2, <3>1, <1>2, InsertMends DEF Inserting, RightUpTo, LenAt
    <3> QED BY <2>1, <2>2, <3>2, <1>3 DEF Full, p
  <2>3. CASE k < l
    <3>1. Full(t, k)
      BY <2>3 DEF Inserting
    <3> QED BY <2>1, <2>3, <3>1, <1>3 DEF Full
  <2> QED BY <2>2, <2>3
<1>8. RightUpTo(t2, l + 1, i \div 2) /\ LenAt(t2, l + 1) <= i \div 2 + 1
  <2>1. Level(t2, l + 1) = Level(t, l + 1)
    BY <1>1, <1>3
  <2>2. CASE l = 0
    BY <2>2, <1>1 DEF Inserting
  <2>3. CASE l > 0
    <3>1. Len(s) \in {i, i + 1}
      BY <2>3, <1>2 DEF Inserting, RightUpTo, RightUpToOver, LenAt
    <3>2. UntouchedOver(s, Level(t, l + 1))
      BY <2>3, <1>1 DEF Inserting, Untouched
    <3>3. RightUpToOver(Put(s, i, v), Level(t, l + 1), i \div 2)
          /\ Len(Level(t, l + 1)) <= i \div 2 + 1
      BY <3>1, <3>2, <1>2, InsertLeavesUp
    <3>4. Level(t2, (l + 1) - 1) = Put(s, i, v)
      BY <2>3, <1>3 DEF p
    <3> QED BY <2>1, <3>3, <3>4 DEF RightUpTo, LenAt
  <2> QED BY <2>2, <2>3
<1>9. \A k \in (l + 2)..D : Untouched(t2, k)
  <2> SUFFICES ASSUME NEW k \in (l + 2)..D PROVE Untouched(t2, k)
    OBVIOUS
  <2> /\ k - 1 \in Nat /\ k - 1 <= D /\ k - 1 # l
      /\ k \in Nat /\ k <= D /\ k # l
    BY <1>1
  <2>1. Level(t2, k) = Level(t, k) /\ Level(t2, k - 1) = Level(t, k - 1)
    BY <1>3
  <2> QED BY <2>1 DEF Inserting, Untouched
<1>10. Shaped(t2)
  <2>1. Level(t2, 0) = Level(t, 0)
    BY <1>1, <1>3
  <2> QED BY <2>1, <1>3, SameLeaves
<1>11. LenAt(t2, (l + 1) - 1) \in {2 * (i \div 2) + 1, 2 * (i \div 2) + 2}
       /\ v2 = Parent(Level(t2, (l + 1) - 1), i \div 2)
  BY <1>3, <1>4 DEF LenAt, p
<1> QED BY <1>1, <1>3, <1>5, <1>6, <1>7, <1>8, <1>9, <1>10, <1>11 DEF Inserting
-----------------------------------------------------------------------------
(* The end of Insert and of Update: the top level is emptied and the root  *)
(* appended to it.                                                         *)

\* Whatever is put at the top level, the levels below stay as they are.
LEMMA TopReplaced ==
    ASSUME NEW t, Typed(t), NEW r \in Seq(Node),
           NEW t2, t2 = [t EXCEPT ![Depth(t) + 1] = r]
    PROVE  /\ Replaced(t2, t, Depth(t), r)
           /\ \A k \in 1..(Depth(t) - 1) : Full(t, k) => Full(t2, k)
<1> DEFINE D == Depth(t)
<1>1. D \in Nat /\ D + 1 = Len(t)
  BY DEF Typed, Depth
<1>2. Replaced(t2, t, D, r)
  <2>1. t \in Seq(Seq(Node)) /\ r \in Seq(Node) /\ D + 1 \in 1..Len(t)
    BY <1>1 DEF Typed
  <2>2. t2 \in Seq(Seq(Node)) /\ Len(t2) = Len(t)
    BY <2>1
  <2>3. t2[D + 1] = r
    BY <2>1
  <2>4. ASSUME NEW k \in Nat, k <= D, k # D
        PROVE  t2[k + 1] = t[k + 1]
    <3>1. k + 1 \in 1..Len(t) /\ k + 1 # D + 1
      BY <2>4, <1>1
    <3> QED BY <3>1, <2>1
  <2> QED BY <2>2, <2>3, <2>4, <1>1 DEF Replaced, Typed, Depth, Level
<1>3. ASSUME NEW k \in 1..(D - 1), Full(t, k) PROVE Full(t2, k)
  <2> /\ k \in Nat /\ k <= D /\ k # D
      /\ k - 1 \in Nat /\ k - 1 <= D /\ k - 1 # D
    BY <1>1
  <2>1. Level(t2, k) = Level(t, k) /\ Level(t2, k - 1) = Level(t, k - 1)
    BY <1>2 DEF Replaced
  <2> QED BY <2>1, <1>3 DEF Full
<1> QED BY <1>2, <1>3

\* The leaves below an inner top level stay as they are.
LEMMA LeavesBelowTop ==
    ASSUME NEW t, Shaped(t), NEW r \in Seq(Node), NEW t2,
           Replaced(t2, t, Depth(t), r), Depth(t) > 0
    PROVE  /\ Shaped(t2)
           /\ Level(t2, Depth(t) - 1) = Level(t, Depth(t) - 1)
           /\ Level(t2, 0) = Level(t, 0)
<1>1. Depth(t) \in Nat
  BY ShapedIsTyped
<1>2. /\ 0 \in Nat /\ 0 <= Depth(t) /\ 0 # Depth(t)
      /\ Depth(t) - 1 \in Nat /\ Depth(t) - 1 <= Depth(t) /\ Depth(t) - 1 # Depth(t)
  BY <1>1
<1>3. Level(t2, 0) = Level(t, 0) /\ Level(t2, Depth(t) - 1) = Level(t, Depth(t) - 1)
  BY <1>2 DEF Replaced
<1> QED BY <1>3, SameLeaves DEF Replaced

\* With the top level emptied, the root is all that is missing.
LEMMA TopIsEmptied ==
    ASSUME NEW t, Shaped(t), NEW v \in Node,
           \A k \in 1..(Depth(t) - 1) : Full(t, k),
           Depth(t) = 0 => LenAt(t, 0) = 1 /\ v \in Leaf,
           Depth(t) > 0 => /\ LenAt(t, Depth(t) - 1) \in {1, 2}
                           /\ v = Parent(Level(t, Depth(t) - 1), 0),
           NEW t2, t2 = [t EXCEPT ![Depth(t) + 1] = <<>>]
    PROVE  Shaped(t2) /\ Rooting(t2, Depth(t), v)
<1> DEFINE D == Depth(t)
           r == <<>>
<1>0. r \in Seq(Node) /\ Len(r) = 0 /\ r \in Seq(Leaf)
  OBVIOUS
<1> t2 = [t EXCEPT ![D + 1] = r]
  OBVIOUS
<1> HIDE DEF r
<1>1. Typed(t) /\ D \in Nat
  BY ShapedIsTyped
<1>2. /\ Replaced(t2, t, D, r) /\ Depth(t2) = D
      /\ \A k \in 1..(D - 1) : Full(t2, k)
  <2>1. Replaced(t2, t, D, r)
    BY <1>0, <1>1, TopReplaced
  <2>2. \A k \in 1..(D - 1) : Full(t2, k)
    BY <1>0, <1>1, TopReplaced, Zenon
  <2>3. Depth(t2) = D
    BY <2>1 DEF Replaced
  <2> QED BY <2>1, <2>2, <2>3
<1>3. LenAt(t2, Depth(t2)) = 0
  <2>1. Level(t2, D) = r
    BY <1>2 DEF Replaced
  <2> QED BY <2>1, <1>0, <1>2 DEF LenAt
<1>4. CASE D = 0
  <2>1. Level(t2, 0) = r
    BY <1>2, <1>4 DEF Replaced
  <2>2. Size(t2) = 0 /\ Size(t) = 1
    BY <1>0, <1>4, <2>1 DEF Size, Level, LenAt
  <2>3. Shaped(t2)
    <3>1. CeilLog2(0) = 0
      BY DEF CeilLog2
    <3>2. 1 <= MaxSize /\ 0 <= MaxSize
      BY <2>2, BoundAssumption DEF Shaped
    <3> QED BY <3>1, <3>2, <2>1, <2>2, <1>0, <1>2, <1>4 DEF Shaped, Replaced, Typed
  <2>4. 1 <= MaxSize
    BY <2>2 DEF Shaped
  <2>5. ~(D > 0)
    BY <1>4
  <2>6. Rooting(t2, D, v)
    <3>1. Depth(t2) = D /\ LenAt(t2, Depth(t2)) = 0 /\ v \in Leaf
      BY <1>2, <1>3, <1>4
    <3>2. \A k \in 1..(Depth(t2) - 1) : Full(t2, k)
      BY <1>2, Zenon
    <3> QED BY <3>1, <3>2, <2>4, <2>5, Zenon DEF Rooting
  <2> QED BY <2>3, <2>6
<1>5. CASE D > 0
  <2>1. Shaped(t2) /\ Level(t2, D - 1) = Level(t, D - 1)
    BY <1>0, <1>2, <1>5, LeavesBelowTop
  <2>2. ~(D = 0)
    BY <1>5
  <2>3. /\ LenAt(t2, D - 1) \in {1, 2}
        /\ v = Parent(Level(t2, D - 1), 0)
    BY <2>1, <1>5 DEF LenAt
  <2>4. Rooting(t2, D, v)
    <3>1. Depth(t2) = D /\ LenAt(t2, Depth(t2)) = 0
      BY <1>2, <1>3
    <3>2. \A k \in 1..(Depth(t2) - 1) : Full(t2, k)
      BY <1>2, Zenon
    <3> QED BY <3>1, <3>2, <2>2, <2>3, Zenon DEF Rooting
  <2> QED BY <2>1, <2>4
<1> QED BY <1>1, <1>4, <1>5

\* The root appended to the emptied top level settles the tree.
LEMMA RootSettles ==
    ASSUME NEW t, Shaped(t), NEW l, NEW v, Rooting(t, l, v),
           NEW t2, t2 = [t EXCEPT ![l + 1] = Append(t[l + 1], v)]
    PROVE  Shaped(t2) /\ Settled(t2)
<1> DEFINE D == Depth(t)
           r == <<v>>
<1>0. /\ r \in Seq(Node) /\ Len(r) = 1 /\ r[1] = v /\ (v \in Leaf => r \in Seq(Leaf))
      /\ v \in Node /\ l = D
  BY DEF Rooting
<1>1. Typed(t) /\ D \in Nat /\ D + 1 = Len(t)
  BY ShapedIsTyped DEF Typed, Depth
<1>2. t2 = [t EXCEPT ![D + 1] = r]
  <2>1. Level(t, D) \in Seq(Node) /\ Len(Level(t, D)) = 0
    BY <1>1, LevelTyped DEF Rooting
  <2>2. t[D + 1] = <<>>
    BY <2>1 DEF Level
  <2>3. Append(t[D + 1], v) = r
    BY <2>2
  <2> QED BY <2>3, <1>0
<1> HIDE DEF r
<1>3. /\ Replaced(t2, t, D, r) /\ Depth(t2) = D
      /\ \A k \in 1..(D - 1) : Full(t2, k)
  <2>1. Replaced(t2, t, D, r)
    BY <1>0, <1>1, <1>2, TopReplaced
  <2>2. \A k \in 1..(D - 1) : Full(t, k)
    BY Zenon DEF Rooting
  <2>3. \A k \in 1..(D - 1) : Full(t2, k)
    BY <2>2, <1>0, <1>1, <1>2, TopReplaced, Zenon
  <2>4. Depth(t2) = D
    BY <2>1 DEF Replaced
  <2> QED BY <2>1, <2>3, <2>4
<1>4. ASSUME D > 0 PROVE Full(t2, D)
  <2> DEFINE low == Level(t, D - 1)
  <2>1. Level(t2, D - 1) = low /\ Level(t2, D) = r
    BY <1>0, <1>3, <1>4, LeavesBelowTop DEF Replaced
  <2>2. Len(low) \in {1, 2} /\ v = Parent(low, 0)
    BY <1>4 DEF LenAt, Rooting
  <2> HIDE DEF low
  <2>3. Len(r) = 1 /\ (Len(low) + 1) \div 2 = 1
    <3>1. CASE Len(low) = 1
      BY <1>0, <3>1
    <3>2. CASE Len(low) = 2
      BY <1>0, <3>2
    <3> QED BY <2>2, <3>1, <3>2
  <2>4. Right(low, r, 0)
    BY <1>0, <2>2 DEF Right
  <2>5. FullOver(low, r)
    BY <2>3, <2>4 DEF FullOver
  <2> QED BY <2>1, <2>5 DEF Full
<1>5. \A k \in 1..Depth(t2) : Full(t2, k)
  <2> SUFFICES ASSUME NEW k \in 1..D PROVE Full(t2, k)
    BY <1>3
  <2>1. k \in 1..(D - 1) \/ (k = D /\ D > 0)
    BY <1>1
  <2> QED BY <2>1, <1>3, <1>4
<1>6. LenAt(t2, Depth(t2)) <= 1
  <2>1. Depth(t2) = D /\ Level(t2, D) = r
    BY <1>3 DEF Replaced
  <2>2. LenAt(t2, Depth(t2)) = Len(r)
    BY <2>1, Zenon DEF LenAt
  <2> QED BY <1>0, <2>2
<1>7. Shaped(t2)
  <2>1. CASE D = 0
    <3>1. Level(t2, 0) = r
      BY <1>3, <2>1 DEF Replaced
    <3>2. Size(t2) = 1 /\ 1 <= MaxSize /\ CeilLog2(1) = 0
      BY <1>0, <3>1, <2>1 DEF Size, Level, Rooting, CeilLog2
    <3>3. Level(t2, 0) \in Seq(Leaf)
      BY <1>0, <3>1, <2>1 DEF Rooting
    <3> QED BY <3>2, <3>3, <2>1, <1>3 DEF Shaped, Replaced, Typed
  <2>2. CASE D > 0
    BY <2>2, <1>0, <1>3, LeavesBelowTop
  <2> QED BY <2>1, <2>2, <1>1
<1> QED BY <1>5, <1>6, <1>7 DEF Settled

\* Insert has reached the top: its index is 0.
LEMMA InsertEnds ==
    ASSUME NEW t, Shaped(t), NEW i \in Nat, NEW v,
           Inserting(t, Depth(t), i, v),
           NEW t2, t2 = [t EXCEPT ![Depth(t) + 1] = <<>>]
    PROVE  Shaped(t2) /\ Rooting(t2, Depth(t), v)
<1>1. Typed(t) /\ Depth(t) \in Nat
  BY ShapedIsTyped
<1>2. i = 0
  <2>1. BitLen[i] = 0
    BY <1>1 DEF Inserting
  <2>2. i > 0 => BitLen[i] = 1 + BitLen[i \div 2] /\ BitLen[i \div 2] \in Nat
    BY BitLenUnfold
  <2> QED BY <2>1, <2>2
<1>3. Depth(t) = 0 => LenAt(t, 0) = 1 /\ v \in Leaf
  <2> SUFFICES ASSUME Depth(t) = 0 PROVE LenAt(t, 0) = 1 /\ v \in Leaf
    OBVIOUS
  <2>1. LenAt(t, 0) = 1 /\ v = Level(t, 0)[1]
    BY <1>2 DEF Inserting, At, Level
  <2>2. Level(t, 0) \in Seq(Leaf)
    BY DEF Shaped
  <2> QED BY <2>1, <2>2 DEF LenAt
<1>4. Depth(t) > 0 => /\ LenAt(t, Depth(t) - 1) \in {1, 2}
                      /\ v = Parent(Level(t, Depth(t) - 1), 0)
  BY <1>2 DEF Inserting
<1>5. v \in Node /\ \A k \in 1..(Depth(t) - 1) : Full(t, k)
  BY DEF Inserting
<1> QED BY <1>3, <1>4, <1>5, TopIsEmptied

\* Update has reached the top: its index is 0 and there is one root.
LEMMA UpdateEnds ==
    ASSUME NEW t, Shaped(t), NEW i \in Nat, NEW v,
           Updating(t, Depth(t), i, v),
           NEW t2, t2 = [t EXCEPT ![Depth(t) + 1] = <<>>]
    PROVE  Shaped(t2) /\ Rooting(t2, Depth(t), v)
<1>1. Typed(t) /\ Depth(t) \in Nat
  BY ShapedIsTyped
<1>2. i = 0 /\ LenAt(t, Depth(t)) = 1
  <2>1. LenAt(t, Depth(t)) \in Nat
    BY <1>1, LevelTyped
  <2> QED BY <2>1 DEF Updating
<1>3. Depth(t) = 0 => LenAt(t, 0) = 1 /\ v \in Leaf
  <2> SUFFICES ASSUME Depth(t) = 0 PROVE LenAt(t, 0) = 1 /\ v \in Leaf
    OBVIOUS
  <2>1. LenAt(t, 0) = 1 /\ v = Level(t, 0)[1]
    BY <1>2 DEF Updating, At, Level
  <2>2. Level(t, 0) \in Seq(Leaf)
    BY DEF Shaped
  <2> QED BY <2>1, <2>2 DEF LenAt
<1>4. Depth(t) > 0 => /\ LenAt(t, Depth(t) - 1) \in {1, 2}
                      /\ v = Parent(Level(t, Depth(t) - 1), 0)
  <2> SUFFICES ASSUME Depth(t) > 0
               PROVE  /\ LenAt(t, Depth(t) - 1) \in {1, 2}
                      /\ v = Parent(Level(t, Depth(t) - 1), 0)
    OBVIOUS
  <2>1. LenAt(t, Depth(t) - 1) \in Nat
    BY <1>1, LevelTyped
  <2>2. v = Parent(Level(t, Depth(t) - 1), 0)
    BY <1>2 DEF Updating
  <2>3. LenAt(t, Depth(t)) = (LenAt(t, Depth(t) - 1) + 1) \div 2
    BY DEF Updating, RightExcept, RightExceptOver, LenAt
  <2> QED BY <2>1, <2>2, <2>3, <1>2
<1>5. \A k \in 1..(Depth(t) - 1) : Full(t, k)
  <2> SUFFICES ASSUME NEW k \in 1..(Depth(t) - 1) PROVE Full(t, k)
    OBVIOUS
  <2>1. k \in 1..Depth(t) /\ k # Depth(t) /\ Depth(t) # 0
    BY <1>1
  <2> QED BY <2>1 DEF Updating
<1>6. v \in Node
  BY DEF Updating
<1> QED BY <1>3, <1>4, <1>5, <1>6, TopIsEmptied

-----------------------------------------------------------------------------
(* Update *)

\* Other leaves in the same number keep the shape of the tree.
LEMMA NewLeaves ==
    ASSUME NEW t, Shaped(t), NEW s \in Seq(Leaf), Len(s) = Size(t),
           NEW t2, t2 = [t EXCEPT ![1] = s]
    PROVE  Shaped(t2) /\ Replaced(t2, t, 0, s) /\ s \in Seq(Node)
<1>1. Typed(t) /\ Depth(t) \in Nat /\ t \in Seq(Seq(Node)) /\ Len(t) >= 1
  BY ShapedIsTyped DEF Typed
<1>2. s \in Seq(Node)
  BY NodeAssumption
<1>3. t2 \in Seq(Seq(Node)) /\ Len(t2) = Len(t) /\ t2[1] = s
  BY <1>1, <1>2
<1>4. ASSUME NEW k \in Nat, k <= Depth(t), k # 0
      PROVE  t2[k + 1] = t[k + 1]
  <2>1. k + 1 \in 1..Len(t) /\ k + 1 # 1
    BY <1>1, <1>4 DEF Depth
  <2> QED BY <2>1, <1>1
<1>5. Replaced(t2, t, 0, s)
  BY <1>1, <1>3, <1>4 DEF Replaced, Typed, Depth, Level
<1>6. Size(t2) = Size(t) /\ Level(t2, 0) = s /\ Depth(t2) = Depth(t)
  BY <1>3, <1>5 DEF Size, Replaced
<1> QED BY <1>1, <1>2, <1>3, <1>5, <1>6 DEF Shaped

\* Levels that were full and are not next to the leaves stay full.
LEMMA FullAboveLeaves ==
    ASSUME NEW t, Typed(t), Settled(t), NEW s, NEW t2, Replaced(t2, t, 0, s),
           Len(s) = LenAt(t, 0)
    PROVE  /\ \A k \in 2..Depth(t2) : Full(t2, k)
           /\ LenAt(t2, Depth(t2)) <= 1
<1>1. Depth(t) \in Nat /\ Depth(t2) = Depth(t)
  BY LevelTyped DEF Replaced, Typed, Depth
<1>2. ASSUME NEW k \in 2..Depth(t2) PROVE Full(t2, k)
  <2>1. /\ k \in Nat /\ k <= Depth(t) /\ k # 0 /\ k \in 1..Depth(t)
        /\ k - 1 \in Nat /\ k - 1 <= Depth(t) /\ k - 1 # 0
    BY <1>1
  <2>2. Level(t2, k) = Level(t, k) /\ Level(t2, k - 1) = Level(t, k - 1)
    BY <2>1 DEF Replaced
  <2>3. Full(t, k)
    BY <2>1 DEF Settled
  <2> QED BY <2>2, <2>3 DEF Full
<1>3. LenAt(t2, Depth(t2)) = LenAt(t, Depth(t))
  <2>1. CASE Depth(t) = 0
    BY <2>1, <1>1 DEF Replaced, LenAt
  <2>2. CASE Depth(t) # 0
    <3>1. Level(t2, Depth(t)) = Level(t, Depth(t))
      BY <2>2, <1>1 DEF Replaced
    <3> QED BY <3>1, <1>1 DEF LenAt
  <2> QED BY <2>1, <2>2
<1>4. LenAt(t, Depth(t)) <= 1
  BY DEF Settled
<1> QED BY <1>2, <1>3, <1>4

\* Update, once the leaf is stored: only its parent is wrong.
LEMMA UpdateStarts ==
    ASSUME NEW t, Shaped(t), Settled(t), NEW i \in Nat, i < Size(t),
           NEW leaf \in Leaf, NEW t2, t2 = [t EXCEPT ![1][i + 1] = leaf]
    PROVE  Shaped(t2) /\ Updating(t2, 0, i, leaf)
<1> DEFINE s == Level(t, 0)
           p == Put(s, i, leaf)
<1>1. Typed(t) /\ Depth(t) \in Nat /\ Size(t) = LenAt(t, 0) /\ s \in Seq(Leaf)
  BY ShapedIsTyped DEF Shaped
<1>2. i < Len(s) /\ LenAt(t, 0) = Len(s) /\ leaf \in Node
  BY <1>1, NodeAssumption DEF LenAt
<1>3. s \in Seq(Node)
  BY <1>1, LevelTyped
<1>4. p \in Seq(Leaf) /\ IsPut(p, s, i, leaf)
  BY <1>1, <1>2, <1>3, PutLeaf, PutNode
<1>5. p = [t[1] EXCEPT ![i + 1] = leaf]
  <2>1. s = t[1]
    BY DEF Level
  <2> QED BY <2>1, <1>2 DEF Put, EnsureIndex
<1>6. t2 = [t EXCEPT ![1] = p]
  BY <1>5
<1>7. Len(p) = Len(s) /\ p[i + 1] = leaf
  BY <1>2, <1>4 DEF IsPut
<1> HIDE DEF p
<1>8. Shaped(t2) /\ Replaced(t2, t, 0, p) /\ p \in Seq(Node)
  BY <1>1, <1>2, <1>4, <1>6, <1>7, NewLeaves
<1>9. (\A k \in 2..Depth(t2) : Full(t2, k)) /\ LenAt(t2, Depth(t2)) <= 1
  BY <1>1, <1>2, <1>7, <1>8, FullAboveLeaves
<1>10. Depth(t2) = Depth(t) /\ Level(t2, 0) = p
  BY <1>8 DEF Replaced
<1>11. Depth(t2) > 0 => RightExcept(t2, 1, {i \div 2})
  <2> SUFFICES ASSUME Depth(t) > 0 PROVE RightExcept(t2, 1, {i \div 2})
    BY <1>10
  <2>1. FullOver(s, Level(t, 1))
    BY <1>1 DEF Settled, Full
  <2>2. Level(t, 1) \in Seq(Node)
    BY <1>1, LevelTyped
  <2>3. RightExceptOver(s, Level(t, 1), {})
    BY <2>1, FullIsRightExcept
  <2>4. RightExceptOver(Put(s, i, leaf), Level(t, 1), {} \union {i \div 2})
    BY <2>2, <2>3, <1>2, <1>3, UpdateSoilsUp
  <2>5. Level(t2, 1) = Level(t, 1)
    <3>1. 1 \in Nat /\ 1 <= Depth(t) /\ 1 # 0
      BY <1>1
    <3> QED BY <3>1, <1>8 DEF Replaced
  <2> QED BY <2>4, <2>5, <1>10 DEF RightExcept, p
<1>12. leaf = At(t2, 0, i) /\ i < LenAt(t2, 0) /\ 0 <= Depth(t2)
  BY <1>1, <1>2, <1>7, <1>10 DEF At, Level, LenAt
<1>13. ASSUME NEW k \in 1..Depth(t2), k # 1 PROVE Full(t2, k)
  <2>1. k \in 2..Depth(t2)
    BY <1>1, <1>10, <1>13
  <2> QED BY <2>1, <1>9
<1>14. ~(0 > 0)
  OBVIOUS
<1>15. Updating(t2, 0, i, leaf)
  BY <1>2, <1>9, <1>11, <1>12, <1>13, <1>14, Zenon DEF Updating
<1> QED BY <1>8, <1>15

\* One iteration of Update's loop: level l is mended, and only the parent of
\* the node that was stored is wrong above it.
LEMMA UpdateSteps ==
    ASSUME NEW t, Shaped(t), NEW l \in Nat, NEW i \in Nat, NEW v,
           Updating(t, l, i, v), l < Depth(t),
           NEW t2, t2 = IF l > 0 THEN PutAt(t, l, i, v) ELSE t,
           NEW v2, v2 = IF i % 2 = 1 THEN Hash(Level(t2, l)[i], v)
                        ELSE IF i + 1 < LenAt(t2, l)
                             THEN Hash(v, Level(t2, l)[i + 2]) ELSE v
    PROVE  Shaped(t2) /\ Updating(t2, l + 1, i \div 2, v2)
<1> DEFINE D == Depth(t)
           s == Level(t, l)
           p == Level(t2, l)
           up == Level(t, l + 1)
<1>1. Typed(t) /\ D \in Nat
  BY ShapedIsTyped
<1>2. s \in Seq(Node) /\ v \in Node /\ up \in Seq(Node) /\ i < Len(s)
  BY <1>1, LevelTyped DEF Updating, LenAt
<1>3. l + 1 \in Nat /\ l + 1 <= D /\ l + 1 # l /\ l + 1 \in 1..D
  BY <1>1
<1>4. /\ Typed(t2) /\ Depth(t2) = D
      /\ \A k \in Nat : k <= D /\ k # l => Level(t2, k) = Level(t, k)
      /\ p \in Seq(Node) /\ Len(p) = Len(s) /\ p[i + 1] = v
      /\ l > 0 => p = Put(s, i, v)
      /\ l = 0 => p = s
  <2>1. CASE l = 0
    <3>1. t2 = t /\ p = s
      BY <2>1
    <3>2. v = s[i + 1]
      BY <2>1 DEF Updating, At, Level
    <3> QED BY <3>1, <3>2, <2>1, <1>1, <1>2
  <2>2. CASE l > 0
    <3>1. Replaced(t2, t, l, Put(s, i, v))
      BY <2>2, <1>1, <1>2, PutAtReplaces DEF LenAt
    <3>2. IsPut(p, s, i, v)
      BY <3>1, <1>2, PutNode DEF Replaced
    <3>3. p[i + 1] = v /\ Len(p) = Len(s)
      BY <3>2, <1>2 DEF IsPut
    <3> QED BY <2>2, <3>1, <3>2, <3>3 DEF Replaced, IsPut
  <2> QED BY <2>1, <2>2
<1>5. Level(t2, l + 1) = up
  BY <1>3, <1>4
<1> HIDE DEF p
<1>6. v2 = Parent(p, i \div 2)
  <2>0. LenAt(t2, l) = Len(p)
    BY DEF LenAt, p
  <2>1. CASE i % 2 = 1
    <3>1. i > 0 /\ 2 * (i \div 2) + 1 = i /\ 2 * (i \div 2) + 2 = i + 1
      BY <2>1
    <3>2. 2 * (i \div 2) + 1 < Len(p)
      BY <3>1, <1>2, <1>4
    <3>3. Parent(p, i \div 2) = Hash(p[2 * (i \div 2) + 1], p[2 * (i \div 2) + 2])
      BY <3>2 DEF Parent
    <3>4. v2 = Hash(p[i], v)
      BY <2>1 DEF p
    <3> QED BY <3>1, <3>3, <3>4, <1>4
  <2>2. CASE i % 2 = 0
    <3>1. 2 * (i \div 2) = i
      BY <2>2
    <3>2. v2 = IF i + 1 < Len(p) THEN Hash(v, p[i + 2]) ELSE v
      BY <2>0, <2>2 DEF p
    <3> QED BY <3>1, <3>2, <1>4 DEF Parent
  <2> QED BY <2>1, <2>2
<1>7. v2 \in Node
  <2>1. 2 * (i \div 2) < Len(p) /\ i \div 2 \in Nat
    BY <1>2, <1>4
  <2> QED BY <2>1, <1>4, <1>6, ParentIsNode
<1>8. l > 0 => Full(t2, l)
  <2> SUFFICES ASSUME l > 0 PROVE Full(t2, l)
    OBVIOUS
  <2> l - 1 \in Nat /\ l - 1 <= D /\ l - 1 # l
    BY <1>1
  <2>1. Level(t2, l - 1) = Level(t, l - 1) /\ Level(t, l - 1) \in Seq(Node)
    BY <1>1, <1>4, LevelTyped
  <2>2. v = Parent(Level(t, l - 1), i) /\ RightExceptOver(Level(t, l - 1), s, {i})
    BY DEF Updating, RightExcept
  <2>3. RightExceptOver(Level(t, l - 1), Put(s, i, v), {i} \ {i})
    BY <2>1, <2>2, <1>2, UpdateMends
  <2>4. FullOver(Level(t, l - 1), p)
    BY <2>3, <1>4, FullIsRightExcept
  <2> QED BY <2>1, <2>4 DEF Full, p
<1>9. RightExcept(t2, l + 1, {i \div 2})
  <2>1. CASE l = 0
    <3>1. RightExceptOver(s, up, {i \div 2})
      BY <2>1, <1>3 DEF Updating, RightExcept
    <3> QED BY <3>1, <2>1, <1>4, <1>5 DEF RightExcept, p
  <2>2. CASE l > 0
    <3>1. FullOver(s, up)
      BY <2>2, <1>3 DEF Updating, Full
    <3>2. RightExceptOver(s, up, {})
      BY <3>1, FullIsRightExcept
    <3>3. RightExceptOver(Put(s, i, v), up, {} \union {i \div 2})
      BY <3>2, <1>2, UpdateSoilsUp
    <3>4. (l + 1) - 1 = l
      OBVIOUS
    <3> QED BY <3>3, <3>4, <2>2, <1>4, <1>5 DEF RightExcept, p
  <2> QED BY <2>1, <2>2
<1>10. i \div 2 < LenAt(t2, l + 1)
  <2>1. Len(up) = (Len(s) + 1) \div 2
    BY <1>4, <1>5, <1>9 DEF RightExcept, RightExceptOver, p
  <2> QED BY <2>1, <1>2, <1>5 DEF LenAt
<1>11. LenAt(t2, Depth(t2)) <= 1
  <2>1. Level(t2, D) = Level(t, D)
    BY <1>1, <1>4
  <2> QED BY <2>1, <1>4 DEF Updating, LenAt
<1>12. ASSUME NEW k \in 1..D, k # l + 1 PROVE Full(t2, k)
  <2>1. CASE k = l
    BY <2>1, <1>8
  <2>2. CASE k # l
    <3>1. /\ k \in Nat /\ k <= D /\ k # l
          /\ k - 1 \in Nat /\ k - 1 <= D /\ k - 1 # l
      BY <2>2, <1>1, <1>12
    <3>2. Level(t2, k) = Level(t, k) /\ Level(t2, k - 1) = Level(t, k - 1)
      BY <3>1, <1>4
    <3>3. Full(t, k)
      BY <3>1, <1>12 DEF Updating
    <3> QED BY <3>2, <3>3 DEF Full
  <2> QED BY <2>1, <2>2
<1>13. Shaped(t2)
  <2>1. Level(t2, 0) = Level(t, 0)
    BY <1>1, <1>4
  <2> QED BY <2>1, <1>4, SameLeaves
<1>14. v2 = Parent(Level(t2, (l + 1) - 1), i \div 2)
  BY <1>6 DEF p
<1> QED BY <1>3, <1>4, <1>7, <1>9, <1>10, <1>11, <1>12, <1>13, <1>14 DEF Updating

-----------------------------------------------------------------------------
(* UpdateMany *)

\* New leaves at the positions of S leave every parent right that is not
\* above one of them.
LEMMA BatchSoilsUp ==
    ASSUME NEW s \in Seq(Node), NEW p \in Seq(Node), Len(p) = Len(s),
           NEW S \in SUBSET Nat,
           \A j \in Nat : j < Len(s) /\ j \notin S => p[j + 1] = s[j + 1],
           NEW up \in Seq(Node), FullOver(s, up)
    PROVE  RightExceptOver(p, up, {i \div 2 : i \in S})
<1> DEFINE T == {i \div 2 : i \in S}
<1>1. ASSUME NEW j \in 0..(Len(up) - 1), j \notin T
      PROVE  Right(p, up, j)
  <2>1. Right(s, up, j) /\ j \in Nat /\ 2 * j < Len(s)
    BY DEF FullOver
  <2>2. 2 * j \notin S /\ 2 * j + 1 \notin S
    <3>1. (2 * j) \div 2 = j /\ (2 * j + 1) \div 2 = j
      OBVIOUS
    <3> QED BY <3>1, <1>1
  <2>3. p[2 * j + 1] = s[2 * j + 1]
    BY <2>1, <2>2
  <2>4. CASE 2 * j + 1 < Len(s)
    <3>1. p[(2 * j + 1) + 1] = s[(2 * j + 1) + 1]
      BY <2>2, <2>4
    <3>2. (2 * j + 1) + 1 = 2 * j + 2
      OBVIOUS
    <3> QED BY <2>1, <2>3, <2>4, <3>1, <3>2 DEF Right, Parent
  <2>5. CASE ~(2 * j + 1 < Len(s))
    BY <2>1, <2>3, <2>5 DEF Right, Parent
  <2> QED BY <2>4, <2>5
<1> HIDE DEF T
<1> QED BY <1>1 DEF RightExceptOver, FullOver, T

\* UpdateMany, once the leaves are stored: only their parents are wrong.
LEMMA UpdateManyStarts ==
    ASSUME NEW t, Shaped(t), Settled(t), NEW S \in SUBSET Nat,
           NEW new \in [S -> Leaf], \A i \in S : i < Size(t),
           NEW t2, t2 = [t EXCEPT ![1] =
                           [k \in 1..Len(@) |-> IF k - 1 \in DOMAIN new
                                                THEN new[k - 1] ELSE @[k]]]
    PROVE  Shaped(t2) /\ UpdatingMany(t2, 1, {i \div 2 : i \in S}, {})
<1> DEFINE s == Level(t, 0)
           p == [k \in 1..Len(s) |-> IF k - 1 \in S THEN new[k - 1] ELSE s[k]]
           todo == {i \div 2 : i \in S}
<1>1. Typed(t) /\ Depth(t) \in Nat /\ Size(t) = LenAt(t, 0) /\ s \in Seq(Leaf)
  BY ShapedIsTyped DEF Shaped
<1>2. LenAt(t, 0) = Len(s)
  BY DEF LenAt
<1>3. s \in Seq(Node)
  BY <1>1, LevelTyped
<1>4. p \in Seq(Leaf) /\ Len(p) = Len(s)
  <2>1. \A k \in 1..Len(s) : p[k] \in Leaf
    BY <1>1
  <2> QED BY <2>1
<1>5. \A j \in Nat : j < Len(s) /\ j \notin S => p[j + 1] = s[j + 1]
  <2> SUFFICES ASSUME NEW j \in Nat, j < Len(s), j \notin S
               PROVE  p[j + 1] = s[j + 1]
    OBVIOUS
  <2>1. j + 1 \in 1..Len(s) /\ (j + 1) - 1 = j
    BY <1>1
  <2> QED BY <2>1
<1>6. t2 = [t EXCEPT ![1] = p]
  BY DEF Level
<1> HIDE DEF p
<1>7. Shaped(t2) /\ Replaced(t2, t, 0, p) /\ p \in Seq(Node)
  BY <1>1, <1>2, <1>4, <1>6, NewLeaves
<1>8. (\A k \in 2..Depth(t2) : Full(t2, k)) /\ LenAt(t2, Depth(t2)) <= 1
  BY <1>1, <1>2, <1>4, <1>7, FullAboveLeaves
<1>9. Depth(t2) = Depth(t) /\ Level(t2, 0) = p
  BY <1>7 DEF Replaced
<1>10. 1 <= Depth(t2) => /\ todo \subseteq 0..(LenAt(t2, 1) - 1)
                         /\ RightExcept(t2, 1, todo)
  <2> SUFFICES ASSUME 1 <= Depth(t)
               PROVE  /\ todo \subseteq 0..(LenAt(t2, 1) - 1)
                      /\ RightExcept(t2, 1, todo)
    BY <1>9
  <2>1. FullOver(s, Level(t, 1)) /\ Level(t, 1) \in Seq(Node)
    BY <1>1, LevelTyped DEF Settled, Full
  <2>2. RightExceptOver(p, Level(t, 1), todo)
    BY <2>1, <1>3, <1>4, <1>5, <1>7, BatchSoilsUp
  <2>3. Level(t2, 1) = Level(t, 1)
    <3>1. 1 \in Nat /\ 1 <= Depth(t) /\ 1 # 0
      BY <1>1
    <3> QED BY <3>1, <1>7 DEF Replaced
  <2>4. Len(Level(t, 1)) = (Len(s) + 1) \div 2 /\ Len(s) \in Nat
    BY <2>1, <1>1 DEF FullOver
  <2>5. ASSUME NEW i \in S PROVE i \div 2 \in 0..(LenAt(t2, 1) - 1)
    <3>1. i \in Nat /\ i < Len(s)
      BY <1>1, <1>2
    <3> QED BY <3>1, <2>3, <2>4 DEF LenAt
  <2> QED BY <2>2, <2>3, <2>5, <1>9 DEF RightExcept
<1>11. 1 < Depth(t2) => /\ {} \subseteq 0..(LenAt(t2, 1 + 1) - 1)
                        /\ RightExcept(t2, 1 + 1, {})
  <2> SUFFICES ASSUME 1 < Depth(t2) PROVE RightExcept(t2, 2, {})
    OBVIOUS
  <2>1. 2 \in 2..Depth(t2)
    BY <1>1, <1>9
  <2>2. Full(t2, 2)
    BY <2>1, <1>8, Zenon
  <2> QED BY <2>2, FullIsRightExcept DEF Full, RightExcept
<1>12. ASSUME NEW k \in 1..Depth(t2), k \notin {1, 1 + 1} PROVE Full(t2, k)
  <2>1. k \in 2..Depth(t2)
    BY <1>1, <1>9, <1>12
  <2> QED BY <2>1, <1>8
<1>13. 1 \in 1..(Depth(t2) + 1)
  BY <1>1, <1>9
<1> HIDE DEF todo
<1>14. UpdatingMany(t2, 1, todo, {})
  BY <1>8, <1>10, <1>11, <1>12, <1>13, Zenon DEF UpdatingMany
<1> QED BY <1>7, <1>14 DEF todo

\* UpdateMany mends one parent, in whatever order; its own parent may now be
\* wrong.
LEMMA UpdateManySteps ==
    ASSUME NEW t, Shaped(t), NEW l \in Nat, NEW todo \in SUBSET Nat, NEW next,
           UpdatingMany(t, l, todo, next), l <= Depth(t), NEW i \in todo,
           NEW t2, t2 = PutAt(t, l, i, Parent(Level(t, l - 1), i))
    PROVE  Shaped(t2) /\ UpdatingMany(t2, l, todo \ {i}, next \union {i \div 2})
<1> DEFINE D == Depth(t)
           low == Level(t, l - 1)
           s == Level(t, l)
           v == Parent(low, i)
           p == Put(s, i, v)
<1>1. Typed(t) /\ D \in Nat /\ i \in Nat /\ l >= 1
  BY ShapedIsTyped DEF UpdatingMany
<1>2. /\ l - 1 \in Nat /\ l - 1 <= D /\ l - 1 # l
      /\ l + 1 \in Nat /\ l + 1 # l
  BY <1>1
<1>3. low \in Seq(Node) /\ s \in Seq(Node)
  BY <1>1, <1>2, LevelTyped
<1>4. RightExceptOver(low, s, todo) /\ i < Len(s)
  BY <1>1 DEF UpdatingMany, RightExcept, LenAt
<1>5. v \in Node
  <2>1. 2 * i < Len(low)
    BY <1>1, <1>3, <1>4 DEF RightExceptOver
  <2> QED BY <2>1, <1>1, <1>3, ParentIsNode
<1>6. Replaced(t2, t, l, p)
  BY <1>1, <1>3, <1>4, <1>5, PutAtReplaces DEF LenAt
<1>7. Len(p) = Len(s) /\ p \in Seq(Node)
  <2>1. IsPut(p, s, i, v)
    BY <1>1, <1>3, <1>4, <1>5, PutNode
  <2> HIDE DEF v
  <2> QED BY <2>1, <1>1, <1>3, <1>4 DEF IsPut
<1>8. RightExceptOver(low, p, todo \ {i})
  BY <1>1, <1>3, <1>4, <1>5, UpdateMends
<1> HIDE DEF p, v
<1>9. /\ Depth(t2) = D /\ Level(t2, l) = p /\ Typed(t2)
      /\ Level(t2, l - 1) = low
      /\ l < D => Level(t2, l + 1) = Level(t, l + 1)
  BY <1>1, <1>2, <1>6 DEF Replaced
<1>10. l < D => /\ next \union {i \div 2} \subseteq 0..(LenAt(t2, l + 1) - 1)
                /\ RightExcept(t2, l + 1, next \union {i \div 2})
  <2> SUFFICES ASSUME l < D
               PROVE  /\ next \union {i \div 2} \subseteq 0..(LenAt(t2, l + 1) - 1)
                      /\ RightExcept(t2, l + 1, next \union {i \div 2})
    OBVIOUS
  <2> DEFINE up == Level(t, l + 1)
  <2>1. up \in Seq(Node)
    BY <1>1, <1>2, LevelTyped
  <2>2. RightExceptOver(s, up, next) /\ next \subseteq 0..(Len(up) - 1)
    <3>1. (l + 1) - 1 = l
      OBVIOUS
    <3> QED BY <3>1 DEF UpdatingMany, RightExcept, LenAt
  <2>3. RightExceptOver(Put(s, i, v), up, next \union {i \div 2})
    BY <2>1, <2>2, <1>1, <1>3, <1>4, <1>5, UpdateSoilsUp
  <2>4. i \div 2 \in 0..(Len(up) - 1)
    BY <2>2, <1>1, <1>4, <1>3 DEF RightExceptOver
  <2>5. Level(t2, l + 1) = up /\ Level(t2, (l + 1) - 1) = p
    <3>1. (l + 1) - 1 = l
      OBVIOUS
    <3> QED BY <3>1, <1>9
  <2> HIDE DEF up
  <2> QED BY <2>2, <2>3, <2>4, <2>5 DEF RightExcept, LenAt, p
<1>11. ASSUME NEW k \in 1..D, k \notin {l, l + 1} PROVE Full(t2, k)
  <2>1. /\ k \in Nat /\ k <= D /\ k # l
        /\ k - 1 \in Nat /\ k - 1 <= D /\ k - 1 # l
    BY <1>1, <1>11
  <2>2. Level(t2, k) = Level(t, k) /\ Level(t2, k - 1) = Level(t, k - 1)
    BY <2>1, <1>6 DEF Replaced
  <2>3. Full(t, k)
    BY <1>11 DEF UpdatingMany
  <2> QED BY <2>2, <2>3 DEF Full
<1>12. LenAt(t2, D) <= 1
  <2>1. LenAt(t, D) <= 1
    BY DEF UpdatingMany
  <2>2. Len(Level(t2, D)) = Len(Level(t, D))
    <3>1. CASE l = D
      BY <3>1, <1>7, <1>9
    <3>2. CASE l # D
      BY <3>2, <1>1, <1>6 DEF Replaced
    <3> QED BY <3>1, <3>2
  <2> QED BY <2>1, <2>2 DEF LenAt
<1>13. Shaped(t2)
  <2>1. 0 \in Nat /\ 0 <= D /\ 0 # l
    BY <1>1
  <2>2. Level(t2, 0) = Level(t, 0)
    BY <2>1, <1>6 DEF Replaced
  <2> QED BY <2>2, <1>9, SameLeaves
<1>14. l \in 1..(D + 1)
  BY <1>1
<1>15. /\ todo \ {i} \subseteq 0..(LenAt(t2, l) - 1)
       /\ RightExcept(t2, l, todo \ {i})
  <2>1. todo \subseteq 0..(LenAt(t, l) - 1)
    BY DEF UpdatingMany
  <2>2. LenAt(t2, l) = LenAt(t, l)
    BY <1>7, <1>9 DEF LenAt
  <2> QED BY <2>1, <2>2, <1>8, <1>9 DEF RightExcept, p, v
<1>16. UpdatingMany(t2, l, todo \ {i}, next \union {i \div 2})
  BY <1>9, <1>10, <1>11, <1>12, <1>14, <1>15, Zenon DEF UpdatingMany
<1> QED BY <1>13, <1>16

\* UpdateMany goes up a level when nothing is left to mend.
LEMMA UpdateManyRises ==
    ASSUME NEW t, Shaped(t), NEW l \in Nat, NEW next,
           UpdatingMany(t, l, {}, next), l <= Depth(t)
    PROVE  UpdatingMany(t, l + 1, next, {})
<1> DEFINE D == Depth(t)
<1>1. D \in Nat /\ l >= 1
  BY ShapedIsTyped DEF UpdatingMany
<1>2. Full(t, l)
  BY FullIsRightExcept DEF UpdatingMany, RightExcept, Full
<1>3. l + 1 < D => /\ {} \subseteq 0..(LenAt(t, (l + 1) + 1) - 1)
                   /\ RightExcept(t, (l + 1) + 1, {})
  <2> SUFFICES ASSUME l + 1 < D PROVE RightExcept(t, (l + 1) + 1, {})
    OBVIOUS
  <2>1. (l + 1) + 1 \in 1..D /\ (l + 1) + 1 \notin {l, l + 1}
    BY <1>1
  <2>2. Full(t, (l + 1) + 1)
    BY <2>1 DEF UpdatingMany
  <2> QED BY <2>2, FullIsRightExcept DEF RightExcept, Full
<1>4. l + 1 <= D => /\ next \subseteq 0..(LenAt(t, l + 1) - 1)
                    /\ RightExcept(t, l + 1, next)
  <2>1. l + 1 <= D => l < D
    BY <1>1
  <2> QED BY <2>1 DEF UpdatingMany
<1>5. ASSUME NEW k \in 1..D, k \notin {l + 1, (l + 1) + 1} PROVE Full(t, k)
  <2>1. CASE k = l
    BY <2>1, <1>2
  <2>2. CASE k # l
    BY <2>2, <1>5 DEF UpdatingMany
  <2> QED BY <2>1, <2>2
<1>6. l + 1 \in 1..(D + 1)
  BY <1>1
<1>7. LenAt(t, D) <= 1
  BY DEF UpdatingMany
<1> QED BY <1>3, <1>4, <1>5, <1>6, <1>7, Zenon DEF UpdatingMany

\* UpdateMany ends with all levels mended.
LEMMA UpdateManyEnds ==
    ASSUME NEW t, Shaped(t), NEW l \in Nat, NEW todo, NEW next,
           UpdatingMany(t, l, todo, next), l > Depth(t)
    PROVE  Settled(t)
<1>1. Depth(t) \in Nat
  BY ShapedIsTyped
<1>2. \A k \in 1..Depth(t) : k \notin {l, l + 1}
  BY <1>1
<1> QED BY <1>2 DEF UpdatingMany, Settled

-----------------------------------------------------------------------------
(* InsertMany *)

\* More leaves never make the tree less deep.
LEMMA CeilLog2Monotonic ==
    ASSUME NEW m \in Nat, NEW n \in Nat, m <= n
    PROVE  /\ CeilLog2(m) \in Nat /\ CeilLog2(n) \in Nat
           /\ CeilLog2(m) <= CeilLog2(n)
           /\ n > 0 => CeilLog2(n) = BitLen[n - 1]
<1>1. BitLen[0] = 0
  BY BitLenUnfold
<1>2. \A x \in Nat : x > 0 => x - 1 \in Nat /\ BitLen[x - 1] \in Nat
  BY BitLenUnfold
<1>3. CeilLog2(m) \in Nat /\ CeilLog2(n) \in Nat
  BY <1>2 DEF CeilLog2
<1>4. n > 0 => CeilLog2(n) = BitLen[n - 1]
  <2>1. n = 1 => n - 1 = 0
    OBVIOUS
  <2> QED BY <1>1, <2>1 DEF CeilLog2
<1>5. CeilLog2(m) <= CeilLog2(n)
  <2>1. CASE m <= 1
    BY <2>1, <1>3 DEF CeilLog2
  <2>2. CASE m > 1
    <3>1. m - 1 \in Nat /\ n - 1 \in Nat /\ m - 1 <= n - 1
      BY <2>2
    <3>2. BitLen[m - 1] <= BitLen[n - 1]
      BY <3>1, BitLenMonotonic
    <3> QED BY <2>2, <3>2 DEF CeilLog2
  <2> QED BY <2>1, <2>2
<1> QED BY <1>3, <1>4, <1>5

\* The levels that InsertMany adds are empty.
LEMMA ExtendGrows ==
    ASSUME NEW t, Typed(t), NEW m \in Nat
    PROVE  Grown(t \o [l \in 1..m |-> <<>>], t, m)
<1> DEFINE e == [l \in 1..m |-> <<>>]
           g == t \o e
<1>1. e \in Seq(Seq(Node)) /\ Len(e) = m /\ \A k \in 1..m : e[k] = <<>>
  <2>1. <<>> \in Seq(Node)
    OBVIOUS
  <2> QED BY <2>1
<1> HIDE DEF e
<1>2. t \in Seq(Seq(Node)) /\ Len(t) \in Nat /\ Len(t) >= 1
  BY DEF Typed
<1>3. /\ g \in Seq(Seq(Node))
      /\ Len(g) = Len(t) + m
      /\ \A k \in 1..(Len(t) + m) : g[k] = IF k <= Len(t) THEN t[k] ELSE e[k - Len(t)]
  BY <1>1, <1>2, ConcatProperties
<1> HIDE DEF g
<1>4. ASSUME NEW k \in Nat, k <= Depth(g)
      PROVE  Level(g, k) = IF k <= Depth(t) THEN Level(t, k) ELSE <<>>
  <2>1. k + 1 \in 1..(Len(t) + m)
    BY <1>2, <1>3, <1>4 DEF Depth
  <2>2. CASE k <= Depth(t)
    BY <2>1, <2>2, <1>2, <1>3 DEF Depth, Level
  <2>3. CASE ~(k <= Depth(t))
    <3>1. (k + 1) - Len(t) \in 1..m /\ ~(k + 1 <= Len(t))
      BY <2>1, <2>3, <1>2 DEF Depth
    <3>2. g[k + 1] = e[(k + 1) - Len(t)]
      BY <2>1, <3>1, <1>3
    <3> QED BY <3>1, <3>2, <2>3, <1>1 DEF Level
  <2> QED BY <2>2, <2>3
<1>5. Typed(g) /\ Depth(g) = Depth(t) + m
  BY <1>2, <1>3 DEF Typed, Depth
<1>6. Grown(g, t, m)
  BY <1>4, <1>5 DEF Grown
<1> QED BY <1>6 DEF g, e

\* New leaves at the end leave the parents of two old ones right.
LEMMA AppendedLeavesUp ==
    ASSUME NEW s \in Seq(Node), NEW p \in Seq(Node), Len(s) <= Len(p),
           \A j \in 1..Len(s) : p[j] = s[j],
           NEW up \in Seq(Node), UntouchedOver(s, up)
    PROVE  RightUpToOver(p, up, Len(s) \div 2)
<1>1. ASSUME NEW j \in 0..(Len(s) \div 2 - 1) PROVE Right(p, up, j)
  <2>1. 2 * j + 1 \in 1..Len(s) /\ 2 * j + 2 \in 1..Len(s)
    OBVIOUS
  <2>2. p[2 * j + 1] = s[2 * j + 1] /\ p[2 * j + 2] = s[2 * j + 2]
    BY <2>1
  <2>3. 2 * j + 1 < Len(s) /\ 2 * j + 1 < Len(p)
    BY <2>1
  <2>4. Right(s, up, j)
    BY DEF UntouchedOver
  <2> QED BY <2>2, <2>3, <2>4 DEF Right, Parent
<1> QED BY <1>1 DEF RightUpToOver, UntouchedOver

\* p: the leaves with the new ones; a: the tree t with them; t2: with the
\* new levels too; g: the tree t with those levels only.
LEMMA AppendedLeaves ==
    ASSUME NEW t, Shaped(t), Settled(t), MaxSize \in Nat,
           NEW n \in Nat, n = Size(t), NEW i \in Nat, i = n \div 2,
           NEW N \in Nat, n < N, N <= MaxSize,
           NEW p \in Seq(Leaf), Len(p) = N,
           \A j \in 1..n : p[j] = Level(t, 0)[j],
           NEW m \in Nat, Depth(t) + m = CeilLog2(N),
           NEW a, Replaced(a, t, 0, p),
           NEW t2, Grown(t2, a, m), NEW g, Grown(g, t, m)
    PROVE  Shaped(t2) /\ InsertingMany(t2, 0, i, i)
<1> DEFINE s == Level(t, 0)
<1>1. /\ Typed(t) /\ Depth(t) \in Nat /\ s \in Seq(Leaf) /\ n = Len(s)
      /\ p \in Seq(Node) /\ s \in Seq(Node)
  BY ShapedIsTyped, NodeAssumption DEF Shaped, Size, Level
<1>2. CeilLog2(N) = BitLen[N - 1] /\ CeilLog2(N) \in Nat
  <2>1. N <= N /\ N > 0
    OBVIOUS
  <2> QED BY <2>1, CeilLog2Monotonic
<1>3. \A k \in 1..Depth(g) : Untouched(g, k)
  BY <1>1, GrownIsUntouched
<1>4. /\ Typed(t2) /\ Depth(t2) = Depth(g) /\ Depth(t2) \in Nat
       /\ Depth(t2) = CeilLog2(N)
       /\ Level(t2, 0) = p /\ Level(g, 0) = s
  <2>1. Depth(a) = Depth(t) /\ Level(a, 0) = p
    BY DEF Replaced
  <2>2. /\ Typed(t2) /\ Depth(t2) = Depth(a) + m /\ Depth(g) = Depth(t) + m
        /\ 0 <= Depth(t2) => Level(t2, 0) = IF 0 <= Depth(a) THEN Level(a, 0) ELSE <<>>
        /\ 0 <= Depth(g) => Level(g, 0) = IF 0 <= Depth(t) THEN Level(t, 0) ELSE <<>>
    BY DEF Grown
  <2>3. Depth(t2) = Depth(g) /\ Depth(t2) = CeilLog2(N)
    BY <2>1, <2>2, <1>1, <1>2
  <2> QED BY <2>1, <2>2, <2>3, <1>1, <1>2
<1>5. ASSUME NEW k \in Nat, k <= Depth(t2), k # 0
       PROVE  Level(t2, k) = Level(g, k) /\ Level(g, k) \in Seq(Node)
  <2>1. Level(t2, k) = IF k <= Depth(a) THEN Level(a, k) ELSE <<>>
    BY <1>5 DEF Grown
  <2>2. Level(g, k) = IF k <= Depth(t) THEN Level(t, k) ELSE <<>>
    BY <1>4, <1>5 DEF Grown
  <2>3. Depth(a) = Depth(t) /\ (k <= Depth(t) => Level(a, k) = Level(t, k))
    BY <1>5 DEF Replaced
  <2>4. Level(t2, k) \in Seq(Node)
    BY <1>4, <1>5, LevelTyped
  <2> QED BY <2>1, <2>2, <2>3, <2>4
<1>6. Shaped(t2)
  <2>1. Size(t2) = N
    BY <1>4 DEF Size, Level
  <2> QED BY <2>1, <1>4 DEF Shaped, Typed
<1>7. LenAt(t2, 0) > 0 /\ BitLen[LenAt(t2, 0) - 1] = Depth(t2) - 0
  <2>1. LenAt(t2, 0) = N
    BY <1>4 DEF LenAt
  <2> QED BY <2>1, <1>2, <1>4
<1>8. 0 < Depth(t2) => /\ RightUpTo(t2, 0 + 1, i)
                        /\ i <= (LenAt(t2, 0) + 1) \div 2
                        /\ LenAt(t2, 0 + 1) <= (LenAt(t2, 0) + 1) \div 2
                        /\ LenAt(t2, 1) >= i
  <2> SUFFICES ASSUME 0 < Depth(t2)
               PROVE  /\ RightUpTo(t2, 1, i)
                      /\ i <= (LenAt(t2, 0) + 1) \div 2
                      /\ LenAt(t2, 1) <= (LenAt(t2, 0) + 1) \div 2
                      /\ LenAt(t2, 1) >= i
    OBVIOUS
  <2> DEFINE up == Level(g, 1)
  <2>1. 1 \in Nat /\ 1 <= Depth(t2) /\ 1 # 0 /\ 1 \in 1..Depth(g)
    BY <1>4
  <2>2. Level(t2, 1) = up /\ up \in Seq(Node)
    BY <2>1, <1>5
  <2>3. UntouchedOver(s, up)
    BY <2>1, <1>3, <1>4 DEF Untouched
  <2> HIDE DEF up
  <2>4. RightUpToOver(p, up, i)
    BY <2>2, <2>3, <1>1, AppendedLeavesUp
  <2>5. Len(up) >= i /\ Len(up) <= (n + 1) \div 2
    BY <2>3, <1>1 DEF UntouchedOver
  <2>6. LenAt(t2, 0) = N /\ LenAt(t2, 1) = Len(up)
    BY <2>2, <1>4 DEF LenAt
  <2> HIDE DEF s
  <2> QED BY <2>2, <2>4, <2>5, <2>6, <1>1, <1>4 DEF RightUpTo
<1>9. ASSUME NEW k \in 2..Depth(t2) PROVE Untouched(t2, k)
  <2>1. /\ k \in Nat /\ k <= Depth(t2) /\ k # 0
        /\ k - 1 \in Nat /\ k - 1 <= Depth(t2) /\ k - 1 # 0
        /\ k \in 1..Depth(g)
    BY <1>4
  <2>2. Level(t2, k) = Level(g, k) /\ Level(t2, k - 1) = Level(g, k - 1)
    BY <2>1, <1>5
  <2> QED BY <2>1, <2>2, <1>3 DEF Untouched
<1>10. 0 + 1 < Depth(t2) =>
         /\ RightUpTo(t2, 0 + 2, i \div 2)
         /\ LenAt(t2, 0 + 2) <= (LenAt(t2, 0 + 1) + 1) \div 2
  <2> SUFFICES ASSUME 1 < Depth(t2)
               PROVE  /\ RightUpTo(t2, 2, i \div 2)
                      /\ LenAt(t2, 2) <= (LenAt(t2, 1) + 1) \div 2
    OBVIOUS
  <2> DEFINE s1 == Level(t2, 1)
             s2 == Level(t2, 2)
  <2>1. s1 \in Seq(Node) /\ s2 \in Seq(Node)
    BY <1>4, LevelTyped
  <2>2. UntouchedOver(s1, s2)
    <3>1. 2 \in 2..Depth(t2)
      BY <1>4
    <3> QED BY <3>1, <1>9 DEF Untouched
  <2>3. Len(s1) >= i /\ i \in Nat
    BY <1>1, <1>4, <1>8 DEF LenAt
  <2> HIDE DEF s1, s2
  <2>4. RightUpToOver(s1, s2, i \div 2)
    <3>1. Len(s2) >= i \div 2
      BY <2>1, <2>2, <2>3 DEF UntouchedOver
    <3> QED BY <3>1, <2>1, <2>2, <2>3 DEF UntouchedOver, RightUpToOver
  <2> QED BY <2>2, <2>4 DEF RightUpTo, LenAt, UntouchedOver, s1, s2
<1>11. \A k \in (0 + 3)..Depth(t2) : Untouched(t2, k)
  <2> SUFFICES ASSUME NEW k \in 3..Depth(t2) PROVE Untouched(t2, k)
    OBVIOUS
  <2>1. k \in 2..Depth(t2)
    BY <1>4
  <2> QED BY <2>1, <1>9
<1>12. /\ 0 <= Depth(t2) /\ i <= i
       /\ \A k \in 1..0 : Full(t2, k)
  BY <1>1, <1>4
<1>13. InsertingMany(t2, 0, i, i)
  BY <1>7, <1>8, <1>10, <1>11, <1>12, Zenon DEF InsertingMany
<1> QED BY <1>6, <1>13

\* InsertMany, once the leaves and the new levels are there.
LEMMA InsertManyStarts ==
    ASSUME NEW t, Shaped(t), Settled(t), NEW leaves \in Seq(Leaf), leaves # <<>>,
           MaxSize \in Nat, Len(t[1] \o leaves) <= MaxSize,
           NEW t2, t2 = [t EXCEPT ![1] = t[1] \o leaves] \o
                        [l \in 1..(CeilLog2(Len(t[1] \o leaves)) - Depth(t)) |-> <<>>]
    PROVE  Shaped(t2) /\ InsertingMany(t2, 0, Size(t) \div 2, Size(t) \div 2)
<1> DEFINE s == Level(t, 0)
           p == s \o leaves
           n == Len(s)
           N == Len(p)
           m == CeilLog2(N) - Depth(t)
           a == [t EXCEPT ![1] = p]
           g == t \o [l \in 1..m |-> <<>>]
<1>1. /\ Typed(t) /\ Depth(t) \in Nat /\ s \in Seq(Leaf)
      /\ t \in Seq(Seq(Node)) /\ Len(t) >= 1
      /\ Size(t) = n /\ Depth(t) = CeilLog2(n) /\ n \in Nat
  BY ShapedIsTyped DEF Shaped, Typed, Size, Level
<1>2. s \in Seq(Node) /\ leaves \in Seq(Node)
  BY <1>1, NodeAssumption
<1>3. /\ p \in Seq(Node) /\ p \in Seq(Leaf)
      /\ N = n + Len(leaves) /\ \A j \in 1..n : p[j] = s[j]
  BY <1>1, <1>2, ConcatProperties
<1>4. Len(leaves) > 0
  <2>1. leaves = <<>> <=> Len(leaves) = 0
    BY EmptySeq
  <2> QED BY <2>1
<1>5. t2 = a \o [l \in 1..m |-> <<>>] /\ N <= MaxSize
  BY DEF Level
<1>6. N \in Nat /\ n <= N /\ N > 0
  BY <1>1, <1>3, <1>4
<1> HIDE DEF p
<1>7. m \in Nat /\ CeilLog2(N) = BitLen[N - 1] /\ CeilLog2(N) \in Nat
  <2>1. CeilLog2(n) <= CeilLog2(N) /\ CeilLog2(n) \in Nat /\ CeilLog2(N) \in Nat
    BY <1>1, <1>6, CeilLog2Monotonic
  <2>2. CeilLog2(N) = BitLen[N - 1]
    BY <1>6, CeilLog2Monotonic
  <2> QED BY <2>1, <2>2, <1>1
\* a: the leaves are there; t2: and the new levels.
<1>8. Replaced(a, t, 0, p)
  <2>1. a \in Seq(Seq(Node)) /\ Len(a) = Len(t) /\ a[1] = p
    BY <1>1, <1>3
  <2>2. ASSUME NEW k \in Nat, k <= Depth(t), k # 0
        PROVE  a[k + 1] = t[k + 1]
    <3>1. k + 1 \in 1..Len(t) /\ k + 1 # 1
      BY <2>2, <1>1 DEF Depth
    <3> QED BY <3>1, <1>1
  <2> HIDE DEF a
  <2> QED BY <2>1, <2>2, <1>1 DEF Replaced, Typed, Depth, Level
<1> HIDE DEF a
<1>9. Grown(t2, a, m) /\ Grown(g, t, m)
  <2> HIDE DEF m
  <2>1. Typed(a)
    BY <1>8 DEF Replaced
  <2>2. Grown(a \o [l \in 1..m |-> <<>>], a, m)
    BY <2>1, <1>7, ExtendGrows
  <2>3. Grown(t \o [l \in 1..m |-> <<>>], t, m)
    BY <1>1, <1>7, ExtendGrows
  <2> QED BY <2>2, <2>3, <1>5
<1> HIDE DEF g
<1>10. /\ n \in Nat /\ n = Size(t) /\ n \div 2 \in Nat /\ n < N /\ N <= MaxSize
       /\ Depth(t) + m = CeilLog2(N)
       /\ \A j \in 1..n : p[j] = Level(t, 0)[j]
  <2>1. Depth(t) + m = CeilLog2(N)
    BY <1>1, <1>7
  <2>2. \A j \in 1..n : p[j] = Level(t, 0)[j]
    BY <1>3
  <2>3. n < N /\ n \div 2 \in Nat
    <3> HIDE DEF n, N
    <3> QED BY <1>1, <1>3, <1>4
  <2> QED BY <2>1, <2>2, <2>3, <1>1, <1>5, Zenon
<1> HIDE DEF m
<1>11. p \in Seq(Leaf) /\ N \in Nat /\ Len(p) = N /\ m \in Nat
  BY <1>3, <1>6, <1>7
<1> HIDE DEF n, N, s
<1>12. Shaped(t2) /\ InsertingMany(t2, 0, n \div 2, n \div 2)
  BY <1>8, <1>9, <1>10, <1>11, AppendedLeaves
<1> QED BY <1>10, <1>12
\* One iteration of InsertMany's inner loop.
LEMMA InsertManySteps ==
    ASSUME NEW t, Shaped(t), NEW l \in Nat, NEW i \in Nat, NEW s \in Nat,
           InsertingMany(t, l, i, s), l < Depth(t),
           i < (LenAt(t, l) + 1) \div 2,
           NEW t2, t2 = PutAt(t, l + 1, i, Parent(Level(t, l), i))
    PROVE  Shaped(t2) /\ InsertingMany(t2, l, i + 1, s)
<1> DEFINE D == Depth(t)
           low == Level(t, l)
           here == Level(t, l + 1)
           v == Parent(low, i)
           p == Put(here, i, v)
<1>1. Typed(t) /\ D \in Nat /\ s <= i
  BY ShapedIsTyped DEF InsertingMany
<1>2. l + 1 \in Nat /\ l + 1 <= D /\ l <= D /\ l # l + 1
  BY <1>1
<1>3. low \in Seq(Node) /\ here \in Seq(Node)
  BY <1>1, <1>2, LevelTyped
<1>4. /\ RightUpToOver(low, here, i)
      /\ i < (Len(low) + 1) \div 2
      /\ Len(here) <= (Len(low) + 1) \div 2
  <2>1. (l + 1) - 1 = l
    OBVIOUS
  <2> QED BY <2>1 DEF InsertingMany, RightUpTo, LenAt
<1>5. i <= Len(here)
  BY <1>4 DEF RightUpToOver
<1>6. v \in Node
  <2>1. 2 * i < Len(low)
    BY <1>3, <1>4
  <2> QED BY <2>1, <1>3, ParentIsNode
<1>7. Replaced(t2, t, l + 1, p)
  BY <1>1, <1>2, <1>5, <1>6, PutAtReplaces DEF LenAt
<1>8. /\ RightUpToOver(low, p, i + 1)
      /\ Len(p) <= (Len(low) + 1) \div 2
      /\ Len(p) >= Len(here)
  BY <1>3, <1>4, <1>6, InsertManyMends
<1> HIDE DEF p, v
<1>9. /\ Typed(t2) /\ Depth(t2) = D /\ Level(t2, l + 1) = p
      /\ \A k \in Nat : k <= D /\ k # l + 1 => Level(t2, k) = Level(t, k)
  BY <1>7 DEF Replaced
<1>10. Level(t2, l) = low
  BY <1>2, <1>9
<1>11. /\ RightUpTo(t2, l + 1, i + 1)
       /\ i + 1 <= (LenAt(t2, l) + 1) \div 2
       /\ LenAt(t2, l + 1) <= (LenAt(t2, l) + 1) \div 2
  <2>1. (l + 1) - 1 = l
    OBVIOUS
  <2>2. i + 1 <= (Len(low) + 1) \div 2
    BY <1>3, <1>4
  <2> QED BY <2>1, <2>2, <1>8, <1>9, <1>10 DEF RightUpTo, LenAt
<1>12. l + 1 < D => /\ RightUpTo(t2, l + 2, s \div 2)
                    /\ LenAt(t2, l + 2) <= (LenAt(t2, l + 1) + 1) \div 2
  <2> SUFFICES ASSUME l + 1 < D
               PROVE  /\ RightUpTo(t2, l + 2, s \div 2)
                      /\ LenAt(t2, l + 2) <= (LenAt(t2, l + 1) + 1) \div 2
    OBVIOUS
  <2> DEFINE up == Level(t, l + 2)
  <2>1. l + 2 \in Nat /\ l + 2 <= D /\ l + 2 # l + 1 /\ (l + 2) - 1 = l + 1
    BY <1>1
  <2>2. up \in Seq(Node) /\ Level(t2, l + 2) = up
    BY <2>1, <1>1, <1>9, LevelTyped
  <2>3. /\ RightUpToOver(here, up, s \div 2)
        /\ Len(up) <= (Len(here) + 1) \div 2
    BY <2>1 DEF InsertingMany, RightUpTo, LenAt
  <2>4. RightUpToOver(p, up, s \div 2)
    BY <2>2, <2>3, <1>1, <1>3, <1>5, <1>6, InsertManyKeepsUp DEF p
  <2>5. p \in Seq(Node)
    BY <1>2, <1>9, LevelTyped
  <2>6. Len(up) <= (Len(p) + 1) \div 2
    BY <2>2, <2>3, <2>5, <1>3, <1>8
  <2> HIDE DEF up
  <2> QED BY <2>1, <2>2, <2>4, <2>6, <1>9 DEF RightUpTo, LenAt
<1>13. ASSUME NEW k \in 1..l PROVE Full(t2, k)
  <2>1. /\ k \in Nat /\ k <= D /\ k # l + 1
        /\ k - 1 \in Nat /\ k - 1 <= D /\ k - 1 # l + 1
    BY <1>1
  <2>2. Level(t2, k) = Level(t, k) /\ Level(t2, k - 1) = Level(t, k - 1)
    BY <2>1, <1>9
  <2> QED BY <2>2 DEF InsertingMany, Full
<1>14. ASSUME NEW k \in (l + 3)..D PROVE Untouched(t2, k)
  <2>1. /\ k \in Nat /\ k <= D /\ k # l + 1
        /\ k - 1 \in Nat /\ k - 1 <= D /\ k - 1 # l + 1
    BY <1>1
  <2>2. Level(t2, k) = Level(t, k) /\ Level(t2, k - 1) = Level(t, k - 1)
    BY <2>1, <1>9
  <2> QED BY <2>2 DEF InsertingMany, Untouched
<1>15. LenAt(t2, l) > 0 /\ BitLen[LenAt(t2, l) - 1] = D - l
  BY <1>10 DEF InsertingMany, LenAt
<1>16. l <= D /\ s <= i + 1
  BY <1>1
<1>17. InsertingMany(t2, l, i + 1, s)
  BY <1>9, <1>11, <1>12, <1>13, <1>14, <1>15, <1>16, Zenon DEF InsertingMany
<1>18. Shaped(t2)
  <2>1. 0 \in Nat /\ 0 <= D /\ 0 # l + 1
    BY <1>1
  <2>2. Level(t2, 0) = Level(t, 0)
    BY <2>1, <1>9
  <2> QED BY <2>2, <1>9, SameLeaves
<1> QED BY <1>17, <1>18

\* The end of InsertMany's inner loop: the level is full, and the next one
\* stands left of half its start.
LEMMA InsertManyRises ==
    ASSUME NEW t, Shaped(t), NEW l \in Nat, NEW i \in Nat, NEW s \in Nat,
           InsertingMany(t, l, i, s), l < Depth(t),
           i >= (LenAt(t, l) + 1) \div 2
    PROVE  InsertingMany(t, l + 1, s \div 2, s \div 2)
<1> DEFINE D == Depth(t)
           low == Level(t, l)
           here == Level(t, l + 1)
<1>1. Typed(t) /\ D \in Nat /\ s <= i
  BY ShapedIsTyped DEF InsertingMany
<1>2. l + 1 \in Nat /\ l + 1 <= D /\ l <= D
  BY <1>1
<1>3. low \in Seq(Node) /\ here \in Seq(Node)
  BY <1>1, <1>2, LevelTyped
<1>4. /\ RightUpToOver(low, here, i)
      /\ i <= (Len(low) + 1) \div 2
      /\ Len(here) <= (Len(low) + 1) \div 2
      /\ Len(low) > 0 /\ BitLen[Len(low) - 1] = D - l
  <2>1. (l + 1) - 1 = l
    OBVIOUS
  <2> QED BY <2>1 DEF InsertingMany, RightUpTo, LenAt
<1>5. i = (Len(low) + 1) \div 2 /\ Len(here) = i
  <2>1. i >= (Len(low) + 1) \div 2
    BY DEF LenAt
  <2> QED BY <2>1, <1>3, <1>4 DEF RightUpToOver
<1>6. Full(t, l + 1)
  <2>1. FullOver(low, here)
    BY <1>4, <1>5 DEF RightUpToOver, FullOver
  <2>2. (l + 1) - 1 = l
    OBVIOUS
  <2> QED BY <2>1, <2>2 DEF Full
<1>7. LenAt(t, l + 1) > 0 /\ BitLen[LenAt(t, l + 1) - 1] = D - (l + 1)
  <2> DEFINE x == Len(low) - 1
  <2>1. x \in Nat /\ BitLen[x] = D - l /\ D - l > 0
    BY <1>1, <1>3, <1>4
  <2>2. Len(here) > 0 /\ Len(here) - 1 = x \div 2
    BY <1>3, <1>4, <1>5
  <2> HIDE DEF x
  <2>3. x # 0
    BY <2>1, BitLenUnfold
  <2>4. BitLen[x] = 1 + BitLen[x \div 2] /\ BitLen[x \div 2] \in Nat
    BY <2>1, <2>3, BitLenUnfold
  <2>5. BitLen[x \div 2] = D - (l + 1)
    BY <2>1, <2>4, <1>1
  <2> QED BY <2>2, <2>5 DEF LenAt
<1>8. ASSUME NEW k \in 1..(l + 1) PROVE Full(t, k)
  <2>1. CASE k = l + 1
    BY <2>1, <1>6
  <2>2. CASE k # l + 1
    <3>1. k \in 1..l
      BY <2>2
    <3> QED BY <3>1 DEF InsertingMany
  <2> QED BY <2>1, <2>2
<1>9. l + 1 < D => /\ RightUpTo(t, (l + 1) + 1, s \div 2)
                   /\ s \div 2 <= (LenAt(t, l + 1) + 1) \div 2
                   /\ LenAt(t, (l + 1) + 1) <= (LenAt(t, l + 1) + 1) \div 2
                   /\ LenAt(t, (l + 1) + 1) >= s \div 2
  <2> SUFFICES ASSUME l + 1 < D
               PROVE  /\ RightUpTo(t, l + 2, s \div 2)
                      /\ s \div 2 <= (LenAt(t, l + 1) + 1) \div 2
                      /\ LenAt(t, l + 2) <= (LenAt(t, l + 1) + 1) \div 2
                      /\ LenAt(t, l + 2) >= s \div 2
    <3>1. (l + 1) + 1 = l + 2
      OBVIOUS
    <3> QED BY <3>1
  <2>1. /\ RightUpTo(t, l + 2, s \div 2)
        /\ LenAt(t, l + 2) <= (LenAt(t, l + 1) + 1) \div 2
    BY DEF InsertingMany
  <2>2. LenAt(t, l + 2) >= s \div 2
    BY <2>1 DEF RightUpTo, RightUpToOver, LenAt
  <2>3. s \div 2 <= (Len(here) + 1) \div 2
    BY <1>1, <1>5
  <2> QED BY <2>1, <2>2, <2>3 DEF LenAt
<1>10. (l + 1) + 1 < D =>
         /\ RightUpTo(t, (l + 1) + 2, (s \div 2) \div 2)
         /\ LenAt(t, (l + 1) + 2) <= (LenAt(t, (l + 1) + 1) + 1) \div 2
  <2> SUFFICES ASSUME l + 2 < D
               PROVE  /\ RightUpTo(t, l + 3, (s \div 2) \div 2)
                      /\ LenAt(t, l + 3) <= (LenAt(t, l + 2) + 1) \div 2
    <3>1. (l + 1) + 1 = l + 2 /\ (l + 1) + 2 = l + 3
      OBVIOUS
    <3> QED BY <3>1
  <2> DEFINE s2 == Level(t, l + 2)
             s3 == Level(t, l + 3)
  <2>1. /\ l + 2 \in Nat /\ l + 2 <= D
        /\ l + 3 \in Nat /\ l + 3 <= D /\ l + 3 \in (l + 3)..D
        /\ (l + 3) - 1 = l + 2
    BY <1>1
  <2>2. s2 \in Seq(Node) /\ s3 \in Seq(Node)
    BY <2>1, <1>1, LevelTyped
  <2>3. UntouchedOver(s2, s3)
    BY <2>1 DEF InsertingMany, Untouched
  <2>4. Len(s2) >= s \div 2
    <3>1. l + 1 < D /\ (l + 1) + 1 = l + 2
      BY <1>1
    <3> QED BY <3>1, <1>9 DEF LenAt
  <2> HIDE DEF s2, s3
  <2>5. Len(s3) >= (s \div 2) \div 2
    BY <2>2, <2>3, <2>4 DEF UntouchedOver
  <2>6. RightUpToOver(s2, s3, (s \div 2) \div 2)
    BY <2>2, <2>3, <2>5 DEF UntouchedOver, RightUpToOver
  <2> QED BY <2>1, <2>3, <2>6 DEF UntouchedOver, RightUpTo, LenAt, s2, s3
<1>11. ASSUME NEW k \in ((l + 1) + 3)..D PROVE Untouched(t, k)
  <2>1. k \in (l + 3)..D
    BY <1>1
  <2> QED BY <2>1 DEF InsertingMany
<1>12. s \div 2 <= s \div 2
  OBVIOUS
<1> QED BY <1>2, <1>7, <1>8, <1>9, <1>10, <1>11, <1>12, Zenon DEF InsertingMany

\* InsertMany ends with all levels full and one node on top.
LEMMA InsertManyEnds ==
    ASSUME NEW t, Shaped(t), NEW i, NEW s, InsertingMany(t, Depth(t), i, s)
    PROVE  Settled(t)
<1> DEFINE x == LenAt(t, Depth(t)) - 1
<1>1. Typed(t) /\ Depth(t) \in Nat
  BY ShapedIsTyped
<1>2. LenAt(t, Depth(t)) \in Nat
  BY <1>1, LevelTyped
<1>3. x \in Nat /\ BitLen[x] = 0
  BY <1>1, <1>2 DEF InsertingMany
<1> HIDE DEF x
<1>4. x > 0 => BitLen[x] = 1 + BitLen[x \div 2] /\ BitLen[x \div 2] \in Nat
  BY <1>3, BitLenUnfold
<1>5. x = 0
  BY <1>3, <1>4
<1> QED BY <1>2, <1>5 DEF InsertingMany, Settled, x

-----------------------------------------------------------------------------
(* rebuildTree *)

\* The parents of a level form the level above it.
LEMMA ParentsAreFull ==
    ASSUME NEW s \in Seq(Node)
    PROVE  /\ Parents(s) \in Seq(Node)
           /\ Len(Parents(s)) = (Len(s) + 1) \div 2
           /\ FullOver(s, Parents(s))
<1> DEFINE n == (Len(s) + 1) \div 2
<1>1. n \in Nat
  OBVIOUS
<1>2. ASSUME NEW j \in 0..(n - 1) PROVE Parent(s, j) \in Node
  <2>1. j \in Nat /\ 2 * j < Len(s)
    OBVIOUS
  <2> QED BY <2>1, ParentIsNode
<1>3. \A k \in 1..n : Parents(s)[k] = Parent(s, k - 1) /\ k - 1 \in 0..(n - 1)
  BY DEF Parents
<1>4. Parents(s) = [k \in 1..n |-> Parents(s)[k]]
  BY DEF Parents
<1> HIDE DEF n
<1>5. \A k \in 1..n : Parents(s)[k] \in Node
  BY <1>2, <1>3
<1>6. Parents(s) \in Seq(Node) /\ Len(Parents(s)) = n
  BY <1>1, <1>4, <1>5
<1>7. ASSUME NEW j \in 0..(n - 1) PROVE Right(s, Parents(s), j)
  <2>1. j + 1 \in 1..n /\ (j + 1) - 1 = j
    BY <1>1
  <2> QED BY <2>1, <1>3 DEF Right
<1> QED BY <1>6, <1>7 DEF FullOver, n

BuildBody(b, leaves, d) ==
    [l \in 0..d |-> IF l = 0 THEN leaves ELSE Parents(b[l - 1])]

\* The levels of rebuildTree exist: its recursion has a solution.
LEMMA BuildExists ==
    ASSUME NEW leaves \in Seq(Node), NEW d \in Nat
    PROVE  \E b : b = BuildBody(b, leaves, d)
<1> DEFINE IsBuild(f, n) ==
             /\ f \in [0..n -> Seq(Node)]
             /\ \A l \in 0..n : f[l] = IF l = 0 THEN leaves ELSE Parents(f[l - 1])
           S == {n \in Nat : \E f : IsBuild(f, n)}
<1>1. 0 \in S
  <2> DEFINE f == [l \in 0..0 |-> leaves]
  <2>1. IsBuild(f, 0)
    OBVIOUS
  <2> QED BY <2>1
<1>2. ASSUME NEW n \in S PROVE n + 1 \in S
  <2>1. PICK f : IsBuild(f, n)
    OBVIOUS
  <2>2. /\ f \in [0..n -> Seq(Node)]
        /\ \A l \in 0..n : f[l] = IF l = 0 THEN leaves ELSE Parents(f[l - 1])
    BY <2>1
  <2> DEFINE g == [l \in 0..(n + 1) |-> IF l = n + 1 THEN Parents(f[n]) ELSE f[l]]
  <2>3. n \in 0..n /\ Parents(f[n]) \in Seq(Node)
    BY <2>2, ParentsAreFull
  <2>4. \A l \in 0..(n + 1) : l # n + 1 => l \in 0..n
    OBVIOUS
  <2>5. g \in [0..(n + 1) -> Seq(Node)]
    BY <2>2, <2>3, <2>4
  <2>6. ASSUME NEW l \in 0..(n + 1)
        PROVE  g[l] = IF l = 0 THEN leaves ELSE Parents(g[l - 1])
    <3>1. CASE l = n + 1
      <4>1. l # 0 /\ l - 1 = n /\ n \in 0..(n + 1) /\ n # n + 1
        BY <3>1
      <4>2. g[l] = Parents(f[n]) /\ g[n] = f[n]
        BY <3>1, <4>1
      <4> HIDE DEF g
      <4> QED BY <4>1, <4>2
    <3>2. CASE l # n + 1
      <4>1. l \in 0..n /\ g[l] = f[l]
        BY <3>2
      <4>2. l # 0 => l - 1 \in 0..(n + 1) /\ l - 1 # n + 1 /\ g[l - 1] = f[l - 1]
        BY <3>2
      <4> HIDE DEF g
      <4> QED BY <4>1, <4>2, <2>2
    <3> QED BY <3>1, <3>2
  <2>7. IsBuild(g, n + 1)
    <3> HIDE DEF g
    <3> QED BY <2>5, <2>6
  <2>8. n + 1 \in Nat
    OBVIOUS
  <2> HIDE DEF IsBuild, g
  <2> QED BY <2>7, <2>8
<1>3. S = Nat
  <2> HIDE DEF S
  <2>1. S \in SUBSET Nat
    BY DEF S
  <2> QED BY <1>1, <1>2, <2>1, NatSetInduction
<1>4. PICK f : IsBuild(f, d)
  BY <1>3
<1>5. f = BuildBody(f, leaves, d)
  BY <1>4 DEF BuildBody
<1> QED BY <1>5

\* rebuildTree computes those levels.
LEMMA RebuildUnfold ==
    ASSUME NEW leaves \in Seq(Node), CeilLog2(Len(leaves)) \in Nat
    PROVE  \E b : /\ b = BuildBody(b, leaves, CeilLog2(Len(leaves)))
                  /\ RebuildTree(leaves) =
                       [l \in 1..(CeilLog2(Len(leaves)) + 1) |-> b[l - 1]]
<1> DEFINE b == CHOOSE f : f = BuildBody(f, leaves, CeilLog2(Len(leaves)))
<1>1. b = BuildBody(b, leaves, CeilLog2(Len(leaves)))
  BY BuildExists, Zenon
<1>2. RebuildTree(leaves) = [l \in 1..(CeilLog2(Len(leaves)) + 1) |-> b[l - 1]]
  BY Zenon DEF RebuildTree, BuildBody
<1> QED BY <1>1, <1>2

\* Half as many nodes, rounded up, take one halving less to become one.
LEMMA HalfIsOneLess ==
    ASSUME NEW n \in Nat, n > 0, NEW e \in Nat, e > 0, BitLen[n - 1] = e
    PROVE  (n + 1) \div 2 > 0 /\ BitLen[(n + 1) \div 2 - 1] = e - 1
<1> DEFINE x == n - 1
<1>1. x \in Nat /\ BitLen[x] = e
  OBVIOUS
<1>2. (n + 1) \div 2 > 0 /\ (n + 1) \div 2 - 1 = x \div 2
  OBVIOUS
<1> HIDE DEF x
<1>3. x # 0
  BY <1>1, BitLenUnfold
<1>4. BitLen[x] = 1 + BitLen[x \div 2] /\ BitLen[x \div 2] \in Nat
  BY <1>1, <1>3, BitLenUnfold
<1>5. BitLen[x \div 2] = e - 1
  BY <1>1, <1>4
<1> QED BY <1>2, <1>5

\* What rebuildTree returns is a settled tree with the given leaves.
LEMMA RebuildSettles ==
    ASSUME NEW leaves \in Seq(Leaf), MaxSize \in Nat, Len(leaves) <= MaxSize,
           NEW t, t = RebuildTree(leaves)
    PROVE  Shaped(t) /\ Settled(t) /\ Level(t, 0) = leaves
<1> DEFINE n == Len(leaves)
           d == CeilLog2(n)
<1>1. n \in Nat /\ d \in Nat /\ leaves \in Seq(Node) /\ (n > 0 => d = BitLen[n - 1])
  <2>1. n \in Nat /\ n <= n
    OBVIOUS
  <2> QED BY <2>1, CeilLog2Monotonic, NodeAssumption
<1>2. PICK b : b = BuildBody(b, leaves, d) /\ t = [l \in 1..(d + 1) |-> b[l - 1]]
  BY <1>1, RebuildUnfold
<1> DEFINE Good(l) == /\ b[l] \in Seq(Node)
                      /\ n > 0 => Len(b[l]) > 0 /\ BitLen[Len(b[l]) - 1] = d - l
                      /\ l > 0 => b[l] = Parents(b[l - 1])
           S == {l \in Nat : l <= d => Good(l)}
<1> d = CeilLog2(Len(leaves))
  OBVIOUS
<1> HIDE DEF d
<1>3. \A l \in 0..d : b[l] = IF l = 0 THEN leaves ELSE Parents(b[l - 1])
  BY <1>2, Zenon DEF BuildBody
<1>4. b[0] = leaves
  BY <1>1, <1>3
<1>5. 0 \in S
  BY <1>1, <1>4
<1>6. ASSUME NEW l \in S PROVE l + 1 \in S
  <2> SUFFICES ASSUME l + 1 <= d PROVE Good(l + 1)
    OBVIOUS
  <2>1. l \in Nat /\ l <= d /\ l + 1 \in 0..d /\ l + 1 # 0 /\ (l + 1) - 1 = l
    BY <1>1
  <2>2. Good(l)
    BY <2>1
  <2>3. b[l + 1] = Parents(b[l])
    BY <2>1, <1>3
  <2> DEFINE s == b[l]
             p == b[l + 1]
  <2>4. /\ s \in Seq(Node) /\ p = Parents(s)
        /\ n > 0 => Len(s) > 0 /\ BitLen[Len(s) - 1] = d - l
    BY <2>2, <2>3
  <2> HIDE DEF s, p
  <2>5. p \in Seq(Node) /\ Len(p) = (Len(s) + 1) \div 2
    BY <2>4, ParentsAreFull
  <2>6. n > 0 => Len(p) > 0 /\ BitLen[Len(p) - 1] = d - (l + 1)
    <3> SUFFICES ASSUME n > 0
                 PROVE  Len(p) > 0 /\ BitLen[Len(p) - 1] = d - (l + 1)
      OBVIOUS
    <3>1. Len(s) \in Nat /\ Len(s) > 0 /\ d - l \in Nat /\ d - l > 0
          /\ BitLen[Len(s) - 1] = d - l
      BY <2>1, <2>4, <1>1
    <3>2. (Len(s) + 1) \div 2 > 0 /\ BitLen[(Len(s) + 1) \div 2 - 1] = (d - l) - 1
      BY <3>1, HalfIsOneLess
    <3>3. (d - l) - 1 = d - (l + 1)
      BY <2>1, <1>1
    <3> QED BY <3>2, <3>3, <2>5
  <2> QED BY <2>1, <2>3, <2>5, <2>6 DEF p
<1>7. S = Nat
  <2> HIDE DEF S
  <2>1. S \in SUBSET Nat
    BY DEF S
  <2> QED BY <1>5, <1>6, <2>1, NatSetInduction
<1>8. ASSUME NEW l \in Nat, l <= d PROVE Good(l)
  BY <1>7, <1>8
<1>9. t \in Seq(Seq(Node)) /\ Len(t) = d + 1
  <2>1. \A k \in 1..(d + 1) : t[k] \in Seq(Node)
    <3> SUFFICES ASSUME NEW k \in 1..(d + 1) PROVE t[k] \in Seq(Node)
      OBVIOUS
    <3>1. k - 1 \in Nat /\ k - 1 <= d
      BY <1>1
    <3>2. t[k] = b[k - 1]
      BY <1>2
    <3> QED BY <3>1, <3>2, <1>8
  <2>2. t = [k \in 1..(d + 1) |-> t[k]] /\ d + 1 \in Nat
    BY <1>1, <1>2
  <2> QED BY <2>1, <2>2
<1>10. ASSUME NEW l \in Nat, l <= d PROVE Level(t, l) = b[l]
  <2>1. l + 1 \in 1..(d + 1) /\ (l + 1) - 1 = l
    BY <1>1, <1>10
  <2> QED BY <2>1, <1>2 DEF Level
<1>11. Depth(t) = d
  BY <1>1, <1>9 DEF Depth
<1>12. ASSUME NEW k \in 1..d PROVE Full(t, k)
  <2>1. k \in Nat /\ k <= d /\ k > 0 /\ k - 1 \in Nat /\ k - 1 <= d
    BY <1>1
  <2>2. Level(t, k) = b[k] /\ Level(t, k - 1) = b[k - 1]
    BY <2>1, <1>10
  <2>3. b[k] = Parents(b[k - 1]) /\ b[k - 1] \in Seq(Node)
    BY <2>1, <1>8
  <2>4. FullOver(b[k - 1], b[k])
    BY <2>3, ParentsAreFull
  <2> QED BY <2>2, <2>4 DEF Full
<1>13. LenAt(t, d) <= 1
  <2> DEFINE top == b[d]
  <2>1. Level(t, d) = top
    BY <1>1, <1>10
  <2>2. CASE n = 0
    <3>1. d = 0
      BY <2>2, <1>1 DEF CeilLog2
    <3> QED BY <3>1, <2>1, <2>2, <1>4 DEF LenAt
  <2>3. CASE n > 0
    <3>1. top \in Seq(Node) /\ Len(top) > 0 /\ BitLen[Len(top) - 1] = 0
      BY <2>3, <1>1, <1>8
    <3> DEFINE x == Len(top) - 1
    <3> HIDE DEF top
    <3>2. x \in Nat /\ BitLen[x] = 0 /\ Len(top) = x + 1
      BY <3>1
    <3> HIDE DEF x
    <3>3. x > 0 => BitLen[x] = 1 + BitLen[x \div 2] /\ BitLen[x \div 2] \in Nat
      BY <3>2, BitLenUnfold
    <3>4. x = 0
      BY <3>2, <3>3
    <3>5. LenAt(t, d) = Len(top)
      BY <2>1, Zenon DEF LenAt
    <3> QED BY <3>2, <3>4, <3>5
  <2> QED BY <2>2, <2>3, <1>1
<1>14. Level(t, 0) = leaves
  BY <1>1, <1>4, <1>10
<1>15. Size(t) = n
  BY <1>14 DEF Size, Level
<1>16. Shaped(t)
  BY <1>1, <1>9, <1>11, <1>14, <1>15 DEF Shaped
<1> QED BY <1>11, <1>12, <1>13, <1>14, <1>16 DEF Settled

\* The tree New starts with.
LEMMA EmptyIsSettled ==
    ASSUME MaxSize \in Nat
    PROVE  Shaped(EmptyTree) /\ Settled(EmptyTree)
<1>1. EmptyTree \in Seq(Seq(Node)) /\ Len(EmptyTree) = 1 /\ EmptyTree[1] = <<>>
  <2>1. <<>> \in Seq(Node)
    OBVIOUS
  <2> QED BY <2>1 DEF EmptyTree
<1>2. Depth(EmptyTree) = 0 /\ Level(EmptyTree, 0) = <<>> /\ Size(EmptyTree) = 0
  BY <1>1 DEF Depth, Level, Size
<1>3. CeilLog2(0) = 0
  BY DEF CeilLog2
<1>4. <<>> \in Seq(Leaf) /\ Len(<<>>) = 0
  OBVIOUS
<1>5. Shaped(EmptyTree)
  BY <1>1, <1>2, <1>3, <1>4 DEF Shaped
<1>6. LenAt(EmptyTree, 0) = 0
  BY <1>2, <1>4 DEF LenAt
<1> QED BY <1>2, <1>5, <1>6 DEF Settled

-----------------------------------------------------------------------------
(* The steps of the tree preserve IInv. *)

CallNames == {"none", "insert", "insertMany", "update", "updateMany", "root"}

OpType == [call : CallNames, level : Nat, index : Nat, start : Nat, node : Cell,
           todo : SUBSET Nat, next : SUBSET Nat]

\* Where the op record is typed and what it promises of the tree.
OpInv(o, t) ==
    /\ o.call = "none" => o = Idle /\ Settled(t)
    /\ o.call = "insert" => Inserting(t, o.level, o.index, o.node)
    /\ o.call = "insertMany" => InsertingMany(t, o.level, o.index, o.start)
    /\ o.call = "update" => Updating(t, o.level, o.index, o.node)
    /\ o.call = "updateMany" => UpdatingMany(t, o.level, o.todo, o.next)
    /\ o.call = "root" => Rooting(t, o.level, o.node)

\* A tree of nodes is a tree of cells.
LEMMA ShapedIsCells ==
    ASSUME NEW t, Shaped(t)
    PROVE  t \in Seq(Seq(Cell))
<1>1. Seq(Node) \subseteq Seq(Cell)
  BY DEF Cell
<1> QED BY <1>1 DEF Shaped

\* The record of no operation is typed.
LEMMA IdleIsTyped == Idle \in OpType /\ Idle.call = "none"
BY DEF Idle, OpType, CallNames, Cell

\* What a step that leaves the disk alone has to establish.
LEMMA TreeStep ==
    ASSUME IInv, UNCHANGED <<diskSize, disk>>, proc' = proc, proc # "down",
           dirty' \in BOOLEAN, Shaped(nodes'), op' \in OpType, OpInv(op', nodes')
    PROVE  IInv'
<1>1. TypeOK'
  BY ShapedIsCells DEF IInv, TypeOK, OpType, CallNames
<1>2. TreeInv'
  BY DEF TreeInv, OpInv
<1>3. DiskInv'
  BY DEF IInv, DiskInv, DiskComplete
<1> QED BY <1>1, <1>2, <1>3 DEF IInv

\* What IInv says of a tree whose lock is free, and of one in an operation.
LEMMA InvOfTree ==
    ASSUME IInv
    PROVE  /\ Shaped(nodes) /\ op \in OpType /\ OpInv(op, nodes)
           /\ dirty \in BOOLEAN
           /\ op = Idle => Settled(nodes)
           /\ op # Idle => proc # "down"
           /\ MaxSize \in Nat
BY BoundAssumption, IdleIsTyped DEF IInv, TypeOK, TreeInv, OpInv, OpType, CallNames

\* Insert stores its leaf.
LEMMA InsertPreserves ==
    ASSUME IInv, NEW leaf \in Leaf, Insert(leaf)
    PROVE  IInv'
<1> DEFINE i == Size(nodes)
<1>1. /\ op = Idle /\ proc # "down" /\ i < MaxSize
      /\ nodes' = PutAt(GrownFor(nodes, i + 1), 0, i, leaf)
      /\ op' = [Idle EXCEPT !.call = "insert", !.index = i, !.node = leaf]
      /\ UNCHANGED <<dirty, diskSize, disk, proc>>
  BY DEF Insert, Unlocked, GrownFor
<1>2. /\ Shaped(nodes) /\ Settled(nodes) /\ dirty \in BOOLEAN
      /\ op' = [Idle EXCEPT !.call = "insert", !.index = i, !.node = leaf]
      /\ MaxSize \in Nat
  BY <1>1, InvOfTree
<1>3. Shaped(nodes') /\ Inserting(nodes', 0, i, leaf)
  BY <1>1, <1>2, InsertStarts
<1>4. i \in Nat /\ leaf \in Cell
  BY <1>2, ShapedIsTyped, LevelTyped, NodeAssumption DEF Cell
<1>5. /\ op' \in OpType /\ op'.call = "insert" /\ op'.level = 0
      /\ op'.index = i /\ op'.node = leaf
  BY <1>1, <1>4, IdleIsTyped DEF Idle, OpType, CallNames
<1>6. OpInv(op', nodes')
  BY <1>3, <1>5 DEF OpInv
<1> QED BY <1>1, <1>2, <1>3, <1>5, <1>6, TreeStep

\* Insert goes up a level.
LEMMA InsertLevelPreserves ==
    ASSUME IInv, InsertLevel
    PROVE  IInv'
<1> DEFINE v2 == IF op.index % 2 = 1
                 THEN Hash(At(nodes, op.level, op.index - 1), op.node) ELSE op.node
           l == op.level + 1
           h == op.index \div 2
<1>1. /\ op.call = "insert" /\ op.level < Depth(nodes)
      /\ nodes' = IF op.level > 0 THEN PutAt(nodes, op.level, op.index, op.node)
                                  ELSE nodes
      /\ op' = [op EXCEPT !.level = l, !.index = h,
                          !.node = v2]
      /\ UNCHANGED <<dirty, diskSize, disk, proc>>
  BY DEF InsertLevel, StoreNode
<1>2. /\ Shaped(nodes) /\ op \in OpType /\ dirty \in BOOLEAN
      /\ Inserting(nodes, op.level, op.index, op.node)
      /\ op # Idle /\ proc # "down"
  BY <1>1, InvOfTree, IdleIsTyped DEF OpInv
<1>3. op.level \in Nat /\ op.index \in Nat
  BY <1>2 DEF OpType
<1> HIDE DEF v2
<1>4. Shaped(nodes') /\ Inserting(nodes', op.level + 1, op.index \div 2, v2)
  BY <1>1, <1>2, <1>3, InsertSteps DEF v2
<1>5. v2 \in Cell
  BY <1>4 DEF Inserting, Cell
<1> l \in Nat /\ h \in Nat
  BY <1>3
<1> HIDE DEF l, h
<1>6. /\ op' \in OpType /\ op'.call = "insert" /\ op'.level = l
      /\ op'.index = h /\ op'.node = v2
  BY <1>1, <1>2, <1>3, <1>5 DEF OpType
<1>7. OpInv(op', nodes')
  BY <1>4, <1>6 DEF OpInv, l, h
<1> QED BY <1>1, <1>2, <1>4, <1>6, <1>7, TreeStep

\* Insert and Update empty the top level.
LEMMA TruncatePreserves ==
    ASSUME IInv, InsertTruncates \/ UpdateTruncates
    PROVE  IInv'
<1>1. /\ op.call \in {"insert", "update"} /\ op.level = Depth(nodes)
      /\ nodes' = [nodes EXCEPT ![Depth(nodes) + 1] = <<>>]
      /\ op' = [op EXCEPT !.call = "root"]
      /\ UNCHANGED <<dirty, diskSize, disk, proc>>
  BY DEF InsertTruncates, UpdateTruncates, TruncateTop
<1>2. /\ Shaped(nodes) /\ op \in OpType /\ op.index \in Nat /\ dirty \in BOOLEAN
      /\ op # Idle /\ proc # "down"
      /\ \/ Inserting(nodes, Depth(nodes), op.index, op.node)
         \/ Updating(nodes, Depth(nodes), op.index, op.node)
  BY <1>1, InvOfTree, IdleIsTyped DEF OpInv, OpType
<1>3. Shaped(nodes') /\ Rooting(nodes', op.level, op.node)
  BY <1>1, <1>2, InsertEnds, UpdateEnds
<1>4. /\ op' \in OpType /\ op'.call = "root"
      /\ op'.level = op.level /\ op'.node = op.node
  BY <1>1, <1>2 DEF OpType, CallNames
<1>5. OpInv(op', nodes')
  BY <1>3, <1>4 DEF OpInv
<1> QED BY <1>1, <1>2, <1>3, <1>4, <1>5, TreeStep

\* Insert and Update append the root.
LEMMA StoreRootPreserves ==
    ASSUME IInv, StoreRoot
    PROVE  IInv'
<1>1. /\ op.call = "root"
      /\ nodes' = [nodes EXCEPT ![op.level + 1] = Append(nodes[op.level + 1], op.node)]
      /\ op' = Idle /\ dirty' \in BOOLEAN
      /\ UNCHANGED <<diskSize, disk, proc>>
  BY DEF StoreRoot
<1>2. /\ Shaped(nodes) /\ op # Idle /\ proc # "down"
      /\ Rooting(nodes, op.level, op.node)
  BY <1>1, InvOfTree, IdleIsTyped DEF OpInv
<1>3. Shaped(nodes') /\ Settled(nodes')
  BY <1>1, <1>2, RootSettles
<1>4. op' \in OpType /\ OpInv(op', nodes')
  BY <1>1, <1>3, IdleIsTyped DEF OpInv
<1> QED BY <1>1, <1>2, <1>3, <1>4, TreeStep

\* InsertMany stores its leaves.
LEMMA InsertManyPreserves ==
    ASSUME IInv, NEW leaves \in Seq(Leaf), InsertMany(leaves)
    PROVE  IInv'
<1> DEFINE s == Size(nodes) \div 2
<1>1. /\ op = Idle /\ proc # "down" /\ leaves # <<>>
      /\ Len(nodes[1] \o leaves) <= MaxSize
      /\ nodes' = [nodes EXCEPT ![1] = nodes[1] \o leaves] \o
           [l \in 1..(CeilLog2(Len(nodes[1] \o leaves)) - Depth(nodes)) |-> <<>>]
      /\ op' = [Idle EXCEPT !.call = "insertMany", !.start = s, !.index = s]
      /\ UNCHANGED <<dirty, diskSize, disk, proc>>
  BY DEF InsertMany, Unlocked
<1>2. /\ Shaped(nodes) /\ Settled(nodes) /\ dirty \in BOOLEAN
      /\ MaxSize \in Nat
  BY <1>1, InvOfTree
<1>3. Shaped(nodes') /\ InsertingMany(nodes', 0, s, s)
  BY <1>1, <1>2, InsertManyStarts
<1>4. s \in Nat
  BY <1>2, ShapedIsTyped, LevelTyped
<1> HIDE DEF s
<1>5. /\ op' \in OpType /\ op'.call = "insertMany" /\ op'.level = 0
      /\ op'.index = s /\ op'.start = s
  BY <1>1, <1>4, IdleIsTyped DEF Idle, OpType, CallNames
<1>6. OpInv(op', nodes')
  BY <1>3, <1>5 DEF OpInv
<1> QED BY <1>1, <1>2, <1>3, <1>5, <1>6, TreeStep

\* What the steps of InsertMany start from.
LEMMA InvOfInsertMany ==
    ASSUME IInv, op.call = "insertMany"
    PROVE  /\ Shaped(nodes) /\ op \in OpType /\ dirty \in BOOLEAN
           /\ op.level \in Nat /\ op.index \in Nat /\ op.start \in Nat
           /\ InsertingMany(nodes, op.level, op.index, op.start)
           /\ proc # "down"
BY InvOfTree, IdleIsTyped DEF OpInv, OpType

\* InsertMany computes a parent.
LEMMA InsertManyParentPreserves ==
    ASSUME IInv, InsertManyParent
    PROVE  IInv'
<1>1. /\ op.call = "insertMany" /\ op.level < Depth(nodes)
      /\ op.index < (LenAt(nodes, op.level) + 1) \div 2
      /\ nodes' = PutAt(nodes, op.level + 1, op.index,
                        Parent(Level(nodes, op.level), op.index))
      /\ op' = [op EXCEPT !.index = op.index + 1]
      /\ UNCHANGED <<dirty, diskSize, disk, proc>>
  BY DEF InsertManyParent, NumParents, LenAt
<1>2. Shaped(nodes') /\ InsertingMany(nodes', op.level, op.index + 1, op.start)
  BY <1>1, InvOfInsertMany, InsertManySteps
<1>3. /\ op' \in OpType /\ op'.call = "insertMany" /\ op'.level = op.level
      /\ op'.index = op.index + 1 /\ op'.start = op.start
  BY <1>1, InvOfInsertMany DEF OpType
<1>4. OpInv(op', nodes')
  BY <1>2, <1>3 DEF OpInv
<1> QED BY <1>1, <1>2, <1>3, <1>4, InvOfInsertMany, TreeStep

\* InsertMany goes up a level.
LEMMA InsertManyLevelPreserves ==
    ASSUME IInv, InsertManyLevel
    PROVE  IInv'
<1> DEFINE l == op.level + 1
           h == op.start \div 2
<1>1. /\ op.call = "insertMany" /\ op.level < Depth(nodes)
      /\ op.index >= (LenAt(nodes, op.level) + 1) \div 2
      /\ op' = [op EXCEPT !.level = l, !.start = h, !.index = h]
      /\ UNCHANGED <<nodes, dirty, diskSize, disk, proc>>
  BY DEF InsertManyLevel, NumParents, LenAt
<1>2. InsertingMany(nodes, op.level + 1, op.start \div 2, op.start \div 2)
  BY <1>1, InvOfInsertMany, InsertManyRises
<1> l \in Nat /\ h \in Nat
  BY <1>1, InvOfInsertMany
<1> HIDE DEF l, h
<1>3. /\ op' \in OpType /\ op'.call = "insertMany" /\ op'.level = l
      /\ op'.index = h /\ op'.start = h
  BY <1>1, InvOfInsertMany DEF OpType
<1>4. OpInv(op', nodes')
  BY <1>1, <1>2, <1>3 DEF OpInv, l, h
<1> QED BY <1>1, <1>3, <1>4, InvOfInsertMany, TreeStep

\* InsertMany ends.
LEMMA InsertManyEndPreserves ==
    ASSUME IInv, InsertManyEnd
    PROVE  IInv'
<1>1. /\ op.call = "insertMany" /\ op.level = Depth(nodes)
      /\ op' = Idle /\ dirty' \in BOOLEAN
      /\ UNCHANGED <<nodes, diskSize, disk, proc>>
  BY DEF InsertManyEnd
<1>2. Settled(nodes)
  BY <1>1, InvOfInsertMany, InsertManyEnds
<1>3. op' \in OpType /\ OpInv(op', nodes')
  BY <1>1, <1>2, IdleIsTyped DEF OpInv
<1> QED BY <1>1, <1>3, InvOfInsertMany, TreeStep

\* Update stores its leaf.
LEMMA UpdatePreserves ==
    ASSUME IInv, NEW i \in Keys, NEW leaf \in Leaf, Update(i, leaf)
    PROVE  IInv'
<1>1. /\ op = Idle /\ proc # "down" /\ i < Size(nodes)
      /\ nodes' = [nodes EXCEPT ![1][i + 1] = leaf]
      /\ op' = [Idle EXCEPT !.call = "update", !.index = i, !.node = leaf]
      /\ UNCHANGED <<dirty, diskSize, disk, proc>>
  BY DEF Update, Unlocked
<1>2. /\ Shaped(nodes) /\ Settled(nodes) /\ dirty \in BOOLEAN
  BY <1>1, InvOfTree
<1>3. i \in Nat /\ leaf \in Cell
  BY BoundAssumption, NodeAssumption DEF Keys, Cell
<1>4. Shaped(nodes') /\ Updating(nodes', 0, i, leaf)
  BY <1>1, <1>2, <1>3, UpdateStarts
<1>5. /\ op' \in OpType /\ op'.call = "update" /\ op'.level = 0
      /\ op'.index = i /\ op'.node = leaf
  BY <1>1, <1>3, IdleIsTyped DEF Idle, OpType, CallNames
<1>6. OpInv(op', nodes')
  BY <1>4, <1>5 DEF OpInv
<1> QED BY <1>1, <1>2, <1>4, <1>5, <1>6, TreeStep

\* Update goes up a level.
LEMMA UpdateLevelPreserves ==
    ASSUME IInv, UpdateLevel
    PROVE  IInv'
<1> DEFINE v2 == IF op.index % 2 = 1 THEN Hash(Level(nodes', op.level)[op.index], op.node)
                 ELSE IF op.index + 1 < LenAt(nodes', op.level)
                      THEN Hash(op.node, Level(nodes', op.level)[op.index + 2])
                      ELSE op.node
           l == op.level + 1
           h == op.index \div 2
<1>1. /\ op.call = "update" /\ op.level < Depth(nodes)
      /\ nodes' = IF op.level > 0 THEN PutAt(nodes, op.level, op.index, op.node)
                                  ELSE nodes
      /\ op' = [op EXCEPT !.level = l, !.index = h, !.node = v2]
      /\ UNCHANGED <<dirty, diskSize, disk, proc>>
  BY DEF UpdateLevel, StoreNode, LenAt
<1>2. /\ Shaped(nodes) /\ op \in OpType /\ dirty \in BOOLEAN
      /\ Updating(nodes, op.level, op.index, op.node)
      /\ op # Idle /\ proc # "down"
  BY <1>1, InvOfTree, IdleIsTyped DEF OpInv
<1>3. op.level \in Nat /\ op.index \in Nat
  BY <1>2 DEF OpType
<1> HIDE DEF v2
<1>4. Shaped(nodes') /\ Updating(nodes', op.level + 1, op.index \div 2, v2)
  BY <1>1, <1>2, <1>3, UpdateSteps DEF v2
<1>5. v2 \in Cell
  BY <1>4 DEF Updating, Cell
<1> l \in Nat /\ h \in Nat
  BY <1>3
<1> HIDE DEF l, h
<1>6. /\ op' \in OpType /\ op'.call = "update" /\ op'.level = l
      /\ op'.index = h /\ op'.node = v2
  BY <1>1, <1>2, <1>3, <1>5 DEF OpType
<1>7. OpInv(op', nodes')
  BY <1>4, <1>6 DEF OpInv, l, h
<1> QED BY <1>1, <1>2, <1>4, <1>6, <1>7, TreeStep

\* UpdateMany stores its leaves.
LEMMA UpdateManyPreserves ==
    ASSUME IInv, NEW S \in SUBSET Keys, NEW new \in [S -> Leaf], UpdateMany(new)
    PROVE  IInv'
<1> DEFINE todo == {i \div 2 : i \in S}
<1>1. DOMAIN new = S /\ S \in SUBSET Nat
  BY BoundAssumption DEF Keys
<1>2. /\ op = Idle /\ proc # "down" /\ \A i \in S : i < Size(nodes)
      /\ nodes' = [nodes EXCEPT ![1] =
                     [k \in 1..Len(@) |-> IF k - 1 \in DOMAIN new THEN new[k - 1]
                                          ELSE @[k]]]
      /\ op' = [Idle EXCEPT !.call = "updateMany", !.level = 1, !.todo = todo]
      /\ UNCHANGED <<dirty, diskSize, disk, proc>>
  BY <1>1 DEF UpdateMany, Unlocked
<1>3. /\ Shaped(nodes) /\ Settled(nodes) /\ dirty \in BOOLEAN
  BY <1>2, InvOfTree
<1>4. Shaped(nodes') /\ UpdatingMany(nodes', 1, todo, {})
  BY <1>1, <1>2, <1>3, UpdateManyStarts
<1>5. todo \in SUBSET Nat
  BY <1>1
<1> HIDE DEF todo
<1>6. /\ op' \in OpType /\ op'.call = "updateMany" /\ op'.level = 1
      /\ op'.todo = todo /\ op'.next = {}
  BY <1>2, <1>5, IdleIsTyped DEF Idle, OpType, CallNames
<1>7. OpInv(op', nodes')
  BY <1>4, <1>6 DEF OpInv
<1> QED BY <1>2, <1>3, <1>4, <1>6, <1>7, TreeStep

\* What the steps of UpdateMany start from.
LEMMA InvOfUpdateMany ==
    ASSUME IInv, op.call = "updateMany"
    PROVE  /\ Shaped(nodes) /\ op \in OpType /\ dirty \in BOOLEAN
           /\ op.level \in Nat /\ op.todo \in SUBSET Nat /\ op.next \in SUBSET Nat
           /\ UpdatingMany(nodes, op.level, op.todo, op.next)
           /\ proc # "down"
BY InvOfTree, IdleIsTyped DEF OpInv, OpType

\* UpdateMany computes a parent.
LEMMA UpdateManyParentPreserves ==
    ASSUME IInv, UpdateManyParent
    PROVE  IInv'
<1>1. PICK i \in op.todo :
        /\ nodes' = PutAt(nodes, op.level, i, Parent(Level(nodes, op.level - 1), i))
        /\ op' = [op EXCEPT !.todo = op.todo \ {i},
                            !.next = op.next \union {i \div 2}]
  BY DEF UpdateManyParent
<1>2. /\ op.call = "updateMany" /\ op.level <= Depth(nodes)
      /\ UNCHANGED <<dirty, diskSize, disk, proc>>
  BY DEF UpdateManyParent
<1> DEFINE todo == op.todo \ {i}
           next == op.next \union {i \div 2}
<1>3. Shaped(nodes') /\ UpdatingMany(nodes', op.level, todo, next)
  BY <1>1, <1>2, InvOfUpdateMany, UpdateManySteps
<1>4. todo \in SUBSET Nat /\ next \in SUBSET Nat
  BY <1>2, InvOfUpdateMany
<1>5. op' = [op EXCEPT !.todo = todo, !.next = next]
  BY <1>1
<1> HIDE DEF todo, next
<1>6. /\ op' \in OpType /\ op'.call = "updateMany" /\ op'.level = op.level
      /\ op'.todo = todo /\ op'.next = next
  BY <1>2, <1>4, <1>5, InvOfUpdateMany DEF OpType
<1>7. OpInv(op', nodes')
  BY <1>3, <1>6 DEF OpInv
<1> QED BY <1>2, <1>3, <1>6, <1>7, InvOfUpdateMany, TreeStep

\* UpdateMany goes up a level.
LEMMA UpdateManyLevelPreserves ==
    ASSUME IInv, UpdateManyLevel
    PROVE  IInv'
<1> DEFINE l == op.level + 1
<1>1. /\ op.call = "updateMany" /\ op.level <= Depth(nodes) /\ op.todo = {}
      /\ op' = [op EXCEPT !.level = l, !.todo = op.next, !.next = {}]
      /\ UNCHANGED <<nodes, dirty, diskSize, disk, proc>>
  BY DEF UpdateManyLevel
<1>2. UpdatingMany(nodes, l, op.next, {})
  BY <1>1, InvOfUpdateMany, UpdateManyRises
<1> l \in Nat
  BY <1>1, InvOfUpdateMany
<1> HIDE DEF l
<1>3. /\ op' \in OpType /\ op'.call = "updateMany" /\ op'.level = l
      /\ op'.todo = op.next /\ op'.next = {}
  BY <1>1, InvOfUpdateMany DEF OpType
<1>4. OpInv(op', nodes')
  BY <1>1, <1>2, <1>3 DEF OpInv
<1> QED BY <1>1, <1>3, <1>4, InvOfUpdateMany, TreeStep

\* UpdateMany ends.
LEMMA UpdateManyEndPreserves ==
    ASSUME IInv, UpdateManyEnd
    PROVE  IInv'
<1>1. /\ op.call = "updateMany" /\ op.level > Depth(nodes)
      /\ op' = Idle /\ dirty' \in BOOLEAN
      /\ UNCHANGED <<nodes, diskSize, disk, proc>>
  BY DEF UpdateManyEnd
<1>2. Settled(nodes)
  BY <1>1, InvOfUpdateMany, UpdateManyEnds
<1>3. op' \in OpType /\ OpInv(op', nodes')
  BY <1>1, <1>2, IdleIsTyped DEF OpInv
<1> QED BY <1>1, <1>3, InvOfUpdateMany, TreeStep

-----------------------------------------------------------------------------
(* The steps of the disk and of the process preserve IInv. *)

\* Sync leaves on disk the leaf keys below the size it writes and no other.
LEMMA WriteLeavesDisk ==
    ASSUME IInv, WriteLeaves
    PROVE  /\ disk' \in [Keys -> Leaf \union {Nil}]
           /\ diskSize' \in Nat /\ diskSize' <= MaxSize
           /\ dirty' = FALSE
           /\ DiskComplete'
<1> DEFINE s == Level(nodes, 0)
           n == Size(nodes)
<1>1. s \in Seq(Leaf) /\ n = Len(s) /\ n <= MaxSize /\ MaxSize \in Nat
  BY InvOfTree DEF Shaped, Size, Level
<1>2. /\ disk \in [Keys -> Leaf \union {Nil}] /\ diskSize \in Nat
      /\ \A i \in Keys : (disk[i] # Nil) <=> (i < diskSize)
  BY DEF IInv, TypeOK, DiskInv, DiskComplete
<1>3. /\ disk' = [i \in Keys |-> IF i < n THEN s[i + 1]
                                ELSE IF i < diskSize THEN Nil ELSE disk[i]]
      /\ diskSize' = n /\ dirty' = FALSE
  BY DEF WriteLeaves, Level
<1> HIDE DEF s, n
<1>4. Nil \notin Leaf
  BY NodeAssumption
<1>5. ASSUME NEW i \in Keys
      PROVE  disk'[i] \in Leaf \union {Nil} /\ (disk'[i] # Nil <=> i < n)
  <2>1. i \in Nat
    BY <1>1 DEF Keys
  <2>2. CASE i < n
    <3>1. s[i + 1] \in Leaf
      BY <2>1, <2>2, <1>1
    <3> QED BY <3>1, <2>2, <1>3, <1>4
  <2>3. CASE ~(i < n) /\ i < diskSize
    BY <2>3, <1>3
  <2>4. CASE ~(i < n) /\ ~(i < diskSize)
    <3>1. disk'[i] = disk[i] /\ disk[i] = Nil
      BY <2>4, <1>2, <1>3
    <3> QED BY <3>1, <2>4
  <2> QED BY <2>2, <2>3, <2>4
<1>6. disk' \in [Keys -> Leaf \union {Nil}]
  BY <1>3, <1>5
<1>7. DiskComplete'
  BY <1>3, <1>5 DEF DiskComplete
<1> QED BY <1>1, <1>3, <1>6, <1>7

\* Sync changes the disk only.
LEMMA SyncPreserves ==
    ASSUME IInv, Sync
    PROVE  IInv'
<1>1. WriteLeaves /\ UNCHANGED <<nodes, op, proc>>
  BY DEF Sync
<1>2. TypeOK'
  BY <1>1, WriteLeavesDisk DEF IInv, TypeOK
<1>3. TreeInv'
  BY <1>1 DEF IInv, TreeInv
<1> QED BY <1>1, <1>2, <1>3, WriteLeavesDisk DEF IInv, DiskInv

\* The Sync of Close, which may have nothing to do.
LEMMA CloseSyncPreserves ==
    ASSUME IInv, CloseSync
    PROVE  IInv'
<1>1. /\ UNCHANGED <<nodes, op>> /\ proc' = "closing"
      /\ \/ WriteLeaves
         \/ UNCHANGED <<disk, diskSize, dirty>>
  BY DEF CloseSync
<1>2. /\ disk' \in [Keys -> Leaf \union {Nil}]
      /\ diskSize' \in Nat /\ diskSize' <= MaxSize
      /\ dirty' \in BOOLEAN
      /\ DiskComplete'
  <2>1. CASE WriteLeaves
    BY <2>1, WriteLeavesDisk
  <2>2. CASE UNCHANGED <<disk, diskSize, dirty>>
    BY <2>2 DEF IInv, TypeOK, DiskInv, DiskComplete
  <2> QED BY <1>1, <2>1, <2>2
<1>3. TypeOK'
  BY <1>1, <1>2 DEF IInv, TypeOK
<1>4. TreeInv'
  BY <1>1 DEF IInv, TreeInv
<1> QED BY <1>2, <1>3, <1>4 DEF IInv, DiskInv

\* What a step that replaces the tree has to establish.
LEMMA NewTree ==
    ASSUME IInv, UNCHANGED <<diskSize, disk>>, op' = Idle,
           dirty' = FALSE, proc' \in {"open", "down"},
           Shaped(nodes'), Settled(nodes')
    PROVE  IInv'
<1>1. TypeOK'
  BY ShapedIsCells, IdleIsTyped DEF IInv, TypeOK, OpType, CallNames
<1>2. TreeInv'
  BY IdleIsTyped DEF TreeInv
<1>3. DiskInv'
  BY DEF IInv, DiskInv, DiskComplete
<1> QED BY <1>1, <1>2, <1>3 DEF IInv

\* A crash or the end of Close empties the memory.
LEMMA ForgetPreserves ==
    ASSUME IInv, Forget
    PROVE  IInv'
<1>1. Shaped(EmptyTree) /\ Settled(EmptyTree)
  BY InvOfTree, EmptyIsSettled
<1> QED BY <1>1, NewTree DEF Forget, diskVars

\* What Load returns is settled, whatever is on disk.
LEMMA LoadSettles ==
    ASSUME IInv
    PROVE  Shaped(Load) /\ Settled(Load)
<1>1. MaxSize \in Nat /\ Shaped(EmptyTree) /\ Settled(EmptyTree)
  BY InvOfTree, EmptyIsSettled
<1> DEFINE Short == diskSize = 0 \/ \E i \in 0..(diskSize - 1) : disk[i] = Nil
           leaves == [k \in 1..diskSize |-> disk[k - 1]]
<1>2. CASE Short
  BY <1>1, <1>2 DEF Load
<1>3. CASE ~Short
  <2>1. diskSize \in Nat /\ diskSize <= MaxSize /\ disk \in [Keys -> Leaf \union {Nil}]
    BY DEF IInv, TypeOK, DiskInv
  <2>2. ASSUME NEW k \in 1..diskSize PROVE disk[k - 1] \in Leaf
    <3>1. k - 1 \in 0..(diskSize - 1) /\ k - 1 \in Keys
      BY <2>1, <1>1 DEF Keys
    <3> QED BY <3>1, <2>1, <1>3
  <2>3. leaves \in Seq(Leaf) /\ Len(leaves) = diskSize
    BY <2>1, <2>2
  <2>4. Load = RebuildTree(leaves)
    BY <1>3 DEF Load
  <2> HIDE DEF leaves
  <2> QED BY <2>1, <2>3, <2>4, <1>1, RebuildSettles
<1> QED BY <1>2, <1>3

\* New loads what is on disk.
LEMMA OpenPreserves ==
    ASSUME IInv, Open
    PROVE  IInv'
<1>1. /\ op' = Idle /\ dirty' = FALSE /\ proc' = "open"
      /\ UNCHANGED <<diskSize, disk>>
      /\ nodes' \in {Load, EmptyTree}
  BY DEF Open, IInv, TreeInv
<1>2. Shaped(nodes') /\ Settled(nodes')
  BY <1>1, InvOfTree, LoadSettles, EmptyIsSettled
<1> QED BY <1>1, <1>2, NewTree

\* A step of somebody else.
LEMMA StutterPreserves ==
    ASSUME IInv, UNCHANGED vars
    PROVE  IInv'
<1>1. TypeOK'
  BY DEF vars, IInv, TypeOK
<1>2. TreeInv'
  BY DEF vars, IInv, TreeInv
<1>3. DiskInv'
  BY DEF vars, IInv, DiskInv, DiskComplete
<1> QED BY <1>1, <1>2, <1>3 DEF IInv

\* A new tree.
LEMMA InitHolds ==
    ASSUME Init
    PROVE  IInv
<1>1. MaxSize \in Nat
  BY BoundAssumption
<1>2. Shaped(nodes) /\ Settled(nodes)
  BY <1>1, EmptyIsSettled DEF Init
<1>3. TypeOK
  BY <1>2, ShapedIsCells, IdleIsTyped DEF Init, TypeOK, OpType, CallNames
<1>4. TreeInv
  BY <1>2, IdleIsTyped DEF Init, TreeInv
<1>5. DiskInv
  BY <1>1 DEF Init, DiskInv, DiskComplete, Keys
<1> QED BY <1>3, <1>4, <1>5 DEF IInv

\* Every step.
LEMMA NextPreserves ==
    ASSUME IInv, [Next]_vars
    PROVE  IInv'
<1>1. CASE Call
  <2>1. ASSUME NEW leaves \in LeafBatches PROVE leaves \in Seq(Leaf)
    <3>1. PICK n \in 1..MaxBatch : leaves \in [1..n -> Leaf]
      BY DEF LeafBatches
    <3> QED BY <3>1, BoundAssumption
  <2>2. CASE \E leaf \in Leaf : Insert(leaf)
    BY <2>2, InsertPreserves
  <2>3. CASE \E leaves \in LeafBatches : InsertMany(leaves)
    BY <2>1, <2>3, InsertManyPreserves
  <2>4. CASE \E index \in Keys, leaf \in Leaf : Update(index, leaf)
    BY <2>4, UpdatePreserves
  <2>5. CASE \E S \in IndexSets : \E new \in [S -> Leaf] : UpdateMany(new)
    <3>1. PICK S \in SUBSET Keys : \E new \in [S -> Leaf] : UpdateMany(new)
      BY <2>5 DEF IndexSets
    <3> QED BY <3>1, UpdateManyPreserves
  <2> QED BY <1>1, <2>2, <2>3, <2>4, <2>5 DEF Call
<1>2. CASE Continue
  BY <1>2, InsertLevelPreserves, TruncatePreserves, StoreRootPreserves,
     InsertManyParentPreserves, InsertManyLevelPreserves, InsertManyEndPreserves,
     UpdateLevelPreserves, UpdateManyParentPreserves, UpdateManyLevelPreserves,
     UpdateManyEndPreserves
     DEF Continue
<1>3. CASE Persist
  BY <1>3, SyncPreserves, CloseSyncPreserves, ForgetPreserves, OpenPreserves
     DEF Persist, CloseDB, Crash
<1>4. CASE UNCHANGED vars
  BY <1>4, StutterPreserves
<1> QED BY <1>1, <1>2, <1>3, <1>4 DEF Next

-----------------------------------------------------------------------------
(* The theorems. *)

\* The inductive invariant: between any two steps of any operation, with any
\* crash and restart, every level is as its operation left it.
THEOREM InductiveInvariant == Spec => []IInv
<1>1. Init => IInv
  BY InitHolds
<1>2. IInv /\ [Next]_vars => IInv'
  BY NextPreserves
<1> QED BY <1>1, <1>2, PTL DEF Spec

\* The variables keep their types: nodes never holds anything but leaves,
\* hashes and the zero value.
THEOREM TypeCorrect == Spec => []TypeOK
<1>1. IInv => TypeOK
  BY DEF IInv
<1> QED BY <1>1, InductiveInvariant, PTL

\* A level that has exactly the parents of the one below is Parents of it.
LEMMA FullIsParents ==
    ASSUME NEW low \in Seq(Node), NEW up \in Seq(Node), FullOver(low, up)
    PROVE  up = Parents(low)
<1>1. Len(up) = (Len(low) + 1) \div 2
  BY DEF FullOver
<1>2. ASSUME NEW k \in 1..Len(up) PROVE up[k] = Parent(low, k - 1)
  <2>1. k - 1 \in 0..(Len(up) - 1) /\ (k - 1) + 1 = k
    OBVIOUS
  <2> QED BY <2>1 DEF FullOver, Right
<1>3. up = [k \in 1..Len(up) |-> Parent(low, k - 1)]
  BY <1>2
<1> QED BY <1>1, <1>3 DEF Parents

\* The invariant of a free tree is the property TreeConsistent asks for.
LEMMA SettledIsConsistent ==
    ASSUME NEW t, Shaped(t), Settled(t)
    PROVE  Consistent(t)
<1>1. Typed(t) /\ Depth(t) \in Nat
  BY ShapedIsTyped
<1>2. ASSUME NEW l \in 1..Depth(t) PROVE Level(t, l) = Parents(Level(t, l - 1))
  <2>1. l \in Nat /\ l <= Depth(t) /\ l - 1 \in Nat /\ l - 1 <= Depth(t)
    BY <1>1
  <2>2. Level(t, l) \in Seq(Node) /\ Level(t, l - 1) \in Seq(Node)
    BY <2>1, <1>1, LevelTyped
  <2> QED BY <2>2, FullIsParents DEF Settled, Full
<1> QED BY <1>2 DEF Consistent, Shaped

\* Whenever the lock is free, the tree that Insert, InsertMany, Update,
\* UpdateMany and Load have built is the lean tree of its leaves.
THEOREM TreeIsConsistent == Spec => []TreeConsistent
<1>1. IInv => TreeConsistent
  BY InvOfTree, SettledIsConsistent DEF TreeConsistent
<1> QED BY <1>1, InductiveInvariant, PTL

\* The leaf keys on disk are exactly those below meta:size, at every point
\* at which the process may crash.
THEOREM DiskIsComplete == Spec => []DiskComplete
<1>1. IInv => DiskComplete
  BY DEF IInv, DiskInv
<1> QED BY <1>1, InductiveInvariant, PTL


=============================================================================
