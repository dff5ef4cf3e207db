--------------------------- MODULE LeafStoreProofs ---------------------------
(***************************************************************************)
(* What a LeanIMT promises its callers, step by step: nothing but the root *)
(* is ever taken off a level, a tree that is not dirty is on disk node for *)
(* node, and the whole is the list of leaves of LeafStore.                 *)
(***************************************************************************)
EXTENDS LeanIMTProofs

-----------------------------------------------------------------------------
(* The lengths of the levels. *)

\* No level is dropped and none gets shorter.
GrowsTo(t, t2) ==
    /\ Len(t2) >= Len(t)
    /\ \A l \in 0..Depth(t) : Len(Level(t2, l)) >= Len(Level(t, l))

\* The root is taken off the top level, if there is one, and no other node.
TopEmptied(t, t2) ==
    /\ Len(t2) = Len(t)
    /\ Len(Level(t, Depth(t))) \in {0, 1}
    /\ Len(Level(t2, Depth(t))) = 0
    /\ \A l \in 0..(Depth(t) - 1) : Level(t2, l) = Level(t, l)

\* s2 is s with something behind it.
Extends(s2, s) == Len(s2) > Len(s) /\ \A i \in 1..Len(s) : s2[i] = s[i]

\* Storing a node at most one place behind a level's end.
LEMMA PutAtGrows ==
    ASSUME NEW t, Typed(t), NEW l \in Nat, l <= Depth(t),
           NEW i \in Nat, i <= LenAt(t, l), NEW v \in Node
    PROVE  /\ GrowsTo(t, PutAt(t, l, i, v))
           /\ l > 0 => Level(PutAt(t, l, i, v), 0) = Level(t, 0)
<1> DEFINE t2 == PutAt(t, l, i, v)
<1>1. Replaced(t2, t, l, Put(Level(t, l), i, v)) /\ Depth(t) \in Nat
  BY PutAtReplaces, LevelTyped
<1>2. Level(t, l) \in Seq(Node) /\ i <= Len(Level(t, l)) /\ LenAt(t, l) \in Nat
  BY LevelTyped
<1>3. Len(Put(Level(t, l), i, v)) >= Len(Level(t, l))
  BY <1>2, PutLength, LevelTyped
<1> HIDE DEF t2
<1>4. ASSUME NEW k \in 0..Depth(t) PROVE Len(Level(t2, k)) >= Len(Level(t, k))
  <2>1. CASE k = l
    BY <2>1, <1>1, <1>3 DEF Replaced
  <2>2. CASE k # l
    <3>1. k \in Nat /\ k <= Depth(t)
      BY <1>1
    <3>2. Level(t2, k) = Level(t, k) /\ LenAt(t, k) \in Nat
      BY <3>1, <2>2, <1>1, LevelTyped DEF Replaced
    <3> QED BY <3>2 DEF LenAt
  <2> QED BY <2>1, <2>2
<1>5. Len(t2) = Len(t) /\ Len(t) \in Nat
  BY <1>1 DEF Replaced, Typed, Depth
<1>6. l > 0 => Level(t2, 0) = Level(t, 0)
  BY <1>1 DEF Replaced
<1> QED BY <1>4, <1>5, <1>6 DEF GrowsTo, t2

\* A step that leaves the tree alone.
LEMMA SameGrows == ASSUME NEW t, Typed(t) PROVE GrowsTo(t, t)
<1>1. Depth(t) \in Nat /\ Len(t) \in Nat
  BY DEF Typed, Depth
<1>2. ASSUME NEW k \in 0..Depth(t) PROVE Len(Level(t, k)) \in Nat
  BY <1>1, LevelTyped DEF LenAt
<1> QED BY <1>1, <1>2 DEF GrowsTo

\* One iteration of the loop of Insert or Update stores one node.
LEMMA StoreNodeGrows ==
    ASSUME IInv, op.call \in {"insert", "update"}, op.level < Depth(nodes),
           nodes' = StoreNode
    PROVE  GrowsTo(nodes, nodes') /\ Level(nodes', 0) = Level(nodes, 0)
<1>1. /\ Typed(nodes) /\ op.level \in Nat /\ op.index \in Nat
      /\ \/ Inserting(nodes, op.level, op.index, op.node)
         \/ Updating(nodes, op.level, op.index, op.node)
  BY InvOfTree, ShapedIsTyped, IdleIsTyped DEF OpInv, OpType
<1>2. CASE op.level = 0
  BY <1>1, <1>2, SameGrows DEF StoreNode
<1>3. CASE op.level > 0
  <2>1. op.index <= LenAt(nodes, op.level) /\ op.node \in Node
    <3>1. CASE Inserting(nodes, op.level, op.index, op.node)
      BY <3>1, <1>3, <1>1 DEF Inserting, RightUpTo, RightUpToOver, LenAt
    <3>2. CASE Updating(nodes, op.level, op.index, op.node)
      <4>1. LenAt(nodes, op.level) \in Nat
        BY <1>1, <3>2, LevelTyped DEF Updating
      <4> QED BY <4>1, <3>2, <1>1 DEF Updating
    <3> QED BY <3>1, <3>2, <1>1
  <2>2. Depth(nodes) \in Nat
    BY <1>1 DEF Typed, Depth
  <2>3. nodes' = PutAt(nodes, op.level, op.index, op.node)
    BY <1>3 DEF StoreNode
  <2> QED BY <2>1, <2>2, <2>3, <1>1, <1>3, PutAtGrows
<1> QED BY <1>1, <1>2, <1>3

\* An operation that is through with its loop finds one node at the top, or
\* none where Insert has just added the level.
LEMMA TopIsSingle ==
    ASSUME IInv, op.call \in {"insert", "update"}, op.level = Depth(nodes)
    PROVE  Len(Level(nodes, Depth(nodes))) \in {0, 1}
<1>1. /\ Typed(nodes) /\ Depth(nodes) \in Nat /\ op.index \in Nat
      /\ \/ Inserting(nodes, Depth(nodes), op.index, op.node)
         \/ Updating(nodes, Depth(nodes), op.index, op.node)
  BY InvOfTree, ShapedIsTyped, IdleIsTyped DEF OpInv, OpType
<1>2. LenAt(nodes, Depth(nodes)) \in Nat
  BY <1>1, LevelTyped
<1>3. ASSUME Updating(nodes, Depth(nodes), op.index, op.node)
      PROVE  LenAt(nodes, Depth(nodes)) <= 1
  BY <1>3 DEF Updating
<1>4. ASSUME Inserting(nodes, Depth(nodes), op.index, op.node)
      PROVE  LenAt(nodes, Depth(nodes)) <= 1
  <2>1. op.index = 0
    <3>1. BitLen[op.index] = 0
      BY <1>1, <1>4 DEF Inserting
    <3> QED BY <3>1, <1>1, BitLenUnfold
  <2>2. CASE Depth(nodes) = 0
    BY <2>1, <2>2, <1>4 DEF Inserting
  <2>3. CASE Depth(nodes) > 0
    BY <2>1, <2>3, <1>4 DEF Inserting
  <2> QED BY <2>2, <2>3, <1>1
<1>5. LenAt(nodes, Depth(nodes)) = 0 \/ LenAt(nodes, Depth(nodes)) = 1
  BY <1>1, <1>2, <1>3, <1>4
<1> QED BY <1>5 DEF LenAt

\* The root of a tree of one leaf is that leaf.
LEMMA RootIsLeaf ==
    ASSUME IInv, op.call \in {"insert", "update"}, op.level = Depth(nodes),
           Depth(nodes) = 0
    PROVE  Level(nodes, 0) = <<op.node>>
<1> DEFINE s == Level(nodes, 0)
<1>1. /\ Typed(nodes) /\ op.index \in Nat
      /\ \/ Inserting(nodes, 0, op.index, op.node)
         \/ Updating(nodes, 0, op.index, op.node)
  BY InvOfTree, ShapedIsTyped, IdleIsTyped DEF OpInv, OpType
<1>2. s \in Seq(Node) /\ Len(s) = LenAt(nodes, 0) /\ Len(s) \in Nat
  BY <1>1, LevelTyped
<1>3. op.index = 0 /\ Len(s) = 1 /\ op.node = s[1]
  <2>1. CASE Inserting(nodes, 0, op.index, op.node)
    <3>1. /\ BitLen[op.index] = 0 /\ LenAt(nodes, 0) = op.index + 1
          /\ op.node = At(nodes, 0, op.index)
      BY <2>1 DEF Inserting
    <3>2. op.index = 0
      BY <3>1, <1>1, BitLenUnfold
    <3> QED BY <3>1, <3>2, <1>2 DEF At, Level
  <2>2. CASE Updating(nodes, 0, op.index, op.node)
    <3>1. /\ op.index < LenAt(nodes, 0) /\ LenAt(nodes, 0) <= 1
          /\ op.node = At(nodes, 0, op.index)
      BY <2>2 DEF Updating
    <3>2. op.index = 0 /\ LenAt(nodes, 0) = 1
      BY <3>1, <1>1, <1>2
    <3> QED BY <3>1, <3>2, <1>2 DEF At, Level
  <2> QED BY <1>1, <2>1, <2>2
<1> QED BY <1>2, <1>3

\* Insert and Update take the root off the top level; where that is level 0,
\* it stays the only leaf that whoever takes the lock finds.
LEMMA TruncateEmpties ==
    ASSUME IInv, InsertTruncates \/ UpdateTruncates
    PROVE  /\ TopEmptied(nodes, nodes')
           /\ op.call \in {"insert", "update"} /\ op'.call = "root"
           /\ Leaves' = Leaves
<1>1. /\ Typed(nodes) /\ Depth(nodes) \in Nat /\ Len(nodes) = Depth(nodes) + 1
      /\ nodes \in Seq(Seq(Node)) /\ op \in OpType
  BY InvOfTree, ShapedIsTyped DEF Typed, Depth
<1>2. /\ op.call \in {"insert", "update"} /\ op.level = Depth(nodes)
      /\ nodes' = [nodes EXCEPT ![Depth(nodes) + 1] = <<>>]
      /\ op' = [op EXCEPT !.call = "root"]
  BY DEF InsertTruncates, UpdateTruncates, TruncateTop
<1>3. Len(nodes') = Len(nodes)
  BY <1>1, <1>2
<1>4. ASSUME NEW k \in 0..(Depth(nodes) - 1) PROVE Level(nodes', k) = Level(nodes, k)
  <2>1. k + 1 \in 1..Len(nodes) /\ k + 1 # Depth(nodes) + 1
    BY <1>1
  <2> QED BY <2>1, <1>1, <1>2 DEF Level
<1>5. op'.call = "root" /\ op'.node = op.node
  BY <1>1, <1>2 DEF OpType
<1>6. Len(Level(nodes, Depth(nodes))) \in {0, 1} /\ Len(Level(nodes', Depth(nodes))) = 0
  BY <1>1, <1>2, TopIsSingle DEF Level
<1>7. Leaves' = Leaves
  <2>1. Leaves = nodes[1]
    BY <1>2 DEF Leaves
  <2>2. Depth(nodes') = Depth(nodes)
    BY <1>3 DEF Depth
  <2>3. CASE Depth(nodes) = 0
    <3>1. nodes[1] = <<op.node>>
      BY <2>3, <1>2, RootIsLeaf DEF Level
    <3> QED BY <3>1, <2>1, <2>2, <2>3, <1>5 DEF Leaves
  <2>4. CASE Depth(nodes) # 0
    <3>1. nodes'[1] = nodes[1]
      BY <2>4, <1>1, <1>4 DEF Level
    <3> QED BY <3>1, <2>1, <2>2, <2>4 DEF Leaves
  <2> QED BY <2>3, <2>4
<1> QED BY <1>2, <1>3, <1>4, <1>5, <1>6, <1>7 DEF TopEmptied

\* The root is appended to the empty top level.
LEMMA StoreRootGrows ==
    ASSUME IInv, StoreRoot
    PROVE  GrowsTo(nodes, nodes') /\ Leaves' = Leaves
<1>1. /\ Typed(nodes) /\ Depth(nodes) \in Nat /\ Len(nodes) = Depth(nodes) + 1
      /\ nodes \in Seq(Seq(Node))
  BY InvOfTree, ShapedIsTyped DEF Typed, Depth
<1>2. /\ op.call = "root" /\ Rooting(nodes, op.level, op.node)
      /\ op.level = Depth(nodes) /\ op.node \in Node
  BY InvOfTree DEF StoreRoot, OpInv, Rooting
<1>3. nodes[Depth(nodes) + 1] = <<>>
  <2>1. Level(nodes, Depth(nodes)) \in Seq(Node) /\ Len(Level(nodes, Depth(nodes))) = 0
    BY <1>1, <1>2, LevelTyped DEF Rooting
  <2> QED BY <2>1 DEF Level
<1>4. nodes' = [nodes EXCEPT ![Depth(nodes) + 1] = <<op.node>>] /\ op' = Idle
  BY <1>2, <1>3 DEF StoreRoot
<1>5. Len(nodes') = Len(nodes) /\ Depth(nodes') = Depth(nodes)
  BY <1>1, <1>4 DEF Depth
<1>6. ASSUME NEW k \in 0..(Depth(nodes) - 1) PROVE Level(nodes', k) = Level(nodes, k)
  <2>1. k + 1 \in 1..Len(nodes) /\ k + 1 # Depth(nodes) + 1
    BY <1>1
  <2> QED BY <2>1, <1>1, <1>4 DEF Level
<1>7. nodes'[Depth(nodes) + 1] = <<op.node>>
  BY <1>1, <1>4
<1>8. ASSUME NEW k \in 0..Depth(nodes)
      PROVE  Len(Level(nodes', k)) >= Len(Level(nodes, k))
  <2>1. CASE k = Depth(nodes)
    BY <2>1, <1>3, <1>7 DEF Level
  <2>2. CASE k # Depth(nodes)
    <3>1. k \in 0..(Depth(nodes) - 1) /\ LenAt(nodes, k) \in Nat
      BY <2>2, <1>1, LevelTyped
    <3> QED BY <3>1, <1>6 DEF LenAt
  <2> QED BY <2>1, <2>2
<1>9. Leaves' = Leaves
  <2>1. Leaves' = nodes'[1]
    BY <1>4 DEF Leaves, Idle
  <2>2. CASE Depth(nodes) = 0
    BY <2>1, <2>2, <1>2, <1>7 DEF Leaves
  <2>3. CASE Depth(nodes) # 0
    BY <2>1, <2>3, <1>1, <1>6 DEF Leaves, Level
  <2> QED BY <2>2, <2>3
<1> QED BY <1>1, <1>5, <1>8, <1>9 DEF GrowsTo

\* InsertMany and UpdateMany compute one parent.
LEMMA ParentGrows ==
    ASSUME IInv, InsertManyParent \/ UpdateManyParent
    PROVE  GrowsTo(nodes, nodes') /\ Level(nodes', 0) = Level(nodes, 0)
<1>1. Typed(nodes) /\ Depth(nodes) \in Nat
  BY InvOfTree, ShapedIsTyped
<1>2. CASE InsertManyParent
  <2> DEFINE l == op.level
             i == op.index
  <2>1. /\ op.call = "insertMany" /\ l < Depth(nodes)
        /\ i < (LenAt(nodes, l) + 1) \div 2
        /\ nodes' = PutAt(nodes, l + 1, i, Parent(Level(nodes, l), i))
    BY <1>2 DEF InsertManyParent, NumParents, LenAt
  <2>2. l \in Nat /\ i \in Nat /\ InsertingMany(nodes, l, i, op.start)
    BY <2>1, InvOfInsertMany
  <2>3. i <= LenAt(nodes, l + 1)
    BY <2>1, <2>2 DEF InsertingMany, RightUpTo, RightUpToOver, LenAt
  <2> HIDE DEF l, i
  <2>4. Level(nodes, l) \in Seq(Node) /\ 2 * i < Len(Level(nodes, l))
    <3>1. Level(nodes, l) \in Seq(Node) /\ LenAt(nodes, l) = Len(Level(nodes, l))
      BY <2>1, <2>2, <1>1, LevelTyped
    <3> QED BY <3>1, <2>1, <2>2
  <2>5. Parent(Level(nodes, l), i) \in Node
    BY <2>2, <2>4, ParentIsNode
  <2>6. l + 1 \in Nat /\ l + 1 <= Depth(nodes) /\ l + 1 > 0
    BY <2>1, <2>2, <1>1
  <2> QED BY <2>1, <2>2, <2>3, <2>5, <2>6, <1>1, PutAtGrows
<1>3. CASE UpdateManyParent
  <2> DEFINE l == op.level
  <2>1. PICK i \in op.todo :
          nodes' = PutAt(nodes, l, i, Parent(Level(nodes, l - 1), i))
    BY <1>3 DEF UpdateManyParent
  <2>2. op.call = "updateMany" /\ l <= Depth(nodes)
    BY <1>3 DEF UpdateManyParent
  <2>3. /\ l \in 1..(Depth(nodes) + 1) /\ op.todo \in SUBSET Nat
        /\ op.todo \subseteq 0..(LenAt(nodes, l) - 1)
        /\ RightExcept(nodes, l, op.todo)
    BY <2>2, InvOfUpdateMany DEF UpdatingMany
  <2> HIDE DEF l
  <2>4. /\ l \in Nat /\ l > 0 /\ l - 1 \in Nat /\ l - 1 <= Depth(nodes)
    BY <2>2, <2>3, <1>1
  <2>5. Level(nodes, l - 1) \in Seq(Node) /\ LenAt(nodes, l) \in Nat
    BY <2>2, <2>4, <1>1, LevelTyped
  <2>6. i \in Nat /\ i < LenAt(nodes, l)
    BY <2>3, <2>5
  <2>7. LenAt(nodes, l) = (Len(Level(nodes, l - 1)) + 1) \div 2
    BY <2>3 DEF RightExcept, RightExceptOver, LenAt
  <2>8. 2 * i < Len(Level(nodes, l - 1))
    <3>1. Len(Level(nodes, l - 1)) \in Nat
      BY <2>5
    <3> QED BY <3>1, <2>6, <2>7
  <2>9. Parent(Level(nodes, l - 1), i) \in Node
    BY <2>5, <2>6, <2>8, ParentIsNode
  <2>10. i <= LenAt(nodes, l)
    BY <2>5, <2>6
  <2> QED BY <2>1, <2>2, <2>4, <2>6, <2>9, <2>10, <1>1, PutAtGrows
<1> QED BY <1>2, <1>3

\* A step that neither empties the top level nor ends doing so.
LEMMA SameLeavesSeen ==
    ASSUME op.call # "root", op'.call # "root", Level(nodes', 0) = Level(nodes, 0)
    PROVE  Leaves' = Leaves
BY DEF Leaves, Level

\* Whoever holds the lock changes no leaf after the first step, and takes
\* nothing but the root off a level.
LEMMA ContinueGrows ==
    ASSUME IInv, Continue
    PROVE  /\ \/ GrowsTo(nodes, nodes')
              \/ /\ TopEmptied(nodes, nodes')
                 /\ op.call \in {"insert", "update"} /\ op'.call = "root"
           /\ Leaves' = Leaves
<1>1. Typed(nodes) /\ op \in OpType
  BY InvOfTree, ShapedIsTyped
<1>2. CASE InsertLevel
  <2>1. op.call = "insert" /\ op'.call = "insert"
    BY <1>1, <1>2 DEF InsertLevel, OpType
  <2> QED BY <2>1, <1>2, StoreNodeGrows, SameLeavesSeen DEF InsertLevel
<1>3. CASE UpdateLevel
  <2>1. op.call = "update" /\ op'.call = "update"
    BY <1>1, <1>3 DEF UpdateLevel, OpType
  <2> QED BY <2>1, <1>3, StoreNodeGrows, SameLeavesSeen DEF UpdateLevel
<1>4. CASE InsertManyLevel \/ UpdateManyLevel
  <2>1. op.call # "root" /\ op'.call # "root" /\ nodes' = nodes
    BY <1>1, <1>4 DEF InsertManyLevel, UpdateManyLevel, OpType
  <2> QED BY <2>1, <1>1, SameGrows, SameLeavesSeen
<1>5. CASE InsertManyEnd \/ UpdateManyEnd
  <2>1. op.call # "root" /\ op'.call # "root" /\ nodes' = nodes
    BY <1>1, <1>5, IdleIsTyped DEF InsertManyEnd, UpdateManyEnd
  <2> QED BY <2>1, <1>1, SameGrows, SameLeavesSeen
<1>6. CASE InsertManyParent \/ UpdateManyParent
  <2>1. op.call # "root" /\ op'.call # "root"
    BY <1>1, <1>6 DEF InsertManyParent, UpdateManyParent, OpType
  <2> QED BY <2>1, <1>6, ParentGrows, SameLeavesSeen
<1>7. CASE InsertTruncates \/ UpdateTruncates
  BY <1>7, TruncateEmpties
<1> QED BY <1>2, <1>3, <1>4, <1>5, <1>6, <1>7, StoreRootGrows DEF Continue

\* Insert adds one leaf behind the others, and perhaps a level.
LEMMA InsertExtends ==
    ASSUME IInv, NEW leaf \in Leaf, Insert(leaf)
    PROVE  GrowsTo(nodes, nodes') /\ Extends(Level(nodes', 0), Level(nodes, 0))
<1> DEFINE i == Size(nodes)
           g == GrownFor(nodes, i + 1)
           s == Level(nodes, 0)
<1>1. nodes' = PutAt(g, 0, i, leaf)
  BY DEF Insert, GrownFor
<1>2. Typed(nodes) /\ Depth(nodes) \in Nat /\ i = Len(s) /\ i \in Nat /\ s \in Seq(Node)
  BY InvOfTree, ShapedIsTyped, LevelTyped
<1>3. leaf \in Node
  BY NodeAssumption
<1>4. PICK m \in {0, 1} : Grown(g, nodes, m)
  BY <1>2, AppendGrows DEF GrownFor
<1> HIDE DEF g
<1>5. Typed(g) /\ Depth(g) = Depth(nodes) + m /\ Level(g, 0) = s /\ LenAt(g, 0) = i
  BY <1>2, <1>4 DEF Grown, LenAt
<1>6. GrowsTo(g, nodes') /\ Replaced(nodes', g, 0, Put(s, i, leaf))
  BY <1>1, <1>2, <1>3, <1>5, PutAtGrows, PutAtReplaces
<1>7. GrowsTo(nodes, nodes')
  <2>1. Len(g) = Len(nodes) + m /\ Len(nodes) \in Nat /\ Len(nodes') \in Nat
    BY <1>2, <1>5, <1>6 DEF Depth, Typed, Replaced
  <2>2. ASSUME NEW k \in 0..Depth(nodes)
        PROVE  Len(Level(nodes', k)) >= Len(Level(nodes, k))
    <3>1. k \in 0..Depth(g) /\ k \in Nat /\ k <= Depth(nodes) /\ k <= Depth(g)
      BY <1>2, <1>5
    <3>2. Level(g, k) = Level(nodes, k)
      BY <3>1, <1>4 DEF Grown
    <3> QED BY <3>1, <3>2, <1>6 DEF GrowsTo
  <2> QED BY <2>1, <2>2, <1>6 DEF GrowsTo
<1>8. IsPut(Put(s, i, leaf), s, i, leaf)
  BY <1>2, <1>3, PutNode
<1> HIDE DEF i, s
<1>9. Extends(Put(s, i, leaf), s)
  <2>1. Len(Put(s, i, leaf)) = i + 1
    BY <1>2, <1>8 DEF IsPut
  <2>2. ASSUME NEW k \in 1..Len(s) PROVE Put(s, i, leaf)[k] = s[k]
    <3>1. k - 1 \in Nat /\ k - 1 < i + 1 /\ k - 1 # i /\ (k - 1) + 1 = k
      BY <1>2
    <3> QED BY <3>1, <2>1, <1>8 DEF IsPut
  <2> QED BY <2>1, <2>2, <1>2 DEF Extends
<1> QED BY <1>6, <1>7, <1>9 DEF Replaced, s

\* InsertMany adds its leaves behind the others, and the levels above.
LEMMA InsertManyExtends ==
    ASSUME IInv, NEW leaves \in Seq(Leaf), InsertMany(leaves)
    PROVE  GrowsTo(nodes, nodes') /\ Extends(Level(nodes', 0), Level(nodes, 0))
<1> DEFINE s == Level(nodes, 0)
           p == s \o leaves
           m == CeilLog2(Len(p)) - Depth(nodes)
           a == [nodes EXCEPT ![1] = p]
           e == [l \in 1..m |-> <<>>]
<1>1. nodes' = a \o e /\ leaves # <<>>
  BY DEF InsertMany, Level
<1>2. /\ Typed(nodes) /\ nodes \in Seq(Seq(Node)) /\ Len(nodes) >= 1
      /\ Depth(nodes) \in Nat /\ Len(nodes) = Depth(nodes) + 1
      /\ s \in Seq(Leaf) /\ Depth(nodes) = CeilLog2(Len(s))
  BY InvOfTree, ShapedIsTyped DEF Typed, Depth, Shaped, Size, Level
<1>3. /\ p \in Seq(Leaf) /\ Len(p) = Len(s) + Len(leaves) /\ Len(s) \in Nat
      /\ \A j \in 1..Len(s) : p[j] = s[j]
  BY <1>2, ConcatProperties
<1>4. Len(leaves) > 0
  BY <1>1, EmptySeq
<1>5. Extends(p, s)
  BY <1>3, <1>4 DEF Extends
<1>6. m \in Nat
  <2>1. Len(p) \in Nat /\ Len(s) <= Len(p)
    BY <1>3, <1>4
  <2>2. CeilLog2(Len(s)) <= CeilLog2(Len(p)) /\ CeilLog2(Len(p)) \in Nat
    BY <2>1, <1>3, CeilLog2Monotonic
  <2> QED BY <2>2, <1>2
<1> HIDE DEF m, p
<1>7. /\ Len(a) = Len(nodes) /\ a[1] = p
      /\ \A k \in 1..Len(nodes) : k # 1 => a[k] = nodes[k]
      /\ a \in Seq(Seq(Node))
  BY <1>2, <1>3, NodeAssumption
<1> HIDE DEF a
<1>8. Grown(nodes', a, m)
  <2>1. Typed(a)
    BY <1>2, <1>7 DEF Typed
  <2> QED BY <2>1, <1>1, <1>6, ExtendGrows
<1> HIDE DEF e, s
<1>9. Len(nodes') = Len(nodes) + m /\ \A k \in Nat : k <= Depth(nodes) => nodes'[k + 1] = a[k + 1]
  <2>1. Depth(a) = Depth(nodes)
    BY <1>7 DEF Depth
  <2>2. Len(nodes') = Len(nodes) + m
    <3>1. Depth(nodes') = Depth(nodes) + m /\ Typed(nodes')
      BY <2>1, <1>8 DEF Grown
    <3>2. Len(nodes') \in Nat /\ Depth(nodes') = Len(nodes') - 1
      BY <3>1 DEF Typed, Depth
    <3> QED BY <3>1, <3>2, <1>2, <1>6
  <2>3. ASSUME NEW k \in Nat, k <= Depth(nodes) PROVE nodes'[k + 1] = a[k + 1]
    <3>1. k <= Depth(nodes')
      BY <2>1, <2>3, <1>2, <1>6, <1>8 DEF Grown
    <3> QED BY <3>1, <2>1, <2>3, <1>8 DEF Grown, Level
  <2> QED BY <2>2, <2>3
<1>10. GrowsTo(nodes, nodes') /\ Level(nodes', 0) = p
  <2>1. ASSUME NEW k \in 0..Depth(nodes)
        PROVE  Len(Level(nodes', k)) >= Len(Level(nodes, k))
    <3>1. k + 1 \in 1..Len(nodes) /\ k \in Nat /\ k <= Depth(nodes)
      BY <1>2
    <3>2. CASE k = 0
      BY <3>1, <3>2, <1>3, <1>4, <1>7, <1>9 DEF Level, s
    <3>3. CASE k # 0
      <4>1. LenAt(nodes, k) \in Nat
        BY <3>1, <1>2, LevelTyped
      <4>2. nodes'[k + 1] = a[k + 1] /\ a[k + 1] = nodes[k + 1]
        BY <3>1, <3>3, <1>7, <1>9
      <4> QED BY <4>1, <4>2 DEF LenAt, Level
    <3> QED BY <3>2, <3>3
  <2>2. Len(nodes') >= Len(nodes)
    BY <1>2, <1>6, <1>9
  <2>3. Level(nodes', 0) = p
    BY <1>2, <1>7, <1>9 DEF Level
  <2> QED BY <2>1, <2>2, <2>3 DEF GrowsTo
<1> QED BY <1>5, <1>10 DEF s

\* Update and UpdateMany replace leaves.
LEMMA LeavesReplaced ==
    ASSUME IInv, NEW s, nodes' = [nodes EXCEPT ![1] = s], Len(s) = Len(nodes[1])
    PROVE  GrowsTo(nodes, nodes') /\ Len(Level(nodes', 0)) = Len(Level(nodes, 0))
<1>1. /\ Typed(nodes) /\ nodes \in Seq(Seq(Node)) /\ Len(nodes) >= 1
      /\ Depth(nodes) \in Nat /\ Len(nodes) = Depth(nodes) + 1
  BY InvOfTree, ShapedIsTyped DEF Typed, Depth
<1>2. Len(nodes') = Len(nodes) /\ \A k \in 1..Len(nodes) : Len(nodes'[k]) = Len(nodes[k])
  BY <1>1
<1>3. \A k \in 1..Len(nodes) : Len(nodes[k]) \in Nat
  BY <1>1
<1>4. \A k \in 0..Depth(nodes) : k + 1 \in 1..Len(nodes)
  BY <1>1
<1> QED BY <1>1, <1>2, <1>3, <1>4 DEF GrowsTo, Level

LEMMA UpdateReplaces ==
    ASSUME IInv, NEW i \in Keys, NEW leaf \in Leaf, Update(i, leaf)
    PROVE  GrowsTo(nodes, nodes') /\ Len(Level(nodes', 0)) = Len(Level(nodes, 0))
<1>1. /\ nodes' = [nodes EXCEPT ![1] = [nodes[1] EXCEPT ![i + 1] = leaf]]
  BY DEF Update
<1>2. nodes[1] \in Seq(Leaf)
  BY InvOfTree DEF Shaped, Level
<1>3. Len([nodes[1] EXCEPT ![i + 1] = leaf]) = Len(nodes[1])
  BY <1>2
<1> QED BY <1>1, <1>3, LeavesReplaced

LEMMA UpdateManyReplaces ==
    ASSUME IInv, NEW new, UpdateMany(new)
    PROVE  GrowsTo(nodes, nodes') /\ Len(Level(nodes', 0)) = Len(Level(nodes, 0))
<1> DEFINE s == [k \in 1..Len(nodes[1]) |-> IF k - 1 \in DOMAIN new THEN new[k - 1]
                                            ELSE nodes[1][k]]
<1>1. nodes' = [nodes EXCEPT ![1] = s]
  BY DEF UpdateMany
<1>2. nodes[1] \in Seq(Leaf)
  BY InvOfTree DEF Shaped, Level
<1>3. Len(s) = Len(nodes[1])
  BY <1>2
<1> HIDE DEF s
<1> QED BY <1>1, <1>3, LeavesReplaced

\* Every call begins with leaves added behind the others or with as many as
\* there were.
LEMMA CallGrows ==
    ASSUME IInv, Call
    PROVE  /\ GrowsTo(nodes, nodes')
           /\ \/ Extends(Level(nodes', 0), Level(nodes, 0))
              \/ Len(Level(nodes', 0)) = Len(Level(nodes, 0))
<1>1. CASE \E leaf \in Leaf : Insert(leaf)
  BY <1>1, InsertExtends
<1>2. CASE \E leaves \in LeafBatches : InsertMany(leaves)
  <2>1. PICK leaves \in LeafBatches : InsertMany(leaves)
    BY <1>2
  <2>2. PICK n \in 1..MaxBatch : leaves \in [1..n -> Leaf]
    BY DEF LeafBatches
  <2>3. leaves \in Seq(Leaf)
    BY <2>2, BoundAssumption
  <2> QED BY <2>1, <2>3, InsertManyExtends
<1>3. CASE \E index \in Keys, leaf \in Leaf : Update(index, leaf)
  BY <1>3, UpdateReplaces
<1>4. CASE \E S \in IndexSets : \E new \in [S -> Leaf] : UpdateMany(new)
  BY <1>4, UpdateManyReplaces
<1> QED BY <1>1, <1>2, <1>3, <1>4 DEF Call

\* Whatever operations there are, no level is dropped and no node taken off
\* one, but for the root, which Insert and Update append again.
THEOREM LevelsGrow == Spec => LevelsOnlyGrow
<1>1. ASSUME IInv, [Next]_vars, proc # "down", proc' # "down"
      PROVE  \/ GrowsTo(nodes, nodes')
             \/ /\ TopEmptied(nodes, nodes')
                /\ op.call \in {"insert", "update"} /\ op'.call = "root"
  <2>1. CASE Call
    BY <1>1, <2>1, CallGrows
  <2>2. CASE Continue
    BY <1>1, <2>2, ContinueGrows
  <2>3. CASE Persist
    BY <1>1, <2>3, InvOfTree, ShapedIsTyped, SameGrows
       DEF Persist, Sync, CloseSync, CloseDB, Crash, Forget, Open
  <2>4. CASE UNCHANGED vars
    BY <1>1, <2>4, InvOfTree, ShapedIsTyped, SameGrows DEF vars
  <2> QED BY <1>1, <2>1, <2>2, <2>3, <2>4 DEF Next
<1>2. ASSUME IInv, [Next]_vars, proc # "down", proc' # "down"
      PROVE  /\ Len(nodes') >= Len(nodes)
             /\ \A l \in 0..Depth(nodes) :
                  \/ Len(Level(nodes', l)) >= Len(Level(nodes, l))
                  \/ /\ l = Depth(nodes) /\ Len(Level(nodes, l)) = 1
                     /\ op.call \in {"insert", "update"} /\ op'.call = "root"
  <2>1. CASE GrowsTo(nodes, nodes')
    BY <2>1 DEF GrowsTo
  <2>2. CASE /\ TopEmptied(nodes, nodes')
             /\ op.call \in {"insert", "update"} /\ op'.call = "root"
    <3>1. Typed(nodes) /\ Len(nodes) \in Nat /\ Depth(nodes) \in Nat
      BY <1>2, InvOfTree, ShapedIsTyped DEF Typed
    <3>2. ASSUME NEW l \in 0..Depth(nodes)
          PROVE  \/ Len(Level(nodes', l)) >= Len(Level(nodes, l))
                 \/ l = Depth(nodes) /\ Len(Level(nodes, l)) = 1
      <4>1. CASE l = Depth(nodes)
        BY <4>1, <2>2 DEF TopEmptied
      <4>2. CASE l # Depth(nodes)
        <5>1. l \in 0..(Depth(nodes) - 1) /\ LenAt(nodes, l) \in Nat
          BY <4>2, <3>1, LevelTyped
        <5> QED BY <5>1, <2>2 DEF TopEmptied, LenAt
      <4> QED BY <4>1, <4>2
    <3> QED BY <3>1, <3>2, <2>2 DEF TopEmptied
  <2> QED BY <1>1, <1>2, <2>1, <2>2
<1>3. IInv /\ [Next]_vars
        => [proc # "down" /\ proc' # "down" =>
              /\ Len(nodes') >= Len(nodes)
              /\ \A l \in 0..Depth(nodes) :
                   \/ Len(Level(nodes', l)) >= Len(Level(nodes, l))
                   \/ /\ l = Depth(nodes) /\ Len(Level(nodes, l)) = 1
                      /\ op.call \in {"insert", "update"} /\ op'.call = "root"]_vars
  BY <1>2
<1> QED BY <1>3, InductiveInvariant, PTL DEF Spec, LevelsOnlyGrow

-----------------------------------------------------------------------------
(* Disk and memory *)

\* Two settled trees with the same leaves are the same tree.
LEMMA SettledIsUnique ==
    ASSUME NEW t, Shaped(t), Settled(t), NEW u, Shaped(u), Settled(u),
           Level(t, 0) = Level(u, 0)
    PROVE  t = u
<1>1. /\ Typed(t) /\ Typed(u) /\ Depth(t) \in Nat /\ Depth(u) = Depth(t)
  <2>1. Size(t) = Size(u)
    BY DEF Size, Level
  <2> QED BY <2>1, ShapedIsTyped DEF Shaped
<1> DEFINE S == {l \in Nat : l <= Depth(t) => Level(t, l) = Level(u, l)}
<1>2. 0 \in S
  OBVIOUS
<1>3. ASSUME NEW l \in S PROVE l + 1 \in S
  <2> SUFFICES ASSUME l + 1 <= Depth(t) PROVE Level(t, l + 1) = Level(u, l + 1)
    OBVIOUS
  <2>1. /\ l \in Nat /\ l <= Depth(t) /\ l + 1 \in 1..Depth(t) /\ l + 1 \in Nat
        /\ (l + 1) - 1 = l
    BY <1>1
  <2>2. Level(t, l) = Level(u, l)
    BY <2>1
  <2> HIDE DEF S
  <2>3. FullOver(Level(t, l), Level(t, l + 1)) /\ FullOver(Level(u, l), Level(u, l + 1))
    <3>1. Full(t, l + 1) /\ Full(u, l + 1)
      BY <2>1, <1>1 DEF Settled
    <3> QED BY <3>1, <2>1 DEF Full
  <2>4. /\ Level(t, l) \in Seq(Node) /\ Level(t, l + 1) \in Seq(Node)
        /\ Level(u, l + 1) \in Seq(Node)
    BY <2>1, <1>1, LevelTyped
  <2> QED BY <2>2, <2>3, <2>4, FullIsParents
<1> HIDE DEF S
<1>4. S = Nat
  <2>1. S \in SUBSET Nat
    BY DEF S
  <2> QED BY <2>1, <1>2, <1>3, NatSetInduction
<1>5. Len(t) = Len(u) /\ t \in Seq(Seq(Node)) /\ u \in Seq(Seq(Node))
  BY <1>1 DEF Typed, Depth
<1>6. ASSUME NEW k \in 1..Len(t) PROVE t[k] = u[k]
  <2>1. k - 1 \in S /\ k - 1 <= Depth(t) /\ (k - 1) + 1 = k
    BY <1>1, <1>4, <1>5 DEF Depth, Typed
  <2> QED BY <2>1 DEF S, Level
<1> QED BY <1>5, <1>6, SeqEqual

\* Sync saves the leaves.
LEMMA WriteLeavesSaves ==
    ASSUME IInv, WriteLeaves
    PROVE  Saved' = nodes[1]
<1>1. nodes[1] \in Seq(Leaf) /\ Len(nodes[1]) <= MaxSize /\ MaxSize \in Nat
  BY InvOfTree DEF Shaped, Size, Level
<1>2. diskSize' = Len(nodes[1])
  BY DEF WriteLeaves, Size
<1>3. ASSUME NEW k \in 1..Len(nodes[1]) PROVE disk'[k - 1] = nodes[1][k]
  <2>1. k - 1 \in Keys /\ k - 1 < Len(nodes[1]) /\ (k - 1) + 1 = k
    BY <1>1 DEF Keys
  <2> QED BY <2>1 DEF WriteLeaves, Size
<1>4. Saved' = [k \in 1..Len(nodes[1]) |-> nodes[1][k]]
  BY <1>2, <1>3 DEF Saved
<1> QED BY <1>1, <1>4

\* Load finds all the leaves that were saved.
LEMMA LoadIsSaved ==
    ASSUME IInv
    PROVE  Level(Load, 0) = Saved
<1>1. /\ diskSize \in Nat /\ diskSize <= MaxSize /\ MaxSize \in Nat
      /\ disk \in [Keys -> Leaf \union {Nil}] /\ DiskComplete
  BY InvOfTree DEF IInv, TypeOK, DiskInv
<1>2. ASSUME NEW i \in 0..(diskSize - 1) PROVE disk[i] \in Leaf /\ disk[i] # Nil
  <2>1. i \in Keys /\ i < diskSize
    BY <1>1 DEF Keys
  <2> QED BY <2>1, <1>1 DEF DiskComplete
<1>3. CASE diskSize = 0
  BY <1>3 DEF Load, Saved, EmptyTree, Level
<1>4. CASE diskSize # 0
  <2>1. Load = RebuildTree(Saved)
    BY <1>2, <1>4 DEF Load, Saved
  <2>2. ASSUME NEW k \in 1..diskSize PROVE disk[k - 1] \in Leaf
    <3>1. k - 1 \in 0..(diskSize - 1)
      BY <1>1
    <3> QED BY <3>1, <1>2
  <2>3. Saved \in Seq(Leaf) /\ Len(Saved) = diskSize
    BY <2>2, <1>1 DEF Saved
  <2> QED BY <2>1, <2>3, <1>1, RebuildSettles
<1> QED BY <1>3, <1>4

\* A call holds the lock after its first step.
LEMMA CallTakesLock ==
    ASSUME Call
    PROVE  op' # Idle /\ proc # "down" /\ UNCHANGED <<dirty, diskSize, disk, proc>>
<1>1. ASSUME NEW leaf \in Leaf, Insert(leaf) PROVE op'.call = "insert"
  BY <1>1 DEF Insert, Idle
<1>2. ASSUME NEW leaves \in LeafBatches, InsertMany(leaves) PROVE op'.call = "insertMany"
  BY <1>2 DEF InsertMany, Idle
<1>3. ASSUME NEW index \in Keys, NEW leaf \in Leaf, Update(index, leaf)
      PROVE  op'.call = "update"
  BY <1>3 DEF Update, Idle
<1>4. ASSUME NEW new, UpdateMany(new) PROVE op'.call = "updateMany"
  BY <1>4 DEF UpdateMany, Idle
<1>5. op'.call # "none"
  BY <1>1, <1>2, <1>3, <1>4 DEF Call
<1>6. proc # "down" /\ UNCHANGED <<dirty, diskSize, disk, proc>>
  BY DEF Call, Insert, InsertMany, Update, UpdateMany, Unlocked
<1> QED BY <1>5, <1>6, IdleIsTyped

\* Every step leaves on disk what a tree with nothing to sync holds.
LEMMA SyncedPreserved ==
    ASSUME IInv, Synced, [Next]_vars
    PROVE  Synced'
<1>1. CASE Call
  <2>1. op' # Idle /\ diskSize' = diskSize
    BY <1>1, CallTakesLock
  <2> QED BY <2>1 DEF Synced
<1>2. CASE Continue
  <2>1. diskSize' = diskSize
    BY <1>2 DEF Continue, InsertLevel, InsertTruncates, UpdateTruncates, TruncateTop,
                StoreRoot, InsertManyParent, InsertManyLevel, InsertManyEnd, UpdateLevel,
                UpdateManyParent, UpdateManyLevel, UpdateManyEnd
  <2>2. op' # Idle \/ dirty'
    <3>1. op \in OpType /\ Idle.call = "none"
      BY InvOfTree, IdleIsTyped
    <3>2. CASE InsertLevel \/ InsertTruncates \/ UpdateTruncates \/ StoreRoot
      BY <3>1, <3>2 DEF InsertLevel, InsertTruncates, UpdateTruncates, TruncateTop,
                        StoreRoot, OpType
    <3>3. CASE InsertManyParent \/ InsertManyLevel \/ InsertManyEnd
      BY <3>1, <3>3 DEF InsertManyParent, InsertManyLevel, InsertManyEnd, OpType
    <3>4. CASE UpdateLevel
      BY <3>1, <3>4 DEF UpdateLevel, OpType
    <3>5. CASE UpdateManyParent \/ UpdateManyLevel \/ UpdateManyEnd
      BY <3>1, <3>5 DEF UpdateManyParent, UpdateManyLevel, UpdateManyEnd, OpType
    <3> QED BY <1>2, <3>2, <3>3, <3>4, <3>5 DEF Continue
  <2> QED BY <2>1, <2>2 DEF Synced
<1>3. CASE Sync \/ CloseSync
  <2>1. CASE WriteLeaves /\ nodes' = nodes /\ Persistent
    BY <2>1, WriteLeavesSaves DEF Synced
  <2>2. CASE ~dirty /\ UNCHANGED <<disk, diskSize, dirty, nodes, op>> /\ proc # "down"
    <3>1. Saved' = Saved
      BY <2>2 DEF Saved
    <3> QED BY <3>1, <2>2 DEF Synced
  <2>3. dirty \in BOOLEAN
    BY InvOfTree
  <2> QED BY <1>3, <2>1, <2>2, <2>3 DEF Sync, CloseSync, Unlocked
<1>4. CASE CloseDB \/ Crash
  BY <1>4 DEF CloseDB, Crash, Forget, Synced, diskVars
<1>5. CASE Open
  <2>1. Saved' = Saved
    BY <1>5 DEF Open, Saved
  <2>2. Persistent => nodes'[1] = Saved
    BY <1>5, LoadIsSaved DEF Open, Level
  <2> QED BY <1>5, <2>1, <2>2 DEF Open, Synced
<1>6. CASE UNCHANGED vars
  <2>1. Saved' = Saved
    BY <1>6 DEF vars, Saved
  <2> QED BY <2>1, <1>6 DEF vars, Synced
<1> QED BY <1>1, <1>2, <1>3, <1>4, <1>5, <1>6 DEF Next, Persist

LEMMA SyncedInvariant == Spec => [](IInv /\ Synced)
<1>1. Init => Synced
  BY DEF Init, Synced, Saved, EmptyTree
<1>2. Init => IInv
  BY InitHolds
<1>3. IInv /\ Synced /\ [Next]_vars => (IInv /\ Synced)'
  BY NextPreserves, SyncedPreserved
<1> QED BY <1>1, <1>2, <1>3, PTL DEF Spec

\* A tree with nothing left to sync would come back from disk node for node:
\* Insert, InsertMany, Update and UpdateMany build what rebuildTree builds.
THEOREM CleanTreeIsDurable == Spec => []CleanIsDurable
<1>1. IInv /\ Synced => CleanIsDurable
  <2> SUFFICES ASSUME IInv, Synced, Persistent, Unlocked, ~dirty PROVE Load = nodes
    BY DEF CleanIsDurable
  <2>1. Shaped(Load) /\ Settled(Load) /\ Level(Load, 0) = Saved
    BY LoadSettles, LoadIsSaved
  <2>2. Shaped(nodes) /\ Settled(nodes)
    BY InvOfTree DEF Unlocked
  <2>3. Saved = Level(nodes, 0)
    BY DEF Synced, Unlocked, Level
  <2> QED BY <2>1, <2>2, <2>3, SettledIsUnique
<1> QED BY <1>1, SyncedInvariant, PTL

-----------------------------------------------------------------------------
(* The refinement *)

\* The leaves that LeafStore sees.
LeavesSeen == IF proc = "down" THEN Saved ELSE Leaves

\* A free tree shows its leaves.
LEMMA IdleShowsLeaves == ASSUME op = Idle PROVE Leaves = nodes[1]
BY DEF Leaves, Idle

\* A step that begins an operation shows the new leaves.
LEMMA CallShowsLeaves ==
    ASSUME Call
    PROVE  Leaves = nodes[1] /\ Leaves' = nodes'[1]
<1>1. op = Idle
  BY DEF Call, Insert, InsertMany, Update, UpdateMany, Unlocked
<1>2. op'.call # "root"
  BY DEF Call, Insert, InsertMany, Update, UpdateMany, Idle
<1> QED BY <1>1, <1>2, IdleShowsLeaves DEF Leaves

\* A step that begins an operation adds leaves or replaces them.
LEMMA CallImplements ==
    ASSUME IInv, Call
    PROVE  Abstract!Extend \/ Abstract!Replace
<1>1. proc # "down" /\ proc' = proc /\ UNCHANGED <<diskSize, disk>>
  BY CallTakesLock
<1>2. Saved' = Saved
  BY <1>1 DEF Saved
<1>3. Shaped(nodes')
  <2>1. IInv'
    BY NextPreserves DEF Next
  <2> QED BY <2>1 DEF IInv, TreeInv
<1>4. nodes'[1] \in Seq(Leaf)
  BY <1>3 DEF Shaped, Level
<1>5. Extends(nodes'[1], nodes[1]) \/ Len(nodes'[1]) = Len(nodes[1])
  BY CallGrows DEF Level
<1>6. Len(nodes[1]) \in Nat
  BY InvOfTree DEF Shaped, Level
<1>7. Leaves = nodes[1] /\ Leaves' = nodes'[1]
  BY CallShowsLeaves
<1> QED BY <1>1, <1>2, <1>4, <1>5, <1>6, <1>7 DEF Abstract!Extend, Abstract!Replace, Extends

\* Every step of the tree is one of LeafStore or changes nothing it sees.
LEMMA StepImplements ==
    ASSUME IInv, Synced, [Next]_vars
    PROVE  Abstract!Next \/ UNCHANGED <<LeavesSeen, Saved>>
<1>1. CASE Call
  BY <1>1, CallImplements DEF Abstract!Next
<1>2. CASE Continue
  <2>1. /\ UNCHANGED <<diskSize, disk, proc>>
    BY <1>2 DEF Continue, InsertLevel, InsertTruncates, UpdateTruncates, TruncateTop,
                StoreRoot, InsertManyParent, InsertManyLevel, InsertManyEnd, UpdateLevel,
                UpdateManyParent, UpdateManyLevel, UpdateManyEnd
  <2>2. Leaves' = Leaves
    BY <1>2, ContinueGrows
  <2> QED BY <2>1, <2>2 DEF LeavesSeen, Saved
<1>3. CASE Sync \/ CloseSync
  <2>1. /\ proc # "down" /\ proc' # "down" /\ nodes' = nodes
        /\ Leaves = nodes[1] /\ Leaves' = nodes[1]
    BY <1>3, IdleShowsLeaves DEF Sync, CloseSync, Unlocked, Leaves
  <2>2. CASE WriteLeaves
    <3>1. Saved' = nodes[1]
      BY <2>2, WriteLeavesSaves
    <3>2. Abstract!Save
      BY <2>1, <3>1 DEF Abstract!Save
    <3> QED BY <3>2 DEF Abstract!Next
  <2>3. CASE UNCHANGED <<disk, diskSize>>
    BY <2>1, <2>3 DEF LeavesSeen, Saved
  <2> QED BY <1>3, <2>2, <2>3 DEF Sync, CloseSync
<1>4. CASE CloseDB \/ Crash
  <2>1. proc' = "down" /\ UNCHANGED <<diskSize, disk>>
    BY <1>4 DEF CloseDB, Crash, Forget, diskVars
  <2>2. Saved' = Saved
    BY <2>1 DEF Saved
  <2>3. Abstract!Restart
    BY <2>1, <2>2 DEF Abstract!Restart
  <2> QED BY <2>3 DEF Abstract!Next
<1>5. CASE Open
  <2>1. Saved' = Saved
    BY <1>5 DEF Open, Saved
  <2>2. nodes'[1] = Saved
    <3>1. CASE Persistent
      BY <3>1, <1>5, LoadIsSaved DEF Open, Level
    <3>2. CASE ~Persistent
      BY <3>2, <1>5 DEF Open, Synced, Saved, EmptyTree
    <3> QED BY <3>1, <3>2
  <2>3. Leaves' = nodes'[1]
    <3>1. op' = Idle
      BY <1>5 DEF Open, IInv, TreeInv
    <3> QED BY <3>1 DEF Leaves, Idle
  <2> QED BY <1>5, <2>1, <2>2, <2>3 DEF Open, LeavesSeen
<1>6. CASE UNCHANGED vars
  BY <1>6 DEF vars, LeavesSeen, Leaves, Saved
<1> QED BY <1>1, <1>2, <1>3, <1>4, <1>5, <1>6 DEF Next, Persist

\* The tree implements LeafStore: every operation takes effect on the leaves
\* in one step, and a crash or a restart at any point goes back to the leaves
\* of the last Sync, all of them and no others.
THEOREM TreeImplementsLeafStore == Spec => ImplementsLeafStore
<1>1. Init => Abstract!Init
  BY DEF Init, Abstract!Init, Saved, EmptyTree, Leaves, Idle
<1>2. IInv /\ Synced /\ [Next]_vars => [Abstract!Next]_(Abstract!vars)
  BY StepImplements DEF Abstract!vars, LeavesSeen
<1> QED BY <1>1, <1>2, SyncedInvariant, PTL DEF Spec, ImplementsLeafStore, Abstract!Spec

-----------------------------------------------------------------------------
(* What was saved *)

\* No step leaves fewer leaves in memory than there are on disk.
LEMMA KeepsSavedPreserved ==
    ASSUME IInv, Synced, TreeKeepsSaved, [Next]_vars
    PROVE  TreeKeepsSaved'
<1>0. diskSize \in Nat /\ Len(Level(nodes, 0)) \in Nat
  BY InvOfTree, ShapedIsTyped, LevelTyped DEF IInv, TypeOK, LenAt
<1>1. CASE Call
  <2>1. proc # "down" /\ diskSize' = diskSize
    BY <1>1, CallTakesLock
  <2>2. Len(Level(nodes', 0)) >= Len(Level(nodes, 0))
    <3>1. Depth(nodes) \in Nat
      BY InvOfTree, ShapedIsTyped
    <3> QED BY <3>1, <1>1, CallGrows DEF GrowsTo
  <2>3. Len(Level(nodes', 0)) \in Nat
    <3>1. IInv'
      BY NextPreserves
    <3> QED BY <3>1 DEF IInv, TreeInv, Shaped
  <2> QED BY <2>1, <2>2, <2>3, <1>0, <1>1, CallShowsLeaves DEF TreeKeepsSaved, Level
<1>2. CASE Continue
  <2>1. UNCHANGED <<diskSize, proc>>
    BY <1>2 DEF Continue, InsertLevel, InsertTruncates, UpdateTruncates, TruncateTop,
                StoreRoot, InsertManyParent, InsertManyLevel, InsertManyEnd, UpdateLevel,
                UpdateManyParent, UpdateManyLevel, UpdateManyEnd
  <2> QED BY <2>1, <1>2, ContinueGrows DEF TreeKeepsSaved
<1>3. CASE Sync \/ CloseSync
  <2>1. /\ proc # "down" /\ nodes' = nodes /\ op = Idle /\ op' = Idle
    BY <1>3 DEF Sync, CloseSync, Unlocked
  <2>2. diskSize' = Size(nodes) \/ diskSize' = diskSize
    BY <1>3 DEF Sync, CloseSync, WriteLeaves
  <2>3. Leaves = nodes[1] /\ Leaves' = nodes[1]
    BY <2>1 DEF Leaves, Idle
  <2> QED BY <2>1, <2>2, <2>3, <1>0 DEF TreeKeepsSaved, Size, Level
<1>4. CASE CloseDB \/ Crash
  BY <1>4 DEF CloseDB, Crash, Forget, TreeKeepsSaved
<1>5. CASE Open
  <2>1. diskSize' = diskSize /\ op' = Idle
    BY <1>5 DEF Open, IInv, TreeInv
  <2>2. Leaves' = nodes'[1]
    BY <2>1 DEF Leaves, Idle
  <2>3. CASE Persistent
    <3>1. nodes'[1] = Saved
      BY <2>3, <1>5, LoadIsSaved DEF Open, Level
    <3>2. Len(Saved) = diskSize
      BY <1>0 DEF Saved
    <3> QED BY <3>1, <3>2, <2>1, <2>2, <1>0 DEF TreeKeepsSaved
  <2>4. CASE ~Persistent
    <3>1. diskSize = 0 /\ nodes'[1] = <<>>
      BY <2>4, <1>5 DEF Open, Synced, EmptyTree
    <3> QED BY <3>1, <2>1, <2>2 DEF TreeKeepsSaved
  <2> QED BY <2>3, <2>4
<1>6. CASE UNCHANGED vars
  BY <1>6 DEF vars, TreeKeepsSaved, Leaves
<1> QED BY <1>1, <1>2, <1>3, <1>4, <1>5, <1>6 DEF Next, Persist

\* A tree that is open holds at least as many leaves as were ever saved, so
\* that no Sync, and no cleanup in it, takes a saved leaf off the disk.
THEOREM SavedLeavesStay == Spec => []TreeKeepsSaved
<1>1. Init => TreeKeepsSaved
  BY DEF Init, TreeKeepsSaved, Leaves, Idle, EmptyTree
<1>2. (IInv /\ Synced) /\ TreeKeepsSaved /\ [Next]_vars => TreeKeepsSaved'
  BY KeepsSavedPreserved
<1> QED BY <1>1, <1>2, SyncedInvariant, PTL DEF Spec

=============================================================================
