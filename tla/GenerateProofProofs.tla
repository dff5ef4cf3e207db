------------------------- MODULE GenerateProofProofs -------------------------
(***************************************************************************)
(* GenerateProof beside the writers.  With no lock around it every read of *)
(* t.nodes is in range but for that of the only leaf, while it is stored   *)
(* again; under the lock of the caller it never panics, and every proof    *)
(* verifies, is about the tree as it is, and is accepted by the circuit    *)
(* unless a sibling is zero or does not fit.                               *)
(***************************************************************************)
EXTENDS Circuit, LeafStoreProofs

ProofRec == [at : {"idle", "leaf", "loop", "sibling", "right", "root", "done", "panic"},
             index : Nat, level : Nat, leafIndex : Nat, leaf : Cell,
             pathBits : Nat, siblings : Seq(Cell), root : Cell]

\* Where in a tree t the loop of GenerateProof is, when whoever takes the lock
\* finds n leaves.  Their number only grows, and so do the levels below the
\* top one, so that this survives every step of a writer.  What has been read
\* is a node, never the zero value.
Reading(me, t, n) ==
    /\ me.at \notin {"idle", "panic"} => me.leafIndex < n
    /\ me.at \in {"leaf", "loop", "sibling", "right"} =>
         me.index = me.leafIndex \div 2 ^ me.level
    /\ me.at = "leaf" => me.level = 0
    /\ me.at \in {"sibling", "right"} =>
         me.level < Depth(t) /\ me.index < LenAt(t, me.level)
    /\ me.at = "right" =>
         me.index % 2 = 0 /\ me.index + 1 < LenAt(t, me.level)
    /\ me.at \notin {"idle", "leaf", "panic"} => me.leaf \in Node
    /\ me.siblings \in Seq(Node)

NumLeaves == Len(Leaves)

ReadInv == PvTypeOK /\ \A p \in Prover : Reading(pv[p], nodes, NumLeaves)

-----------------------------------------------------------------------------
(* Reading without the lock *)

\* In a settled tree a leaf has an ancestor at every level.
LEMMA PathInRange ==
    ASSUME NEW t, Shaped(t), Settled(t), NEW i \in Nat, i < Size(t),
           NEW l \in Nat, l <= Depth(t)
    PROVE  i \div 2 ^ l < LenAt(t, l)
<1> DEFINE S == {k \in Nat : k <= Depth(t) => i \div 2 ^ k < LenAt(t, k)}
<1>1. Typed(t) /\ Depth(t) \in Nat /\ Size(t) = LenAt(t, 0)
  BY ShapedIsTyped
<1>2. 0 \in S
  BY <1>1, HalvedAgain
<1>3. ASSUME NEW k \in S PROVE k + 1 \in S
  <2> SUFFICES ASSUME k + 1 <= Depth(t) PROVE i \div 2 ^ (k + 1) < LenAt(t, k + 1)
    OBVIOUS
  <2>1. /\ k \in Nat /\ k <= Depth(t) /\ k + 1 \in 1..Depth(t) /\ (k + 1) - 1 = k
    BY <1>1
  <2>2. i \div 2 ^ k < LenAt(t, k)
    BY <2>1
  <2> HIDE DEF S
  <2>3. LenAt(t, k) \in Nat
    BY <2>1, <1>1, LevelTyped
  <2>4. LenAt(t, k + 1) = (LenAt(t, k) + 1) \div 2
    BY <2>1 DEF Settled, Full, FullOver, LenAt
  <2> DEFINE q == i \div 2 ^ k
  <2>5. q \in Nat /\ q \div 2 = i \div 2 ^ (k + 1)
    BY <2>1, HalvedAgain
  <2>6. q < LenAt(t, k)
    BY <2>2
  <2> HIDE DEF q
  <2>7. q \div 2 < (LenAt(t, k) + 1) \div 2
    BY <2>3, <2>5, <2>6
  <2> QED BY <2>4, <2>5, <2>7
<1>4. S = Nat
  <2>1. S \in SUBSET Nat
    OBVIOUS
  <2> HIDE DEF S
  <2> QED BY <1>2, <1>3, <2>1, NatSetInduction
<1>5. l \in S
  <2> HIDE DEF S
  <2> QED BY <1>4
<1> QED BY <1>5

\* How many leaves there are to see: those of level 0, or the only one, while
\* it is stored again.
LEMMA LeavesNumbered ==
    ASSUME IInv
    PROVE  /\ NumLeaves \in Nat
           /\ op = Idle => NumLeaves = Size(nodes)
           /\ \/ NumLeaves = Size(nodes)
              \/ op.call = "root" /\ Depth(nodes) = 0 /\ NumLeaves = 1
<1>1. LenAt(nodes, 0) \in Nat /\ Size(nodes) = LenAt(nodes, 0)
  BY InvOfTree, ShapedIsTyped, LevelTyped DEF Typed, Depth
<1>2. op = Idle => Leaves = nodes[1]
  BY IdleShowsLeaves
<1> QED BY <1>1, <1>2 DEF NumLeaves, Leaves, Size

\* A step of a writer: where the reader goes on, nothing has been taken away.
LEMMA WriterGrows ==
    ASSUME IInv, Call \/ Continue
    PROVE  /\ Depth(nodes) \in Nat /\ Depth(nodes') \in Nat
           /\ Depth(nodes') >= Depth(nodes)
           /\ \A l \in 0..(Depth(nodes) - 1) :
                /\ LenAt(nodes, l) \in Nat /\ LenAt(nodes', l) \in Nat
                /\ LenAt(nodes', l) >= LenAt(nodes, l)
           /\ NumLeaves \in Nat /\ NumLeaves' \in Nat
           /\ NumLeaves' >= NumLeaves
<1>1. /\ Typed(nodes) /\ Depth(nodes) \in Nat /\ Len(nodes) = Depth(nodes) + 1
  BY InvOfTree, ShapedIsTyped DEF Typed, Depth
<1>2. IInv'
  BY NextPreserves DEF Next
<1>3. Typed(nodes') /\ Depth(nodes') \in Nat /\ Len(nodes') = Depth(nodes') + 1
  <2>1. Shaped(nodes')
    BY <1>2 DEF IInv, TreeInv
  <2> QED BY <2>1, ShapedIsTyped DEF Typed, Depth
<1>4. GrowsTo(nodes, nodes') \/ TopEmptied(nodes, nodes')
  BY CallGrows, ContinueGrows
<1>5. Depth(nodes') >= Depth(nodes)
  BY <1>1, <1>3, <1>4 DEF GrowsTo, TopEmptied
<1>6. ASSUME NEW l \in 0..(Depth(nodes) - 1)
      PROVE  /\ LenAt(nodes, l) \in Nat /\ LenAt(nodes', l) \in Nat
             /\ LenAt(nodes', l) >= LenAt(nodes, l)
  <2>1. l \in Nat /\ l <= Depth(nodes) /\ l <= Depth(nodes') /\ l \in 0..Depth(nodes)
    BY <1>1, <1>3, <1>5
  <2>2. LenAt(nodes, l) \in Nat /\ LenAt(nodes', l) \in Nat
    BY <2>1, <1>1, <1>3, LevelTyped
  <2>3. CASE GrowsTo(nodes, nodes')
    BY <2>1, <2>2, <2>3 DEF GrowsTo, LenAt
  <2>4. CASE TopEmptied(nodes, nodes')
    BY <2>2, <2>4 DEF TopEmptied, LenAt
  <2> QED BY <2>2, <2>3, <2>4, <1>4
<1>7. NumLeaves \in Nat /\ NumLeaves' \in Nat
  <2>1. LenAt(nodes', 0) \in Nat /\ Size(nodes') = LenAt(nodes', 0)
    BY <1>3, LevelTyped DEF LenAt, Level, Size
  <2>2. NumLeaves' \in Nat
    BY <2>1 DEF NumLeaves, Leaves, Size
  <2> QED BY <2>2, LeavesNumbered
<1>8. NumLeaves' >= NumLeaves
  <2>1. CASE Call
    <3>1. Leaves = nodes[1] /\ Leaves' = nodes'[1]
      BY <2>1, CallShowsLeaves
    <3> QED BY <2>1, <3>1, <1>7, CallGrows DEF NumLeaves, Extends, Level
  <2>2. CASE Continue
    BY <2>2, <1>7, ContinueGrows DEF NumLeaves
  <2> QED BY <2>1, <2>2
<1> QED BY <1>1, <1>3, <1>5, <1>6, <1>7, <1>8

LEMMA WriterKeepsReading ==
    ASSUME IInv, Call \/ Continue, NEW me \in ProofRec, Reading(me, nodes, NumLeaves)
    PROVE  Reading(me, nodes', NumLeaves')
<1>1. me.level \in Nat /\ me.index \in Nat /\ me.leafIndex \in Nat
  BY DEF ProofRec
<1>2. ASSUME me.at \in {"sibling", "right"}
      PROVE  /\ me.level < Depth(nodes')
             /\ me.index < LenAt(nodes', me.level)
             /\ me.index + 1 < LenAt(nodes, me.level) =>
                  me.index + 1 < LenAt(nodes', me.level)
  <2>1. me.level < Depth(nodes) /\ me.index < LenAt(nodes, me.level)
    BY <1>2 DEF Reading
  <2>2. me.level \in 0..(Depth(nodes) - 1) /\ me.level < Depth(nodes')
    BY <2>1, <1>1, WriterGrows
  <2>3. /\ LenAt(nodes', me.level) >= LenAt(nodes, me.level)
        /\ LenAt(nodes', me.level) \in Nat /\ LenAt(nodes, me.level) \in Nat
    BY <2>2, WriterGrows
  <2> QED BY <2>1, <2>2, <2>3, <1>1
<1>3. me.leafIndex < NumLeaves => me.leafIndex < NumLeaves'
  BY <1>1, WriterGrows
<1> QED BY <1>2, <1>3 DEF Reading

\* A read that is in range does not panic.
LEMMA ReadsGoes ==
    ASSUME NEW p, NEW l, NEW i, NEW r, Reads(p, l, i, r)
    PROVE  \/ Goes(p, Panicked)
           \/ Goes(p, r) /\ l <= Depth(nodes) /\ i < LenAt(nodes, l)
BY DEF Reads, LenAt

LEMMA ReadsInTheTree ==
    ASSUME NEW p, NEW l, NEW i, NEW r, Reads(p, l, i, r),
           l <= Depth(nodes), i < LenAt(nodes, l)
    PROVE  Goes(p, r)
BY DEF Reads, LenAt

LEMMA PanickedReads == Panicked \in ProofRec /\ Reading(Panicked, nodes, NumLeaves)
<1>1. NoProof \in ProofRec
  BY DEF NoProof, ProofRec, Cell
<1>2. Panicked \in ProofRec /\ Panicked.at = "panic"
  BY <1>1 DEF Panicked, ProofRec
<1>3. Panicked.siblings = <<>>
  BY DEF Panicked, NoProof
<1> QED BY <1>2, <1>3 DEF Reading

\* What a node of a typed tree is, and its root.
LEMMA AtIsCell ==
    ASSUME NEW t, Typed(t), NEW l \in Nat, l <= Depth(t),
           NEW i \in Nat, i < LenAt(t, l)
    PROVE  At(t, l, i) \in Node
<1>1. Level(t, l) \in Seq(Node) /\ LenAt(t, l) = Len(Level(t, l))
  BY LevelTyped
<1>2. i + 1 \in 1..Len(Level(t, l))
  BY <1>1
<1> QED BY <1>1, <1>2 DEF At, Level

LEMMA RootIsCell ==
    ASSUME NEW t, Typed(t)
    PROVE  Root(t) \in Cell
<1>1. /\ Depth(t) \in Nat /\ LenAt(t, Depth(t)) \in Nat
      /\ LenAt(t, Depth(t)) = Len(Level(t, Depth(t)))
  BY LevelTyped DEF Typed, Depth
<1>2. HasRoot(t) => At(t, Depth(t), 0) \in Node
  BY <1>1, AtIsCell DEF HasRoot
<1> QED BY <1>2 DEF Root, Cell

\* The locals after a step of prover p, and everybody else's.
LEMMA GoesSets ==
    ASSUME PvTypeOK, NEW p \in Prover, NEW r, Goes(p, r)
    PROVE  /\ UNCHANGED vars
           /\ pv'[p] = r /\ \A q \in Prover : q # p => pv'[q] = pv[q]
           /\ r \in ProofRec => PvTypeOK'
<1>1. UNCHANGED vars /\ pv' = [pv EXCEPT ![p] = r] /\ pv \in [Prover -> ProofRec]
  BY DEF Goes, PvTypeOK, ProofRec
<1>2. r \in ProofRec => pv' \in [Prover -> ProofRec]
  BY <1>1
<1> QED BY <1>1, <1>2 DEF PvTypeOK, ProofRec

LEMMA NoProofIsTyped == NoProof \in ProofRec
BY DEF NoProof, ProofRec, Cell

\* The index is in range when it is tested, with the lock held.
LEMMA StartReads ==
    ASSUME IInv, NEW p \in Prover, NEW index \in Keys, Start(p, index)
    PROVE  \E r \in ProofRec : Goes(p, r) /\ Reading(r, nodes, NumLeaves)
<1> DEFINE r == [NoProof EXCEPT !.at = "leaf", !.index = index, !.leafIndex = index]
<1>1. index \in Nat /\ index < Size(nodes) /\ Goes(p, r)
  BY InvOfTree DEF Start, Keys
<1>2. r \in ProofRec
  BY <1>1, NoProofIsTyped DEF ProofRec
<1>3. /\ r.at = "leaf" /\ r.index = index /\ r.leafIndex = index /\ r.level = 0
      /\ r.siblings = <<>>
  BY DEF NoProof
<1>4. index \div 2 ^ 0 = index
  BY <1>1, HalvedAgain
<1>5. index < NumLeaves
  BY <1>1, LeavesNumbered DEF Start, RLocked
<1> HIDE DEF r
<1>6. Reading(r, nodes, NumLeaves)
  BY <1>1, <1>3, <1>4, <1>5 DEF Reading
<1> QED BY <1>1, <1>2, <1>6

LEMMA ReadLeafReads ==
    ASSUME IInv, ReadInv, NEW p \in Prover, ReadLeaf(p)
    PROVE  \E r \in ProofRec : Goes(p, r) /\ Reading(r, nodes, NumLeaves)
<1> DEFINE me == pv[p]
           r == [me EXCEPT !.at = "loop", !.leaf = At(nodes, 0, me.index)]
<1>1. /\ me \in ProofRec /\ Reading(me, nodes, NumLeaves) /\ me.at = "leaf"
      /\ Reads(p, 0, me.index, r)
  BY DEF ReadInv, PvTypeOK, ProofRec, ReadLeaf
<1>2. Typed(nodes) /\ Depth(nodes) \in Nat
  BY InvOfTree, ShapedIsTyped
<1>3. CASE Goes(p, Panicked)
  BY <1>3, PanickedReads
<1>4. SUFFICES ASSUME Goes(p, r), me.index < LenAt(nodes, 0)
               PROVE  r \in ProofRec /\ Reading(r, nodes, NumLeaves)
  BY <1>1, <1>3, ReadsGoes
<1> HIDE DEF me
<1>5. At(nodes, 0, me.index) \in Node
  <2>1. me.index \in Nat
    BY <1>1 DEF ProofRec
  <2> QED BY <2>1, <1>2, <1>4, AtIsCell
<1>6. r \in ProofRec
  BY <1>1, <1>5 DEF ProofRec, Cell
<1>7. /\ r.at = "loop" /\ r.index = me.index /\ r.leafIndex = me.leafIndex
      /\ r.level = me.level /\ r.siblings = me.siblings /\ r.leaf \in Node
  BY <1>1, <1>5 DEF ProofRec
<1> HIDE DEF r
<1> QED BY <1>1, <1>6, <1>7 DEF Reading

\* With the lock free the tree is settled, and the level that Depth allows
\* has the node that the loop has come to.
LEMMA TestDepthReads ==
    ASSUME IInv, ReadInv, NEW p \in Prover, TestDepth(p)
    PROVE  \E r \in ProofRec : Goes(p, r) /\ Reading(r, nodes, NumLeaves)
<1> DEFINE me == pv[p]
           r == [me EXCEPT !.at = IF me.level < Depth(nodes) THEN "sibling" ELSE "root"]
<1>1. /\ me \in ProofRec /\ Reading(me, nodes, NumLeaves) /\ me.at = "loop" /\ Goes(p, r)
      /\ op = Idle
  BY DEF ReadInv, PvTypeOK, ProofRec, TestDepth, RLocked
<1>2. Shaped(nodes) /\ Settled(nodes) /\ Depth(nodes) \in Nat
  BY <1>1, InvOfTree, ShapedIsTyped
<1> HIDE DEF me
<1>3. me.level \in Nat /\ me.leafIndex \in Nat
  BY <1>1 DEF ProofRec
<1>4. me.index = me.leafIndex \div 2 ^ me.level /\ me.leafIndex < Size(nodes)
  BY <1>1, LeavesNumbered DEF Reading
<1>5. r \in ProofRec
  BY <1>1 DEF ProofRec
<1>6. /\ r.at = IF me.level < Depth(nodes) THEN "sibling" ELSE "root"
      /\ r.index = me.index /\ r.leafIndex = me.leafIndex /\ r.level = me.level
      /\ r.siblings = me.siblings /\ r.leaf = me.leaf
  BY <1>1 DEF ProofRec
<1> HIDE DEF r
<1>7. me.level < Depth(nodes) => me.index < LenAt(nodes, me.level)
  BY <1>2, <1>3, <1>4, PathInRange
<1> QED BY <1>1, <1>4, <1>5, <1>6, <1>7 DEF Reading

\* The locals after the body of the loop with a sibling and its bit.
With(me, s, bit) == [NextLevel(me) EXCEPT !.siblings = Append(@, s),
                                          !.pathBits = @ + bit * 2 ^ Len(me.siblings)]

LEMMA NextIsTyped ==
    ASSUME NEW me \in ProofRec
    PROVE  /\ NextLevel(me) \in ProofRec
           /\ NextLevel(me).at = "loop" /\ NextLevel(me).level = me.level + 1
           /\ NextLevel(me).index = me.index \div 2
           /\ NextLevel(me).leafIndex = me.leafIndex /\ NextLevel(me).leaf = me.leaf
           /\ NextLevel(me).siblings = me.siblings /\ NextLevel(me).pathBits = me.pathBits
           /\ NextLevel(me).root = me.root
<1> DEFINE a == me.level + 1
           b == me.index \div 2
<1>1. a \in Nat /\ b \in Nat
  <2>1. me.level \in Nat /\ me.index \in Nat
    BY DEF ProofRec
  <2> QED BY <2>1
<1>2. NextLevel(me) = [me EXCEPT !.at = "loop", !.level = a, !.index = b]
  BY DEF NextLevel, ProofRec
<1> HIDE DEF a, b
<1>3. [me EXCEPT !.at = "loop", !.level = a, !.index = b] \in ProofRec
  BY <1>1 DEF ProofRec
<1> QED BY <1>2, <1>3 DEF ProofRec, a, b

LEMMA WithIsTyped ==
    ASSUME NEW me \in ProofRec, NEW s \in Cell, NEW bit \in {0, 1}
    PROVE  /\ With(me, s, bit) \in ProofRec
           /\ With(me, s, bit).at = "loop" /\ With(me, s, bit).level = me.level + 1
           /\ With(me, s, bit).index = me.index \div 2
           /\ With(me, s, bit).leafIndex = me.leafIndex /\ With(me, s, bit).leaf = me.leaf
           /\ With(me, s, bit).siblings = Append(me.siblings, s)
           /\ With(me, s, bit).pathBits = me.pathBits + bit * 2 ^ Len(me.siblings)
           /\ With(me, s, bit).root = me.root
<1> DEFINE n == NextLevel(me)
<1>1. /\ n \in ProofRec /\ n.at = "loop" /\ n.level = me.level + 1
      /\ n.index = me.index \div 2 /\ n.leafIndex = me.leafIndex /\ n.leaf = me.leaf
      /\ n.siblings = me.siblings /\ n.pathBits = me.pathBits /\ n.root = me.root
  BY NextIsTyped
<1> DEFINE a == Append(me.siblings, s)
           b == me.pathBits + bit * 2 ^ Len(me.siblings)
<1>2. a \in Seq(Cell) /\ b \in Nat
  <2>1. Len(me.siblings) \in Nat /\ me.pathBits \in Nat /\ me.siblings \in Seq(Cell)
    BY DEF ProofRec
  <2>2. 2 ^ Len(me.siblings) \in Nat
    BY <2>1, TwoPower
  <2>3. b = me.pathBits \/ b = me.pathBits + 2 ^ Len(me.siblings)
    BY <2>1, <2>2
  <2> QED BY <2>1, <2>2, <2>3
<1> HIDE DEF n
<1>3. With(me, s, bit) = [n EXCEPT !.siblings = a, !.pathBits = b]
  BY <1>1 DEF With, n, ProofRec
<1> HIDE DEF a, b
<1>4. [n EXCEPT !.siblings = a, !.pathBits = b] \in ProofRec
  BY <1>1, <1>2 DEF ProofRec
<1> QED BY <1>1, <1>3, <1>4 DEF ProofRec, a, b

\* What the body of the loop does at level l and index i of a tree t.
Collects(me, r, t, l, i) ==
    \/ /\ i % 2 = 1
       /\ r = With(me, At(t, l, i - 1), 1)
    \/ /\ i % 2 = 0 /\ i + 1 < LenAt(t, l)
       /\ r = With(me, At(t, l, i + 1), 0)
    \/ /\ i % 2 = 0 /\ ~(i + 1 < LenAt(t, l))
       /\ r = NextLevel(me)

\* A left child stays where it is until its right sibling is read.
LEMMA TestCollects ==
    ASSUME IInv, ReadInv, NEW p \in Prover, TestSibling(p)
    PROVE  /\ pv[p].at = "sibling"
           /\ \/ /\ pv[p].index % 2 = 0
                 /\ pv[p].index + 1 < LenAt(nodes, pv[p].level)
                 /\ Goes(p, [pv[p] EXCEPT !.at = "right"])
              \/ \E r : Goes(p, r) /\ Collects(pv[p], r, nodes, pv[p].level, pv[p].index)
<1> DEFINE me == pv[p]
<1>1. me.at = "sibling" /\ me.index % 2 = 0
  BY DEF TestSibling
<1>2. CASE me.index + 1 < Len(Level(nodes, me.level))
  BY <1>1, <1>2 DEF TestSibling, LenAt
<1>3. CASE ~(me.index + 1 < Len(Level(nodes, me.level)))
  <2>1. Goes(p, NextLevel(me))
    BY <1>3 DEF TestSibling
  <2> QED BY <1>1, <1>3, <2>1 DEF Collects, LenAt
<1> QED BY <1>1, <1>2, <1>3

LEMMA SiblingCollects ==
    ASSUME IInv, ReadInv, NEW p \in Prover, ReadSibling(p)
    PROVE  /\ pv[p].at \in {"sibling", "right"}
           /\ \E r : Goes(p, r) /\ Collects(pv[p], r, nodes, pv[p].level, pv[p].index)
<1> DEFINE me == pv[p]
           l == me.level
           i == me.index
<1>1. /\ me \in ProofRec /\ Reading(me, nodes, NumLeaves) /\ me.at \in {"sibling", "right"}
  BY DEF ReadInv, PvTypeOK, ProofRec, ReadSibling
<1>2. /\ i \in Nat /\ l \in Nat /\ i < LenAt(nodes, l) /\ l < Depth(nodes)
      /\ Depth(nodes) \in Nat /\ LenAt(nodes, l) \in Nat /\ l <= Depth(nodes)
      /\ me.at = "right" => i % 2 = 0 /\ i + 1 < LenAt(nodes, l)
  <2>1. /\ i \in Nat /\ l \in Nat /\ i < LenAt(nodes, l) /\ l < Depth(nodes)
        /\ me.at = "right" => i % 2 = 0 /\ i + 1 < LenAt(nodes, l)
    BY <1>1 DEF Reading, ProofRec
  <2>2. Typed(nodes) /\ Depth(nodes) \in Nat
    BY InvOfTree, ShapedIsTyped
  <2>3. l <= Depth(nodes)
    BY <2>1, <2>2
  <2> QED BY <2>1, <2>2, <2>3, LevelTyped
<1>3. CASE i % 2 = 1
  <2> DEFINE r == [NextLevel(me) EXCEPT
                     !.siblings = Append(@, At(nodes, l, i - 1)),
                     !.pathBits = @ + 1 * 2 ^ Len(me.siblings)]
  <2>1. Reads(p, l, i - 1, r)
    BY <1>3 DEF ReadSibling
  <2>2. i - 1 < LenAt(nodes, l)
    BY <1>2
  <2> HIDE DEF r
  <2>3. Goes(p, r)
    BY <2>1, <2>2, <1>2, ReadsInTheTree
  <2> QED BY <1>1, <1>3, <2>3 DEF Collects, With, r
<1>4. CASE i % 2 = 0
  <2> DEFINE bit == i % 2
             r == With(me, At(nodes, l, i + 1), bit)
  <2>0. bit # 1
    BY <1>4
  <2>1. me.at = "right" /\ Reads(p, l, i + 1, r)
    BY <2>0, Zenon DEF ReadSibling, With
  <2>2. i + 1 < LenAt(nodes, l)
    BY <1>2, <2>1
  <2> HIDE DEF r
  <2>3. Goes(p, r)
    BY <2>1, <2>2, <1>2, ReadsInTheTree
  <2> QED BY <1>1, <1>4, <2>2, <2>3 DEF Collects, r
<1>5. i % 2 = 0 \/ i % 2 = 1
  BY <1>2
<1> QED BY <1>3, <1>4, <1>5

\* The sibling is in range and a node, and the index is halved again.
LEMMA CollectsReads ==
    ASSUME NEW t, Typed(t), NEW n, NEW me \in ProofRec, me.at \in {"sibling", "right"},
           Reading(me, t, n), NEW r, Collects(me, r, t, me.level, me.index)
    PROVE  r \in ProofRec /\ Reading(r, t, n)
<1> DEFINE l == me.level
           i == me.index
<1>1. /\ l \in Nat /\ i \in Nat /\ me.leafIndex \in Nat /\ l < Depth(t)
      /\ i < LenAt(t, l) /\ i = me.leafIndex \div 2 ^ l /\ me.leafIndex < n
      /\ me.siblings \in Seq(Node) /\ me.leaf \in Node
  BY DEF ProofRec, Reading
<1>2. LenAt(t, l) \in Nat /\ l <= Depth(t)
  BY <1>1, LevelTyped DEF Typed, Depth
<1> HIDE DEF l, i
<1>3. i % 2 = 1 => At(t, l, i - 1) \in Node
  BY <1>1, <1>2, AtIsCell
<1>4. i + 1 < LenAt(t, l) => At(t, l, i + 1) \in Node
  BY <1>1, <1>2, AtIsCell
<1>5. /\ r \in ProofRec /\ r.at = "loop" /\ r.level = l + 1 /\ r.index = i \div 2
      /\ r.leafIndex = me.leafIndex /\ r.leaf = me.leaf
      /\ r.siblings \in Seq(Node)
  <2>1. CASE i % 2 = 1 /\ r = With(me, At(t, l, i - 1), 1)
    <3> DEFINE x == At(t, l, i - 1)
    <3>1. x \in Node /\ x \in Cell
      BY <2>1, <1>3 DEF Cell
    <3> HIDE DEF x
    <3>2. r = With(me, x, 1)
      BY <2>1 DEF x
    <3>3. Append(me.siblings, x) \in Seq(Node)
      BY <3>1, <1>1
    <3> QED BY <3>1, <3>2, <3>3, <1>1, WithIsTyped DEF l, i
  <2>2. CASE i + 1 < LenAt(t, l) /\ r = With(me, At(t, l, i + 1), 0)
    <3> DEFINE x == At(t, l, i + 1)
    <3>1. x \in Node /\ x \in Cell
      BY <2>2, <1>4 DEF Cell
    <3> HIDE DEF x
    <3>2. r = With(me, x, 0)
      BY <2>2 DEF x
    <3>3. Append(me.siblings, x) \in Seq(Node)
      BY <3>1, <1>1
    <3> QED BY <3>1, <3>2, <3>3, <1>1, WithIsTyped DEF l, i
  <2>3. CASE r = NextLevel(me)
    BY <2>3, <1>1, NextIsTyped DEF l, i
  <2> QED BY <2>1, <2>2, <2>3 DEF Collects, l, i
<1>6. i \div 2 = me.leafIndex \div 2 ^ (l + 1)
  BY <1>1, HalvedAgain
<1> QED BY <1>1, <1>5, <1>6 DEF Reading

LEMMA TestSiblingReads ==
    ASSUME IInv, ReadInv, NEW p \in Prover, TestSibling(p)
    PROVE  \E r \in ProofRec : Goes(p, r) /\ Reading(r, nodes, NumLeaves)
<1> DEFINE me == pv[p]
<1>1. Typed(nodes)
  BY InvOfTree, ShapedIsTyped
<1>2. me \in ProofRec /\ Reading(me, nodes, NumLeaves) /\ me.at = "sibling"
  BY DEF ReadInv, PvTypeOK, ProofRec, TestSibling
<1>3. CASE /\ me.index % 2 = 0 /\ me.index + 1 < LenAt(nodes, me.level)
           /\ Goes(p, [me EXCEPT !.at = "right"])
  <2> DEFINE r == [me EXCEPT !.at = "right"]
  <2> HIDE DEF me
  <2>1. /\ r \in ProofRec /\ r.at = "right" /\ r.index = me.index /\ r.level = me.level
        /\ r.leafIndex = me.leafIndex /\ r.leaf = me.leaf /\ r.siblings = me.siblings
    BY <1>2 DEF ProofRec
  <2>2. Goes(p, r)
    BY <1>3
  <2> HIDE DEF r
  <2>3. Reading(r, nodes, NumLeaves)
    BY <1>2, <1>3, <2>1 DEF Reading
  <2> QED BY <2>1, <2>2, <2>3
<1>4. CASE \E r : Goes(p, r) /\ Collects(me, r, nodes, me.level, me.index)
  BY <1>1, <1>2, <1>4, CollectsReads
<1> QED BY <1>3, <1>4, TestCollects

LEMMA ReadSiblingReads ==
    ASSUME IInv, ReadInv, NEW p \in Prover, ReadSibling(p)
    PROVE  \E r \in ProofRec : Goes(p, r) /\ Reading(r, nodes, NumLeaves)
<1>1. PICK r : Goes(p, r) /\ Collects(pv[p], r, nodes, pv[p].level, pv[p].index)
  BY SiblingCollects
<1>2. Typed(nodes)
  BY InvOfTree, ShapedIsTyped
<1>3. /\ pv[p] \in ProofRec /\ Reading(pv[p], nodes, NumLeaves)
      /\ pv[p].at \in {"sibling", "right"}
  BY SiblingCollects DEF ReadInv, PvTypeOK, ProofRec
<1> QED BY <1>1, <1>2, <1>3, CollectsReads

LEMMA ReadRootReads ==
    ASSUME IInv, ReadInv, NEW p \in Prover, ReadRoot(p)
    PROVE  \E r \in ProofRec : Goes(p, r) /\ Reading(r, nodes, NumLeaves)
<1> DEFINE me == pv[p]
           r == [me EXCEPT !.at = "done", !.root = Root(nodes)]
<1>1. me \in ProofRec /\ Reading(me, nodes, NumLeaves) /\ me.at = "root" /\ Goes(p, r)
  BY DEF ReadInv, PvTypeOK, ProofRec, ReadRoot
<1>2. Root(nodes) \in Cell
  BY InvOfTree, ShapedIsTyped, RootIsCell
<1> HIDE DEF me
<1>3. /\ r \in ProofRec /\ r.at = "done" /\ r.leafIndex = me.leafIndex
      /\ r.siblings = me.siblings /\ r.leaf = me.leaf
  BY <1>1, <1>2 DEF ProofRec
<1> HIDE DEF r
<1>4. Reading(r, nodes, NumLeaves)
  BY <1>1, <1>3 DEF Reading
<1> QED BY <1>1, <1>3, <1>4

LEMMA ReturnReads ==
    ASSUME NEW p \in Prover, Return(p)
    PROVE  \E r \in ProofRec : Goes(p, r) /\ Reading(r, nodes, NumLeaves)
<1>1. Goes(p, NoProof) /\ NoProof.at = "idle" /\ NoProof.siblings = <<>>
  BY DEF Return, NoProof
<1>2. Reading(NoProof, nodes, NumLeaves)
  BY <1>1 DEF Reading
<1> QED BY <1>1, <1>2, NoProofIsTyped

\* One step of the system.
LEMMA ReadInvPreserved ==
    ASSUME IInv, ReadInv, [PNext]_allVars
    PROVE  IInv' /\ ReadInv'
<1>1. CASE (Call \/ Continue) /\ UNCHANGED pv
  <2>1. IInv' /\ PvTypeOK'
    BY <1>1, NextPreserves DEF Next, ReadInv, PvTypeOK
  <2>2. ASSUME NEW q \in Prover PROVE Reading(pv[q], nodes', NumLeaves')
    <3>1. pv[q] \in ProofRec
      BY DEF ReadInv, PvTypeOK, ProofRec
    <3> QED BY <1>1, <3>1, WriterKeepsReading DEF ReadInv
  <2> QED BY <1>1, <2>1, <2>2 DEF ReadInv
<1>2. ASSUME NEW p \in Prover, NEW r \in ProofRec, Goes(p, r), Reading(r, nodes, NumLeaves)
      PROVE  IInv' /\ ReadInv'
  <2>1. /\ UNCHANGED vars
        /\ pv'[p] = r /\ \A q \in Prover : q # p => pv'[q] = pv[q]
        /\ PvTypeOK'
    BY <1>2, GoesSets DEF ReadInv
  <2>2. nodes' = nodes /\ NumLeaves' = NumLeaves /\ IInv'
    BY <2>1, StutterPreserves DEF vars, NumLeaves, Leaves
  <2>3. ASSUME NEW q \in Prover PROVE Reading(pv'[q], nodes', NumLeaves')
    BY <2>1, <2>2, <1>2 DEF ReadInv
  <2> QED BY <2>1, <2>2, <2>3 DEF ReadInv
<1>3. CASE \E p \in Prover, index \in Keys : Start(p, index)
  BY <1>2, <1>3, StartReads
<1>4. CASE \E p \in Prover : Prove(p)
  BY <1>2, <1>4, ReadLeafReads, TestDepthReads, TestSiblingReads, ReadSiblingReads,
     ReadRootReads, ReturnReads DEF Prove
<1>5. CASE UNCHANGED allVars
  BY <1>5, StutterPreserves DEF allVars, vars, ReadInv, PvTypeOK, NumLeaves, Leaves
<1> QED BY <1>1, <1>3, <1>4, <1>5 DEF PNext

LEMMA ReadInvHolds == PSpec => [](IInv /\ ReadInv)
<1>1. PInit => IInv /\ ReadInv
  <2> SUFFICES ASSUME PInit PROVE IInv /\ ReadInv
    OBVIOUS
  <2>1. IInv
    BY InitHolds DEF PInit
  <2>2. pv \in [Prover -> ProofRec]
    BY NoProofIsTyped DEF PInit
  <2>3. \A p \in Prover : pv[p].at = "idle" /\ pv[p].siblings = <<>>
    BY DEF PInit, NoProof
  <2> QED BY <2>1, <2>2, <2>3 DEF ReadInv, PvTypeOK, ProofRec, Reading
<1>2. IInv /\ ReadInv /\ [PNext]_allVars => (IInv /\ ReadInv)'
  BY ReadInvPreserved
<1> QED BY <1>1, <1>2, PTL DEF PSpec

\* What a prover holds is a leaf, its siblings and a root: cells of the tree,
\* also when the tree changes from one read to the next.
THEOREM ProofsTyped == PSpec => []PvTypeOK
<1>1. IInv /\ ReadInv => PvTypeOK
  BY DEF ReadInv
<1> QED BY <1>1, ReadInvHolds, PTL

\* For any number of provers beside any writers: no read that GenerateProof
\* does without the lock is out of range but for that of the only leaf, which
\* panics while Insert or Update stores it again as the root.
THEOREM UnlockedReadsInRange == PSpec => []ReadsInRange
<1>1. IInv /\ ReadInv => ReadsInRange
  <2> SUFFICES ASSUME IInv, ReadInv, NEW p \in Prover
               PROVE  /\ pv[p].at = "leaf" =>
                           \/ pv[p].index < Size(nodes)
                           \/ op.call = "root" /\ Depth(nodes) = 0 /\ pv[p].index = 0
                      /\ pv[p].at \in {"sibling", "right"} => pv[p].level < Depth(nodes)
                      /\ pv[p].at = "sibling" =>
                           pv[p].index < Len(Level(nodes, pv[p].level))
                      /\ pv[p].at = "right" =>
                           pv[p].index + 1 < Len(Level(nodes, pv[p].level))
    BY Zenon DEF ReadsInRange
  <2> DEFINE me == pv[p]
  <2>1. Reading(me, nodes, NumLeaves) /\ me.leafIndex \in Nat
    BY DEF ReadInv, PvTypeOK
  <2> HIDE DEF me
  <2>2. ASSUME me.at = "leaf"
        PROVE  \/ me.index < Size(nodes)
               \/ op.call = "root" /\ Depth(nodes) = 0 /\ me.index = 0
    <3>1. me.index = me.leafIndex /\ me.leafIndex < NumLeaves
      BY <2>1, <2>2, HalvedAgain DEF Reading
    <3> QED BY <2>1, <3>1, LeavesNumbered
  <2> QED BY <2>1, <2>2 DEF Reading, LenAt, me
<1> QED BY <1>1, ReadInvHolds, PTL

-----------------------------------------------------------------------------
(* Climbing with the siblings *)

\* The equation that Verify's recursion solves.
ClimbBody(c, x, bits, s) ==
    [i \in 0..Len(s) |->
        IF i = 0 THEN x
        ELSE IF Bit(bits, i - 1) = 1 THEN Hash(s[i], c[i - 1])
                                     ELSE Hash(c[i - 1], s[i])]

\* The siblings s lead from x up to y.
Leads(x, bits, s, y) == \E c : c = ClimbBody(c, x, bits, s) /\ c[Len(s)] = y

LEMMA LeadsStarts ==
    ASSUME NEW x
    PROVE  Leads(x, 0, <<>>, x)
<1> DEFINE c == [i \in 0..0 |-> x]
<1>1. c = ClimbBody(c, x, 0, <<>>) /\ c[0] = x
  BY DEF ClimbBody
<1>2. Len(<<>>) = 0
  OBVIOUS
<1> HIDE DEF c
<1> QED BY <1>1, <1>2 DEF Leads

\* One more sibling and its bit: the ones below stay as they are.
LEMMA LeadsOn ==
    ASSUME NEW x, NEW s \in Seq(Cell), NEW bits \in 0..(2 ^ Len(s) - 1), NEW y,
           Leads(x, bits, s, y), NEW t \in Cell, NEW bit \in {0, 1},
           NEW z, z = IF bit = 1 THEN Hash(t, y) ELSE Hash(y, t)
    PROVE  /\ bits + bit * 2 ^ Len(s) \in 0..(2 ^ Len(Append(s, t)) - 1)
           /\ Leads(x, bits + bit * 2 ^ Len(s), Append(s, t), z)
<1> DEFINE n == Len(s)
           b2 == bits + bit * 2 ^ n
           s2 == Append(s, t)
<1>1. /\ n \in Nat /\ n + 1 \in Nat /\ Len(s2) = n + 1 /\ s2[n + 1] = t
      /\ \A i \in 1..n : s2[i] = s[i]
  OBVIOUS
<1>2. PICK c : c = ClimbBody(c, x, bits, s) /\ c[n] = y
  BY DEF Leads
<1>3. bits \in 0..(2 ^ n - 1) /\ 2 ^ n \in Nat
  BY <1>1, TwoPower
<1>4. b2 = IF bit = 1 THEN bits + 2 ^ n ELSE bits
  BY <1>3
<1> HIDE DEF n, b2, s2
<1>5. b2 \in 0..(2 ^ (n + 1) - 1) /\ Bit(b2, n) = bit
  BY <1>1, <1>3, <1>4, TopBit
<1>6. ASSUME NEW i \in 0..(n - 1) PROVE Bit(b2, i) = Bit(bits, i)
  <2>1. i \in Nat /\ i < n /\ bits \in Nat
    BY <1>1, <1>3
  <2> QED BY <2>1, <1>1, <1>4, HigherBitKeeps
<1> DEFINE d == [i \in 0..(n + 1) |-> IF i = n + 1 THEN z ELSE c[i]]
<1>7. ASSUME NEW i \in 0..(n + 1)
      PROVE  d[i] = IF i = 0 THEN x
                    ELSE IF Bit(b2, i - 1) = 1 THEN Hash(s2[i], d[i - 1])
                                               ELSE Hash(d[i - 1], s2[i])
  <2>1. CASE i = n + 1
    <3>1. i - 1 = n /\ i # 0 /\ n \in 0..(n + 1) /\ n # n + 1
      BY <2>1, <1>1
    <3>2. d[i] = z /\ d[i - 1] = y
      BY <2>1, <3>1, <1>2
    <3> HIDE DEF d
    <3> QED BY <2>1, <3>1, <3>2, <1>1, <1>5
  <2>2. CASE i # n + 1
    <3>1. i \in 0..n
      BY <2>2, <1>1
    <3>2. d[i] = c[i]
      BY <2>2
    <3>3. c[i] = IF i = 0 THEN x
                 ELSE IF Bit(bits, i - 1) = 1 THEN Hash(s[i], c[i - 1])
                                              ELSE Hash(c[i - 1], s[i])
      BY <3>1, <1>2, Zenon DEF ClimbBody, n
    <3>4. CASE i = 0
      BY <3>2, <3>3, <3>4
    <3>5. CASE i # 0
      <4>1. i - 1 \in 0..(n - 1) /\ i - 1 \in 0..(n + 1) /\ i - 1 # n + 1 /\ i \in 1..n
        BY <3>1, <3>5, <1>1
      <4>2. d[i - 1] = c[i - 1]
        BY <4>1
      <4> HIDE DEF d
      <4>3. Bit(b2, i - 1) = Bit(bits, i - 1) /\ s2[i] = s[i]
        BY <4>1, <1>1, <1>6
      <4> QED BY <3>2, <3>3, <3>5, <4>2, <4>3
    <3> QED BY <3>4, <3>5
  <2> QED BY <2>1, <2>2
<1>8. d = ClimbBody(d, x, b2, s2)
  <2>1. d = [i \in 0..(n + 1) |-> d[i]]
    OBVIOUS
  <2> HIDE DEF d
  <2> QED BY <2>1, <1>7, <1>1 DEF ClimbBody
<1>9. d[Len(s2)] = z
  BY <1>1
<1>10. b2 \in 0..(2 ^ Len(s2) - 1)
  BY <1>1, <1>5
<1> HIDE DEF d
<1>11. Leads(x, b2, s2, z)
  BY <1>8, <1>9 DEF Leads
<1> QED BY <1>10, <1>11 DEF b2, s2, n

\* Two solutions of the equation are the same.
LEMMA ClimbIsUnique ==
    ASSUME NEW x, NEW bits, NEW s, Len(s) \in Nat, NEW c, c = ClimbBody(c, x, bits, s),
           NEW d, d = ClimbBody(d, x, bits, s)
    PROVE  c[Len(s)] = d[Len(s)]
<1> DEFINE n == Len(s)
           S == {i \in Nat : i <= n => c[i] = d[i]}
<1>1. ASSUME NEW i \in 0..n
      PROVE  /\ c[i] = IF i = 0 THEN x
                       ELSE IF Bit(bits, i - 1) = 1 THEN Hash(s[i], c[i - 1])
                                                    ELSE Hash(c[i - 1], s[i])
             /\ d[i] = IF i = 0 THEN x
                       ELSE IF Bit(bits, i - 1) = 1 THEN Hash(s[i], d[i - 1])
                                                    ELSE Hash(d[i - 1], s[i])
  BY Zenon DEF ClimbBody
<1>2. n \in Nat
  OBVIOUS
<1> HIDE DEF n
<1>3. 0 \in S
  <2>1. 0 \in 0..n
    BY <1>2
  <2> QED BY <2>1, <1>1
<1>4. ASSUME NEW i \in S PROVE i + 1 \in S
  <2> SUFFICES ASSUME i + 1 <= n PROVE c[i + 1] = d[i + 1]
    OBVIOUS
  <2>1. i + 1 \in 0..n /\ i <= n /\ i + 1 # 0 /\ (i + 1) - 1 = i
    BY <1>2
  <2>2. c[i] = d[i]
    BY <2>1
  <2> QED BY <2>1, <2>2, <1>1
<1>5. S = Nat
  <2>1. S \in SUBSET Nat
    OBVIOUS
  <2> HIDE DEF S
  <2> QED BY <1>3, <1>4, <2>1, NatSetInduction
<1>6. n \in S
  <2> HIDE DEF S
  <2> QED BY <1>2, <1>5
<1> QED BY <1>6, <1>2 DEF n

\* VerifyProofWith accepts the root that the siblings lead to.
LEMMA LeadsVerifies ==
    ASSUME NEW me, Len(me.siblings) \in Nat,
           Leads(me.leaf, me.pathBits, me.siblings, me.root)
    PROVE  Verify(me)
<1> DEFINE c == CHOOSE f : f = ClimbBody(f, me.leaf, me.pathBits, me.siblings)
<1>1. PICK d : /\ d = ClimbBody(d, me.leaf, me.pathBits, me.siblings)
               /\ d[Len(me.siblings)] = me.root
  BY DEF Leads
<1>2. c = ClimbBody(c, me.leaf, me.pathBits, me.siblings)
  BY <1>1, Zenon
<1>3. Verify(me) <=> c[Len(me.siblings)] = me.root
  BY Zenon DEF Verify, ClimbBody, Bit
<1> HIDE DEF c
<1> QED BY <1>1, <1>2, <1>3, ClimbIsUnique

-----------------------------------------------------------------------------
(* Under the caller's lock *)

\* The siblings collected so far lead from the leaf to its ancestor at the
\* level that the loop has come to.
Climbing(me, t) ==
    /\ me.at # "panic"
    /\ me.level <= Depth(t)
    /\ me.pathBits \in 0..(2 ^ Len(me.siblings) - 1)
    /\ me.at = "leaf" => me.siblings = <<>> /\ me.pathBits = 0
    /\ me.at # "leaf" =>
         /\ me.leaf = At(t, 0, me.leafIndex)
         /\ Leads(me.leaf, me.pathBits, me.siblings,
                  At(t, me.level, me.leafIndex \div 2 ^ me.level))
    /\ me.at \in {"root", "done"} => me.level = Depth(t)
    /\ me.at = "done" => me.root = Root(t)

\* No change is under way while a proof is being made.
ProofInv ==
    \A p \in Prover : pv[p].at # "idle" => op = Idle /\ Climbing(pv[p], nodes)

\* The node above another one, by how GenerateProof looks for its sibling.
LEMMA ParentAbove ==
    ASSUME NEW t, Shaped(t), Settled(t), NEW l \in Nat, l < Depth(t),
           NEW i \in Nat, i < LenAt(t, l)
    PROVE  At(t, l + 1, i \div 2) =
             IF i % 2 = 1 THEN Hash(At(t, l, i - 1), At(t, l, i))
             ELSE IF i + 1 < LenAt(t, l) THEN Hash(At(t, l, i), At(t, l, i + 1))
             ELSE At(t, l, i)
<1> DEFINE low == Level(t, l)
           up == Level(t, l + 1)
           j == i \div 2
<1>1. Typed(t) /\ Depth(t) \in Nat
  BY ShapedIsTyped
<1>2. l + 1 \in 1..Depth(t) /\ (l + 1) - 1 = l /\ l <= Depth(t)
  BY <1>1
<1>3. FullOver(low, up)
  BY <1>2 DEF Settled, Full
<1>4. low \in Seq(Node) /\ LenAt(t, l) = Len(low) /\ Len(low) \in Nat
  BY <1>1, <1>2, LevelTyped
<1>5. At(t, l + 1, j) = up[j + 1] /\ \A k : At(t, l, k) = low[k + 1]
  BY DEF At, Level
<1> HIDE DEF low, up
<1>6. j \in Nat /\ i = 2 * j + (i % 2) /\ i % 2 \in {0, 1}
  OBVIOUS
<1> HIDE DEF j
<1>7. j \in 0..(Len(up) - 1)
  <2>1. Len(up) = (Len(low) + 1) \div 2
    BY <1>3 DEF FullOver
  <2>2. 2 * j < Len(low)
    BY <1>4, <1>6
  <2>3. j < (Len(low) + 1) \div 2
    BY <2>2, <1>4, <1>6
  <2> QED BY <2>1, <2>3, <1>4, <1>6
<1>8. up[j + 1] = IF 2 * j + 1 < Len(low) THEN Hash(low[2 * j + 1], low[2 * j + 2])
                  ELSE low[2 * j + 1]
  BY <1>3, <1>7 DEF FullOver, Right, Parent
<1>9. CASE i % 2 = 1
  <2>1. 2 * j + 1 = i /\ 2 * j + 1 = (i - 1) + 1 /\ 2 * j + 2 = i + 1
    BY <1>6, <1>9
  <2>2. up[j + 1] = Hash(low[(i - 1) + 1], low[i + 1])
    BY <2>1, <1>8, <1>4
  <2> QED BY <2>2, <1>5, <1>9 DEF j
<1>10. CASE i % 2 = 0
  <2>1. 2 * j + 1 = i + 1 /\ 2 * j + 2 = (i + 1) + 1
    BY <1>6, <1>10
  <2>2. up[j + 1] = IF i + 1 < Len(low) THEN Hash(low[i + 1], low[(i + 1) + 1])
                    ELSE low[i + 1]
    BY <2>1, <1>8
  <2> QED BY <2>2, <1>4, <1>5, <1>10 DEF j
<1> QED BY <1>6, <1>9, <1>10

\* The ancestor at the top level is the root.
LEMMA TopIsRoot ==
    ASSUME NEW t, Shaped(t), Settled(t), NEW i \in Nat, i < Size(t)
    PROVE  At(t, Depth(t), i \div 2 ^ Depth(t)) = Root(t)
<1>1. Typed(t) /\ Depth(t) \in Nat /\ Depth(t) <= Depth(t)
  BY ShapedIsTyped
<1> DEFINE q == i \div 2 ^ Depth(t)
<1>2. q < LenAt(t, Depth(t)) /\ q \in Nat
  BY <1>1, PathInRange, HalvedAgain
<1>3. LenAt(t, Depth(t)) <= 1 /\ LenAt(t, Depth(t)) \in Nat
  BY <1>1, LevelTyped DEF Settled
<1> HIDE DEF q
<1>4. q = 0 /\ LenAt(t, Depth(t)) > 0
  BY <1>2, <1>3
<1>5. Root(t) = At(t, Depth(t), 0)
  BY <1>4 DEF Root, HasRoot, LenAt
<1> QED BY <1>4, <1>5 DEF q

\* A sibling that is found leads one level up; where there is none, the node
\* is its own parent.
LEMMA CollectsClimbs ==
    ASSUME NEW t, Shaped(t), Settled(t), NEW me \in ProofRec,
           me.at \in {"sibling", "right"}, NEW size, Reading(me, t, size), Climbing(me, t),
           NEW r, Collects(me, r, t, me.level, me.index)
    PROVE  Climbing(r, t)
<1> DEFINE l == me.level
           i == me.index
           y == At(t, l, i)
           z == At(t, l + 1, i \div 2)
<1>1. /\ l \in Nat /\ i \in Nat /\ me.leafIndex \in Nat /\ l < Depth(t)
      /\ i < LenAt(t, l) /\ i = me.leafIndex \div 2 ^ l
      /\ me.leaf = At(t, 0, me.leafIndex)
      /\ me.pathBits \in 0..(2 ^ Len(me.siblings) - 1)
      /\ Leads(me.leaf, me.pathBits, me.siblings, y)
      /\ me.siblings \in Seq(Cell)
  BY DEF ProofRec, Reading, Climbing
<1>2. Typed(t) /\ Depth(t) \in Nat /\ LenAt(t, l) \in Nat /\ l <= Depth(t)
  BY <1>1, ShapedIsTyped, LevelTyped
<1>3. z = IF i % 2 = 1 THEN Hash(At(t, l, i - 1), y)
          ELSE IF i + 1 < LenAt(t, l) THEN Hash(y, At(t, l, i + 1)) ELSE y
  BY <1>1, ParentAbove
<1>4. z = At(t, l + 1, me.leafIndex \div 2 ^ (l + 1))
  BY <1>1, HalvedAgain
<1>5. l + 1 \in Nat /\ l + 1 <= Depth(t)
  BY <1>1, <1>2
<1>6. SUFFICES /\ r.at = "loop" /\ r.level = l + 1 /\ r.leafIndex = me.leafIndex
               /\ r.leaf = me.leaf
               /\ r.pathBits \in 0..(2 ^ Len(r.siblings) - 1)
               /\ Leads(r.leaf, r.pathBits, r.siblings, z)
  BY <1>1, <1>4, <1>5 DEF Climbing
<1> HIDE DEF z
<1>7. ASSUME i % 2 = 1, r = With(me, At(t, l, i - 1), 1)
      PROVE  /\ r.at = "loop" /\ r.level = l + 1 /\ r.leafIndex = me.leafIndex
             /\ r.leaf = me.leaf
             /\ r.pathBits \in 0..(2 ^ Len(r.siblings) - 1)
             /\ Leads(r.leaf, r.pathBits, r.siblings, z)
  <2> DEFINE s == At(t, l, i - 1)
  <2>1. s \in Cell
    <3>1. i - 1 \in Nat /\ i - 1 < LenAt(t, l)
      BY <1>1, <1>2, <1>7
    <3> QED BY <3>1, <1>1, <1>2, AtIsCell DEF Cell
  <2>2. z = Hash(s, y)
    BY <1>3, <1>7
  <2> HIDE DEF s, y
  <2>3. /\ me.pathBits + 1 * 2 ^ Len(me.siblings) \in 0..(2 ^ Len(Append(me.siblings, s)) - 1)
        /\ Leads(me.leaf, me.pathBits + 1 * 2 ^ Len(me.siblings), Append(me.siblings, s), z)
    BY <2>1, <2>2, <1>1, LeadsOn
  <2> QED BY <2>1, <2>3, <1>7, WithIsTyped DEF s
<1>8. ASSUME i % 2 = 0, i + 1 < LenAt(t, l), r = With(me, At(t, l, i + 1), 0)
      PROVE  /\ r.at = "loop" /\ r.level = l + 1 /\ r.leafIndex = me.leafIndex
             /\ r.leaf = me.leaf
             /\ r.pathBits \in 0..(2 ^ Len(r.siblings) - 1)
             /\ Leads(r.leaf, r.pathBits, r.siblings, z)
  <2> DEFINE s == At(t, l, i + 1)
  <2>1. s \in Cell
    <3>1. i + 1 \in Nat /\ i + 1 < LenAt(t, l)
      BY <1>1, <1>2, <1>8
    <3> QED BY <3>1, <1>1, <1>2, AtIsCell DEF Cell
  <2> DEFINE bit == 0
             n == Len(me.siblings)
  <2>2. z = Hash(y, s) /\ bit \in {0, 1} /\ bit # 1
    BY <1>3, <1>8
  <2> HIDE DEF s, y, bit
  <2>3. /\ me.pathBits + bit * 2 ^ n \in 0..(2 ^ Len(Append(me.siblings, s)) - 1)
        /\ Leads(me.leaf, me.pathBits + bit * 2 ^ n, Append(me.siblings, s), z)
    BY <2>1, <2>2, <1>1, LeadsOn
  <2>4. r = With(me, s, bit)
    BY <1>8 DEF s, bit
  <2> QED BY <2>1, <2>2, <2>3, <2>4, WithIsTyped
<1>9. ASSUME i % 2 = 0, ~(i + 1 < LenAt(t, l)), r = NextLevel(me)
      PROVE  /\ r.at = "loop" /\ r.level = l + 1 /\ r.leafIndex = me.leafIndex
             /\ r.leaf = me.leaf
             /\ r.pathBits \in 0..(2 ^ Len(r.siblings) - 1)
             /\ Leads(r.leaf, r.pathBits, r.siblings, z)
  <2>1. z = y
    BY <1>3, <1>9
  <2> QED BY <2>1, <1>1, <1>9, NextIsTyped
<1> QED BY <1>7, <1>8, <1>9 DEF Collects

\* What a step of a prover has to establish of its locals.
Proves(r) == r.at # "idle" => op = Idle /\ Climbing(r, nodes)

\* What the invariants say of a prover that is not idle.
LEMMA AtWork ==
    ASSUME IInv, ReadInv, ProofInv, NEW p \in Prover, pv[p].at # "idle"
    PROVE  /\ pv[p] \in ProofRec /\ Reading(pv[p], nodes, NumLeaves) /\ Climbing(pv[p], nodes)
           /\ op = Idle /\ Shaped(nodes) /\ Settled(nodes)
           /\ Typed(nodes) /\ Depth(nodes) \in Nat
BY InvOfTree, ShapedIsTyped DEF ReadInv, PvTypeOK, ProofRec, ProofInv

LEMMA StartClimbs ==
    ASSUME IInv, NEW p \in Prover, NEW index \in Keys, Start(p, index)
    PROVE  \E r : Goes(p, r) /\ Proves(r)
<1> DEFINE r == [NoProof EXCEPT !.at = "leaf", !.index = index, !.leafIndex = index]
<1>1. Goes(p, r) /\ op = Idle
  BY DEF Start, RLocked
<1>2. /\ r.at = "leaf" /\ r.level = 0 /\ r.pathBits = 0 /\ r.siblings = <<>>
  BY DEF NoProof
<1>3. Len(r.siblings) = 0 /\ 0 \in 0..(2 ^ 0 - 1)
  BY <1>2, TwoPower
<1>4. Depth(nodes) \in Nat
  BY InvOfTree, ShapedIsTyped
<1> HIDE DEF r
<1>5. r.pathBits \in 0..(2 ^ Len(r.siblings) - 1)
  BY <1>2, <1>3
<1>6. Climbing(r, nodes)
  BY <1>2, <1>4, <1>5 DEF Climbing
<1> QED BY <1>1, <1>6 DEF Proves

LEMMA ReadLeafClimbs ==
    ASSUME IInv, ReadInv, ProofInv, NEW p \in Prover, ReadLeaf(p)
    PROVE  \E r : Goes(p, r) /\ Proves(r)
<1> DEFINE me == pv[p]
           x == At(nodes, 0, me.index)
           r == [me EXCEPT !.at = "loop", !.leaf = x]
<1>1. me.at = "leaf" /\ Reads(p, 0, me.index, r)
  BY DEF ReadLeaf
<1>2. /\ me \in ProofRec /\ Reading(me, nodes, NumLeaves) /\ Climbing(me, nodes) /\ op = Idle
  BY <1>1, AtWork
<1> HIDE DEF me
<1>3. me.leafIndex \in Nat /\ me.level = 0 /\ me.siblings = <<>> /\ me.pathBits = 0
  BY <1>1, <1>2 DEF ProofRec, Reading, Climbing
<1>4. me.index = me.leafIndex /\ me.leafIndex \div 2 ^ 0 = me.leafIndex
  BY <1>1, <1>2, <1>3, HalvedAgain DEF Reading
<1>8. Goes(p, r)
  <2>1. me.index < LenAt(nodes, 0)
    BY <1>1, <1>2, <1>4, LeavesNumbered DEF Reading, LenAt, Level, Size
  <2>2. 0 <= Depth(nodes)
    BY InvOfTree, ShapedIsTyped
  <2> HIDE DEF r
  <2> QED BY <1>1, <2>1, <2>2, ReadsInTheTree
<1> HIDE DEF x
<1>5. /\ r.at = "loop" /\ r.leaf = x /\ r.leafIndex = me.leafIndex /\ r.level = me.level
      /\ r.pathBits = me.pathBits /\ r.siblings = me.siblings
  BY <1>2 DEF ProofRec
<1> HIDE DEF r
<1>6. Leads(x, 0, <<>>, x)
  BY LeadsStarts
<1>7. x = At(nodes, 0, me.leafIndex)
  BY <1>4 DEF x
<1> QED BY <1>1, <1>2, <1>3, <1>4, <1>5, <1>6, <1>7, <1>8 DEF Proves, Climbing

LEMMA TestDepthClimbs ==
    ASSUME IInv, ReadInv, ProofInv, NEW p \in Prover, TestDepth(p)
    PROVE  \E r : Goes(p, r) /\ Proves(r)
<1> DEFINE me == pv[p]
           r == [me EXCEPT !.at = IF me.level < Depth(nodes) THEN "sibling" ELSE "root"]
<1>1. me.at = "loop" /\ Goes(p, r)
  BY DEF TestDepth
<1>2. /\ me \in ProofRec /\ Climbing(me, nodes) /\ op = Idle /\ Depth(nodes) \in Nat
  BY <1>1, AtWork
<1> HIDE DEF me
<1>3. me.level \in Nat /\ me.level <= Depth(nodes)
  BY <1>2 DEF ProofRec, Climbing
<1>4. /\ r.at = IF me.level < Depth(nodes) THEN "sibling" ELSE "root"
      /\ r.leafIndex = me.leafIndex /\ r.level = me.level /\ r.leaf = me.leaf
      /\ r.pathBits = me.pathBits /\ r.siblings = me.siblings
  BY <1>2 DEF ProofRec
<1> HIDE DEF r
<1>5. r.at = "root" => r.level = Depth(nodes)
  BY <1>2, <1>3, <1>4
<1> QED BY <1>1, <1>2, <1>4, <1>5 DEF Proves, Climbing

LEMMA TestSiblingClimbs ==
    ASSUME IInv, ReadInv, ProofInv, NEW p \in Prover, TestSibling(p)
    PROVE  \E r : Goes(p, r) /\ Proves(r)
<1> DEFINE me == pv[p]
<1>1. me.at = "sibling"
  BY TestCollects
<1>2. /\ me \in ProofRec /\ Climbing(me, nodes) /\ op = Idle
  BY <1>1, AtWork
<1>3. CASE Goes(p, [me EXCEPT !.at = "right"])
  <2> DEFINE r == [me EXCEPT !.at = "right"]
  <2> HIDE DEF me
  <2>1. /\ r.at = "right"
        /\ r.leafIndex = me.leafIndex /\ r.level = me.level /\ r.leaf = me.leaf
        /\ r.pathBits = me.pathBits /\ r.siblings = me.siblings
    BY <1>2 DEF ProofRec
  <2>2. Goes(p, r)
    BY <1>3
  <2> HIDE DEF r
  <2> QED BY <1>1, <1>2, <2>1, <2>2 DEF Proves, Climbing
<1>4. CASE \E r : Goes(p, r) /\ Collects(me, r, nodes, me.level, me.index)
  BY <1>1, <1>4, AtWork, CollectsClimbs DEF Proves
<1> QED BY <1>3, <1>4, TestCollects

LEMMA ReadSiblingClimbs ==
    ASSUME IInv, ReadInv, ProofInv, NEW p \in Prover, ReadSibling(p)
    PROVE  \E r : Goes(p, r) /\ Proves(r)
<1>1. PICK r : Goes(p, r) /\ Collects(pv[p], r, nodes, pv[p].level, pv[p].index)
  BY SiblingCollects
<1>2. pv[p].at \in {"sibling", "right"} /\ pv[p].at # "idle"
  BY SiblingCollects
<1> QED BY <1>1, <1>2, AtWork, CollectsClimbs DEF Proves

LEMMA ReadRootClimbs ==
    ASSUME IInv, ReadInv, ProofInv, NEW p \in Prover, ReadRoot(p)
    PROVE  \E r : Goes(p, r) /\ Proves(r)
<1> DEFINE me == pv[p]
           r == [me EXCEPT !.at = "done", !.root = Root(nodes)]
<1>1. me.at = "root" /\ Goes(p, r)
  BY DEF ReadRoot
<1>2. me \in ProofRec /\ Climbing(me, nodes) /\ op = Idle
  BY <1>1, AtWork
<1> HIDE DEF me
<1>3. /\ r.at = "done" /\ r.root = Root(nodes)
      /\ r.leafIndex = me.leafIndex /\ r.level = me.level /\ r.leaf = me.leaf
      /\ r.pathBits = me.pathBits /\ r.siblings = me.siblings
  BY <1>2 DEF ProofRec
<1> HIDE DEF r
<1> QED BY <1>1, <1>2, <1>3 DEF Proves, Climbing

LEMMA ProofInvPreserved ==
    ASSUME OuterLock, IInv, ReadInv, ProofInv, [PNext]_allVars
    PROVE  ProofInv'
<1>1. CASE Call /\ MayWrite /\ UNCHANGED pv
  BY <1>1 DEF MayWrite, ProofInv
<1>2. CASE Continue /\ UNCHANGED pv
  <2>1. op # Idle
    BY <1>2, IdleIsTyped
       DEF Continue, InsertLevel, InsertTruncates, StoreRoot, InsertManyParent,
           InsertManyLevel, InsertManyEnd, UpdateLevel, UpdateTruncates,
           UpdateManyParent, UpdateManyLevel, UpdateManyEnd
  <2> QED BY <2>1, <1>2 DEF ProofInv
<1>3. ASSUME NEW p \in Prover, NEW r, Goes(p, r), Proves(r)
      PROVE  ProofInv'
  <2>1. /\ UNCHANGED vars
        /\ pv'[p] = r /\ \A q \in Prover : q # p => pv'[q] = pv[q]
    BY <1>3, GoesSets DEF ReadInv
  <2>2. ASSUME NEW q \in Prover, pv'[q].at # "idle"
        PROVE  op' = Idle /\ Climbing(pv'[q], nodes')
    BY <2>1, <2>2, <1>3 DEF vars, Proves, ProofInv
  <2> QED BY <2>2 DEF ProofInv
<1>4. CASE \E p \in Prover, index \in Keys : Start(p, index)
  BY <1>3, <1>4, StartClimbs
<1>5. ASSUME NEW p \in Prover, Return(p) PROVE \E r : Goes(p, r) /\ Proves(r)
  <2>1. Goes(p, NoProof) /\ NoProof.at = "idle"
    BY <1>5 DEF Return, NoProof
  <2> QED BY <2>1 DEF Proves
<1>6. CASE \E p \in Prover : Prove(p)
  BY <1>3, <1>5, <1>6, ReadLeafClimbs, TestDepthClimbs, TestSiblingClimbs,
     ReadSiblingClimbs, ReadRootClimbs DEF Prove
<1>7. CASE UNCHANGED allVars
  BY <1>7 DEF allVars, vars, ProofInv
<1> QED BY <1>1, <1>2, <1>4, <1>6, <1>7 DEF PNext

LEMMA ProofInvHolds == OuterLock => (PSpec => []ProofInv)
<1> SUFFICES ASSUME OuterLock PROVE PSpec => []ProofInv
  OBVIOUS
<1>1. PInit => ProofInv
  BY DEF PInit, NoProof, ProofInv
<1>2. IInv /\ ReadInv /\ ProofInv /\ [PNext]_allVars => ProofInv'
  BY ProofInvPreserved
<1> QED BY <1>1, <1>2, ReadInvHolds, PTL DEF PSpec

\* Under the lock of the caller the proof is about the tree as it is when it
\* is handed out.
THEOREM LockedProofsCurrent == OuterLock => (PSpec => []ProofsCurrent)
<1> SUFFICES ASSUME OuterLock PROVE PSpec => []ProofsCurrent
  OBVIOUS
<1>1. IInv /\ ReadInv /\ ProofInv => ProofsCurrent
  BY LeavesNumbered DEF ReadInv, ProofInv, Reading, Climbing, ProofsCurrent
<1> QED BY <1>1, ReadInvHolds, ProofInvHolds, PTL

\* And no read of t.nodes panics: what the race may do to the only leaf of a
\* tree cannot happen there.
THEOREM LockedNoPanic == OuterLock => (PSpec => []NoPanic)
<1> SUFFICES ASSUME OuterLock PROVE PSpec => []NoPanic
  OBVIOUS
<1>1. ProofInv => NoPanic
  BY DEF ProofInv, Climbing, NoPanic
<1> QED BY <1>1, ProofInvHolds, PTL

-----------------------------------------------------------------------------
(* The circuit *)

\* The equation that the recursion of the circuit solves.
CircuitBody(e, mp) ==
    [i \in 0..MaxCensusDepth |->
        IF i = 0 THEN mp.leaf
        ELSE IF mp.siblings[i] = Zero THEN e[i - 1]
        ELSE IF BitOf(mp.pathBits, i - 1) = 1 THEN Hash(mp.siblings[i], e[i - 1])
        ELSE Hash(e[i - 1], mp.siblings[i])]

LEMMA CircuitClimbs ==
    ASSUME NEW mp
    PROVE  \E e : e = CircuitBody(e, mp)
<1> DEFINE Above(i, y) == IF mp.siblings[i] = Zero THEN y
                          ELSE IF BitOf(mp.pathBits, i - 1) = 1 THEN Hash(mp.siblings[i], y)
                          ELSE Hash(y, mp.siblings[i])
           IsClimb(f, n) ==
             /\ f = [i \in 0..n |-> f[i]]
             /\ \A i \in 0..n : f[i] = IF i = 0 THEN mp.leaf ELSE Above(i, f[i - 1])
           S == {n \in Nat : \E f : IsClimb(f, n)}
<1> HIDE DEF Above
<1>1. 0 \in S
  <2> DEFINE f == [i \in 0..0 |-> mp.leaf]
  <2>1. IsClimb(f, 0)
    OBVIOUS
  <2> QED BY <2>1
<1>2. ASSUME NEW n \in S PROVE n + 1 \in S
  <2>1. PICK f : IsClimb(f, n)
    OBVIOUS
  <2> DEFINE g == [i \in 0..(n + 1) |-> IF i = n + 1 THEN Above(i, f[n]) ELSE f[i]]
  <2>2. ASSUME NEW i \in 0..(n + 1)
        PROVE  g[i] = IF i = 0 THEN mp.leaf ELSE Above(i, g[i - 1])
    <3>1. CASE i = n + 1
      <4>1. i # 0 /\ i - 1 = n /\ n \in 0..(n + 1) /\ n # n + 1
        BY <3>1
      <4>2. g[i] = Above(i, f[n]) /\ g[n] = f[n]
        BY <3>1, <4>1
      <4> HIDE DEF g
      <4> QED BY <4>1, <4>2
    <3>2. CASE i # n + 1
      <4>1. i \in 0..n /\ g[i] = f[i]
        BY <3>2
      <4>2. i # 0 => i - 1 \in 0..(n + 1) /\ i - 1 # n + 1 /\ g[i - 1] = f[i - 1]
        BY <3>2
      <4> HIDE DEF g
      <4> QED BY <4>1, <4>2, <2>1
    <3> QED BY <3>1, <3>2
  <2>3. g = [i \in 0..(n + 1) |-> g[i]]
    OBVIOUS
  <2> HIDE DEF g
  <2>4. IsClimb(g, n + 1)
    BY <2>2, <2>3
  <2>5. n + 1 \in Nat
    OBVIOUS
  <2> HIDE DEF IsClimb
  <2> QED BY <2>4, <2>5
<1>3. S = Nat
  <2> HIDE DEF S
  <2>1. S \in SUBSET Nat
    BY DEF S
  <2> QED BY <1>1, <1>2, <2>1, NatSetInduction
<1>4. PICK f : IsClimb(f, MaxCensusDepth)
  BY <1>3, CircuitAssumption
<1>5. f = CircuitBody(f, mp)
  BY <1>4 DEF CircuitBody, Above
<1> QED BY <1>5

LEMMA CircuitUnfold ==
    ASSUME NEW mp, NEW root
    PROVE  \E e : /\ e = CircuitBody(e, mp)
                  /\ CircuitAccepts(mp, root) <=> /\ mp.pathBits < 2 ^ MaxCensusDepth
                                                  /\ e[MaxCensusDepth] = root
<1> DEFINE e == CHOOSE f : f = CircuitBody(f, mp)
<1>1. e = CircuitBody(e, mp)
  BY CircuitClimbs, Zenon
<1>2. CircuitAccepts(mp, root) <=> /\ mp.pathBits < 2 ^ MaxCensusDepth
                                   /\ e[MaxCensusDepth] = root
  BY Zenon DEF CircuitAccepts, CircuitBody
<1> QED BY <1>1, <1>2

\* One step up, with sibling t on the side that bit names.
Up1(bit, t, y) == IF bit = 1 THEN Hash(t, y) ELSE Hash(y, t)

\* c climbs from x with all of the siblings s, e as far as the circuit goes
\* and past the siblings that are zero.
Climbs(c, e, x, bits, s) ==
    /\ c[0] = x /\ e[0] = x
    /\ \A i \in Nat : i < Len(s) => c[i + 1] = Up1(Bit(bits, i), s[i + 1], c[i])
    /\ \A i \in Nat : i < Len(s) /\ i < MaxCensusDepth =>
         e[i + 1] = IF s[i + 1] = Zero THEN e[i] ELSE Up1(Bit(bits, i), s[i + 1], e[i])
    /\ \A i \in Nat : i >= Len(s) /\ i < MaxCensusDepth => e[i + 1] = e[i]

LEMMA BothClimb ==
    ASSUME NEW me \in ProofRec,
           NEW c, c = ClimbBody(c, me.leaf, me.pathBits, me.siblings),
           NEW e, e = CircuitBody(e, MerkleProof(me))
    PROVE  Climbs(c, e, me.leaf, me.pathBits, me.siblings)
<1> DEFINE s == me.siblings
           n == Len(s)
           mp == MerkleProof(me)
           M == MaxCensusDepth
<1>1. n \in Nat /\ M \in Nat
  BY CircuitAssumption DEF ProofRec
<1>2. /\ mp.leaf = me.leaf /\ mp.pathBits = me.pathBits
      /\ \A i \in 1..M : mp.siblings[i] = IF i <= n THEN s[i] ELSE Zero
  BY DEF MerkleProof
<1>3. ASSUME NEW i \in 0..n
      PROVE  c[i] = IF i = 0 THEN me.leaf
                    ELSE IF Bit(me.pathBits, i - 1) = 1 THEN Hash(s[i], c[i - 1])
                                                        ELSE Hash(c[i - 1], s[i])
  BY Zenon DEF ClimbBody
<1>4. ASSUME NEW i \in 0..M
      PROVE  e[i] = IF i = 0 THEN mp.leaf
                    ELSE IF mp.siblings[i] = Zero THEN e[i - 1]
                    ELSE IF BitOf(mp.pathBits, i - 1) = 1 THEN Hash(mp.siblings[i], e[i - 1])
                    ELSE Hash(e[i - 1], mp.siblings[i])
  BY Zenon DEF CircuitBody
<1> HIDE DEF n, mp, M
<1>5. c[0] = me.leaf /\ e[0] = me.leaf
  <2>1. 0 \in 0..n /\ 0 \in 0..M
    BY <1>1
  <2>2. c[0] = me.leaf
    BY <2>1, <1>3
  <2>3. e[0] = mp.leaf
    BY <2>1, <1>4
  <2> QED BY <2>2, <2>3, <1>2
<1>6. ASSUME NEW i \in Nat, i < n
      PROVE  c[i + 1] = Up1(Bit(me.pathBits, i), s[i + 1], c[i])
  <2>1. i + 1 \in 0..n /\ i + 1 # 0 /\ (i + 1) - 1 = i
    BY <1>1, <1>6
  <2> QED BY <2>1, <1>3 DEF Up1
<1>7. ASSUME NEW i \in Nat, i < M
      PROVE  e[i + 1] = IF mp.siblings[i + 1] = Zero THEN e[i]
                        ELSE Up1(Bit(me.pathBits, i), mp.siblings[i + 1], e[i])
  <2>1. i + 1 \in 0..M /\ i + 1 # 0 /\ (i + 1) - 1 = i
    BY <1>1, <1>7
  <2>2. BitOf(mp.pathBits, i) = Bit(me.pathBits, i)
    BY <1>2 DEF BitOf, Bit
  <2> QED BY <2>1, <2>2, <1>4 DEF Up1
<1>8. ASSUME NEW i \in Nat, i < M
      PROVE  mp.siblings[i + 1] = IF i < n THEN s[i + 1] ELSE Zero
  <2>1. i + 1 \in 1..M /\ (i + 1 <= n <=> i < n)
    BY <1>1, <1>8
  <2> QED BY <2>1, <1>2
<1> QED BY <1>5, <1>6, <1>7, <1>8 DEF Climbs, n, M

\* As long as no sibling is zero the circuit goes the same way.
LEMMA SameWay ==
    ASSUME NEW s \in Seq(Node), NEW x, NEW bits, NEW c, NEW e, Climbs(c, e, x, bits, s),
           NEW k \in Nat, k <= Len(s), k <= MaxCensusDepth,
           \A j \in 1..k : s[j] # Zero
    PROVE  e[k] = c[k]
<1> DEFINE S == {i \in Nat : i <= k => e[i] = c[i]}
<1>1. 0 \in S
  BY DEF Climbs
<1>2. ASSUME NEW i \in S PROVE i + 1 \in S
  <2> SUFFICES ASSUME i + 1 <= k PROVE e[i + 1] = c[i + 1]
    OBVIOUS
  <2>1. i \in Nat /\ i < Len(s) /\ i < MaxCensusDepth /\ i + 1 \in 1..k /\ e[i] = c[i]
    BY CircuitAssumption
  <2> QED BY <2>1 DEF Climbs
<1>3. S = Nat
  <2>1. S \in SUBSET Nat
    OBVIOUS
  <2> HIDE DEF S
  <2> QED BY <1>1, <1>2, <2>1, NatSetInduction
<1>4. k \in S
  <2> HIDE DEF S
  <2> QED BY <1>3
<1> QED BY <1>4

\* The padding changes nothing.
LEMMA PaddingIsSkipped ==
    ASSUME NEW s \in Seq(Node), NEW x, NEW bits, NEW c, NEW e, Climbs(c, e, x, bits, s),
           Len(s) <= MaxCensusDepth
    PROVE  e[MaxCensusDepth] = e[Len(s)]
<1> DEFINE n == Len(s)
           S == {i \in Nat : n <= i /\ i <= MaxCensusDepth => e[i] = e[n]}
<1>1. 0 \in S
  OBVIOUS
<1>2. ASSUME NEW i \in S PROVE i + 1 \in S
  <2> SUFFICES ASSUME n <= i + 1, i + 1 <= MaxCensusDepth PROVE e[i + 1] = e[n]
    OBVIOUS
  <2>1. CASE n = i + 1
    BY <2>1
  <2>2. CASE n # i + 1
    <3>1. i \in Nat /\ n <= i /\ i < MaxCensusDepth /\ e[i] = e[n]
      BY <2>2, CircuitAssumption
    <3> QED BY <3>1 DEF Climbs
  <2> QED BY <2>1, <2>2
<1>3. S = Nat
  <2>1. S \in SUBSET Nat
    OBVIOUS
  <2> HIDE DEF S
  <2> QED BY <1>1, <1>2, <2>1, NatSetInduction
<1>4. MaxCensusDepth \in S
  <2> HIDE DEF S
  <2> QED BY <1>3, CircuitAssumption
<1> QED BY <1>4, CircuitAssumption

\* A size of the nodes by which every hash of the two climbs is larger than
\* what it is made from, by as much as its sibling says.
Weighs(size, c, e, s) ==
    \A i \in Nat : i < Len(s) =>
        /\ size[c[i + 1]] = size[s[i + 1]] + size[c[i]] + 1
        /\ i < MaxCensusDepth /\ s[i + 1] # Zero =>
             size[e[i + 1]] = size[s[i + 1]] + size[e[i]] + 1

\* The hashes that VerifyProofWith and the circuit compute for this one proof
\* have such a size.  They do if no two pairs among those hashed have the same
\* hash and no hash is among what it is made from.
HashesApart(me) ==
    \E size \in [Node -> Nat] : \A c, e :
        Climbs(c, e, me.leaf, me.pathBits, me.siblings) => Weighs(size, c, e, me.siblings)

LEMMA UpIsNode ==
    ASSUME NEW bit, NEW t \in Node, NEW y \in Node
    PROVE  Up1(bit, t, y) \in Node
BY NodeAssumption DEF Up1

\* The circuit never gets to something larger, and to something smaller once
\* it has passed a sibling.
LEMMA CircuitIsBehind ==
    ASSUME NEW size \in [Node -> Nat], NEW s \in Seq(Node), NEW x \in Node, NEW bits,
           NEW c, NEW e, Climbs(c, e, x, bits, s), Weighs(size, c, e, s),
           NEW k \in Nat, k <= Len(s), k <= MaxCensusDepth
    PROVE  /\ c[k] \in Node /\ e[k] \in Node /\ size[e[k]] <= size[c[k]]
           /\ (\E j \in 1..k : s[j] = Zero) => size[e[k]] < size[c[k]]
<1> DEFINE Behind(i) == /\ c[i] \in Node /\ e[i] \in Node /\ size[e[i]] <= size[c[i]]
                        /\ (\E j \in 1..i : s[j] = Zero) => size[e[i]] < size[c[i]]
           S == {i \in Nat : i <= k => Behind(i)}
<1>1. 0 \in S
  <2>1. c[0] = x /\ e[0] = x /\ size[x] \in Nat
    BY DEF Climbs
  <2> QED BY <2>1
<1>2. ASSUME NEW i \in S PROVE i + 1 \in S
  <2>1. SUFFICES ASSUME i + 1 <= k PROVE Behind(i + 1)
    OBVIOUS
  <2>2. i \in Nat /\ i < Len(s) /\ i < MaxCensusDepth /\ Behind(i)
    BY <2>1, CircuitAssumption
  <2> DEFINE t == s[i + 1]
             b == Bit(bits, i)
  <2>3. /\ c[i + 1] = Up1(b, t, c[i])
        /\ e[i + 1] = IF t = Zero THEN e[i] ELSE Up1(b, t, e[i])
    BY <2>2 DEF Climbs
  <2>4. t \in Node /\ c[i] \in Node /\ e[i] \in Node
    BY <2>2
  <2>5. (\E j \in 1..(i + 1) : s[j] = Zero) <=> t = Zero \/ \E j \in 1..i : s[j] = Zero
    BY <2>2
  <2> HIDE DEF t, b
  <2>6. /\ size[c[i + 1]] = size[t] + size[c[i]] + 1
        /\ t # Zero => size[e[i + 1]] = size[t] + size[e[i]] + 1
    BY <2>2 DEF Weighs, t
  <2>7. /\ size[t] \in Nat /\ size[c[i]] \in Nat /\ size[e[i]] \in Nat
        /\ c[i + 1] \in Node
    <3>1. c[i + 1] \in Node
      BY <2>3, <2>4, UpIsNode
    <3> QED BY <3>1, <2>4
  <2>8. CASE t = Zero
    BY <2>2, <2>3, <2>4, <2>6, <2>7, <2>8
  <2>9. CASE t # Zero
    <3>1. e[i + 1] = Up1(b, t, e[i])
      BY <2>3, <2>9
    <3>5. e[i + 1] \in Node
      BY <3>1, <2>4, UpIsNode
    <3>2. e[i + 1] \in Node /\ size[e[i + 1]] = size[t] + size[e[i]] + 1
      BY <3>5, <2>6, <2>9
    <3>3. size[e[i + 1]] <= size[c[i + 1]]
      <4>1. size[e[i]] <= size[c[i]]
        BY <2>2
      <4>2. size[t] + size[e[i]] + 1 <= size[t] + size[c[i]] + 1
        BY <4>1, <2>7
      <4> QED BY <4>2, <3>2, <2>6
    <3>4. ASSUME \E j \in 1..(i + 1) : s[j] = Zero PROVE size[e[i + 1]] < size[c[i + 1]]
      <4>1. size[e[i]] < size[c[i]]
        BY <3>4, <2>2, <2>5, <2>9
      <4> QED BY <4>1, <3>2, <2>6, <2>7
    <3> QED BY <3>2, <3>3, <3>4, <2>7
  <2> QED BY <2>8, <2>9
<1>3. S = Nat
  <2>1. S \in SUBSET Nat
    OBVIOUS
  <2> HIDE DEF S
  <2> QED BY <1>1, <1>2, <2>1, NatSetInduction
<1>4. k \in S
  <2> HIDE DEF S
  <2> QED BY <1>3
<1> QED BY <1>4

\* What the siblings lead to gets larger with every one of them.
LEMMA ClimbIsLarger ==
    ASSUME NEW size \in [Node -> Nat], NEW s \in Seq(Node), NEW x, NEW bits,
           NEW c, NEW e, Climbs(c, e, x, bits, s), Weighs(size, c, e, s),
           NEW m \in Nat, c[m] \in Node, m < Len(s)
    PROVE  size[c[m]] < size[c[Len(s)]]
<1> DEFINE S == {d \in Nat : m + (d + 1) <= Len(s) =>
                    /\ c[m + (d + 1)] \in Node
                    /\ size[c[m]] < size[c[m + (d + 1)]]}
<1>1. ASSUME NEW i \in Nat, i < Len(s), c[i] \in Node
      PROVE  /\ c[i + 1] \in Node /\ size[c[i]] < size[c[i + 1]]
             /\ size[c[i]] \in Nat /\ size[c[i + 1]] \in Nat
  <2>1. s[i + 1] \in Node /\ c[i + 1] = Up1(Bit(bits, i), s[i + 1], c[i])
    BY <1>1 DEF Climbs
  <2>2. c[i + 1] \in Node
    BY <2>1, <1>1, UpIsNode
  <2>3. size[c[i + 1]] = size[s[i + 1]] + size[c[i]] + 1
    BY <1>1 DEF Weighs
  <2>4. size[s[i + 1]] \in Nat /\ size[c[i]] \in Nat /\ size[c[i + 1]] \in Nat
    BY <2>1, <2>2, <1>1
  <2> QED BY <2>2, <2>3, <2>4
<1>2. 0 \in S
  <2>1. m + (0 + 1) = m + 1
    OBVIOUS
  <2> QED BY <2>1, <1>1
<1>3. ASSUME NEW d \in S PROVE d + 1 \in S
  <2> DEFINE i == m + (d + 1)
  <2>1. SUFFICES ASSUME i + 1 <= Len(s)
                 PROVE  c[i + 1] \in Node /\ size[c[m]] < size[c[i + 1]]
    <3>1. m + ((d + 1) + 1) = i + 1 /\ d + 1 \in Nat
      OBVIOUS
    <3> QED BY <3>1
  <2>2. i \in Nat /\ i < Len(s)
    BY <2>1
  <2>3. c[i] \in Node /\ size[c[m]] < size[c[i]]
    BY <2>2
  <2> HIDE DEF i
  <2> QED BY <2>2, <2>3, <1>1
<1>4. S = Nat
  <2>1. S \in SUBSET Nat
    OBVIOUS
  <2> HIDE DEF S
  <2> QED BY <1>2, <1>3, <2>1, NatSetInduction
<1> DEFINE k == Len(s) - (m + 1)
<1>5. k \in Nat /\ m + (k + 1) = Len(s)
  OBVIOUS
<1>6. k \in S
  <2> HIDE DEF S, k
  <2> QED BY <1>4, <1>5
<1> HIDE DEF k
<1>7. m + (k + 1) <= Len(s)
  BY <1>5
<1>8. size[c[m]] < size[c[m + (k + 1)]]
  BY <1>6, <1>7
<1> QED BY <1>5, <1>8

\* A proof that the climb vouches for is accepted by the circuit when its
\* siblings fit and none of them is zero.
LEMMA FittingIsAccepted ==
    ASSUME NEW me \in ProofRec, me.siblings \in Seq(Node),
           me.pathBits \in 0..(2 ^ Len(me.siblings) - 1),
           Leads(me.leaf, me.pathBits, me.siblings, me.root),
           Len(me.siblings) <= MaxCensusDepth,
           \A i \in 1..Len(me.siblings) : me.siblings[i] # Zero
    PROVE  CircuitAccepts(MerkleProof(me), me.root)
<1> DEFINE s == me.siblings
           n == Len(s)
           M == MaxCensusDepth
<1>1. PICK c : c = ClimbBody(c, me.leaf, me.pathBits, s) /\ c[n] = me.root
  BY DEF Leads
<1>2. PICK e : /\ e = CircuitBody(e, MerkleProof(me))
               /\ CircuitAccepts(MerkleProof(me), me.root)
                    <=> /\ MerkleProof(me).pathBits < 2 ^ M
                        /\ e[M] = me.root
  BY CircuitUnfold
<1>3. Climbs(c, e, me.leaf, me.pathBits, s)
  BY <1>1, <1>2, BothClimb
<1>4. n \in Nat /\ M \in Nat /\ n <= n
  BY CircuitAssumption
<1>5. e[n] = c[n]
  BY <1>3, <1>4, SameWay
<1>6. e[M] = e[n]
  BY <1>3, PaddingIsSkipped
<1>7. MerkleProof(me).pathBits = me.pathBits
  BY DEF MerkleProof
<1>8. me.pathBits < 2 ^ M
  <2>1. 2 ^ n \in Nat /\ 2 ^ M \in Nat /\ 2 ^ M > 0
    BY <1>4, TwoPower
  <2>2. 2 ^ n <= 2 ^ M
    <3>1. CASE n = M
      BY <3>1, <2>1
    <3>2. CASE n < M
      <4>1. PICK k \in Nat : 2 ^ M = k * (2 * 2 ^ n)
        BY <1>4, <3>2, PowerSplits
      <4> DEFINE a == 2 ^ n
                 b == 2 ^ M
      <4>2. a \in Nat /\ b \in Nat /\ b > 0 /\ b = k * (2 * a)
        BY <2>1, <4>1
      <4> HIDE DEF a, b
      <4>3. k # 0
        BY <4>2
      <4>4. 1 <= k /\ 1 \in Nat /\ 2 * a \in Nat
        BY <4>2, <4>3
      <4>5. 1 * (2 * a) <= k * (2 * a)
        BY <4>4, TimesMonotonic
      <4>6. a <= b
        BY <4>2, <4>5
      <4> QED BY <4>6 DEF a, b
    <3> QED BY <1>4, <3>1, <3>2
  <2>3. me.pathBits \in Nat /\ me.pathBits < 2 ^ n
    BY <2>1
  <2> QED BY <2>1, <2>2, <2>3
<1> QED BY <1>1, <1>2, <1>5, <1>6, <1>7, <1>8

\* Nothing else is, unless hashes coincide.
LEMMA AcceptedFits ==
    ASSUME NEW me \in ProofRec, HashesApart(me), me.siblings \in Seq(Node), me.leaf \in Node,
           Leads(me.leaf, me.pathBits, me.siblings, me.root),
           CircuitAccepts(MerkleProof(me), me.root)
    PROVE  /\ Len(me.siblings) <= MaxCensusDepth
           /\ \A i \in 1..Len(me.siblings) : me.siblings[i] # Zero
<1> DEFINE s == me.siblings
           n == Len(s)
           M == MaxCensusDepth
<1>1. PICK c : c = ClimbBody(c, me.leaf, me.pathBits, s) /\ c[n] = me.root
  BY DEF Leads
<1>2. PICK e : /\ e = CircuitBody(e, MerkleProof(me))
               /\ CircuitAccepts(MerkleProof(me), me.root)
                    <=> /\ MerkleProof(me).pathBits < 2 ^ M
                        /\ e[M] = me.root
  BY CircuitUnfold
<1>3. Climbs(c, e, me.leaf, me.pathBits, s) /\ e[M] = c[n]
  BY <1>1, <1>2, BothClimb
<1>4. PICK size \in [Node -> Nat] : Weighs(size, c, e, s)
  BY <1>3 DEF HashesApart
<1>5. n \in Nat /\ M \in Nat /\ n <= n /\ M <= M
  BY CircuitAssumption
<1>6. ~(M < n)
  <2> SUFFICES ASSUME M < n PROVE FALSE
    OBVIOUS
  <2> DEFINE m == M
             x == me.leaf
  <2>1. m \in Nat /\ m <= n /\ m <= M /\ x \in Node /\ Climbs(c, e, x, me.pathBits, s)
    BY <1>3, <1>5
  <2> HIDE DEF m, x
  <2>2. c[m] \in Node /\ e[m] \in Node /\ size[e[m]] <= size[c[m]]
    BY <2>1, <1>4, CircuitIsBehind
  <2> USE DEF m
  <2>3. size[c[M]] < size[c[n]]
    BY <2>2, <1>3, <1>4, <1>5, ClimbIsLarger
  <2>4. size[c[M]] \in Nat /\ size[e[M]] \in Nat
    BY <1>4, <2>2
  <2>5. size[e[M]] = size[c[n]]
    BY <1>3
  <2> QED BY <2>2, <2>3, <2>4, <2>5
<1>7. ASSUME n <= M, \E j \in 1..n : s[j] = Zero PROVE FALSE
  <2>1. e[M] = e[n]
    BY <1>3, <1>7, PaddingIsSkipped
  <2>2. c[n] \in Node /\ e[n] \in Node /\ size[e[n]] < size[c[n]]
    BY <1>3, <1>4, <1>5, <1>7, CircuitIsBehind
  <2>3. size[c[n]] \in Nat /\ e[n] = c[n]
    BY <2>1, <2>2, <1>3, <1>4
  <2> QED BY <2>2, <2>3
<1> QED BY <1>5, <1>6, <1>7

\* What a proof that is handed out under the caller's lock has.
LEMMA HandedOut ==
    ASSUME IInv, ReadInv, ProofInv, NEW p \in Prover, pv[p].at = "done"
    PROVE  /\ pv[p] \in ProofRec /\ pv[p].siblings \in Seq(Node) /\ pv[p].leaf \in Node
           /\ pv[p].pathBits \in 0..(2 ^ Len(pv[p].siblings) - 1)
           /\ Leads(pv[p].leaf, pv[p].pathBits, pv[p].siblings, pv[p].root)
<1> DEFINE me == pv[p]
<1>1. /\ me \in ProofRec /\ Reading(me, nodes, NumLeaves) /\ Climbing(me, nodes)
      /\ Shaped(nodes) /\ Settled(nodes) /\ me.at = "done"
  BY AtWork
<1> HIDE DEF me
<1>2. me.leafIndex \in Nat /\ me.leafIndex < Size(nodes)
  <2>1. NumLeaves = Size(nodes)
    BY AtWork, LeavesNumbered
  <2> QED BY <1>1, <2>1 DEF ProofRec, Reading
<1>3. /\ me.siblings \in Seq(Node) /\ me.leaf \in Node
      /\ me.pathBits \in 0..(2 ^ Len(me.siblings) - 1)
      /\ me.level = Depth(nodes) /\ me.root = Root(nodes)
  BY <1>1 DEF Reading, Climbing
<1>4. Leads(me.leaf, me.pathBits, me.siblings,
            At(nodes, Depth(nodes), me.leafIndex \div 2 ^ Depth(nodes)))
  BY <1>1 DEF Climbing
<1>5. me.root = At(nodes, Depth(nodes), me.leafIndex \div 2 ^ Depth(nodes))
  BY <1>1, <1>2, <1>3, TopIsRoot
<1> QED BY <1>1, <1>3, <1>4, <1>5 DEF me

\* Under the lock of the caller VerifyProofWith accepts every proof that
\* GenerateProof hands out, for every hash function and any tree.
THEOREM LockedProofsVerify == OuterLock => (PSpec => []ProofsVerify)
<1> SUFFICES ASSUME OuterLock PROVE PSpec => []ProofsVerify
  OBVIOUS
<1>1. IInv /\ ReadInv /\ ProofInv => ProofsVerify
  <2> SUFFICES ASSUME IInv, ReadInv, ProofInv, NEW p \in Prover, pv[p].at = "done"
               PROVE  Verify(pv[p])
    BY DEF ProofsVerify
  <2>1. Len(pv[p].siblings) \in Nat
    BY HandedOut
  <2> QED BY <2>1, HandedOut, LeadsVerifies
<1> QED BY <1>1, ReadInvHolds, ProofInvHolds, PTL

\* The siblings fit and none of them is zero.
Acceptable(me) ==
    /\ Len(me.siblings) <= MaxCensusDepth
    /\ \A i \in 1..Len(me.siblings) : me.siblings[i] # Zero

\* The circuit accepts every such proof that is handed out under the caller's
\* lock, for every hash function.  (CensusProofToMerkleProof, Verify)
THEOREM CircuitComplete ==
    OuterLock =>
      (PSpec => [](\A p \in Prover :
                     pv[p].at = "done" /\ Acceptable(pv[p])
                       => CircuitAccepts(MerkleProof(pv[p]), pv[p].root)))
<1> SUFFICES ASSUME OuterLock
             PROVE  PSpec => [](\A p \in Prover :
                                  pv[p].at = "done" /\ Acceptable(pv[p])
                                    => CircuitAccepts(MerkleProof(pv[p]), pv[p].root))
  OBVIOUS
<1>1. IInv /\ ReadInv /\ ProofInv
        => \A p \in Prover : pv[p].at = "done" /\ Acceptable(pv[p])
                               => CircuitAccepts(MerkleProof(pv[p]), pv[p].root)
  BY HandedOut, FittingIsAccepted DEF Acceptable
<1> QED BY <1>1, ReadInvHolds, ProofInvHolds, PTL

\* And it accepts no others, unless hashes coincide: a voter beside an emptied
\* slot, or too deep in the tree, cannot use the circuit.  The hypothesis is
\* about the hashes computed for the proofs handed out at the time.
THEOREM CircuitExact ==
    OuterLock =>
      (PSpec => []((\A p \in Prover : pv[p].at = "done" => HashesApart(pv[p]))
                     => CircuitAgrees))
<1> SUFFICES ASSUME OuterLock
             PROVE  PSpec => []((\A p \in Prover : pv[p].at = "done" => HashesApart(pv[p]))
                                  => CircuitAgrees)
  OBVIOUS
<1>1. IInv /\ ReadInv /\ ProofInv
        => ((\A p \in Prover : pv[p].at = "done" => HashesApart(pv[p])) => CircuitAgrees)
  <2> SUFFICES ASSUME IInv, ReadInv, ProofInv, NEW p \in Prover, pv[p].at = "done",
                      HashesApart(pv[p])
               PROVE  CircuitAccepts(MerkleProof(pv[p]), pv[p].root)
                        <=> Acceptable(pv[p])
    BY DEF CircuitAgrees, Acceptable
  <2>1. CASE Acceptable(pv[p])
    BY <2>1, HandedOut, FittingIsAccepted DEF Acceptable
  <2>2. CASE CircuitAccepts(MerkleProof(pv[p]), pv[p].root)
    BY <2>2, HandedOut, AcceptedFits DEF Acceptable
  <2> QED BY <2>1, <2>2
<1> QED BY <1>1, ReadInvHolds, ProofInvHolds, PTL

=============================================================================
