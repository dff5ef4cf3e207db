----------------------------- MODULE LeanIMTInd ------------------------------
(***************************************************************************)
(* The inductive invariant of LeanIMT: for each operation, which levels it *)
(* has already mended, what it holds in its locals, and how the levels it  *)
(* has not reached yet relate to the ones below them.                      *)
(***************************************************************************)
EXTENDS LeanIMT

LenAt(t, l) == Len(Level(t, l))

\* The node at position j of the level up is the parent of its children in
\* the level low.
Right(low, up, j) == up[j + 1] = Parent(low, j)

\* The level up has exactly the parents of the level low.
FullOver(low, up) ==
    /\ Len(up) = (Len(low) + 1) \div 2
    /\ \A j \in 0..(Len(up) - 1) : Right(low, up, j)

\* The level up has only parents of low, and all those of two children: a
\* level that is about to be added above the old root is empty.
UntouchedOver(low, up) ==
    /\ Len(up) >= Len(low) \div 2
    /\ Len(up) <= (Len(low) + 1) \div 2
    /\ \A j \in 0..(Len(up) - 1) : Right(low, up, j)

\* The first n nodes of the level up are there and are right.
RightUpToOver(low, up, n) ==
    /\ Len(up) >= n
    /\ \A j \in 0..(n - 1) : Right(low, up, j)

\* The level up has all its nodes and those not in S are right.
RightExceptOver(low, up, S) ==
    /\ Len(up) = (Len(low) + 1) \div 2
    /\ \A j \in 0..(Len(up) - 1) : j \notin S => Right(low, up, j)

\* The same for level k of a tree and the level below it.
Full(t, k) == FullOver(Level(t, k - 1), Level(t, k))
Untouched(t, k) == UntouchedOver(Level(t, k - 1), Level(t, k))
RightUpTo(t, k, n) == RightUpToOver(Level(t, k - 1), Level(t, k), n)
RightExcept(t, k, S) == RightExceptOver(Level(t, k - 1), Level(t, k), S)

\* The invariants below are about a tree t of depth D and the locals of an
\* operation: its level l, its index i, the node v it holds, ...

\* No operation is under way.
Settled(t) ==
    /\ \A k \in 1..Depth(t) : Full(t, k)
    /\ LenAt(t, Depth(t)) <= 1

\* Insert is about to store v at i, the last place of level l.
Inserting(t, l, i, v) ==
    LET D == Depth(t)
    IN  /\ l <= D
        /\ BitLen[i] = D - l
        /\ v \in Node
        /\ \A k \in 1..(l - 1) : Full(t, k)
        /\ \A k \in (l + 2)..D : Untouched(t, k)
        /\ l = 0 =>
             /\ LenAt(t, 0) = i + 1
             /\ v = At(t, 0, i)
             /\ D > 0 => /\ RightUpTo(t, 1, i \div 2)
                         /\ LenAt(t, 1) <= i \div 2 + 1
        /\ l > 0 =>
             /\ LenAt(t, l - 1) \in {2 * i + 1, 2 * i + 2}
             /\ v = Parent(Level(t, l - 1), i)
             /\ RightUpTo(t, l, i)
             /\ LenAt(t, l) <= i + 1
             /\ l < D => Untouched(t, l + 1)

\* InsertMany has stored the parents of level l below i; those from s on are
\* new, and above them only what lies left of s stands.
InsertingMany(t, l, i, s) ==
    LET D == Depth(t)
    IN  /\ l <= D
        /\ LenAt(t, l) > 0
        /\ BitLen[LenAt(t, l) - 1] = D - l
        /\ s <= i
        /\ \A k \in 1..l : Full(t, k)
        /\ l < D => /\ RightUpTo(t, l + 1, i)
                    /\ i <= (LenAt(t, l) + 1) \div 2
                    /\ LenAt(t, l + 1) <= (LenAt(t, l) + 1) \div 2
        /\ l + 1 < D => /\ RightUpTo(t, l + 2, s \div 2)
                        /\ LenAt(t, l + 2) <= (LenAt(t, l + 1) + 1) \div 2
        /\ \A k \in (l + 3)..D : Untouched(t, k)

\* Update is about to store v at i of level l.
Updating(t, l, i, v) ==
    LET D == Depth(t)
    IN  /\ l <= D
        /\ i < LenAt(t, l)
        /\ LenAt(t, D) <= 1
        /\ v \in Node
        /\ l = 0 => /\ v = At(t, 0, i)
                    /\ D > 0 => RightExcept(t, 1, {i \div 2})
        /\ l > 0 => /\ v = Parent(Level(t, l - 1), i)
                    /\ RightExcept(t, l, {i})
        /\ \A k \in 1..D : k # l /\ ~(l = 0 /\ k = 1) => Full(t, k)

\* UpdateMany has still to mend todo at level l, and next above it.
UpdatingMany(t, l, todo, next) ==
    LET D == Depth(t)
    IN  /\ l \in 1..(D + 1)
        /\ LenAt(t, D) <= 1
        /\ l <= D => /\ todo \subseteq 0..(LenAt(t, l) - 1)
                     /\ RightExcept(t, l, todo)
        /\ l < D => /\ next \subseteq 0..(LenAt(t, l + 1) - 1)
                    /\ RightExcept(t, l + 1, next)
        /\ \A k \in 1..D : k \notin {l, l + 1} => Full(t, k)

\* Insert or Update has emptied the top level l and is about to append the
\* root v, which is a leaf when that level is level 0.
Rooting(t, l, v) ==
    LET D == Depth(t)
    IN  /\ l = D
        /\ LenAt(t, D) = 0
        /\ v \in Node
        /\ D = 0 => v \in Leaf /\ 1 <= MaxSize
        /\ D > 0 => /\ LenAt(t, D - 1) \in {1, 2}
                    /\ v = Parent(Level(t, D - 1), 0)
        /\ \A k \in 1..(D - 1) : Full(t, k)

\* A tree of nodes, without the zero value anywhere, as deep as its number
\* of leaves demands.
Shaped(t) ==
    /\ t \in Seq(Seq(Node))
    /\ Len(t) >= 1
    /\ Level(t, 0) \in Seq(Leaf)
    /\ Depth(t) = CeilLog2(Size(t))
    /\ Size(t) <= MaxSize

TreeInv ==
    /\ Shaped(nodes)
    /\ proc = "down" => op = Idle
    /\ op.call = "none" => op = Idle /\ Settled(nodes)
    /\ op.call = "insert" => Inserting(nodes, op.level, op.index, op.node)
    /\ op.call = "insertMany" => InsertingMany(nodes, op.level, op.index, op.start)
    /\ op.call = "update" => Updating(nodes, op.level, op.index, op.node)
    /\ op.call = "updateMany" => UpdatingMany(nodes, op.level, op.todo, op.next)
    /\ op.call = "root" => Rooting(nodes, op.level, op.node)

DiskInv ==
    /\ diskSize <= MaxSize
    /\ DiskComplete

IInv == TypeOK /\ TreeInv /\ DiskInv

\* What is on disk, while the process runs, of a tree that has nothing left to
\* sync; without a database there is nothing.
Synced ==
    /\ Persistent /\ proc # "down" /\ op = Idle /\ ~dirty => Saved = nodes[1]
    /\ ~Persistent => diskSize = 0

=============================================================================
