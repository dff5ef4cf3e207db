------------------------------ MODULE LeanTree ------------------------------
(***************************************************************************)
(* The shape of a lean incremental Merkle tree, as a pure data type.       *)
(*                                                                         *)
(* t.nodes is a sequence of levels, leaves first; the code's indices start *)
(* at 0 and TLA+ sequences at 1, so every access goes through At, Level    *)
(* and Put, which take the code's indices.                                 *)
(***************************************************************************)
EXTENDS Integers, Sequences

CONSTANTS
    Node,          \* every value a tree can hold: leaves and their hashes
    Leaf,          \* the values callers insert
    Hash(_, _),    \* the hasher passed to New
    Nil            \* the zero value of N that ensureIndex pads with

\* The hasher maps nodes to nodes, and no node is the zero value.
ASSUME NodeAssumption ==
    /\ Leaf \subseteq Node
    /\ Nil \notin Node
    /\ \A a, b \in Node : Hash(a, b) \in Node

Cell == Node \union {Nil}

EmptyTree == << <<>> >>

Depth(t) == Len(t) - 1

Level(t, l) == t[l + 1]

At(t, l, i) == t[l + 1][i + 1]

Size(t) == Len(t[1])

\* make([]N, missing) appended to s when index is not addressable.
EnsureIndex(s, index) ==
    IF index < Len(s) THEN s
    ELSE s \o [k \in 1..(index + 1 - Len(s)) |-> Nil]

\* ensureIndex(&s, index); s[index] = x
Put(s, index, x) == [EnsureIndex(s, index) EXCEPT ![index + 1] = x]

PutAt(t, l, index, x) == [t EXCEPT ![l + 1] = Put(@, index, x)]

\* The number of bits of x: how often the loop of ceilLog2 halves it.
BitLen[x \in Nat] == IF x = 0 THEN 0 ELSE 1 + BitLen[x \div 2]

CeilLog2(n) == IF n <= 1 THEN 0 ELSE BitLen[n - 1]

\* The parent at position i of the level above s; a missing right child
\* leaves the left one as its own parent.
Parent(s, i) ==
    IF 2 * i + 1 < Len(s) THEN Hash(s[2 * i + 1], s[2 * i + 2])
                          ELSE s[2 * i + 1]

Parents(s) == [i \in 1..((Len(s) + 1) \div 2) |-> Parent(s, i - 1)]

\* rebuildTree: the levels above the given leaves, computed from scratch.
RebuildTree(leaves) ==
    LET depth == CeilLog2(Len(leaves))
        build[l \in 0..depth] == IF l = 0 THEN leaves ELSE Parents(build[l - 1])
    IN  [l \in 1..(depth + 1) |-> build[l - 1]]

\* What every operation must re-establish before it unlocks: one root, no
\* level too many, and every inner node computed from its children.
Consistent(t) ==
    /\ Len(t) >= 1
    /\ Depth(t) = CeilLog2(Size(t))
    /\ \A l \in 1..Depth(t) : Level(t, l) = Parents(Level(t, l - 1))

HasRoot(t) == Len(Level(t, Depth(t))) > 0

Root(t) == IF HasRoot(t) THEN At(t, Depth(t), 0) ELSE Nil

=============================================================================
