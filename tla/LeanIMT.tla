------------------------------- MODULE LeanIMT -------------------------------
(***************************************************************************)
(* One LeanIMT value (leanimt.go): the levels of nodes, the dirty flag and *)
(* the key-value database behind it.  Insert, InsertMany, Update and       *)
(* UpdateMany hold t.mu for their whole run but work one level, or one     *)
(* node, at a time; every iteration of their loops is an action here, so   *)
(* that code that reads t.nodes without the lock meets every intermediate  *)
(* state.  The process may crash between any two steps and be restarted.   *)
(***************************************************************************)
EXTENDS LeanTree, FiniteSets

CONSTANTS
    Persistent,    \* was New given a database?
    MaxSize,       \* bound: leaves in a tree
    MaxBatch       \* bound: leaves of one InsertMany or UpdateMany

ASSUME BoundAssumption ==
    /\ Persistent \in BOOLEAN
    /\ MaxSize \in Nat
    /\ MaxBatch \in Nat

VARIABLES
    nodes,      \* t.nodes
    dirty,      \* t.dirty
    op,         \* the locals of the operation that holds t.mu, or Idle
    diskSize,   \* "meta:size"; 0 stands for a missing key too, Load treats them alike
    disk,       \* the "leaf:<i>" keys; Nil is a missing key
    proc        \* "open", "closing" (in Close, after its Sync) or "down"

memVars == <<nodes, dirty, op>>
diskVars == <<diskSize, disk>>
vars == <<nodes, dirty, op, diskSize, disk, proc>>

Idle == [call |-> "none", level |-> 0, index |-> 0, start |-> 0,
         node |-> Nil, todo |-> {}, next |-> {}]

Keys == 0..(MaxSize - 1)

TypeOK ==
    /\ nodes \in Seq(Seq(Cell))
    /\ dirty \in BOOLEAN
    /\ op \in [call : {"none", "insert", "insertMany", "update", "updateMany", "root"},
               level : Nat, index : Nat, start : Nat, node : Cell,
               todo : SUBSET Nat, next : SUBSET Nat]
    /\ diskSize \in Nat
    /\ disk \in [Keys -> Leaf \union {Nil}]
    /\ proc \in {"open", "closing", "down"}

-----------------------------------------------------------------------------
(* Insert *)

Unlocked == proc # "down" /\ op = Idle

\* The leaf is stored and a level added when the depth grows.
Insert(leaf) ==
    LET index == Size(nodes)
        grown == IF Depth(nodes) < CeilLog2(index + 1)
                 THEN Append(nodes, <<>>) ELSE nodes
    IN  /\ Unlocked
        /\ index < MaxSize
        /\ nodes' = PutAt(grown, 0, index, leaf)
        /\ op' = [Idle EXCEPT !.call = "insert", !.index = index, !.node = leaf]
        /\ UNCHANGED <<dirty, diskSize, disk, proc>>

\* Mutant: the level is cut off behind the node that is stored.
BugStoreCuts ==
    IF op.level > 0
    THEN [nodes EXCEPT ![op.level + 1] = SubSeq(@, 1, op.index) \o <<op.node>>]
    ELSE nodes

\* The node computed so far is stored at its level; level 0 already holds it.
StoreNode ==
    IF op.level > 0 THEN PutAt(nodes, op.level, op.index, op.node) ELSE nodes

\* One iteration of Insert's loop; a right child is hashed with its sibling.
InsertLevel ==
    /\ op.call = "insert"
    /\ op.level < Depth(nodes)
    /\ nodes' = StoreNode
    /\ op' = [op EXCEPT
                !.level = @ + 1,
                !.index = @ \div 2,
                !.node = IF op.index % 2 = 1
                         THEN Hash(At(nodes, op.level, op.index - 1), @) ELSE @]
    /\ UNCHANGED <<dirty, diskSize, disk, proc>>

\* After the loop of Insert and of Update the top level is emptied, ...
TruncateTop ==
    /\ op.level = Depth(nodes)
    /\ nodes' = [nodes EXCEPT ![op.level + 1] = <<>>]
    /\ op' = [op EXCEPT !.call = "root"]
    /\ UNCHANGED <<dirty, diskSize, disk, proc>>

InsertTruncates == op.call = "insert" /\ TruncateTop

\* ... and then gets the root as its single node.  In a tree of one leaf the
\* top level is level 0.
StoreRoot ==
    /\ op.call = "root"
    /\ nodes' = [nodes EXCEPT ![op.level + 1] = Append(@, op.node)]
    /\ dirty' = TRUE
    /\ op' = Idle
    /\ UNCHANGED <<diskSize, disk, proc>>

-----------------------------------------------------------------------------
(* InsertMany *)

\* The leaves are appended and the missing levels added above them.
InsertMany(leaves) ==
    LET level0 == nodes[1] \o leaves
        newLevels == CeilLog2(Len(level0)) - Depth(nodes)
    IN  /\ Unlocked
        /\ leaves # <<>>
        /\ Len(level0) <= MaxSize
        /\ nodes' = [nodes EXCEPT ![1] = level0] \o [l \in 1..newLevels |-> <<>>]
        /\ op' = [Idle EXCEPT !.call = "insertMany",
                              !.start = Size(nodes) \div 2,
                              !.index = Size(nodes) \div 2]
        /\ UNCHANGED <<dirty, diskSize, disk, proc>>

NumParents(l) == (Len(Level(nodes, l)) + 1) \div 2

\* One iteration of the inner loop: the parent at op.index.
InsertManyParent ==
    /\ op.call = "insertMany"
    /\ op.level < Depth(nodes)
    /\ op.index < NumParents(op.level)
    /\ nodes' = PutAt(nodes, op.level + 1, op.index,
                      Parent(Level(nodes, op.level), op.index))
    /\ op' = [op EXCEPT !.index = @ + 1]
    /\ UNCHANGED <<dirty, diskSize, disk, proc>>

\* Mutant: the next level starts as far right as this one.
BugStartNotHalved ==
    /\ op.call = "insertMany"
    /\ op.level < Depth(nodes)
    /\ op.index >= NumParents(op.level)
    /\ op' = [op EXCEPT !.level = @ + 1, !.index = op.start]
    /\ UNCHANGED <<nodes, dirty, diskSize, disk, proc>>

\* The end of the inner loop: the next level starts half as far right.
InsertManyLevel ==
    /\ op.call = "insertMany"
    /\ op.level < Depth(nodes)
    /\ op.index >= NumParents(op.level)
    /\ op' = [op EXCEPT !.level = @ + 1,
                        !.start = @ \div 2,
                        !.index = op.start \div 2]
    /\ UNCHANGED <<nodes, dirty, diskSize, disk, proc>>

InsertManyEnd ==
    /\ op.call = "insertMany"
    /\ op.level = Depth(nodes)
    /\ dirty' = TRUE
    /\ op' = Idle
    /\ UNCHANGED <<nodes, diskSize, disk, proc>>

-----------------------------------------------------------------------------
(* Update and UpdateMany *)

Update(index, leaf) ==
    /\ Unlocked
    /\ index < Size(nodes)
    /\ nodes' = [nodes EXCEPT ![1][index + 1] = leaf]
    /\ op' = [Idle EXCEPT !.call = "update", !.index = index, !.node = leaf]
    /\ UNCHANGED <<dirty, diskSize, disk, proc>>

\* Mutant: a left child ignores its right sibling, as Insert does.
BugUpdateIgnoresRight ==
    /\ op.call = "update"
    /\ op.level < Depth(nodes)
    /\ nodes' = StoreNode
    /\ op' = [op EXCEPT
                !.level = @ + 1,
                !.index = @ \div 2,
                !.node = IF op.index % 2 = 1
                         THEN Hash(Level(StoreNode, op.level)[op.index], @) ELSE @]
    /\ UNCHANGED <<dirty, diskSize, disk, proc>>

\* One iteration of Update's loop; a left child is hashed with its right
\* sibling when there is one, and is its own parent when there is none.
UpdateLevel ==
    LET here == Level(StoreNode, op.level)
    IN  /\ op.call = "update"
        /\ op.level < Depth(nodes)
        /\ nodes' = StoreNode
        /\ op' = [op EXCEPT
                    !.level = @ + 1,
                    !.index = @ \div 2,
                    !.node = IF op.index % 2 = 1 THEN Hash(here[op.index], @)
                             ELSE IF op.index + 1 < Len(here)
                                  THEN Hash(@, here[op.index + 2]) ELSE @]
        /\ UNCHANGED <<dirty, diskSize, disk, proc>>

UpdateTruncates == op.call = "update" /\ TruncateTop

\* The batch has passed validation: new is a function from the indices, all
\* in range and none repeated, to their leaves.  A batch that does not pass,
\* and the empty one, leaves everything as it is.
UpdateMany(new) ==
    /\ Unlocked
    /\ DOMAIN new # {}
    /\ \A i \in DOMAIN new : i < Size(nodes)
    /\ nodes' = [nodes EXCEPT ![1] =
                   [k \in 1..Len(@) |-> IF k - 1 \in DOMAIN new THEN new[k - 1]
                                        ELSE @[k]]]
    /\ op' = [Idle EXCEPT !.call = "updateMany", !.level = 1,
                          !.todo = {i \div 2 : i \in DOMAIN new}]
    /\ UNCHANGED <<dirty, diskSize, disk, proc>>

\* One iteration over the set of modified parents, which Go ranges over in
\* any order.
UpdateManyParent ==
    /\ op.call = "updateMany"
    /\ op.level <= Depth(nodes)
    /\ \E i \in op.todo :
         /\ nodes' = PutAt(nodes, op.level, i, Parent(Level(nodes, op.level - 1), i))
         /\ op' = [op EXCEPT !.todo = @ \ {i}, !.next = @ \union {i \div 2}]
    /\ UNCHANGED <<dirty, diskSize, disk, proc>>

\* Mutant: the loop over the levels does not advance.
BugSameLevel ==
    /\ op.call = "updateMany"
    /\ op.level <= Depth(nodes)
    /\ op.todo = {}
    /\ op' = [op EXCEPT !.todo = op.next, !.next = {}]
    /\ UNCHANGED <<nodes, dirty, diskSize, disk, proc>>

UpdateManyLevel ==
    /\ op.call = "updateMany"
    /\ op.level <= Depth(nodes)
    /\ op.todo = {}
    /\ op' = [op EXCEPT !.level = @ + 1, !.todo = op.next, !.next = {}]
    /\ UNCHANGED <<nodes, dirty, diskSize, disk, proc>>

UpdateManyEnd ==
    /\ op.call = "updateMany"
    /\ op.level > Depth(nodes)
    /\ dirty' = TRUE
    /\ op' = Idle
    /\ UNCHANGED <<nodes, diskSize, disk, proc>>

-----------------------------------------------------------------------------
(* Persistence *)

\* Mutants: Sync saves the top level; only leaves not saved before; all but
\* the last leaf.
BugSaveTop ==
    /\ disk' = [i \in Keys |-> IF i < Len(nodes[Len(nodes)])
                              THEN nodes[Len(nodes)][i + 1] ELSE disk[i]]
    /\ diskSize' = Size(nodes)
    /\ dirty' = FALSE
BugSaveNewLeaves ==
    /\ disk' = [i \in Keys |-> IF i >= diskSize /\ i < Size(nodes)
                              THEN nodes[1][i + 1] ELSE disk[i]]
    /\ diskSize' = Size(nodes)
    /\ dirty' = FALSE
BugSaveMissesLast ==
    /\ disk' = [i \in Keys |-> IF i < Size(nodes) - 1
                              THEN nodes[1][i + 1] ELSE disk[i]]
    /\ diskSize' = Size(nodes)
    /\ dirty' = FALSE

\* The transaction of Sync: all leaves, no key beyond them up to the size
\* saved before (cleanupStaleLeaves), the size; committed at once.
WriteLeaves ==
    /\ disk' = [i \in Keys |->
                  IF i < Size(nodes) THEN nodes[1][i + 1]
                  ELSE IF i < diskSize THEN Nil ELSE disk[i]]
    /\ diskSize' = Size(nodes)
    /\ dirty' = FALSE

\* A Sync whose transaction fails changes nothing, dirty stays.
Sync ==
    /\ Unlocked
    /\ Persistent
    /\ dirty
    /\ WriteLeaves
    /\ UNCHANGED <<nodes, op, proc>>

\* Close calls Sync, which unlocks, and only then closes the database.
CloseSync ==
    /\ Unlocked
    /\ Persistent
    /\ proc = "open"
    /\ IF dirty THEN WriteLeaves ELSE UNCHANGED <<disk, diskSize, dirty>>
    /\ proc' = "closing"
    /\ UNCHANGED <<nodes, op>>

Forget ==
    /\ proc' = "down"
    /\ nodes' = EmptyTree
    /\ dirty' = FALSE
    /\ op' = Idle
    /\ UNCHANGED diskVars

CloseDB == proc = "closing" /\ Forget

Crash == proc # "down" /\ Forget

\* Mutant: one leaf too few is read back.
BugLoadMissesLast ==
    IF diskSize = 0 THEN EmptyTree
    ELSE RebuildTree([k \in 1..(diskSize - 1) |-> disk[k - 1]])

\* Load: every leaf up to the saved size, and the levels rebuilt.  New turns
\* the missing key of a leaf into an empty tree.
Load ==
    IF diskSize = 0 \/ \E i \in 0..(diskSize - 1) : disk[i] = Nil
    THEN EmptyTree
    ELSE RebuildTree([k \in 1..diskSize |-> disk[k - 1]])

Open ==
    /\ proc = "down"
    /\ proc' = "open"
    /\ nodes' = IF Persistent THEN Load ELSE EmptyTree
    /\ dirty' = FALSE
    /\ UNCHANGED <<op, diskSize, disk>>

-----------------------------------------------------------------------------

Init ==
    /\ nodes = EmptyTree
    /\ dirty = FALSE
    /\ op = Idle
    /\ diskSize = 0
    /\ disk = [i \in Keys |-> Nil]
    /\ proc = "open"

\* Batches of at most MaxBatch leaves, as sequences and as partial functions.
LeafBatches == UNION {[1..n -> Leaf] : n \in 1..MaxBatch}

IndexSets == {S \in SUBSET Keys : Cardinality(S) <= MaxBatch}

Call ==
    \/ \E leaf \in Leaf : Insert(leaf)
    \/ \E leaves \in LeafBatches : InsertMany(leaves)
    \/ \E index \in Keys, leaf \in Leaf : Update(index, leaf)
    \/ \E S \in IndexSets : \E new \in [S -> Leaf] : UpdateMany(new)

\* The holder of t.mu goes on.
Continue ==
    \/ InsertLevel \/ InsertTruncates
    \/ InsertManyParent \/ InsertManyLevel \/ InsertManyEnd
    \/ UpdateLevel \/ UpdateTruncates
    \/ StoreRoot
    \/ UpdateManyParent \/ UpdateManyLevel \/ UpdateManyEnd

Persist == Sync \/ CloseSync \/ CloseDB \/ Crash \/ Open

Next == Call \/ Continue \/ Persist

Spec == Init /\ [][Next]_vars

\* A goroutine inside an operation never blocks, so it gets to run.
FairSpec == Spec /\ WF_vars(Continue)

-----------------------------------------------------------------------------
(* Properties *)

\* Whenever the lock is free the tree is the lean tree of its leaves: the
\* depth is ceil(log2(size)), there is a single root and every inner node is
\* the hash of its children, or the only child itself.  Insert, InsertMany,
\* Update and UpdateMany recompute only some of the nodes.
TreeConsistent == op = Idle => Consistent(nodes)

\* The leaf keys on disk are exactly those below meta:size.  So Load never
\* meets the missing key that makes New start with an empty tree, and no
\* stale leaf survives beyond the size.
DiskComplete == \A i \in Keys : (disk[i] # Nil) <=> (i < diskSize)

\* A tree with nothing left to sync would be restored node for node, and so
\* with its root, by Load: the incremental algorithms and rebuildTree agree.
CleanIsDurable ==
    Persistent /\ Unlocked /\ ~dirty => Load = nodes

\* No step of an operation drops a level or takes a node off one, but for the
\* root: Insert and Update empty the top level before they append it again.
\* GenerateProof indexes t.nodes without the lock and relies on it; where the
\* top level is level 0, the exception is what it may meet.
LevelsOnlyGrow ==
    [][proc # "down" /\ proc' # "down" =>
         /\ Len(nodes') >= Len(nodes)
         /\ \A l \in 0..Depth(nodes) :
              \/ Len(Level(nodes', l)) >= Len(Level(nodes, l))
              \/ /\ l = Depth(nodes) /\ Len(Level(nodes, l)) = 1
                 /\ op.call \in {"insert", "update"} /\ op'.call = "root"]_vars

\* Every operation that takes the lock gives it back.
OperationEnds == op # Idle ~> op = Idle

Saved == [k \in 1..diskSize |-> disk[k - 1]]

\* The leaves that whoever takes the lock finds: level 0, but for the moment
\* in which the only leaf is taken off it and stored again.
Leaves == IF op.call = "root" /\ Depth(nodes) = 0 THEN <<op.node>> ELSE nodes[1]

\* The leaves in memory are never fewer than those on disk: a tree that has
\* been opened has all that was saved, and no Sync saves fewer.
TreeKeepsSaved == proc # "down" => diskSize <= Len(Leaves)

\* The tree implements the list of leaves of LeafStore: each operation takes
\* effect on the leaves in one step, and a restart finds what Sync saved.
Abstract == INSTANCE LeafStore WITH
    leaves <- IF proc = "down" THEN Saved ELSE Leaves,
    saved <- Saved
ImplementsLeafStore == Abstract!Spec

=============================================================================
