---------------------------- MODULE GenerateProof ----------------------------
(***************************************************************************)
(* Membership proofs (proof.go) made while other goroutines change the     *)
(* tree.  GenerateProof does not hold t.mu: Size, Depth and Root take the  *)
(* read lock for one call each, the leaf and the siblings are read from    *)
(* t.nodes with no lock at all.  The census calls it under its own lock    *)
(* c.mu, which its writers hold too: that is OuterLock.                    *)
(*                                                                         *)
(* A read of t.nodes past the end of a level panics.  Reading or storing   *)
(* one element of a level is taken to be atomic, and so are the stores of  *)
(* Call: a new level with its leaf, a batch of leaves.  The data race can  *)
(* also tear a slice header or show the zero value of a cell that          *)
(* ensureIndex has just added, which this model leaves out.                *)
(***************************************************************************)
EXTENDS LeanIMT

CONSTANTS
    Prover,       \* goroutines that ask for proofs
    OuterLock     \* are all calls made under a lock of the caller's?

ASSUME OuterLockAssumption == OuterLock \in BOOLEAN

VARIABLE pv       \* the locals of each prover's GenerateProof

allVars == <<vars, pv>>

\* at says what the prover does next; pathBits is packed as it is collected,
\* one bit for each sibling.
NoProof == [at |-> "idle", index |-> 0, level |-> 0, leafIndex |-> 0,
            leaf |-> Nil, pathBits |-> 0, siblings |-> <<>>, root |-> Nil]

PvTypeOK ==
    pv \in [Prover -> [at : {"idle", "leaf", "loop", "sibling", "right", "root",
                             "done", "panic"},
                       index : Nat, level : Nat, leafIndex : Nat, leaf : Cell,
                       pathBits : Nat, siblings : Seq(Cell), root : Cell]]

-----------------------------------------------------------------------------

RLocked == op = Idle

Goes(p, to) == pv' = [pv EXCEPT ![p] = to] /\ UNCHANGED vars

\* To read t.nodes[l][i] without the lock, and to panic when it is not there.
Panicked == [NoProof EXCEPT !.at = "panic"]
Reads(p, l, i, to) ==
    Goes(p, IF l <= Depth(nodes) /\ i < Len(Level(nodes, l)) THEN to ELSE Panicked)

\* Mutant: the index is taken to count from 1.
BugIndexFromOne(p, index) ==
    /\ pv[p].at = "idle"
    /\ RLocked
    /\ index < Size(nodes)
    /\ Goes(p, [NoProof EXCEPT !.at = "leaf", !.index = index - 1])

\* The range check; an index out of range gets an error and no proof.
Start(p, index) ==
    /\ pv[p].at = "idle"
    /\ RLocked
    /\ index < Size(nodes)
    /\ Goes(p, [NoProof EXCEPT !.at = "leaf", !.index = index, !.leafIndex = index])

ReadLeaf(p) ==
    /\ pv[p].at = "leaf"
    /\ Reads(p, 0, pv[p].index,
             [pv[p] EXCEPT !.at = "loop", !.leaf = At(nodes, 0, pv[p].index)])

\* The loop's condition calls Depth each time round.
TestDepth(p) ==
    /\ pv[p].at = "loop"
    /\ RLocked
    /\ Goes(p, [pv[p] EXCEPT !.at = IF pv[p].level < Depth(nodes)
                                    THEN "sibling" ELSE "root"])

\* The end of the loop's body.
NextLevel(me) == [me EXCEPT !.at = "loop", !.level = @ + 1, !.index = @ \div 2]

\* The body of the loop for a left child: is there a right sibling?
TestSibling(p) ==
    LET me == pv[p]
    IN  /\ me.at = "sibling"
        /\ me.index % 2 = 0
        /\ Goes(p, IF me.index + 1 < Len(Level(nodes, me.level))
                   THEN [me EXCEPT !.at = "right"] ELSE NextLevel(me))

\* Mutant: the path bit is placed by level, not by number of siblings.
BugBitByLevel(p) ==
    LET me == pv[p]
        bit == me.index % 2
        i == IF bit = 1 THEN me.index - 1 ELSE me.index + 1
    IN  /\ (me.at = "sibling" /\ bit = 1) \/ me.at = "right"
        /\ Reads(p, me.level, i, [NextLevel(me) EXCEPT
                                    !.siblings = Append(@, At(nodes, me.level, i)),
                                    !.pathBits = @ + bit * 2 ^ me.level])

\* The body of the loop for a right child, and for a left child that has a
\* right sibling: the sibling is read and its path bit kept.
ReadSibling(p) ==
    LET me == pv[p]
        bit == me.index % 2
        i == IF bit = 1 THEN me.index - 1 ELSE me.index + 1
    IN  /\ (me.at = "sibling" /\ bit = 1) \/ me.at = "right"
        /\ Reads(p, me.level, i, [NextLevel(me) EXCEPT
                                    !.siblings = Append(@, At(nodes, me.level, i)),
                                    !.pathBits = @ + bit * 2 ^ Len(me.siblings)])

\* Mutant: the root is read only when the depth is still the one walked.
BugWaitForDepth(p) ==
    /\ pv[p].at = "root"
    /\ RLocked
    /\ pv[p].level = Depth(nodes)
    /\ Goes(p, [pv[p] EXCEPT !.at = "done", !.root = Root(nodes)])

ReadRoot(p) ==
    /\ pv[p].at = "root"
    /\ RLocked
    /\ Goes(p, [pv[p] EXCEPT !.at = "done", !.root = Root(nodes)])

Return(p) == pv[p].at = "done" /\ Goes(p, NoProof)

Prove(p) ==
    \/ ReadLeaf(p) \/ TestDepth(p) \/ TestSibling(p) \/ ReadSibling(p)
    \/ ReadRoot(p) \/ Return(p)

\* Mutant: proofs are made without the caller's lock.
BugNoOuterLock == TRUE

\* Under the caller's lock no change begins while a proof is being made.
MayWrite == OuterLock => \A p \in Prover : pv[p].at = "idle"

PNext ==
    \/ Call /\ MayWrite /\ UNCHANGED pv
    \/ Continue /\ UNCHANGED pv
    \/ \E p \in Prover, index \in Keys : Start(p, index)
    \/ \E p \in Prover : Prove(p)

PInit == Init /\ pv = [p \in Prover |-> NoProof]

PSpec == PInit /\ [][PNext]_allVars

\* The holder of t.mu never blocks; a reader that waits for the lock gets it
\* before the next writer does (sync.RWMutex), hence strong fairness.
PFairSpec ==
    /\ PSpec
    /\ WF_allVars(Continue /\ UNCHANGED pv)
    /\ \A p \in Prover : SF_allVars(Prove(p))

-----------------------------------------------------------------------------

\* VerifyProofWith: hash the leaf with the siblings from the bottom up, on
\* the side the next path bit names.
Verify(proof) ==
    LET bit(i) == (proof.pathBits \div 2 ^ (i - 1)) % 2
        climb[i \in 0..Len(proof.siblings)] ==
            IF i = 0 THEN proof.leaf
            ELSE IF bit(i) = 1 THEN Hash(proof.siblings[i], climb[i - 1])
                               ELSE Hash(climb[i - 1], proof.siblings[i])
    IN  climb[Len(proof.siblings)] = proof.root

-----------------------------------------------------------------------------
(* Properties *)

\* Every proof that is handed out verifies.  "LeanIMT is safe for concurrent
\* use by multiple goroutines" promises it to callers without a lock.
ProofsVerify == \A p \in Prover : pv[p].at = "done" => Verify(pv[p])

\* Under the caller's lock, the proof is about the tree as it is when it is
\* handed out: its leaf is the one at the index asked for, its root the root.
ProofsCurrent ==
    \A p \in Prover : pv[p].at = "done" =>
        /\ pv[p].root = Root(nodes)
        /\ pv[p].leafIndex < Size(nodes)
        /\ pv[p].leaf = At(nodes, 0, pv[p].leafIndex)

\* No read of t.nodes is out of range, whatever the writers have done since
\* the last locked call or the test of the length, but for one case: the leaf
\* of a tree of one leaf, while a writer stores it again as the root.
ReadsInRange ==
    \A p \in Prover :
        /\ pv[p].at = "leaf" =>
             \/ pv[p].index < Size(nodes)
             \/ op.call = "root" /\ Depth(nodes) = 0 /\ pv[p].index = 0
        /\ pv[p].at \in {"sibling", "right"} => pv[p].level < Depth(nodes)
        /\ pv[p].at = "sibling" => pv[p].index < Len(Level(nodes, pv[p].level))
        /\ pv[p].at = "right" => pv[p].index + 1 < Len(Level(nodes, pv[p].level))

\* GenerateProof does not panic: it holds under the caller's lock, and "safe
\* for concurrent use" promises it without one too.
NoPanic == \A p \in Prover : pv[p].at # "panic"

\* GenerateProof returns, although its loop asks for a depth that may grow,
\* once it has its leaf or the tree more leaves than one.
Begun(p) ==
    /\ pv[p].at \notin {"idle", "panic"}
    /\ pv[p].at = "leaf" => Depth(nodes) > 0
ProofReturns == \A p \in Prover : Begun(p) ~> pv[p].at = "idle"

=============================================================================
