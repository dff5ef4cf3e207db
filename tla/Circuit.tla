------------------------------- MODULE Circuit -------------------------------
(***************************************************************************)
(* The circuit that verifies membership proofs (circuit/), on the proofs   *)
(* that GenerateProof hands out: they are padded with zeros to a fixed     *)
(* number of siblings, and the circuit takes a zero for padding.  The      *)
(* census packs the leaf, in the circuit and outside; see Codec.           *)
(***************************************************************************)
EXTENDS GenerateProof

CONSTANTS
    Zero,              \* 0, which is also the leaf of an emptied slot of a census
    MaxCensusDepth     \* siblings the circuit has room for: 24 in the code

ASSUME CircuitAssumption ==
    /\ Zero \in Node
    /\ MaxCensusDepth \in Nat \ {0}

-----------------------------------------------------------------------------

\* CensusProofToMerkleProof: what does not fit is cut off, what is missing is zero.
MerkleProof(proof) ==
    [leaf |-> proof.leaf,
     pathBits |-> proof.pathBits,
     siblings |-> [i \in 1..MaxCensusDepth |->
                      IF i <= Len(proof.siblings) THEN proof.siblings[i] ELSE Zero]]

\* A bit of a number.
BitOf(bits, i) == (bits \div 2 ^ i) % 2

\* Mutant: padding is hashed like any sibling.
BugPaddingCounts(mp, root) ==
    LET climb[i \in 0..MaxCensusDepth] ==
            IF i = 0 THEN mp.leaf
            ELSE IF BitOf(mp.pathBits, i - 1) = 1 THEN Hash(mp.siblings[i], climb[i - 1])
            ELSE Hash(climb[i - 1], mp.siblings[i])
    IN  mp.pathBits < 2 ^ MaxCensusDepth /\ climb[MaxCensusDepth] = root

\* Verify, with its result asserted: path bits beyond the last sibling have no witness, a
\* sibling that is zero leaves the node as it is.
CircuitAccepts(mp, root) ==
    LET climb[i \in 0..MaxCensusDepth] ==
            IF i = 0 THEN mp.leaf
            ELSE IF mp.siblings[i] = Zero THEN climb[i - 1]
            ELSE IF BitOf(mp.pathBits, i - 1) = 1 THEN Hash(mp.siblings[i], climb[i - 1])
            ELSE Hash(climb[i - 1], mp.siblings[i])
    IN  mp.pathBits < 2 ^ MaxCensusDepth /\ climb[MaxCensusDepth] = root

-----------------------------------------------------------------------------
(* Properties *)

\* Of the proofs handed out, which VerifyProofWith all accepts, the circuit accepts those
\* whose siblings fit and are not zero, and no others: a voter beside an emptied slot, or
\* too deep in the tree, cannot use the circuit.  (CensusProofToMerkleProof, Verify)
CircuitAgrees ==
    \A p \in Prover : pv[p].at = "done" =>
        (CircuitAccepts(MerkleProof(pv[p]), pv[p].root)
           <=> /\ Len(pv[p].siblings) <= MaxCensusDepth
               /\ \A i \in 1..Len(pv[p].siblings) : pv[p].siblings[i] # Zero)

\* "Verify method verifies a Lean IMT Merkle proof": it accepts every proof handed out
\* that has room in it.  Not one beside an emptied slot, whose zero it takes for padding.
CircuitVerifies ==
    \A p \in Prover : pv[p].at = "done" /\ Len(pv[p].siblings) <= MaxCensusDepth =>
        CircuitAccepts(MerkleProof(pv[p]), pv[p].root)

=============================================================================
