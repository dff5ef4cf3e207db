----------------------------- MODULE LeafStore ------------------------------
(***************************************************************************)
(* What a LeanIMT promises its caller, with no tree in sight: a list of    *)
(* leaves that grows at its end and whose entries can be replaced, and a   *)
(* saved copy of the list that a restart goes back to.  Every operation is *)
(* one step.                                                               *)
(***************************************************************************)
EXTENDS Integers, Sequences

CONSTANT Leaf

VARIABLES
    leaves,   \* the list its callers see
    saved     \* the list on disk

vars == <<leaves, saved>>

Init == leaves = <<>> /\ saved = <<>>

\* Insert and InsertMany add leaves at the end.
Extend ==
    /\ Len(leaves') > Len(leaves)
    /\ \A i \in 1..Len(leaves) : leaves'[i] = leaves[i]
    /\ \A i \in (Len(leaves) + 1)..Len(leaves') : leaves'[i] \in Leaf
    /\ UNCHANGED saved

\* Update and UpdateMany replace leaves and keep their number.
Replace ==
    /\ Len(leaves') = Len(leaves)
    /\ \A i \in 1..Len(leaves) : leaves'[i] \in Leaf
    /\ UNCHANGED saved

\* Sync saves the whole list, all or nothing.
Save == saved' = leaves /\ UNCHANGED leaves

\* Closing or crashing goes back to the list that was saved.
Restart == leaves' = saved /\ UNCHANGED saved

Next == Extend \/ Replace \/ Save \/ Restart

Spec == Init /\ [][Next]_vars

=============================================================================
