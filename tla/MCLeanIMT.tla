----------------------------- MODULE MCLeanIMT ------------------------------
(***************************************************************************)
(* LeanIMT for TLC.  Hashes are terms: Hash(x, y) is the pair <<x, y>>, so *)
(* that two hashes are equal only when their arguments are.  Terms nest as *)
(* deep as a tree of MaxSize leaves is; TooDeep stands for all others.     *)
(***************************************************************************)
EXTENDS LeanIMTInd

CONSTANTS TooDeep

Terms1 == Leaf \union (Leaf \X Leaf)
Terms2 == Leaf \union (Terms1 \X Terms1)
Terms3 == Leaf \union (Terms2 \X Terms2)

\* For up to 4 leaves and for up to 8.
Node2 == Terms2 \union {TooDeep}
Node3 == Terms3 \union {TooDeep}

Hash2(x, y) == IF <<x, y>> \in Terms2 THEN <<x, y>> ELSE TooDeep
Hash3(x, y) == IF <<x, y>> \in Terms3 THEN <<x, y>> ELSE TooDeep

=============================================================================
