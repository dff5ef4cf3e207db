\* A tree without a database, up to depth 3.
CONSTANTS
    Leaf = {a, b}
    Nil = Nil
    TooDeep = TooDeep
    Node <- Node3
    Hash <- Hash3
    Persistent = FALSE
    MaxSize = 7
    MaxBatch = 2
SPECIFICATION FairSpec
INVARIANTS IInv
PROPERTIES LevelsOnlyGrow OperationEnds
