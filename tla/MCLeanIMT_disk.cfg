\* A tree with a database, crashes and restarts, up to depth 2.
CONSTANTS
    Leaf = {a, b}
    Nil = Nil
    TooDeep = TooDeep
    Node <- Node2
    Hash <- Hash2
    Persistent = TRUE
    MaxSize = 4
    MaxBatch = 2
SPECIFICATION Spec
INVARIANTS TypeOK TreeConsistent DiskComplete CleanIsDurable
    TreeKeepsSaved
PROPERTIES ImplementsLeafStore
