\* A dump in which two participants share an index.
CONSTANTS
    Address = {1, 2}
    Weight = {1}
    WeightLimit = 3
    Int64Limit = 4
    HasDB = TRUE
    Env = {"import", "clashes"}
    MaxSize = 2
    MaxBatch = 1
SPECIFICATION Spec
INVARIANTS ProofsMatch
