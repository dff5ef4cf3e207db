\* Any events, repeated addresses, imports with gaps and other roots, failing transactions.
CONSTANTS
    Address = {0, 1}
    Weight = {0, 1}
    WeightLimit = 3
    Int64Limit = 4
    HasDB = TRUE
    Env = {"dbError", "import", "gaps", "mismatch", "apply", "reset", "reuse", "repeats", "doubles", "liars"}
    MaxSize = 2
    MaxBatch = 2
SPECIFICATION Spec
INVARIANTS TypeOK ProofsMatch
