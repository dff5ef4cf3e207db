\* Add writes its maps, the process ends before Sync.
CONSTANTS
    Address = {1, 2}
    Weight = {0, 1}
    WeightLimit = 3
    Int64Limit = 4
    HasDB = TRUE
    Env = {"crash"}
    MaxSize = 2
    MaxBatch = 1
SPECIFICATION Spec
INVARIANTS ProofsMatch
