\* ApplyEvents, then Sync: the maps are not on disk.
CONSTANTS
    Address = {1}
    Weight = {0, 1}
    WeightLimit = 3
    Int64Limit = 4
    HasDB = TRUE
    Env = {"apply"}
    MaxSize = 2
    MaxBatch = 1
SPECIFICATION Spec
INVARIANTS ReopenRestores
