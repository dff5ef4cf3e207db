\* A range whose end passes the largest int.
CONSTANTS
    Address = {1, 2}
    Weight = {0, 1}
    WeightLimit = 2
    Int64Limit = 8
    HasDB = FALSE
    Env = {"import", "apply"}
    MaxSize = 3
    MaxBatch = 1
    Ranges <- AskedRanges
    BatchThreshold = 1
    BatchSize = 2
SPECIFICATION DumpSpec
INVARIANTS RangeListed
