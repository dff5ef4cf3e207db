\* Dumps beside everything callers who tell the truth do.
CONSTANTS
    Address = {1, 2}
    Weight = {0, 1}
    WeightLimit = 2
    Int64Limit = 8
    HasDB = FALSE
    Env = {"import", "apply"}
    MaxSize = 3
    MaxBatch = 1
    Ranges <- AskedRanges
    BatchThreshold = 1
    BatchSize = 2
SPECIFICATION DumpFairSpec
INVARIANTS DumpTypeOK LinesInOrder StayersListed NeverCorrupt
PROPERTIES WritersGetIn DumpEnds
