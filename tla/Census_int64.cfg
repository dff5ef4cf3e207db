\* A weight whose low bits are zero: 8 stands for 2^64.
CONSTANTS
    Address = {1}
    Weight = {0, 8}
    WeightLimit = 9
    Int64Limit = 4
    HasDB = TRUE
    Env = {"apply"}
    MaxSize = 2
    MaxBatch = 1
SPECIFICATION Spec
INVARIANTS EventsTakeEffect
