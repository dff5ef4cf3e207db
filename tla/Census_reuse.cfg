\* ImportEvents on a census that has leaves.
CONSTANTS
    Address = {1, 2}
    Weight = {0, 1}
    WeightLimit = 3
    Int64Limit = 4
    HasDB = TRUE
    Env = {"reset", "reuse"}
    MaxSize = 2
    MaxBatch = 1
SPECIFICATION Spec
INVARIANTS OneLeafEach
