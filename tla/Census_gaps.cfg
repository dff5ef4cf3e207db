\* A dump with an empty slot is imported, and the census closed.
CONSTANTS
    Address = {1}
    Weight = {1}
    WeightLimit = 3
    Int64Limit = 4
    HasDB = TRUE
    Env = {"import", "gaps", "close"}
    MaxSize = 2
    MaxBatch = 1
SPECIFICATION Spec
INVARIANTS OpensAgain
