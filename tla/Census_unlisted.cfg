\* An address comes by an event, the next by Add, and the census is closed.
CONSTANTS
    Address = {1, 2}
    Weight = {0, 1}
    WeightLimit = 3
    Int64Limit = 4
    HasDB = TRUE
    Env = {"apply", "close"}
    MaxSize = 2
    MaxBatch = 1
SPECIFICATION Spec
INVARIANTS OpensAgain
