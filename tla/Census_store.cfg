\* A census whose process may end at any point, and is started again.
CONSTANTS
    Address = {0, 1, 2}
    Weight = {0, 1}
    WeightLimit = 3
    Int64Limit = 4
    HasDB = TRUE
    Env = {"close", "crash", "import", "repeats"}
    MaxSize = 3
    MaxBatch = 2
SPECIFICATION Spec
INVARIANTS ReopenRestores DiskIndexComplete
PROPERTIES LeavesKeepOwners
