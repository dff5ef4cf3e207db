\* A batch of AddBulk that names an address twice.
CONSTANTS
    Address = {1, 2}
    Weight = {0, 1}
    WeightLimit = 3
    Int64Limit = 4
    HasDB = TRUE
    Env = {"repeats"}
    MaxSize = 2
    MaxBatch = 2
SPECIFICATION Spec
INVARIANTS OneLeafEach
