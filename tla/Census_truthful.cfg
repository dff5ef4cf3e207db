\* Callers that tell the truth and name an address once.
CONSTANTS
    Address = {1, 2, 3}
    Weight = {0, 1, 2}
    WeightLimit = 3
    Int64Limit = 4
    HasDB = FALSE
    Env = {"import", "gaps", "mismatch", "apply", "reset"}
    MaxSize = 4
    MaxBatch = 2
SPECIFICATION Spec
INVARIANTS Aligned OneLeafEach DumpFaithful EventsTakeEffect
PROPERTIES AddressesKeepIndex
