\* Proofs beside an emptied slot, and the circuit.
CONSTANTS
    Leaf = {a, b}
    Nil = Nil
    TooDeep = TooDeep
    Node <- Node2
    Hash <- Hash2
    Persistent = FALSE
    MaxSize = 3
    MaxBatch = 2
    Zero = b
    MaxCensusDepth = 2
    Prover = {p}
    OuterLock = TRUE
SPECIFICATION PSpec
INVARIANTS CircuitVerifies
