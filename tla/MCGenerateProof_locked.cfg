\* A prover and the writers, all under the lock of the caller.
CONSTANTS
    Leaf = {a, b}
    Nil = Nil
    TooDeep = TooDeep
    Node <- Node3
    Hash <- Hash3
    Persistent = FALSE
    MaxSize = 6
    MaxBatch = 2
    Zero = b
    MaxCensusDepth = 2
    Prover = {p}
    OuterLock = TRUE
SPECIFICATION PSpec
INVARIANTS PvTypeOK ProofsVerify ProofsCurrent CircuitAgrees NoPanic
