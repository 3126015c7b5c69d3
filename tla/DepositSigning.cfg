CONSTANTS
    Verifiers = {v1, v2}
    Attempts = {a1, a2}
    Data = {d1, d2}
    N = 1
    Ids = {i1, i2}
    MaxSessions = 2
    MaxNonces = 4
    MaxCrashes = 1
    None = None
SPECIFICATION Spec
INVARIANTS NonceSignsOnce MoveTxIsProtected SignaturesFit
SYMMETRY Symmetry
CHECK_DEADLOCK FALSE
