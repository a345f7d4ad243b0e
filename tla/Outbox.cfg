CONSTANTS
    EnvelopeIds = {e1, e2, e3}
    GapIds = {1, 2, 3, 4}
    MaxSeq = 4
    MaxRecords = 1
    WarnStride = 2
    Retentions = {"Protected", "Evictable"}
    Faults = {"stop", "torn", "store"}
    CloudStart = 0
SPECIFICATION OutboxSpec
INVARIANTS
    NoLoss
    CloudMatches
    OutboxInv
SYMMETRY Symm
CHECK_DEADLOCK FALSE
