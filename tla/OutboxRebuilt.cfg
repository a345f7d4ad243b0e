CONSTANTS
    EnvelopeIds = {e1, e2, e3}
    GapIds = {1, 2, 3}
    MaxSeq = 3
    MaxRecords = 2
    WarnStride = 2
    Retentions = {"Protected"}
    Faults = {}
    CloudStart = 1
SPECIFICATION OutboxSpec
CHECK_DEADLOCK FALSE
INVARIANT NoLoss
