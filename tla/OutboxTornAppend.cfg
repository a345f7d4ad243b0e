CONSTANTS
    EnvelopeIds = {e1, e2, e3}
    GapIds = {1, 2, 3}
    MaxSeq = 3
    MaxRecords = 2
    WarnStride = 2
    Retentions = {"Protected"}
    Faults = {"torn"}
    CloudStart = 0
SPECIFICATION OutboxSpec
CHECK_DEADLOCK FALSE
INVARIANT JournalReopens
