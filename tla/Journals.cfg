CONSTANTS
    EnvelopeIds = {e1, e2, e3, e4}
    GapIds = {g1, g2}
    MaxSeq = 3
    p1 = p1
    m1 = m1
    Commands = {p1, m1}
    Kind <- KindOf
    Faults = {"restart", "journal", "persist", "socket"}
    MaxFaults = 2
SPECIFICATION JournalsSpec
INVARIANTS
    UplinkInv
    AtMostOnce
    OneResult
    TruthfulResult
    MatrixPublished
PROPERTIES
    RecordsLeaveAccountedFor
    SequencesStable
    ResultArrives
CHECK_DEADLOCK FALSE
