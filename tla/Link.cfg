CONSTANTS
    EnvelopeIds = {e1, e2, k1}
    CommandIds = {k1}
    GapIds = {g1}
    MaxSeq = 3
    ReplayWindow = 2
    IdleTicks = 2
    VanishPhases = {"Live"}
    CloudStart = 1
    MaxDrops = 2
    MaxBreaks = 2
    MaxDeliver = 1
SPECIFICATION FairLinkSpec
INVARIANTS
    LinkInv
PROPERTIES
    Drained
    GapClosesInWindow
    DeadLinkDropped
