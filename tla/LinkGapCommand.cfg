CONSTANTS
    EnvelopeIds = {e1, e2, k1}
    CommandIds = {k1}
    GapIds = {g1}
    MaxSeq = 3
    ReplayWindow = 2
    IdleTicks = 2
    VanishPhases = {}
    CloudStart = 0
    MaxDrops = 1
    MaxBreaks = 0
    MaxDeliver = 1
SPECIFICATION FairLinkSpec
PROPERTIES
    GapCloses
