CONSTANTS
    Modems = {a}
    Matrices = {{}, {a}}
    Mode = "unbind"
    Grace = 2
    GracePasses = 3
    MaxAge = 1
    MaxFaults = 2
SPECIFICATION FairRegistrySpec
PROPERTIES
    RetiredAfterGrace
    PushRaceRetiresNone
    RefusedGoes
CHECK_DEADLOCK FALSE
