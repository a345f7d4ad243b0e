CONSTANTS
    Modems = {a}
    Matrices = {{}, {a}}
    Mode = "unbind"
    Grace = 2
    GracePasses = 3
    MaxAge = 1
    MaxFaults = 1
SPECIFICATION RegistrySpec
PROPERTY BuiltinNeverRetires
CHECK_DEADLOCK FALSE
