SPECIFICATION FairSmsSpec
CONSTANTS
    Modems <- QmiAndAt
    Slots = 2
    Window = 1
    Arrivals = {"a1", "a2", "a3", "own", "c1", "b1", "b2", "b3"}
    Supplies <- AllSupplies
    Part <- All
    Unstamped = {}
    Grace = 0
    Keep = 2
    LocalWrap = 2
    MaxTime = 2
    LastArrival = 1
    MaxFaults = 1
    MaxConsole = 1
INVARIANTS
    NothingUnstored
    SmsInv
PROPERTIES
    StorageDrains
