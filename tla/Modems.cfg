CONSTANTS
    Modem = {m1, m2}
    UsbSite = {s1, s2, s3}
    Node = {n1, n2}
    Product <- MCProduct
    MaxMoves = 2
    MaxOps = 2
    MaxPending = 2
    QmiModule = {q1, q2}
    AtModule = {a1}
    PlanCard = {c1}
    Address = {ip1, ip2}
    MaxCommands = 3
    Iccid = {p1, p2, p3, p4}
    Irreversible = {p3}
    Misshapen = {p4}
    Coded = {p2}
    NoIccid = NoIccid
    MaxRounds = 2
    MaxInventory = 2
    MaxEsimOps = 2
SPECIFICATION ModemsSpec
INVARIANTS
    RightModule
PROPERTIES
    ResetSparesWorking
    ComesBack
    DataAsTold
    CardToldWhole
CHECK_DEADLOCK FALSE
