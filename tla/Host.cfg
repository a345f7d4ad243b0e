CONSTANTS
    Slot = {"m1", "m2"}
    Sim = {"cn", "us", "odd"}
    Document <- DocumentValue
    Builtin <- BuiltinValue
    Label <- LabelValue
    Home <- HomeValue
    Usb <- UsbValue
    Running <- RunningValue
    NoSim = "no card"
    MaxRuleOps = 3
    Module = {"m1", "m2"}
    Site = {"s1", "s2"}
    Card = {"c1"}
    NoCard = "null"
    Nowhere = "nowhere"
    FaceChoice <- FaceValue
    Window = 1
    MaxClock = 1
    MaxPasses = 2
    MaxEvents = 2
    Instance = {i1}
    Interface = {"w0"}
    UpstreamId = {"u"}
    SpecChoice <- SpecChoiceValue
    UpstreamChoice <- UpstreamChoiceValue
    MaxProxyOps = 2
    MaxClients = 2
    ResMin = 1
    ResMax = 2
    KeyBytes = 2
    KcBytes = 1
    AutsBytes = 2
    MaxAuths = 2
    MaxCardEvents = 1
    AtLine <- AtLineValue
    UssdCode <- UssdCodeValue
    Quick <- QuickValue
    Changing <- ChangingValue
    BareChanging <- BareChangingValue
    ConsoleModem = {"m1", "m2"}
    KeepEntries = 1
    HistoryKept = 1
    MaxKeys = 4
    MaxSent = 2
SPECIFICATION HostSpec
INVARIANTS
    AnswersHold
    ReportIsTheFleet
    AlertsAccounted
    TrafficNotOvercounted
    NothingByAccident
CHECK_DEADLOCK FALSE
