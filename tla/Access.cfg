CONSTANTS
    Local = {poll, console}
    Client = {tunnel1, tunnel2, tunnel3}
    MaxClients = 2
    MaxAka = 3
    NoThread = NoThread
    Group = {g1, g2, g3}
    OfferedGroup = {g1, g2}
    FirstGroup = g1
    MaxCandidates = 2
    Attempts = 2
    QueueDepth = 1
    MaxCookieRounds = 1
    MaxGroupRetries = 3
    MaxEAPRounds = 2
    MaxResync = 1
    ClientId = {1, 2}
    MaxSends = 2
    MaxFaults = 1
    NoFile = NoFile
    Garbage = Garbage
    MaxCodes = 5
    MaxStops = 3
    Handler = {h1, h2}
    Main = main
    CandidateChoice <- CandidateValue
    AdvertiseIP = {"internal"}
    MaxCalls = 2
    MaxRequests = 3
    MaxPackets = 2
    EchoCapacity = 4
    EchoFrame = 2
    EchoDelays <- EchoDelayValue
    MaxSaid = 7
SPECIFICATION AccessSpec
INVARIANTS
    FlagsAgree
    IkeInv
    SubmitInv
    VoiceInv
PROPERTIES
    KeepsPromise
    AkaServed
    WaitsEnd
    SessionsStayInStep
    MachineEnrols
CHECK_DEADLOCK FALSE
