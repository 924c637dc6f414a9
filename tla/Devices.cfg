SPECIFICATION DevicesSpec
CONSTANTS
    NPorts = 2
    NSlots = 2
    Devices = {"keyboard", "phone", "disk"}
    DeviceClass <- MCClass
    Interfaces <- MCAllInterfaces
    EvaluatesEp0 = {"phone"}
    EventsPerPoll = 1
    MaxEvents = 2
    MaxLate = 1
    MaxFaults = 2
    UsbSlots <- MCSlots
    Leases <- MCLeases
    LocalPorts <- MCPorts
    RuleChanges <- MCRuleChanges
    Removable <- MCRemovable
    MaxSockets = 2
    RedirectLimit = 1
    MaxGen = 2
    MaxRules = 7
    MaxConnections = 1
    ConnectionTimeout = 1
    QueueSize = 2
    IndexSpan = 4
    VFrames = {f, g}
    VNone = none
    VBound = 3
    ETx = 3
    ERx = 3
    EFrames = {f, g}
    ENone = none
    RTx = 2
    RRx = 2
    RFrames = {f, g}
    RNone = none
    RetryTicks = 1
    StallTicks = 1
INVARIANTS
    SlotsFollowPorts OneTransferInFlight
    LeaseRecordsAgree
PROPERTIES
    SocketsGivenBack AnswersLetIn
    VirtioInOrder E1000InOrder RtlInOrder
CHECK_DEADLOCK FALSE
