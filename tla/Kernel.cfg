SPECIFICATION KernelSpec
CONSTANTS
    MaxPid = 7
    TableSize = 3
    Prios = {3, 4, 5}
    Slice <- Slices
    FirstSlice = 1
    Users = {1, 2}
    Caps = {"net"}
    Default <- RootCaps
    Commands = {"spawn", "script", "exec", "kill", "wait", "tasks", "nice", "su", "logout", "drop", "startx"}
    Bodies = {"echo", "exec", "kill"}
    MemoryMaps <- TheMaps
    MaxFrames = 9
    HeapPages = 2
    MmioEnd = 4
    TablePages = 2
    PageSize = 2
    Counts = {0, 1, 2}
    Registers <- TheRegisters
    StackOffsets = {0, 2}
    FrameCounts = {12, 38, 46}
    FileSlots = 32
    OldCounts = {0, 3, 4}
    ExtraNames = {1, 5}
    Lengths = {0, 1, 4}
    MaxCalls = 4
    MaxBoots = 2
    Widths = {0, 1, 2, 3, 4}
    Names <- TheNames
    AngleTokens <- TheTokens
    GateCalls <- TheGates
    CallGates <- TheCalls
    ShotCounts = {0, 2}
    MaxQubits = 3
    MaxShots = 2
    MaxOps = 2
    MaxHandle = 1
    MaxFiles = 2
    TotalBlocks = 4
INVARIANTS
    QueuedOnce UserOnOwnStack RunReturnsCleanly
    GivenOutOnce FramesAccounted
    AddressSpacesHold SelfTestsPass
    CircuitIsTheState BuiltinsKeepTheirWord
    FirstFit
PROPERTIES
    SessionCommandsFinish
