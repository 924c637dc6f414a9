SPECIFICATION UsersSpec
CONSTANTS
    Users <- TheUsers
    Valid <- MCValid
    MaxFiles = 3
    MaxFileSize = 2
    TotalCapacity = 3
    MaxPathLen = 3
    CommandLines <- MCLines
    LineOf <- MCLineOf
    ProgramPaths <- MCProgramPaths
    ProgramBytes <- MCProgramBytes
    SysInfo <- MCSysInfo
    MaxCapture = 3
    MaxDepth = 4
    MaxOpen = 2
    BufferSize = 4
    Slots = 2
    RawSize = 4
    QueueLimit = 4
    ScanLimit = 2
    Taps = 2
    Cols = 3
    Rows = 3
    Panel <- TopMiddle
    Chars = {"a", " "}
    InputLimit = 2
    HistoryLimit = 1
    KeyLimit = 1
    BurstLimit = 1
    MaxTasks = 1
    Ticks <- TickRanks
    Names = {"root", "ann", "bo", "a.b"}
    DatabaseNames = {"root", "ann", "bo"}
    LoginNames = {"root", "ann", "a.b"}
    Passwords = {"abc", "waros", "changeme"}
    LengthOf <- Lengths
    Languages = 2
    MaxUsers = 3
    LastUid = 3
    MaxPowerCuts = 1
    Caps = {"PKG_INSTALL", "USER_ADMIN", "QUANTUM_ALLOC"}
    UserDefault = {"QUANTUM_ALLOC"}
    Uids = {0, 1}
    AdminUids = {0}
    MaxProcesses = 3
    MaxPid = 5
INVARIANTS
    DiskFollowsRam
    KeypressIsTyped
    PromptTellsTheTruth
    AccountsAgree
    ShellIsTheSessions
PROPERTIES
    OnlyTheEntitledChange PipesCleanUp
    UidsFresh
    DropsAreOneWay
