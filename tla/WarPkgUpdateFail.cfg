SPECIFICATION FairSpec
CONSTANTS
    h1 = h1  h2 = h2  d1 = d1  a = a  b = b
    Paths = {a}
    Pkgs = {"hello"}
    Bundles = {h1, h2}
    PkgOf <- OnePkgOf
    FilesOf <- SameFilesOf
    IndexBundle <- OneIndex
    InstallOrder <- OneOrder
    ProofBundle = h1
    NoBundle = NoBundle  Absent = Absent  Local = Local  Torn = Torn
    NotCaptured = NotCaptured
    WritesMayFail = TRUE
    WritesMayTear = FALSE
    MaxCrashes = 0
INVARIANTS RecoveryHasExit
PROPERTIES BootReachesShell
