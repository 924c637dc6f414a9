SPECIFICATION Spec
CONSTANTS
    h1 = h1  h2 = h2  d1 = d1  a = a  b = b
    Paths = {a, b}
    Pkgs = {"hello", "dep"}
    Bundles = {h1, h2, d1}
    PkgOf <- DepPkgOf
    FilesOf <- DepFilesOf
    IndexBundle <- DepIndex
    InstallOrder <- DepOrder
    ProofBundle = h1
    NoBundle = NoBundle  Absent = Absent  Local = Local  Torn = Torn
    NotCaptured = NotCaptured
    WritesMayFail = FALSE
    WritesMayTear = FALSE
    MaxCrashes = 0
INVARIANTS InstalledFilesIntact
