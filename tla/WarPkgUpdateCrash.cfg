SPECIFICATION Spec
CONSTANTS
    h1 = h1  h2 = h2  d1 = d1  a = a  b = b
    Paths = {a, b}
    Pkgs = {"hello"}
    Bundles = {h1, h2}
    PkgOf <- OnePkgOf
    FilesOf <- OneFilesOf
    IndexBundle <- OneIndex
    InstallOrder <- OneOrder
    ProofBundle = h1
    NoBundle = NoBundle  Absent = Absent  Local = Local  Torn = Torn
    NotCaptured = NotCaptured
    WritesMayFail = FALSE
    WritesMayTear = TRUE
    MaxCrashes = 1
INVARIANTS RecordBehindBusyUpdate UnconfirmedIsNoticed
PROPERTIES RollbackUndoesApply SelfTestLeavesNoTrace
