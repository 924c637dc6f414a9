SPECIFICATION Spec
CONSTANTS
    MaxPid = 6
    TableSize = 4
    Prios = {3, 4, 5}
    Slice <- Slices
    FirstSlice = 1
    Users = {1}
    Caps = {}
    Default <- AllCaps
    Commands = {"spawn", "startx"}
    Bodies = {"tasks"}
INVARIANTS TaskLockIsFree
