SPECIFICATION Spec
CONSTANTS
    Task = {1, 2}
    Frame = {f1, f2, f3, f4, f5, f6}
    Page = {0, 1}
    FilePage = {0}
    PerTable = 2
    Program = {sh}
    NULL = NULL
SYMMETRY Frames
INVARIANT MemoryInv
PROPERTY IsolationFromUsers
CHECK_DEADLOCK FALSE
