CONSTANTS
    t1 = t1
    t2 = t2
    Task = {t1, t2}
    First = t1
    NrOpen = 2
    NrFile = 2
    Page = 4
    MaxBytes = 6
    MaxCount = 2
    MaxMarked = 1
    Faults = FALSE
SPECIFICATION Spec
INVARIANTS FileCounts SleepIsNeeded
 
CHECK_DEADLOCK FALSE
