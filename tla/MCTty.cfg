CONSTANTS
    t1 = t1
    t2 = t2
    Task = {t1, t2}
    Reading = {t1}
    Writing = {t2}
    Group = {t1}
    Kinds = {"console", "serial"}
    Modes <- AllModes
    Cap = 2
    Spare = 0
    Low = 2
    Startup = 1
    Ahead = 0
    MaxNr = 2
    Typed = {"a", "nl", "eof", "erase", "kill", "intr"}
    Alarms = FALSE
    Races = {}
SPECIFICATION Spec
INVARIANTS  SleepersServed 
CHECK_DEADLOCK FALSE
