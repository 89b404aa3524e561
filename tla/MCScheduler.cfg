SPECIFICATION SchedFairSpec
CONSTANTS
    Task = {1, 2, 3}
    NoAlarm = NoAlarm
    MaxPriority = 2
    MaxAlarm = 1
    Nicer = {2}
    Signalled = {1}
INVARIANTS SchedTypeOK CounterBound CurrentRuns
PROPERTIES NonPreemptive EveryTaskRuns 
