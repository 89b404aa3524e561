CHECK_DEADLOCK FALSE
SPECIFICATION FairSpec
CONSTANTS
    NR_TASKS = 4
    MaxPid = 4
    NULL = NULL
    Sent = {1, 9}
    Caught = {17}
    Mask = {{1, 9}}
    WaitFor <- MCWaitFor
    Group = {2}
    MaxCalls = 1
 
PROPERTIES KillKills 
