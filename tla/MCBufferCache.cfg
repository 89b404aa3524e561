SPECIFICATION FairSpec
CONSTANTS
    t1 = t1  t2 = t2  t3 = t3
    b1 = b1  b2 = b2  b3 = b3  b4 = b4
    Task = {t1, t2}
    Block = {b1, b2, b3}
    NULL = NULL
    NBuf = 2
    NReq = 2
    MaxVersion = 1
    Ops = {"file_read", "part_write", "sync"}
    Errors = {"READ"}
    Faults = {"part_write"}
INVARIANTS CacheInv Coherent 
PROPERTIES SyncComplete 
