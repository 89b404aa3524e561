SPECIFICATION FairSpec
CONSTANTS
    s1 = s1  s2 = s2  s3 = s3
    Slot = {s1, s2, s3}
    NULL = NULL
    Block = {0, 1, 2, 3}
    NrSects = 7
    MAX_ERRORS = 3
INVARIANT QueueInv
PROPERTIES OkMeansMoved EveryRequestEnds
