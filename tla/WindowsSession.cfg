SPECIFICATION FairSpec
CONSTANTS
    Threads = {t1, t2}
    MaxCalls = 4
CHECK_DEADLOCK FALSE
INVARIANTS
    FlagsMatchCalls
    QueuesInUse
    OverlappedOutlivesRequest
PROPERTY
    DestroyReturns
