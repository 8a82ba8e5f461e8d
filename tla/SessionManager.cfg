CONSTANTS
    Threads = {t1,t2,t3}
    MaxNest = 2
    NoThread = NoThread
    Ops = {"use", "wait", "queue", "external", "accept", "close", "release", "rerelease"}
    Callbacks = TRUE
    MaxCalls = 1
    MaxUserBuffers = 1
SPECIFICATION FairSpec
CHECK_DEADLOCK FALSE
INVARIANTS
    DeferredIsOwed
    DeferWhileUserBuffersOutstanding
PROPERTIES
    NoNewReferences
    CloseReturns
