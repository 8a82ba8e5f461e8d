CONSTANTS
    Threads = {t1, t2, t3}
    MaxNest = 1
    NoThread = NoThread
    Ops = {"use", "wait", "close"}
    Callbacks = FALSE
    MaxCalls = 1
    MaxUserBuffers = 1
SPECIFICATION Spec
CHECK_DEADLOCK FALSE
PROPERTY
    WaitsForAllReferences
