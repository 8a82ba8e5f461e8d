CONSTANTS
    Threads = {t1, t2, t3}
    MaxNest = 2
    NoThread = NoThread
    Ops = {"use", "accept", "abort"}
    Callbacks = TRUE
    MaxCalls = 2
    MaxUserBuffers = 1
SPECIFICATION Spec
CHECK_DEADLOCK FALSE
INVARIANT
    NoCircularWait
