CONSTANTS
    Threads = {t1, t2, t3}
    MaxNest = 2
    InitialRequests = 1
    Garbage = {3}
    MaxCalls = 4
SYMMETRY Symmetry
SPECIFICATION Spec
CHECK_DEADLOCK FALSE
INVARIANTS
    CountersExact
    AcquireAllRestores
PROPERTY
    ImplementsAccessManager
