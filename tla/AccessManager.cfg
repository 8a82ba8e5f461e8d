CONSTANTS
    Threads = {t1, t2, t3}
    MaxNest = 2
SPECIFICATION FairSpec
INVARIANTS
    TypeOK
    ExclusiveIsAlone
    OneListPerRequest
    NoLostWakeup
    NoLostAdmission
    ReturnsWithAccess
PROPERTIES
    FirstComeFirstServed
    NoStarvation
