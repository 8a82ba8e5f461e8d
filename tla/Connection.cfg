CONSTANTS
    Connectors = {c1}
    Acceptors = {a1}
    NoThread = NoThread
    UserData = {"Foreign"}
SPECIFICATION FairSpec
CHECK_DEADLOCK FALSE
INVARIANTS
    OneWaiter
    SessionOutlivesThreads
PROPERTIES
    ConnectsToCounterpart
    CallsEnd
    DisconnectIsNoticed
    DestroyEnds
