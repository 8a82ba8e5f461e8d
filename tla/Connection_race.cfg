CONSTANTS
    Connectors = {c1, c2}
    Acceptors = {a1}
    NoThread = NoThread
    UserData = {}
SPECIFICATION Spec
CHECK_DEADLOCK FALSE
INVARIANT
    NoQueuePairYet
