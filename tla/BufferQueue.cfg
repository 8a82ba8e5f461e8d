CONSTANTS
    Buffers = {b1, b2}
    NoBuffer = NoBuffer
    Directions = {"Send", "Receive"}
    Externals = {FALSE, TRUE}
    Pollings = {FALSE, TRUE}
    Sizes = {1, 2}
    Depths = {1, 2}
    StaleHandles = TRUE
    MaxSubmits = 3
    MaxCredits = 2
SPECIFICATION FairSpec
CHECK_DEADLOCK FALSE
INVARIANTS
    OneOwner
    CompletesInOrder
    CallbackExactlyOnce
    SendsInOrder
    SleepsForAReason
PROPERTY
    AbortAnswersAll
