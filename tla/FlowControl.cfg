CONSTANTS
    Sizes = {1, 2}
    Externals = {FALSE, TRUE}
    BufferCounts = {0, 1, 3}
    CreditBuffers = 2
    MaxCreditsPerBuffer = 2
    MaxSends = 2
    MaxPosts = 5
SPECIFICATION FairSpec
CHECK_DEADLOCK FALSE
INVARIANTS
    CreditsMatchBuffers
    DataFindsBuffer
    CreditFindsBuffer
PROPERTY
    CallReturns
