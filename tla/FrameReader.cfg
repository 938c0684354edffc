SPECIFICATION FairSpec
CONSTANTS
    Byte <- MCByte
    Value <- MCValue
    Magic <- MCMagic
    FrameTrailer = 3
    FrameBytes = 2
    SettleChunk = 3
    MaxBulk = 3
    MaxPolls = 3
    TimeoutResults = {"negative", "error"}
INVARIANTS
    TypeOK
    Contiguous
    NothingSkipped
    OnlyValidated
PROPERTIES
    ImplementsStream
    ResyncFindsFirst
    RejectKeepsTail
    OnlyReadAheadLeft
    OneRetry
    EveryCallReturns
CHECK_DEADLOCK FALSE
