SPECIFICATION TimeSpec
CONSTANTS
    Byte <- MCByte
    Value <- MCValue
    Magic <- MCMagic
    FrameTrailer = 3
    FrameBytes = 2
    SettleChunk = 3
    MaxBulk = 3
    MaxPolls = 3
    TimeoutResults = {"negative", "error"}
PROPERTIES
    SilentWindowRearms
CHECK_DEADLOCK FALSE
