SPECIFICATION CaptureSpec
CONSTANTS
    Byte <- MCByte
    Value <- MCValue
    Magic <- MCMagic
    FrameTrailer = 2
    FrameBytes = 6
    SettleChunk = 6
    MaxBulk = 8
    MaxPolls = 2
    TimeoutResults = {"error"}
    Packet = 3
    FifoDepth = 2
    MaxFrames = 3
    AddedExposure = FALSE
INVARIANTS
    NeverPartial
CHECK_DEADLOCK FALSE
VIEW LiveState
