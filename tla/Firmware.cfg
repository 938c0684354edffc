SPECIFICATION FairSpec
CONSTANTS
    Ids = 3
    Attempts = 2
    Blanking = 2
    Added = 1
INVARIANTS
    FirmwareTypeOK
    ExactUnlessGivenUp
    AtMostOncePerAttempt
PROPERTIES
    SpinEnds
    Answered
    FramesGetThrough
