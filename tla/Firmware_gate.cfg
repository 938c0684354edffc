SPECIFICATION FairSpec
CONSTANTS
    Ids = 3
    Attempts = 2
    Blanking = 2
    Added = 2
PROPERTIES
    FramesGetThrough
