SPECIFICATION FairSpec
CONSTANTS
    RoiTexts <- MCRoiTexts
    MaxFrames = 2
    Ms = 2
    Wrap = 4
    Budget = 4
    Chunks = 2
    TimeoutResults = {"negative", "error"}
INVARIANTS
    PmsnapTypeOK
    ExitTellsTheFiles
    
    OnlyLateReadsOutlast
PROPERTIES
    ClosedOnce
    CommandEnds
CHECK_DEADLOCK FALSE
