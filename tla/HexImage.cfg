SPECIFICATION Spec
CONSTANTS
    ByteSize = 3
    MaxData = 2
    MaxLines = 2
INVARIANTS
    ReadsWhatIsWritten
    RefusesOnlyBadText
CHECK_DEADLOCK FALSE
