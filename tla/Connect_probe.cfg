SPECIFICATION Spec
CONSTANTS
    p1 = p1
    p2 = p2
    Proc <- MCProc
    Records = 2
    MaxPolls = 2
    MaxFaults = 1
PROPERTIES
    ProbeKeepsRegister
