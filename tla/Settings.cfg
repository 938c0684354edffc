SPECIFICATION Spec
CONSTANTS
    Windows <- MCWindows
    Gains <- MCGains
    Offsets <- MCOffsets
    Exposures <- MCExposures
    Width = 4
    Height = 4
    AddrOrigin = 4
    Blanking = 1
    Packet = 8
    OffsetMax = 3
    OffsetBias = 5
    GainMax = 8
    DigitalGain <- MCDigitalGain
    RowTime = 2
    MaxRows = 3
    Millisecond = 4
    AddedModulus = 2
    DefaultExposure = 4
    Attempts = 1
    MaxFaults = 1
    MaxMixed = 2
INVARIANTS
    SettingsTypeOK
    ConfirmedInForce
    WholePackets
    ReadAheadFits
    SequencerInOrder
PROPERTIES
    GeometryFixedInRun
