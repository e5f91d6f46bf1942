SPECIFICATION HSpec
CONSTANTS
    DebounceLen = 2
    DataBits = 2
    maxTimeout = 12
    Codes <- TwoCodes
    MinPhase = 4
    MaxPhase = 6
    MinGap = 6
    MaxGap = 16
    Resync = 14
INVARIANTS CleanFrameReported OnlyFramesReported
PROPERTY Recovers
