\* Values and frames of one to three parts; the slave may send one frame more than there are losses.
SPECIFICATION ServicesSpec
CONSTANTS
    EC_MAXELIST = 2
    Errors = {"unexpected", "no response", "SoE", "mailbox"}
    NoError = "none"
    maxdata = 6
    Block = 4
    Stamp = 2
    FrameNumbers = 3
    Width = 64
    Idns <- TheIdns
    Buffers = {7}
    FrameBuffer = 12
    ValueSizes = {13, 66}
    WriteSizes = {13}
    Frames <- TheFrames
    MaxCalls = 2
    MaxFrames = 2
    MaxLosses = 2
INVARIANTS
    FlagUntilEmpty
    ServiceConfirmed
    FrameWhole
PROPERTIES
    ImplementsQueue
CHECK_DEADLOCK FALSE
