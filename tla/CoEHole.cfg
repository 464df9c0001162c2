\* One read in segments, one failure of the mailbox.
SPECIFICATION ODSpec
CONSTANTS
    Objects <- MCObjects
    Pdos <- MCPdos
    Dictionary <- MCDictionary
    WordsPerFrame = 2
    EC_MAXODLIST = 3
    MaxFrames = 128
    WriteSizes = {4}
    Buffers = {60}
    maxdata = 8
    Width = 65536
    MaxCalls = 1
    MaxLosses = 1
INVARIANTS
    SegmentsCombined
CHECK_DEADLOCK FALSE
