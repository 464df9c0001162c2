\* Two calls, two failures of the mailbox; a mailbox of 24 bytes; values up to three frames and
\* values longer than 16 bits count.
SPECIFICATION ODSpec
CONSTANTS
    Objects <- MCObjects
    Pdos <- MCPdos
    Dictionary <- MCDictionary
    WordsPerFrame = 2
    EC_MAXODLIST = 3
    MaxFrames = 128
    WriteSizes = {4, 8, 27, 38, 65541, 65556}
    Buffers = {8, 30}
    maxdata = 8
    Width = 65536
    MaxCalls = 2
    MaxLosses = 2
INVARIANTS
    ReadWhole
    WriteConfirmed
    DictionaryGenuine
PROPERTIES
    CallEnds
CHECK_DEADLOCK FALSE
