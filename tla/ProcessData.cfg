\* Groups with up to seven datagrams per cycle, six frame buffers, frames late by a cycle; rings of up to
\* three slaves.
SPECIFICATION MCSpec
CONSTANTS
    SegmentLimit = 3
    EC_MAXIOSEGMENTS = 6
    EC_MAXBUF = 6
    MaxCycles = 3
    MaxDatagrams = 9
    MaxLag = 1
    Configs <- MCConfigs
    Kinds <- MCKinds
    MaxSlaves = 3
INVARIANTS
    WkcVouches
    OutputsKept
    InputsPlacedOnce
    SegmentsCover
    BitsExclusive
    FramesGenuine
PROPERTIES
    ClockGenuine
CHECK_DEADLOCK FALSE
