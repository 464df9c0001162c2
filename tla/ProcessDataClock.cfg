\* The frame with the clock datagram is lost and the next one, which is longer, is taken for it.
SPECIFICATION MCSpec
CONSTANTS
    SegmentLimit = 3
    EC_MAXIOSEGMENTS = 6
    EC_MAXBUF = 6
    MaxCycles = 1
    MaxDatagrams = 9
    MaxLag = 1
    Configs <- ClockConfigs
    Kinds <- MCKinds
    MaxSlaves = 0
INVARIANTS
    CounterTells
CHECK_DEADLOCK FALSE
