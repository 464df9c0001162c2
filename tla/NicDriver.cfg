\* Two threads share two frame buffers over a lossy, reordering wire, on each of the ports.
SPECIFICATION PortSpec
SYMMETRY ThreadSymmetry
CONSTANTS
    Threads = {t1, t2}
    NoThread = none
    EC_MAXBUF = 2
    MaxTxn = 3
    MaxTries = 2
    Wkcs = {1}
    SendMayFail = TRUE
    Packets = 2
    PortTries = 1
INVARIANTS
    ExclusiveIndex
    AnswerStable
    ForeignOnlyIfLate
    LostOnlyToLateStore
    PacketsKept
    AbandonedNotTaken
