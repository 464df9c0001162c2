\* rtk: the receive buffers and rxIdx fall out of step when frames are not read in time.
SPECIFICATION PortSpec
CONSTANTS
    Threads = {t1}
    NoThread = none
    EC_MAXBUF = 2
    MaxTxn = 4
    MaxTries = 2
    Wkcs = {1}
    SendMayFail = TRUE
    Packets = 2
    PortTries = 1
INVARIANTS
    RingInStep
