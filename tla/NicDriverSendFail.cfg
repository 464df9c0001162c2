\* Two threads, send() may fail: the index of a transaction in progress can be given away.
SPECIFICATION Spec
CONSTANTS
    Threads = {t1, t2}
    NoThread = none
    EC_MAXBUF = 2
    MaxTxn = 3
    MaxTries = 2
    Wkcs = {1}
    SendMayFail = TRUE
INVARIANTS
    NewIndexIsNew
