\* Termination of the transactions, with failing sends.
SPECIFICATION FairSpec
CONSTANTS
    Threads = {t1, t2}
    NoThread = none
    EC_MAXBUF = 2
    MaxTxn = 2
    MaxTries = 2
    Wkcs = {1}
    SendMayFail = TRUE
PROPERTIES
    TransactionEnds
