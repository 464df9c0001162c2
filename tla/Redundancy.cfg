\* Two slaves between two cards, two threads, one cable that changes, frame that is lost or send that
\* fails.
SPECIFICATION Spec
CONSTANTS
    Threads = {t1, t2}
    N = 2
    EC_MAXBUF = 2
    MaxTxn = 3
    MaxTries = 2
    MaxTroubles = 1
SYMMETRY ThreadSymmetry
INVARIANTS
    OneBreakHidden
    AnswerGenuine
