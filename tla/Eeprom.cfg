\* Two slaves, one that answers with four bytes and one with eight.
SPECIFICATION Spec
CONSTANTS
    Slaves = {s1, s2}
    MaxWord = 3
    BufWords = 3
    Addresses = {0, 1}
    Wide = {s2}
    EC_DEFAULTRETRIES = 1
    MaxOps = 2
    MaxTroubles = 3
INVARIANTS
    ReadsTrue
    WriteConfirmed
    ControlRestored
