\* Two transactions with up to two messages of the slave's own and two lost frames.
SPECIFICATION FairSpec
CONSTANTS
    MaxRequests = 2
    MaxAsides = 2
    MaxLosses = 2
INVARIANTS
    RequestTakenOnce
PROPERTIES
    RepliesInOrder
    CallEnds
CHECK_DEADLOCK FALSE
