\* A ring of four entries holds up to three errors of three kinds.
SPECIFICATION Spec
CONSTANTS
    EC_MAXELIST = 3
    Errors = {e1, e2, e3}
    NoError = none
INVARIANTS
    TypeOK
    FlagUntilEmpty
PROPERTIES
    ImplementsQueue
