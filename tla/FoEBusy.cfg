\* A slave that is busy once.
SPECIFICATION Spec
CONSTANTS
    maxdata = 2
    OutSizes = {2}
    Sizes = {1}
    MaxTransfers = 1
    MaxBusy = 1
INVARIANTS
    WriteConfirmed
CHECK_DEADLOCK FALSE
