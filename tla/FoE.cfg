\* Two transfers of files of up to three packets, the last one empty, full or neither;
\* slaves whose packets are shorter than those to them, as long, and longer.
SPECIFICATION Spec
CONSTANTS
    maxdata = 2
    OutSizes = {1, 2, 3}
    Sizes = {0, 1, 3, 4}
    MaxTransfers = 2
    MaxBusy = 1
INVARIANTS
    TransferGenuine
    ReadWithinBuffer
CHECK_DEADLOCK FALSE
