\* Trees of up to four slaves.
SPECIFICATION Spec
CONSTANTS
    MaxSlaves = 4
    Networks <- MCNetworks
    Device <- MCDevice
    Table <- MCTable
    Cycles = {0, 4, 6}
    TimeWidth = 8
    SyncDelay = 10
INVARIANTS
    ParentsFound
    DelaysMeasured
    OwnConfiguration
    MappingGenuine
