\* Two slaves, three faults and two lost datagrams.  The monitor runs for ever.
SPECIFICATION StatesSpec
CONSTANTS
    N = 2
    MaxFaults = 3
    MaxLosses = 2
INVARIANTS
    AddressesKept
PROPERTIES
    Resumes
