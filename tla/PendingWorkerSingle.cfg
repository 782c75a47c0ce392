\* Batches of one, two instances whose loops race with each other.
SPECIFICATION Spec
CONSTANTS
    c1 = c1  c2 = c2  i1 = i1  i2 = i2
    FlushItem <- TwoItems
    Foreign = {}
    Amount = 1
    MaxEntries = 2
    Instance = {i1, i2}
    Attempts = 0
    MaxFaults = 1
SYMMETRY Swap
INVARIANTS
    AckedStored
PROPERTIES
    HandoffSafety
    BufferSafety
CHECK_DEADLOCK FALSE
