\* Batches of two: what an acknowledgement says of the rows.
SPECIFICATION Spec
CONSTANTS
    c1 = c1  c2 = c2  i1 = i1  i2 = i2
    FlushItem <- TwoItems
    Foreign = {}
    Amount = 2
    MaxEntries = 3
    Instance = {i1}
    Attempts = 0
    MaxFaults = 0
INVARIANTS
    AckedStored
CHECK_DEADLOCK FALSE
