\* Batches of two, one instance with its read and claim loops, and an entry
\* that may not parse.
SPECIFICATION FairSpec
CONSTANTS
    c1 = c1  c2 = c2  i1 = i1  i2 = i2
    FlushItem <- TwoItems
    Foreign = {foreign}
    Amount = 2
    MaxEntries = 2
    Instance = {i1}
    Attempts = 1
    MaxFaults = 2
INVARIANTS
    TypeOK
    AckedStoredOrSwallowed
    ForeignNeverAcked
PROPERTIES
    BufferSafety
    EventuallyAcked
CHECK_DEADLOCK FALSE
