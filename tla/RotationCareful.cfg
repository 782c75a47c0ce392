\* Rotations of two chunks, one to a page, one after the other.
SPECIFICATION Spec
CONSTANTS
    Chunks = 2
    Rotations = 2
    Chunk <- FileChunk
    Rotation <- Calls
    FlushItem <- Item
    Amount = 2
    PageSize = 1
    Overlap = FALSE
    MaxFaults = 2
INVARIANTS
    LostBySwallowOnly
    SettledPaired
PROPERTIES
    RekeyedPresent
CHECK_DEADLOCK FALSE
