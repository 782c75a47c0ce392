\* A rotation goes on where a failed one stopped.
SPECIFICATION Spec
CONSTANTS
    Chunks = 2
    Rotations = 2
    Chunk <- FileChunk
    Rotation <- Calls
    FlushItem <- Item
    Amount = 1
    PageSize = 1
    Overlap = FALSE
    MaxFaults = 1
INVARIANTS
    RekeyedAll
CHECK_DEADLOCK FALSE
