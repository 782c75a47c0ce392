\* Two rotations of a chunk at any time.
SPECIFICATION FairSpec
CONSTANTS
    Chunks = 1
    Rotations = 2
    Chunk <- FileChunk
    Rotation <- Calls
    FlushItem <- Item
    Amount = 2
    PageSize = 1
    Overlap = TRUE
    MaxFaults = 0
INVARIANTS
    LossHasCause
    SettledPaired
PROPERTIES
    RekeyedPresent
    MadeFromStored
    RotationEnds
CHECK_DEADLOCK FALSE
