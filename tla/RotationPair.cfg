\* Old versions are deleted while new ones are on the way.
SPECIFICATION Spec
CONSTANTS
    Chunks = 1
    Rotations = 1
    Chunk <- FileChunk
    Rotation <- Calls
    FlushItem <- Item
    Amount = 1
    PageSize = 1
    Overlap = FALSE
    MaxFaults = 0
PROPERTIES
    PairKept
CHECK_DEADLOCK FALSE
