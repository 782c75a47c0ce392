\* Two rotations make the same version of a chunk.
SPECIFICATION Spec
CONSTANTS
    Chunks = 1
    Rotations = 2
    Chunk <- FileChunk
    Rotation <- Calls
    FlushItem <- Item
    Amount = 1
    PageSize = 1
    Overlap = TRUE
    MaxFaults = 0
INVARIANTS
    NoChunkLost
CHECK_DEADLOCK FALSE
