\* A download right after the 201 of its upload.
SPECIFICATION DownloadSpec
CONSTANTS
    Chunks = 2
    Rotations = 1
    Chunk <- FileChunk
    Rotation <- Calls
    FlushItem <- Item
    Amount = 1
    PageSize = 2
    DownloadPage = 1
    Overlap = FALSE
    MaxFaults = 0
INVARIANTS
    WholeFile
CHECK_DEADLOCK FALSE
