\* A download of two chunks, one to a page, while the worker stores the upload
\* and a rotation changes the keys.
SPECIFICATION DownloadFairSpec
CONSTANTS
    Chunks = 2
    Rotations = 1
    Chunk <- FileChunk
    Rotation <- Calls
    FlushItem <- Item
    Amount = 2
    PageSize = 2
    DownloadPage = 1
    Overlap = FALSE
    MaxFaults = 0
INVARIANTS
    RotationTypeOK
    DownloadTypeOK
    CompleteBody
    FailsForAReason
PROPERTIES
    Answers
CHECK_DEADLOCK FALSE
