\* What the flusher leaves behind when the request is cancelled.
SPECIFICATION Spec
CONSTANTS
    w1 = w1  w2 = w2
    MaxChunks = 2
    Chunk <- Chunks
    Worker = {w1, w2}
    BatchSize = 2
    Attempts = 0
    MaxFaults = 0
SYMMETRY Swap
INVARIANTS
    BatchWritten
CHECK_DEADLOCK FALSE
