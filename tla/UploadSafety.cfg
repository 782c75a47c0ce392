\* Two workers, channels of two, batches of two; four chunks, so that one
\* goroutine waits on a full channel when the one behind it has failed.
SPECIFICATION FairSpec
CONSTANTS
    w1 = w1  w2 = w2
    MaxChunks = 4
    Chunk <- Chunks
    Worker = {w1, w2}
    BatchSize = 2
    Attempts = 1
    MaxFaults = 2
INVARIANTS
    TypeOK
    CreatedComplete
    AddedOncePerAttempt
    NoSendOnClosed
PROPERTIES
    Responds
    ContractKept
CHECK_DEADLOCK FALSE
