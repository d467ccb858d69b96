CONSTANTS
    p1 = p1
    p2 = p2
    Partitions <- MCPartitions
    Arrivals <- MCArrivals
    MaxOffset = 1
    MaxAttempts = 2
    DlqCapacity = 1
    Concurrency = 1
    BlockingThreads = 1
SPECIFICATION WorkerSpec
INVARIANTS WorkerTypeOK QueueAccounting OneDisposition AttemptsBounded UnfinishedNotCovered
PROPERTIES EveryMessageSettles
CHECK_DEADLOCK FALSE
