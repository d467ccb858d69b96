CONSTANTS
    Partitions = {p1, p2}
    MaxOffset = 2
    Capacity = 2
    StreamCapacity = 2
    UseSemaphore = FALSE
    Limit = 0
    MaxErrors = 0
SPECIFICATION DispatcherSafetySpec
INVARIANT CursorCoversProcessed
CHECK_DEADLOCK FALSE
