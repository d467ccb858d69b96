CONSTANTS
    Partitions = {p1, p2}
    MaxOffset = 3
    Capacity = 4
    StreamCapacity = 2
    UseSemaphore = TRUE
    Limit = 5
    MaxErrors = 1
SPECIFICATION DispatcherSpec
INVARIANTS DispatcherTypeOK CountersAgree DroppedHoldsCursor PausedIsPaused
PROPERTIES StreamDrains
CHECK_DEADLOCK FALSE
