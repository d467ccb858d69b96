CONSTANTS
    Partitions = {p1, p2}
    MaxOffset = 3
    Capacity = 4
    StreamCapacity = 2
    UseSemaphore = FALSE
    Limit = 0
    MaxErrors = 0
SPECIFICATION DispatcherSpec
PROPERTY PausedResumes
CHECK_DEADLOCK FALSE
