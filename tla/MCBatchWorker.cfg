CONSTANTS
    Partitions = {p1, p2}
    MaxOffset = 2
    MaxBatchSize = 2
    Capacity = 2
SPECIFICATION BatchSpec
INVARIANTS BatchTypeOK PartitionOrder InflightIsUnsettled CancelLosesNothing
PROPERTY NoBatchWaitsForever
CHECK_DEADLOCK FALSE
