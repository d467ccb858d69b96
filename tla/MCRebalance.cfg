CONSTANTS
    Partitions = {p1}
    MaxOffset = 2
    StreamBound = 1
    QueueBound = 1
    MaxRebalances = 3
    MaxRestarts = 1
SPECIFICATION RebalanceSpec
INVARIANTS RebalanceTypeOK CommittedIsSettled NothingSkipped
PROPERTY EverythingSettles
CHECK_DEADLOCK FALSE
