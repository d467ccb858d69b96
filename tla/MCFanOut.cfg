SPECIFICATION FanOutSpec
CONSTANT SinkCount = 3
INVARIANT FailedBranchesRouted
PROPERTY ArmedWaiterWakes
CHECK_DEADLOCK FALSE
