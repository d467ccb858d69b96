CONSTANTS
    Workers = {w1, w2}
    t1 = t1
    t2 = t2
    Topics <- MCTopics
    AddedModes <- MCAddedModes
    SinkGroups <- MCSinkGroups
    MaxStarts = 2
SPECIFICATION LifecycleSpec
INVARIANTS LifecycleTypeOK NoPhasePanics FinalizeAfterDrain HandlersServed
PROPERTIES StartReturns PoolReturns StatusCatchesUp
CHECK_DEADLOCK FALSE
