CONSTANTS
    p1 = p1
    p2 = p2
    Partitions = {p1, p2}
    Delivered <- Deliveries
    MaxOffset = 2
    MaxErrors = 1
SPECIFICATION CommitterSpec
INVARIANTS CommitterTypeOK FinalCycleCommits
PROPERTIES RefinesFrontier CommitsCatchUp
CHECK_DEADLOCK FALSE
