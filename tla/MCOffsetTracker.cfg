CONSTANTS
    Partitions = {p1}
    MaxOffset = 4
SPECIFICATION Spec
INVARIANTS TypeOK CursorIsProcessed NothingStuck
PROPERTIES CursorNeverMovesBack FailedHoldsCursor
