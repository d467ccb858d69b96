CONSTANTS
    Workers = {w1, w2}
SPECIFICATION Spec
PROPERTY StopReachesDone
CHECK_DEADLOCK FALSE
