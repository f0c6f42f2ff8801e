SPECIFICATION Spec
CONSTANTS
    Packets <- Mixed
    MaxTime = 8
    MaxStarts = 1
CHECK_DEADLOCK FALSE
INVARIANTS NotBeforeItsTime
