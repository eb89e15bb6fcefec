SPECIFICATION Spec
CONSTANTS
    Features = {1, 2, 3, 4}
    MaxEvents = 1
    MaxReads = 3
INVARIANTS
    EveryChangeIsNamed
CHECK_DEADLOCK FALSE
