SPECIFICATION Spec
CONSTANTS
    Options <- MCOptions
    MaxNotices = 2
INVARIANTS
    RememberedMount
CHECK_DEADLOCK FALSE
