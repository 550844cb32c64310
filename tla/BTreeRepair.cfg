CONSTANTS
    Keys = {1, 2, 3, 4, 5}
    slots = 3
    MaxNodes = 12
    MaxFailures = 1
SPECIFICATION Spec
INVARIANT RepairsItsOwnSplit
CHECK_DEADLOCK FALSE
