SPECIFICATION Spec
CONSTANTS
    INITIAL_CAPACITY = 5
    LOG_ENTRIES = 7
    log_target = 2
    MaxId = 10
    MaxBatch = 2
INVARIANTS TypeOK RingsInStep FreedWhenGone ReadsAreRuns LaggersAreServed
PROPERTIES ImplementsLog
CHECK_DEADLOCK FALSE
