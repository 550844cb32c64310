SPECIFICATION FairSpec
CONSTANTS
    Kind <- Kinds
    Commutes <- PartitionRules
    executor_threads = 2
    max_sched_buffer_length = 3
    MaxOps = 3
    MaxBatch = 1
INVARIANTS TypeOK ConflictsInOrder GcAfterCompletion
PROPERTIES ImplementsOrder EveryOperationRuns
