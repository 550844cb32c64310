CONSTANTS
    max_inflight = 2
    PKT_BURST = 2
    MaxCalls = 3
    MaxLost = 1
    MaxJunk = 1
    replicas = 2
    SyncCalls = 2
    SyncTerms = 3
    SyncLost = 1
    MaxEarly = 1
    executor_threads = 2
    Requests <- SomeRequests
    MaxRequests = 3
    MaxOther = 1
    MaxTerm = 2
SPECIFICATION MCSpec
INVARIANTS
    CallsAccounted
    ReturnedWasExecuted
    AnsweredRunsOnAll
    AgreeUnlessOvertaken
PROPERTIES
    CallsReturn
    CallbacksRun
    RingsDrain
CHECK_DEADLOCK FALSE
