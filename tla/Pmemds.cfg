CONSTANTS
    LeafKey = {1, 2}
    number_entrys_slots = 3
    MaxCrashes = 2
    Keys = {1, 2, 3, 4, 5, 6, 7}
    slots = 3
    MaxNodes = 12
    MaxFailures = 2
    Value = {1, 2}
    max_size = 4
    MaxOps = 3
    MaxFaults = 1
    Id = {1, 2, 3, 4, 5, 6}
    minheap_size = 2
    MaxPrio = 2
    Ds = {"CONCURRENT_HASHMAP", "SHARDED_HASHMAP", "ADJACENCY_VECTOR", "SHARDED_PRIORITY_QUEUE"}
    Key = {1}
    npartitions = 2
    MaxRequests = 6
SPECIFICATION MCSpec
INVARIANTS
    LeafIsAtomic
    
    SplitKeepsOrder
    
    KeymapIsExact
    TopK
    AckedPutsFound
CHECK_DEADLOCK FALSE
