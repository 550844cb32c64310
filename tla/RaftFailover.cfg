SPECIFICATION SpecLed
CONSTANTS
    Server = {s1, s2, s3}
    FirstLeader = s1
    Command = {c1}
    Kicker = Kicker
    Nil = Nil
    MaxTerm = 2
    MaxLog = 2
    MaxBatch = 1
    MaxLost = 0
    MaxBusy = 2
    QueueSize = 1
    PKT_BURST = 2
SYMMETRY PeerSymmetry
VIEW LiveState
INVARIANTS LogMatching LeaderCompleteness StateMachineSafety KickerFirst DeletesOnlyUncommitted SkippedEntriesAgree OtherAssertions CommitsCompared
PROPERTIES CommittedIsStable
