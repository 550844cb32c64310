SPECIFICATION SpecLed
CONSTANTS
    Server = {s1, s2, s3}
    FirstLeader = s1
    Command = {c1}
    Kicker = Kicker
    Nil = Nil
    MaxTerm = 1
    MaxLog = 3
    MaxBatch = 2
    MaxLost = 2
    MaxBusy = 1
    QueueSize = 2
    PKT_BURST = 2
SYMMETRY PeerSymmetry
VIEW LiveState
INVARIANTS MatchIsReplicated
