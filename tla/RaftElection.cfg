SPECIFICATION Spec
CONSTANTS
    Server = {s1, s2, s3}
    FirstLeader = s1
    Command = {c1}
    Kicker = Kicker
    Nil = Nil
    MaxTerm = 3
    MaxLog = 1
    MaxBatch = 1
    MaxLost = 0
    MaxBusy = 1
    QueueSize = 1
    PKT_BURST = 2
SYMMETRY ServerSymmetry
VIEW VoteState
INVARIANTS TypeOK ElectionSafety VotesHold
