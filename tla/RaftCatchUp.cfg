SPECIFICATION FairSpecLed
CONSTANTS
    Server = {s1, s2}
    FirstLeader = s1
    Command = {c1}
    Kicker = Kicker
    Nil = Nil
    MaxTerm = 1
    MaxLog = 2
    MaxBatch = 1
    MaxLost = 1
    MaxBusy = 4
    QueueSize = 2
    PKT_BURST = 2
PROPERTIES FollowersCatchUp
