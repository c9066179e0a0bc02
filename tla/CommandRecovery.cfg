INIT MCInit
NEXT MCNext
CONSTANTS
    MaxResults = 1
    MaxSequence = 3
    MaxEntries = 4
    MaxTicks = 2
    MaxTerms = 2
INVARIANTS
    RecoveryExact
    OutcomesStand
    NothingLost
    ReplayNeverBails
    BarrierHandoffBeyond
    ReplicaExact
CHECK_DEADLOCK FALSE
