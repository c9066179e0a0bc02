SPECIFICATION MCSpec
CONSTANTS
    MaxResults = 2
    MaxSequence = 6
    RecoveryResults = 1
    RecoverySequence = 2
    MaxEntries = 3
    MaxTicks = 1
    MaxTerms = 3
    s1 = s1
INVARIANT
    SessionExact
PROPERTIES
    CommandsCovered
    ColdHeals
CHECK_DEADLOCK FALSE
