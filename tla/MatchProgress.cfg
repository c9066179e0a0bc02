SPECIFICATION MCSpec
CONSTANTS
    MaxTerms = 3
    MaxFaults = 2
    a = a
    u = u
    w = w
    x = x
INVARIANTS
    PaidExactly
    NoReplayOfResult
PROPERTIES
    EventuallyPaid
    CommittedIsCreated
    StaleIsReaped
CHECK_DEADLOCK FALSE
