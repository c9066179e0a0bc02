SPECIFICATION Spec
CONSTANTS
    MaxResults = 1
    MaxSequence = 1
    MaxEntries = 2
    MaxTicks = 3
    MaxTerms = 3
INVARIANT
    PlannedHandoffBeyond
CHECK_DEADLOCK FALSE
