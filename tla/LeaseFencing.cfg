SPECIFICATION MCSpec
CONSTANTS
    Boots = {b1, b2}
    Tokens = {t1, t2}
    NoToken = NoToken
    TTL = 4
    OpTimeout = 1
    MaxLag = 1
    MaxWrites = 2
    MaxLate = 1
    HistoryPartitions = 5
    HistoryBoots = {1, 2, 3, 4}
SYMMETRY Symmetry
INVARIANTS
    BudgetBacksAuthority
    OneConfidentExecutor
PROPERTIES
    TermsSpec
    MinimalMovement
