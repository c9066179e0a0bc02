SPECIFICATION LadderSpec
CONSTANTS
    Names = {"a", "b"}
    Nickname = "a"
    Upgrades = {"u1", "u2"}
    Launches = {"l1", "l2"}
    Effects = {"x1", "x2"}
    Casts <- MCCasts
    MaxLost = 1
    g1 = g1
    g2 = g2
    g3 = g3
    g4 = g4
    g5 = g5
    d1 = d1
    d2 = d2
    FirstMmr = 1
INVARIANTS
    OneRow
CHECK_DEADLOCK FALSE
