CONSTANTS
  i = i
  j = j
  k = k
  l = l
  u = u
  v = v
  g = g
  h = h
  Joins = {i, j, k}
  Leaves = {l}
  UserOf <- Players
  Gateways = {g, h}
  MaxFences = 2
  MaxBreaks = 1
  Settings <- Scenes
SPECIFICATION FairSpec
INVARIANT SlotsAgree
PROPERTIES RosterExact BreakEnds
CHECK_DEADLOCK FALSE
