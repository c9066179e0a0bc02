CONSTANTS
  a = a
  b = b
  Nodes = {a, b}
  TTL = 6
  OpTimeout = 1
  OpMax = 1
  BuildMax = 1
  Renew = 2
  Skew = 2
  MaxFails = 3
  Settings <- Services
  Last = 3
  Dates <- Straddles
  ReadCount = 2
  MaxLen = 2
  PoisonThreshold = 5
  MaxTerms = 2
  MaxFaults = 2
  Prefixes = {1, 2}
  Day <- TwoDays
  PerPrefix = 2
  LastDay = 1
SPECIFICATION MCSpec
PROPERTIES ExclusionSound LeaderSettles ExportComplete FoldExact FoldedAtLast
CHECK_DEADLOCK FALSE
