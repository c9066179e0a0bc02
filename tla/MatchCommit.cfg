CONSTANTS
  a = a
  b = b
  u = u
  v = v
  w = w
  Lobbies = {a, b}
  Users = {u, v}
  Workers = {w}
  MaxToken = 3
  MaxGame = 2
  Settings <- MCSettings
INIT Init
NEXT Next
INVARIANTS MatchedOnce ResidueIsKnown
PROPERTIES AnswersAgree CleanupIsExact
CHECK_DEADLOCK FALSE
