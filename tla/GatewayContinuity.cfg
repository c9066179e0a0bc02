CONSTANTS
  s1 = s1
  s2 = s2
  Sockets = {s1, s2}
  Settings <- MCSettings
SYMMETRY SocketSymmetry
INIT Init
NEXT Next
INVARIANTS DeltasContinue SocketsSound
PROPERTY PromotedWhileLive
CHECK_DEADLOCK FALSE
