\* Liveness: two connections served side by side.
SPECIFICATION FairSpec
CONSTANTS
  Conns = {c1, c2}
  MaxClients = 2
  MaxWorkers = 1
  SendBuffer = 1
  Kinds = {"short", "part", "plain", "image", "lyrics", "open"}
  MaxSegments = 2
  MaxPieces = 1
PROPERTY EveryRequestAnswered
CHECK_DEADLOCK FALSE
