\* One connection that asks for a thumbnail and may go away.
SPECIFICATION FairSpec
CONSTANTS
  Conns = {c1}
  MaxClients = 1
  MaxWorkers = 1
  SendBuffer = 1
  Kinds = {"image"}
  MaxSegments = 1
  MaxPieces = 1
PROPERTY NoTaskLeftBehind
CHECK_DEADLOCK FALSE
