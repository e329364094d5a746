\* One connection that asks for a stream and sends the start of a request.
SPECIFICATION FairSpec
CONSTANTS
  Conns = {c1}
  MaxClients = 1
  MaxWorkers = 1
  SendBuffer = 1
  Kinds = {"part", "open"}
  MaxSegments = 2
  MaxPieces = 2
PROPERTY StreamsEnd
CHECK_DEADLOCK FALSE
