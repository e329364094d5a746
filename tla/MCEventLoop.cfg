\* Safety: three connections compete for two places.
SPECIFICATION Spec
CONSTANTS
  Conns = {c1, c2, c3}
  MaxClients = 2
  MaxWorkers = 1
  SendBuffer = 1
  Kinds = {"part", "plain", "image", "open", "bad"}
  MaxSegments = 2
  MaxPieces = 1
INVARIANT TypeOK
INVARIANT ClientsPolled
INVARIANT OneTaskPerWait
INVARIANT AnswersInOrder
PROPERTY TasksUndisturbed
CHECK_DEADLOCK FALSE
