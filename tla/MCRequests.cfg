SPECIFICATION Spec
CONSTANTS
  MaxSessions = 2
  MaxLogins = 3
  MaxTime = 3
  Tables <- MCTables
  Documents = {"/index.html"}
  Asked <- MCAsked
INVARIANTS TypeOK SessionsSound MethodsGuarded AnswersMatch
PROPERTY PurgedLeastRecent
