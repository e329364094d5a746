SPECIFICATION FairSpec
CONSTANTS
  Clients = {c1, c2}
  MaxRequests = 2
  MaxUses = 3
  MaxRestarts = 1
INVARIANT TypeOK
INVARIANT AnswersSound
PROPERTY LyricsKept
PROPERTY RequestsAnswered
