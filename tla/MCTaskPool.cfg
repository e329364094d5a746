SPECIFICATION FairSpec
CONSTANTS
  Tasks = {t1, t2, t3}
  Threads = {h1, h2}
  MaxWorkers = 1
  MaxThreads = 2
  NoTask = NoTask
INVARIANT TypeOK
INVARIANT CountersExact
INVARIANT WithinLimits
INVARIANT OnePlace
INVARIANT NothingStranded
PROPERTY OvertakenOnlyAtLimit
PROPERTY EveryTaskServed
PROPERTY ImplementsService
