SPECIFICATION Spec
CONSTANTS
  Tasks = {t1, t2, t3}
  Threads = {h1, h2}
  MaxWorkers = 1
  MaxThreads = 2
  NoTask = NoTask
INVARIANT WaitingTasksUndisturbed
