\* main and /rescan ask for the first scan at the same time.
SPECIFICATION Spec
CONSTANTS
  Starters = {"main", "usr1", "server"}
  Threads = {t1, t2, t3}
  MaxRequests = 2
  MaxFailures = 0
INVARIANT AtMostOneScan
CHECK_DEADLOCK FALSE
