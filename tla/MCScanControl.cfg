\* main, SIGUSR1 and /rescan ask for a scan, up to three times altogether.
SPECIFICATION FairSpec
CONSTANTS
  Starters = {"main", "usr1", "server"}
  Threads = {t1, t2, t3, t4}
  MaxRequests = 3
  MaxFailures = 1
INVARIANT TypeOK
INVARIANT RunningFlagBacked
INVARIANT RestartBacked
INVARIANT InterruptHasReason
INVARIANT ExitHasReason
PROPERTY RescanHonoured
CHECK_DEADLOCK FALSE
