SPECIFICATION MCFairSpec
CONSTANTS
  None = None
  Procs = {p1, p2}
  MutexMayFail = FALSE
PROPERTIES ReadIsProcessed
