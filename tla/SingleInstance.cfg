SPECIFICATION MCFairSpec
CONSTANTS
  None = None
  Procs = {p1, p2, p3}
  MutexMayFail = TRUE
INVARIANTS OneWindow Conserved Overtake
PROPERTIES Delivered ServerReturns
