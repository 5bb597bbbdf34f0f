SPECIFICATION Spec
CONSTANTS
  Threads = {t1, t2}
  MaxOps = 2
  MaxVersion = 1
  MaxCrashes = 1
  MaxTimeouts = 1
INVARIANT WorkerShown
CHECK_DEADLOCK FALSE
