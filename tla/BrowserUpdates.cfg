SPECIFICATION FairSpec
CONSTANTS
  Threads = {t1, t2}
  MaxOps = 2
  MaxVersion = 1
  MaxCrashes = 1
  MaxTimeouts = 1
INVARIANTS OneAtATime ClaimRespected
PROPERTIES SuccessStands RequestsEnd
CHECK_DEADLOCK FALSE
