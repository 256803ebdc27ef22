CONSTANTS
  Threads = {t1, t2, t3, t4}
  SpinLoops = 2
SPECIFICATION FairSpec
INVARIANTS TypeOK MutualExclusion NoLostWakeup
PROPERTIES LockProgress ImplementsMutex
