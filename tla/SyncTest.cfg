CONSTANTS
  thr_cnt = 3
  MaxSpurious = 2
  Options <- SomeOptions
SPECIFICATION FairSpec
INVARIANTS TypeOK NoStaleFlag SameSite AllIterationsRun CounterIsRight
PROPERTIES EveryRunEnds
