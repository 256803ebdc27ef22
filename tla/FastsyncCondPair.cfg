CONSTANTS
  t1 = t1
  t2 = t2
  t3 = t3
  root = root
  leaf = leaf
  NoCond = NoCond
  Threads <- AllThreads
  Conds <- TreeConds
  Parent <- TreeParent
  Leaf <- TreeLeaf
  SpinLoops = 0
  SeqMod = 16
  InitialUseChild = {FALSE}
  MaxCalls = 5
SPECIFICATION FairSpec
CHECK_DEADLOCK FALSE
PROPERTIES BroadcastReleases
