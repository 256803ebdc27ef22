CONSTANTS
  t1 = t1
  t2 = t2
  t3 = t3
  root = root
  leaf = leaf
  NoCond = NoCond
  Threads <- AllThreads
  Conds <- TreeConds
  Parent <- TreeParent
  Leaf <- TreeLeaf
  SpinLoops = 1
  SeqMod = 16
  InitialUseChild = {FALSE}
  MaxCalls = 6
SPECIFICATION Spec
CHECK_DEADLOCK FALSE
INVARIANTS TypeOK Represented PlainFieldsExclusive NotifiedDoesNotSleep NoLostBroadcast
PROPERTIES ImplementsCond
