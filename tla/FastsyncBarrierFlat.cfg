CONSTANTS
  t1 = t1
  t2 = t2
  t3 = t3
  t4 = t4
  root = root
  inner = inner
  leafA = leafA
  leafB = leafB
  leafC = leafC
  NoNode = NoNode
  Threads <- FlatThreads
  Nodes <- FlatNodes
  Parent <- FlatParent
  Leaf <- FlatLeaf
  Members <- FlatMembers
  Depth <- FlatDepth
  SeqMod = 2
  Rounds = 3
SPECIFICATION FairSpec
CHECK_DEADLOCK FALSE
INVARIANTS NoOverrun NoLostWakeup
PROPERTIES EveryWaitReturns
