CONSTANTS
  t1 = t1
  t2 = t2
  t3 = t3
  t4 = t4
  root = root
  inner = inner
  leafA = leafA
  leafB = leafB
  leafC = leafC
  NoNode = NoNode
  Threads <- TreeThreads
  Nodes <- TreeNodes
  Parent <- TreeParent
  Leaf <- TreeLeaf
  Members <- TreeMembers
  Depth <- TreeDepth
  SeqMod = 2
  Rounds = 3
SPECIFICATION FairSpec
CHECK_DEADLOCK FALSE
INVARIANTS TypeOK NoOverrun OneSerialPerRound
PROPERTIES EveryWaitReturns ImplementsBarrier
