CONSTANTS
  Main = main
  other = other
  Threads <- TwoThreads
  MissingSets <- AtMostOne
  StackDepth = 2
SPECIFICATION Spec
INVARIANTS LockingFindsFunction HooksWorkAfterInit
