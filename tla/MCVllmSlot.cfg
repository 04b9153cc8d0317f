SPECIFICATION FairSpec
CONSTANT MaxRun = 2
INVARIANTS
  TypeOK
  CleanExit
PROPERTY RankZeroLossEndsTheEngine
CHECK_DEADLOCK FALSE
