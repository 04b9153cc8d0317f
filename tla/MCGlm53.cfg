SPECIFICATION Spec
CONSTANTS
  Geometries <- MCGeometries
  Configs <- MCConfigs
  LogitsSizes <- MCLogitsSizes
  Memory = 10000
  MaxBatch = 2
  MaxChunk = 2
  MaxText = 7
  MaxContent = 2
INVARIANTS
  TypeOK
  
  RerunIsANoop
  PoolHoldsTheDrafter
  ChunksAsStock
  
  FlagIsTheMatchers
  GrammarIsNotMisfed
CHECK_DEADLOCK FALSE
