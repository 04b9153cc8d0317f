SPECIFICATION FairSpec
CONSTANTS
  p1 = p1
  a = a
  None = None
  Ports = {p1, p2}
  Slots = {p1}
  Configs = {a}
  MaxPid = 2
  MaxEpoch = 1
PROPERTIES DeadEngineLeavesItsSlot ServingEngineComesUp
