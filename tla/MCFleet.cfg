SPECIFICATION Spec
CONSTANTS
  None = None
  Ports = {p1, p2}
  Slots = {p1, p2}
  Configs = {a, b}
  MaxPid = 3
  MaxEpoch = 1
SYMMETRY Symmetry
VIEW NoReply
INVARIANTS
  TypeOK
  NoFalseCrash
  BoardIsCurrent
  NoForgottenEngine
  UpWasReady
  DownFindsItsSlot
PROPERTY BoardSpec
