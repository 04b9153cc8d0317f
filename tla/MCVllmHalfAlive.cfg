SPECIFICATION Spec
CONSTANT MaxRun = 2
INVARIANT NoHalfAliveEngine
CHECK_DEADLOCK FALSE
