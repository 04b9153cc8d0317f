SPECIFICATION Spec
CONSTANT MaxRun = 2
INVARIANT OnlyStaleIsRemoved
CHECK_DEADLOCK FALSE
