CONSTANTS
  MaxConn = 2
  MaxEvents = 3
  ResumeBuffer = 1
  OutCap = 2
SPECIFICATION Spec
INVARIANT LosesNothing
CHECK_DEADLOCK FALSE
