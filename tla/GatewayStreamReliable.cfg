CONSTANTS
  MaxConn = 2
  MaxEvents = 2
  ResumeBuffer = 2
  OutCap = 4
SPECIFICATION FairSpec
PROPERTIES
  IsReliable
  CatchesUp
CHECK_DEADLOCK FALSE
