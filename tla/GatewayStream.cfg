CONSTANTS
  MaxConn = 2
  MaxEvents = 2
  ResumeBuffer = 1
  OutCap = 2
SPECIFICATION Spec
INVARIANTS
  TypeOK
  BufferIsNewest
  LossIsAccountedFor
CHECK_DEADLOCK FALSE
