SPECIFICATION Spec
CONSTANTS
  Device = {d1, d2}
  Req = {r1, r2}
  MaxId = 3
  MaxPassword = 1
INVARIANTS
  TypeOK
  CutoffCoversRevoked
  TokensAreSingleUse
  EndedStaysEnded
CHECK_DEADLOCK FALSE
