SPECIFICATION Spec
CONSTANTS
  Device = {d1}
  Req = {r1, r2}
  MaxId = 4
  MaxPassword = 0
INVARIANTS
  SignOutSticks
CHECK_DEADLOCK FALSE
