SPECIFICATION FairSpec
CONSTANTS
  Conn = {c1, c2}
  Sess = {s1}
  Device = {"laptop"}
  DeviceOf <- OneDevice
  MaxSignIn = 2
  MaxPerAccount = 1
  MaxLost = 1
  CanShutdown = FALSE
  None = None
PROPERTIES
  DeadSignInIsClosed
  DetachedSessionEnds
CHECK_DEADLOCK FALSE
