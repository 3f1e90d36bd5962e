SPECIFICATION Spec
CONSTANTS
  Conn = {c1, c2}
  Sess = {s1, s2}
  Device = {"laptop"}
  DeviceOf <- OneDevice
  MaxSignIn = 2
  MaxPerAccount = 1
  MaxLost = 1
  CanShutdown = TRUE
  None = None
SYMMETRY Symmetric
INVARIANTS
  TypeOK
  RegistryAgrees
  NoStraySession
  SignOutHasNoGap
CHECK_DEADLOCK FALSE
