SPECIFICATION Spec
CONSTANTS
  NoOne = NoOne
  Users = {u1, u2}
  Codes = {c1}
  Pollers = {p1, p2}
  Flows = {f1, f2}
  Identities = {i1, i2}
  Emails = {e1, e2}
  VerificationRequired = TRUE
  RegistrationOpen = TRUE
  Requests = {r1, r2}
  MaxSecrets = 2
  Batches = {b1, b2}
  Steps = 3
  totpSkew = 1
  Names = {n1, n2}
  Addresses = {a1, a2}
  Invites = {v1}
  Attempts = {t1, t2}
  MaxUses = 1
  Gated = TRUE
  Links = {l1, l2, l3}
  Askers = {k1, k2}
  LinkedTokens = {t1}
  Calls = {c1}
  MaxSignedIn = 2
  MaxRefreshes = 1
  MaxMinted = 1
  rateLimit = 1
  MaxAttempts = 2
  maxConcurrentHashes = 1
INVARIANTS
  TypeOK
  
  
  LivenessIsTheSignIns
CHECK_DEADLOCK FALSE
