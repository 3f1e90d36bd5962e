SPECIFICATION RealtimeSpec
CONSTANTS
  User = {u1}
  Guild = {g1, g2}
  Sess = {x1}
  Lane = {g1, g2}
  Owner <- OneAccount
  LaneOf <- OwnLane
  BusCap = 2
  LaneDepth = 1
  MaxOps = 2
  NoOne = NoOne
  Users = {u1}
  Rooms = {r1}
  Conns = {c1, c2}
  IdsPerTick = 2
  Horizon = 3
  MaxEvictions = 2
  ProvisionTimeout = 1
  ParticipantsPerRoom = 2
  ConnsPerUser = 2
  RoomLimit = 1
  Peers = {p1, p2, p3}
  Talkers = {p1, p2}
  Listeners = {p3}
  NoPeer = NoPeer
  UserOf <- OwnAccount
  SlotCount = 1
  Loudness = {0, 4, 5}
  Senders = {s1, s2}
  Wrap = 16
  switchGuard = 1
  Lateness = 1
  Window = 4
  MaxPackets = 5
  Streams = {t1, t2}
  Asks = {a1, a2, a3}
  UDPPort = UDPPort
  AllocationLimit = 3
  AllocationsPerUser = 2
  AllocationsPerSource = 1
  StreamsPerSource = 1
  maxNode = 1
  maxSequence = 1
  MaxInstant = 3
  MaxIds = 5
  Sockets = {k1, k2, k3}
  MaxUnidentifiedPerAddress = 2
INVARIANTS
  RealtimeTypeOK
  IndexIsExact
  ToldOfOwnOnly
  NothingMissed
  
  HeardAsTold
  AllAccountedFor
PROPERTIES
  SelectionSettles
  IdsIncrease
CHECK_DEADLOCK FALSE
