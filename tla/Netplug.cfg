SPECIFICATION Spec
CONSTANTS
  Clients = {c1, c2}
  UserIds = {u1}
  NoClient = NoClient
  NoUser = NoUser
  NoPacket = NoPacket
  Queues <- MCQueues
  Threads <- MCThreads
  MAX_SESSIONS = 2
  MAX_PACKETS_PER_CALL = 1
  MaxSent = 2
  MallocFails = TRUE
  FirstCommonUid = 1
  LastId = 1
  EarlierSids = {{}, {0}}
SYMMETRY ClientSymmetry
CHECK_DEADLOCK FALSE
INVARIANTS
  TypeOK
  PoolExact
  SidsDistinct
  NoInheritedLogin
  EveryPacketOnce
  NoSleepOverWork
