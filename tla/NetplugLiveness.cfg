SPECIFICATION Spec
CONSTANTS
  Clients = {c1, c2}
  UserIds = {u1}
  NoClient = NoClient
  NoUser = NoUser
  NoPacket = NoPacket
  Queues <- MCQueues
  Threads <- MCThreads
  MAX_SESSIONS = 1
  MAX_PACKETS_PER_CALL = 1
  MaxSent = 2
  MallocFails = FALSE
  FirstCommonUid = 1
  LastId = 1
  EarlierSids = {{}}
CHECK_DEADLOCK FALSE
PROPERTIES
  CommandsLeave
  ShutdownCompletes
