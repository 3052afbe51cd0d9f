\* One connection with everything that can happen to it.
SPECIFICATION Spec
CONSTANTS
  c1 = c1
  c2 = c2
  u1 = u1
  u2 = u2
  w1 = w1
  w2 = w2
  Conn = {c1}
  User = {u1, u2}
  Worker = {w1, w2}
  WorkerOf <- Spread
  NoConn = NoConn
  NoUser = NoUser
  Ops = {"login", "sync", "message", "heartbeat"}
  SendCap = 1
  BufLimit = 2
  TaskCap = 1
  MaxReads = 2
  Events = {"redis", "ttl", "silent", "write", "check", "shutdown"}
SYMMETRY SwapUsers
INVARIANTS
  TypeOK
  OneCloser
  RegistryOwner
  IInv
PROPERTIES
  UserIdSetOnce
  HandledInOrder
CHECK_DEADLOCK FALSE
