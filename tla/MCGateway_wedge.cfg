SPECIFICATION FairSpec
CONSTANTS
  c1 = c1
  c2 = c2
  u1 = u1
  u2 = u2
  w1 = w1
  w2 = w2
  Conn = {c1}
  User = {u1}
  Worker = {w1}
  WorkerOf <- Shared
  NoConn = NoConn
  NoUser = NoUser
  Ops = {"login", "sync"}
  SendCap = 1
  BufLimit = 1
  TaskCap = 1
  MaxReads = 3
  Events = {"check", "write"}
PROPERTIES
  WedgeIsForever
  StopCompletes
CHECK_DEADLOCK FALSE
