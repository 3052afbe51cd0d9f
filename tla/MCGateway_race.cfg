\* Two connections on two workers, of one user or of two.
SPECIFICATION Spec
CONSTANTS
  c1 = c1
  c2 = c2
  u1 = u1
  u2 = u2
  w1 = w1
  w2 = w2
  Conn = {c1, c2}
  User = {u1, u2}
  Worker = {w1, w2}
  WorkerOf <- Spread
  NoConn = NoConn
  NoUser = NoUser
  Ops = {"login", "message"}
  SendCap = 1
  BufLimit = 1
  TaskCap = 1
  MaxReads = 3
  Events = {}
SYMMETRY SwapBoth
INVARIANTS
  OwnChannelOpen
  SoleSession
  RejectHarmless
  PanicNeedsTwoLogins
  NoMisdelivery
CHECK_DEADLOCK FALSE
