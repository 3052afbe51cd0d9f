\* Two goroutines, which create a group, list it and send to it, and a failure.
SPECIFICATION Spec
CONSTANTS
  u1 = u1
  u2 = u2
  u3 = u3
  p1 = p1
  p2 = p2
  User = {u1, u2, u3}
  Ghost = ghost
  Group = {g1}
  NoGroup = NoGroup
  Proc = {p1, p2}
  MaxReqs = 4
  MaxFaults = 1
CHECK_DEADLOCK FALSE
SYMMETRY Swap
INVARIANTS TypeOK CacheIsTable WholeAudience NumbersFresh StoredBeforePush GInv
