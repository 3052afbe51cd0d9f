\* Two users, a free number, four requests, two of them at once, and a failure.
SPECIFICATION Spec
CONSTANTS
  p1 = p1
  p2 = p2
  ph1 = ph1
  ph2 = ph2
  ph3 = ph3
  pw1 = pw1
  pw2 = pw2
  Proc = {p1, p2}
  Phone = {ph1, ph2, ph3}
  Password = {pw1, pw2}
  Registered <- TwoUsers
  MaxReqs = 4
  MaxFaults = 1
CHECK_DEADLOCK FALSE
INVARIANTS AInv FriendRowsBounded
PROPERTIES ImplementsDirectory
