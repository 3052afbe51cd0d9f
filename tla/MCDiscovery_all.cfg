\* Two gateways that crash and come back, and a failure.
SPECIFICATION FairSpec
CONSTANTS
  g1 = g1
  g2 = g2
  Gateway = {g1, g2}
  Runs <- BothReturn
  MaxFaults = 1
CHECK_DEADLOCK FALSE
INVARIANTS DInv KeyFollowsLease MapFollowsKeys
PROPERTIES DeadAreForgotten ViewsCatchUp
