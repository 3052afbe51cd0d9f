\* The Login is handled late.
SPECIFICATION FairSpec
CONSTANTS
  MaxMsgs = 2
  ResendMax = 1
  MaxFaults = 0
  Paces = {TRUE}
  Logins = {FALSE}
  Mixes <- ToPeer
CHECK_DEADLOCK FALSE
PROPERTY StoredInTheEnd
