\* Goroutines that keep up and that do not, a Login in time or late, a failure.
SPECIFICATION FairSpec
CONSTANTS
  MaxMsgs = 2
  ResendMax = 1
  MaxFaults = 1
  Paces = {TRUE, FALSE}
  Logins = {TRUE, FALSE}
  Mixes <- Mixed
CHECK_DEADLOCK FALSE
INVARIANTS UInv WindowOpen CancelIsMine
PROPERTIES StoredBeforeReported WedgedForGood ResendsMaskFailures RetriesEnd
