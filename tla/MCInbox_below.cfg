\* A push before the first Sync, or between two pages.
SPECIFICATION Spec
CONSTANTS
  Sender = {s1}
  Partition = {p1}
  Limit <- OnePage
  MaxIn = 3
  MaxOwn = 0
  MaxStarts = 1
  MaxFaults = 0
  Faulty = {}
CHECK_DEADLOCK FALSE
INVARIANT SyncedBelow
