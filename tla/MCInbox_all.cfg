\* One sender and the user himself, every failure.
SPECIFICATION FairSpec
CONSTANTS
  Sender = {s1}
  Partition = {p1}
  Limit <- OnePage
  MaxIn = 2
  MaxOwn = 1
  MaxStarts = 1
  MaxFaults = 1
  Faulty <- AllFaults
CHECK_DEADLOCK FALSE
INVARIANTS IInv PageComplete
PROPERTIES SeqNeverFalls SyncDelivers SyncEnds QueueDrains
