SPECIFICATION Spec
CONSTANTS
  Slot = {s1}
  Sweeper = {}
  Reader = {}
  Kinds = {"devicemoving", "deviceoffline"}
  Conn = {c1, c2}
  Freshness = 1
  Overdue = 0
  Lookback = 0
  Batch = 2
  MaxEvents = 2
  MaxTime = 1
  MaxHolds = 2
  MaxPosts = 2
  MaxFaults = 1
INVARIANTS
  ProcessedMeansPersisted
  CursorBehindScan
  PoolNeverFull
CHECK_DEADLOCK FALSE
