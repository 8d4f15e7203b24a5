SPECIFICATION FairSpec
CONSTANTS
  Slot = {}
  Sweeper = {w1}
  Reader = {u1}
  Kinds = {"devicemoving", "deviceoffline"}
  Conn = {c1, c2}
  Freshness = 0
  Overdue = 0
  Lookback = 1
  Batch = 1
  MaxEvents = 1
  MaxTime = 0
  MaxHolds = 2
  MaxPosts = 1
  MaxFaults = 1
PROPERTIES
  
  AttemptsEnd
CHECK_DEADLOCK FALSE
