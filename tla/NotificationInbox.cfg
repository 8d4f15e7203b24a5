CONSTANTS
  Tracked = {1, 2}
  Direct = {3}
  Dull = {1}
  Batch = 1
  Limit = 1
  MaxTime = 1
  MaxLosses = 1
  MaxFaults = 1
SPECIFICATION FairSpec
INVARIANTS
  TypeOK
  NothingSlipsBy
  
PROPERTIES
  EventsReachInbox
CHECK_DEADLOCK FALSE
