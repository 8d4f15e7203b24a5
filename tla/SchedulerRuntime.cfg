SPECIFICATION FairJobSpec
CONSTANTS
  Replica = {r1, r2}
  Conn = {c1, c2}
  MaxHolds = 3
  MaxFaults = 2
INVARIANT
  TasksExclude
PROPERTY
  JobKeepsRunning
