CONSTANTS
  Prober = {p1, p2}
  Commands = 2
  MatchWindow = 1
  ProbeWindow = 2
  Fetched = 2
  MaxResults = 3
  MaxTime = 3
SPECIFICATION Spec
INVARIANTS
  OnlyBlindMistakes
  OneResultOneIntent
CHECK_DEADLOCK FALSE
