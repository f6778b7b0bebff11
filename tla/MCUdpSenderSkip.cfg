SPECIFICATION FairSpec
CONSTANTS
  c1 = c1
  c2 = c2
  w1 = w1
  w2 = w2
  NoThread = NoThread
  Callers = {c1, c2}
  Workers = {w1}
  Calls <- OneOrTwo
  MaxQueue = 2
  MaxWaits = 1
  MaxTasks = 3
  MaxCalls = 3
  MaxQueued = 6
PROPERTIES
  Drained
CHECK_DEADLOCK FALSE
