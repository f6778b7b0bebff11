SPECIFICATION FairSpec
CONSTANTS
  c1 = c1
  c2 = c2
  w1 = w1
  w2 = w2
  NoThread = NoThread
  Callers = {c1, c2}
  Workers = {w1, w2}
  Calls <- Several
  MaxQueue = 2
  MaxWaits = 1
  MaxTasks = 3
  MaxCalls = 3
  MaxQueued = 6
INVARIANTS
  TypeOK
  OneOperation
  StoppedIsQuiet
PROPERTIES
  ImplementsOutbox
  StopsUnlessThrown
  DrainedUnlessStalled
CHECK_DEADLOCK FALSE
