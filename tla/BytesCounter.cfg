SPECIFICATION Spec
CONSTANTS
  MaxRange = 5
  Interval = 3
  Units = {1, 2}
  MaxBytes = 3
  Sizes = {1, 2}
  Steps = {1, 2, 6}
  Backs = {1, 6}
  Start = 10
  MaxNow = 22
INVARIANTS
  TypeOK
  CountIsWindow
  LimitKept
  ThrowsOnlyForTimeGoingBack
CHECK_DEADLOCK FALSE
