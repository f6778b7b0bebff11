SPECIFICATION Spec
CONSTANTS
  MaxRange = 5
  Interval = 3
  Units = {1, 2}
  MaxBytes = 3
  Sizes = {1, 2}
  Steps = {1, 2, 6}
  Backs = {}
  Start = 10
  MaxNow = 25
INVARIANTS
  NeverThrows
CHECK_DEADLOCK FALSE
