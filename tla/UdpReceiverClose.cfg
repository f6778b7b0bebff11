SPECIFICATION FairSpec
CONSTANTS
  Opener = Opener
  Workers = {w1, w2}
  MaxDatagrams = 4
INVARIANTS
  CloseWaits
CHECK_DEADLOCK FALSE
