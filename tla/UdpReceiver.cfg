SPECIFICATION FairSpec
CONSTANTS
  Opener = Opener
  Workers = {w1, w2}
  MaxDatagrams = 4
INVARIANTS
  TypeOK
  OneReceive
  DeletedIsQuiet
PROPERTIES
  Reads
  Stops
CHECK_DEADLOCK FALSE
