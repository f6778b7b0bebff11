SPECIFICATION FairSpec
CONSTANTS
  n1 = n1
  n2 = n2
  n3 = n3
  NoNotifier = NoNotifier
  Configs <- MCConfigs
  RingSize = 2
  MaxDatagrams = 3
INVARIANTS
  TypeOK
  ReceivedOnceInOrder
  AnnouncedUnlessShared
PROPERTIES
  Received
  WorkerStops
