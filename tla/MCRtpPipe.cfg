SPECIFICATION Spec
CONSTANTS
  Half = 5
  R = 2
  MaxDiff = 4
  LeadingSize = 0
  LeadingWrap = 7
  Sources <- OneSource
  MaxUdp = 6
CHECK_DEADLOCK FALSE
INVARIANTS
  TypeOK
  WindowShape
  NeverExits
  SlotsHoldTheirSeq
  LostCoversHoles
PROPERTIES
  DeliveredInOrder
  ImplementsReorderBuffer
