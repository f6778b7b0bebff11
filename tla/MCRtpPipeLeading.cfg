SPECIFICATION Spec
CONSTANTS
  Half = 5
  R = 2
  MaxDiff = 4
  LeadingSize = 3
  LeadingWrap = 7
  Sources <- TwoSources
  MaxUdp = 5
CHECK_DEADLOCK FALSE
PROPERTIES
  LeadingFedInOrder
