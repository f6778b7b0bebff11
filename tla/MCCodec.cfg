SPECIFICATION FairSpec
CONSTANTS
  d1 = d1
  d2 = d2
  e1 = e1
  Decoders <- MCDecoders
  Encoders <- MCEncoders
  Scenarios <- MCScenarios
  ChannelMax = 2
  Capacity = 1
  MaxOpens <- MCMaxOpens
  MaxInFlight = 1
INVARIANTS
  TypeOK
  ChannelIdsSound
  GoneEncoderIsQuiet
PROPERTIES
  ThreadsEnd
CHECK_DEADLOCK FALSE
