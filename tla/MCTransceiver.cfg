SPECIFICATION Spec
CONSTANTS
  s1 = s1
  s2 = s2
  p1 = p1
  p2 = p2
  p3 = p3
  p4 = p4
  NoPipe = NoPipe
  Streams <- MCStreams
  Pipes <- MCPipes
  MaxOpens = 3
SYMMETRY Symmetry
INVARIANTS
  TypeOK
  UsedPipesLive
  ClosedHoldsNothing
  FreedOnlyAfterNarrowerOpen
CHECK_DEADLOCK FALSE
