SPECIFICATION Spec_P
CONSTANTS
  Tab = {1, 2}
  MaxFetches = 2
  MaxSignIns = 2
  MaxTokens = 2
  Surfaces <- AllSurfaces
  Me = me
  RunList = runs
  Resource = {me, runs}
  LiveResource = {runs}
  MaxFact = 3
  MaxReads = 2
  Pages <- AllPages
INVARIANTS PagesTypeOK 
PROPERTIES NeverBackwards RequestsEnd Settles
CHECK_DEADLOCK FALSE
