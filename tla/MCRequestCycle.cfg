SPECIFICATION FairSpec
CONSTANTS
  MaxQps = 3
  MaxTime = 1
  Bundle = 2
INVARIANTS
  RateKept
  RequestsCounted
  VerdictsInOrder
PROPERTIES
  
  CycleEnds
CHECK_DEADLOCK FALSE
