SPECIFICATION Spec
CONSTANTS
  h1 = h1
  h2 = h2
  h3 = h3
  h4 = h4
  Handler = {h1, h2, h3, h4}
  None = None
SYMMETRY HandlerSymmetry
INVARIANTS
  EntryRegistered
  SharedMetrics
  RemovedInFull
CHECK_DEADLOCK FALSE
