SPECIFICATION MeteredSpec
CONSTANTS
  Conn = {c1, c2, c3, c4}
  KeepAlive = 2
  MaxCount = 3
  MaxRequest = 2
  PromptShrink = FALSE
  MaxShrinks = 1
  MaxFaults = 2
  MaxLost = 1
  MaxAttempts = 5
SYMMETRY ConnSymmetry
INVARIANTS
  OnePlace
  BusyExact
  WithinKeepAlive
  MetricsAccount
PROPERTY ImplementsBoundedPool
CHECK_DEADLOCK FALSE
