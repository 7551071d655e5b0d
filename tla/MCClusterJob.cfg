CONSTANTS
  Secondary = {s1, s2}
  Sizes = {1, 3}
  Rate = 3
  RefreshAt = 1
  MaxSeconds = 6
  MaxConns = 3
  MaxLag = 1
  MaxChanges = 1
  MaxFaults = 1
SPECIFICATION Spec
INVARIANTS RowsCovered NoRowTwice InOrder ReadInTurn ReadsReturn
CHECK_DEADLOCK FALSE
