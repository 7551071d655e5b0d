SPECIFICATION Spec
CONSTANTS
  n1 = n1
  n2 = n2
  c1 = c1
  c2 = c2
  Node = {n1, n2}
  Call = {c1, c2}
  Workloads <- SmallWorkloads
  None = None
  Bad = Bad
  MaxChanges = 1
  MaxFaults = 1
  MaxHops = 3
SYMMETRY NodeSymmetry
INVARIANTS
  AnswerNamesJobs
  StartedOnce
  SameFromEveryNode
CHECK_DEADLOCK FALSE
