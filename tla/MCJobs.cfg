SPECIFICATION FairSpec
CONSTANTS
  Task = {"first", "second"}
  JobId = {"m_0", "m_1"}
  Jobs <- BothJobs
  StopTarget <- MultiStop
  Modes = {"primary", "standalone"}
  Duration = 11
  MayPanic = TRUE
  Overlap = TRUE
  FollowStops = FALSE
INVARIANTS
  StopBounded
  EndedShown
PROPERTIES
  JobsEnd
  EntriesRemoved
