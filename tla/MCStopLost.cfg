SPECIFICATION Spec
CONSTANTS
  Task = {"first"}
  JobId = {"m_0"}
  Jobs <- OneJob
  StopTarget <- SameStop
  Modes = {"primary"}
  Duration = 12
  MayPanic = FALSE
  Overlap = FALSE
  FollowStops = TRUE
INVARIANT StopHonoured
