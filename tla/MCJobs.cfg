CONSTANTS
  Kinds = {"build", "update"}
  BuildPlans <- MCBuildPlans
  MaxJobs = 3
  MaxCrashes = 1
  HistoryLimit = 2
  None = None
SPECIFICATION FairSpec
CHECK_DEADLOCK FALSE
INVARIANTS TypeOK RunningIsFollowed
PROPERTIES CanceledStartsNothing JobsEnd
