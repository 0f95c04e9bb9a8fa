CONSTANTS
  Instances = {"chat", "worker"}
  Workers <- MCWorkers
  Calls = {c1, c2}
  MaxRuns = 2
  MaxBoots = 3
  None = None
SPECIFICATION FairSpec
CHECK_DEADLOCK FALSE
INVARIANTS TypeOK NoRecordedChildIsLost OneSupervisedChild
PROPERTIES StopsEnd
