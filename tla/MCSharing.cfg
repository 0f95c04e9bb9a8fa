CONSTANTS
  Requests = {"r1", "r2", "r3"}
  Keys = {"a", "b"}
  Route <- MCRoute
  MaxChunks = 2
  Absent = Absent
SPECIFICATION FairSharingSpec
CHECK_DEADLOCK FALSE
INVARIANTS HearsOneOwner
PROPERTIES WaitersEnd
