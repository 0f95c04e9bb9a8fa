CONSTANTS
  Requests = {"r1", "r2", "r3"}
  Keys = {"a", "b"}
  Route <- MCRoute
  MaxChunks = 2
  Absent = Absent
SPECIFICATION SharingSpec
CHECK_DEADLOCK FALSE
INVARIANT FailedOwnersPoisonNobody
