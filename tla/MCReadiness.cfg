CONSTANTS
  Targets = {"bg", "chat"}
  Instances = {"iBg", "iChat"}
  Pools = {"gpu"}
  Position <- MCPosition
  InstanceOf <- MCInstanceOf
  HasModel <- MCHasModel
  Draw <- MCDraw
  Avail <- MCAvail
  Priority <- MCPriority
  Preemptible <- MCPreemptible
  ParallelLimit <- MCParallelLimit
  SlotIds <- MCSlotIds
  IdleUnload = {"bg", "chat"}
  Requests = {r1, r2}
  MaxYields = 1
  MaxFailures = 1
  None = None
SPECIFICATION FairSpec
CHECK_DEADLOCK FALSE
INVARIANTS TypeOK SwapsAreSerialized
PROPERTIES EvictsNoForwarded RequestsEnd
