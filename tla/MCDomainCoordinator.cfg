CONSTANTS
  Targets = {"chat", "bgA", "bgB"}
  Instances = {"iChat", "iA", "iB"}
  Pools <- MCPools
  Position <- MCPosition
  InstanceOf <- MCInstanceOf
  HasModel <- MCHasModel
  Draw <- MCDraw
  Avail <- MCAvail
  Priority <- MCPriority
  Preemptible <- MCPreemptible
  ParallelLimit <- MCParallelLimit
  Snapshots <- MCSnapshots
  Maintenance = Maintenance
  None = None
  Leases = {l1, l2, l3}
  MaxYields = 1
SPECIFICATION FairSpec
CHECK_DEADLOCK FALSE
INVARIANTS
  TypeOK QueuesAgree NobodyForgotten LeasesCompatible
PROPERTIES
  PriorityHeld SwapBarrier ResumesFirst EventuallyServed
