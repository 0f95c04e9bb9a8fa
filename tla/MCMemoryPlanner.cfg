CONSTANTS
  Targets <- MCTargets
  Instances <- MCInstances
  Pools <- MCPools
  Position <- MCPosition
  InstanceOf <- MCInstanceOf
  HasModel <- MCHasModel
  Draw <- MCDraw
  Avail <- MCAvail
  Priority <- MCPriority
  Preemptible <- MCPreemptible
  Views <- MCViews
  NoPlan = NoPlan
SPECIFICATION PlannerSpec
CHECK_DEADLOCK FALSE
INVARIANTS
  LoadsWhatFits VictimsMayBeEvicted LeastHarmFirst
