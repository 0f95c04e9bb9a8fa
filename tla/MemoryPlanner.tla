---------------------------- MODULE MemoryPlanner ----------------------------
(***************************************************************************)
(* What planApiProxyRequest promises, whatever is resident and whoever     *)
(* asks.  A behaviour is one call of the planner: the views of the targets *)
(* and the protected set are those any sequence of requests may have left, *)
(* and the properties compare the plan with what unloading other sets of   *)
(* instances would have achieved.                                          *)
(***************************************************************************)
EXTENDS Scheduler

CONSTANTS
  Views,  \* runtime views of one target
  NoPlan

ASSUME PlannerAssumption == Views \subseteq RuntimeView

VARIABLES
  request,    \* the plan request: views and protected targets
  requested,  \* requestedTargetId
  allowBusy,  \* PlanRequestOptions.allowBusyEviction
  plan        \* the answer, NoPlan before the call

plannerVars == <<request, requested, allowBusy, plan>>

(* Targets of one process that name no model are ready together.           *)
Consistent(req) ==
  \A m, n \in Targets :
    InstanceOf[m] = InstanceOf[n] /\ ~HasModel[m] /\ ~HasModel[n]
      => (IsActive(req, m) <=> IsActive(req, n))

PlannerInit ==
  /\ request \in {req \in [rt : [Targets -> Views], prot : SUBSET Targets] :
                   Consistent(req)}
  /\ requested \in Targets
  /\ allowBusy \in BOOLEAN
  /\ plan = NoPlan

PlanTarget ==
  /\ plan = NoPlan
  /\ plan' = PlanRequest(request, requested, allowBusy)
  /\ UNCHANGED <<request, requested, allowBusy>>

PlannerNext == PlanTarget

PlannerSpec == PlannerInit /\ [][PlannerNext]_plannerVars

-----------------------------------------------------------------------------
(* Vocabulary of the properties, in terms of targets, not of the planner's *)
(* table of peers.                                                         *)

ReadyOn(i) == {m \in Targets : InstanceOf[m] = i /\ IsActive(request, m)}

Others == {i \in Instances \ {InstanceOf[requested]} : ReadyOn(i) # {}}

Generating(i) == \E m \in ReadyOn(i) : request.rt[m].busy

(* What the unload action for instance i ends: one model of a router, or   *)
(* the process and with it every target that the instance serves.          *)
Unloads(i) ==
  IF HasModel[PeerTarget(ReadyOn(i))] THEN {PeerTarget(ReadyOn(i))} ELSE ReadyOn(i)

WantedOn(i) == Unloads(i) \cap request.prot # {}

MayEvict(i) ==
  \A m \in ReadyOn(i) :
    /\ Preemptible[m]
    /\ Priority[m] <= Priority[requested]
    /\ Generating(i) => allowBusy /\ Priority[m] < Priority[requested]

Evictable == {i \in Others : MayEvict(i)}

FitsWithout(S) ==
  \A p \in Pools : Draw[InstanceOf[requested]][p] > 0 =>
    Draw[InstanceOf[requested]][p] <= FreeFor(p, Others \ S)

Planned == plan # NoPlan /\ request.rt[requested].state # "error"
Loading == Planned /\ ~FitsAsIs(request, requested)

-----------------------------------------------------------------------------
(* Properties.                                                             *)

(* The greedy choice of victims never leaves a pool over its budget, and   *)
(* it is complete: it gives up only when unloading everything it may       *)
(* unload would not make room either.                                      *)
LoadsWhatFits ==
  Loading => IF plan.ok THEN FitsWithout(plan.victims) ELSE ~FitsWithout(Evictable)

(* Nothing the proxy has no mandate over is unloaded: no model of a victim *)
(* instance is protected by preemptible = false or by its priority, and a  *)
(* generating instance goes only where the caller allows it.               *)
VictimsMayBeEvicted == Planned => plan.victims \subseteq Evictable

(* A generation is interrupted only when unloading idle models alone would *)
(* not make room, and whatever is interrupted is announced as a            *)
(* preemption.  An idle model somebody wants is unloaded only when the     *)
(* unwanted idle ones would not make room, where each target has its own   *)
(* model.                                                                  *)
LeastHarmFirst ==
  Loading =>
    /\ (\E i \in plan.victims : Generating(i)) =>
         /\ ~FitsWithout({i \in Evictable : ~Generating(i)})
         /\ plan.preempts # {}
    /\ (\A i \in Others : Cardinality(Unloads(i)) = 1) =>
         \A v \in plan.victims : WantedOn(v) =>
           ~FitsWithout({i \in Evictable : ~Generating(i) /\ ~WantedOn(i)})
==============================================================================
