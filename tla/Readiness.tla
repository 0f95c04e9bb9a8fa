------------------------------ MODULE Readiness ------------------------------
(***************************************************************************)
(* How a request that was planned becomes a request that is forwarded:     *)
(* proxy/gateway.ts, the lease, proxy/target-lifecycle.ts with its swap    *)
(* lock, the executor of proxy/public-executor.ts, and the idle            *)
(* maintenance of proxy/idle-maintenance.ts that unloads models beside it. *)
(*                                                                         *)
(* The executor looks at a fresh preview, carries out its first readiness  *)
(* action and looks again.  A preview reads the probed states when its     *)
(* probes return and the in-flight requests at that moment, and the action *)
(* starts right after it, with no await between: that is one step here.    *)
(* What is awaited (save, load, unload, start, the next preview) is where  *)
(* other requests, the maintenance pass and the processes move.            *)
(*                                                                         *)
(* Which queued request is admitted first is the subject of                *)
(* DomainCoordinator: here any one that the policy admits may be.  The     *)
(* queue of the swap lock is the subject of SwapCoordinator: here the lock *)
(* is what it promises, ExclusiveSwaps.                                    *)
(***************************************************************************)
EXTENDS DomainAdmission

CONSTANTS
  Requests,
  SlotIds,     \* SlotIds[t]: the slots saved before t is unloaded
  IdleUnload,  \* the targets with an idleUnloadMs
  MaxYields,   \* how often a request yields to a preemption
  MaxFailures, \* bound: how often a process dies by itself
  None

ASSUME ReadinessAssumption ==
  /\ SlotIds \in [Targets -> SUBSET Nat]
  /\ IdleUnload \subseteq Targets
  /\ MaxYields \in Nat /\ MaxFailures \in Nat
  /\ None \notin Targets

VARIABLES
  status,   \* what the model or the process of each target is doing
  seen,     \* the health cache: the status the last finished probe saw
  saved,    \* savedSlotIds of the runtime metadata
  phase,    \* where each request stands
  target,   \* the target it was routed to
  view,     \* the plan request captured when it arrived
  todo,     \* the readiness action it is on
  started,  \* the requests whose executor run has started their instance
  leases,   \* the requests that hold their lease
  locks,    \* the requests that hold the swap lock of their domains
  yields,   \* how often each has yielded
  pass,     \* the maintenance pass
  failures  \* processes that died by themselves, up to MaxFailures

requestVars == <<phase, target, view, todo, started, leases, locks, yields>>
vars == <<status, seen, saved, phase, target, view, todo, started, leases,
          locks, yields, pass, failures>>

Statuses == {"off", "loading", "ready", "stopping"}
Ended == {"idle", "refused", "failed", "done"}
Executing == {"locking", "exec", "acting", "polling", "blocked"}
Phases == Ended \cup Executing \cup {"waiting", "holding", "serving"}

NoAction == [type |-> "none", target |-> None, slot |-> 0]
Action(type, t) == [type |-> type, target |-> t, slot |-> 0]

Awaited ==
  {"save-slot", "restore-slot", "load-model", "unload-model", "start-instance"}

Lowest(S) == CHOOSE s \in S : \A n \in S : s <= n

-----------------------------------------------------------------------------
(* The runtime view and the plan.                                          *)

(* A stopping process is in no state the scheduler knows.                  *)
RuntimeState(t, s) ==
  CASE s = "off" -> IF HasModel[t] THEN "unloaded" ELSE "stopped"
    [] s = "stopping" -> "unknown"
    [] OTHER -> s

InFlight(t) ==
  {r \in Requests : target[r] = t /\ phase[r] \notin Ended}

Wanted ==
  {target[r] : r \in leases \cup {q \in Requests : phase[q] = "waiting"}}

(* Seeded fault: the requests in flight are not counted.                   *)
PlanRequestOnProbes(probed) ==
  [rt |-> [m \in Targets |->
             [state |-> RuntimeState(m, probed[m]), busy |-> FALSE, idleFor |-> 0]],
   prot |-> Wanted]

PlanRequestOn(probed) ==
  [rt |-> [m \in Targets |->
             [state |-> RuntimeState(m, probed[m]),
              busy |-> InFlight(m) # {}, idleFor |-> 0]],
   prot |-> Wanted]

UnloadAction(v) ==
  IF SlotIds[v] \subseteq saved[v]
  THEN Action(IF HasModel[v] THEN "unload-model" ELSE "stop-instance", v)
  ELSE [type |-> "save-slot", target |-> v, slot |-> Lowest(SlotIds[v] \ saved[v])]

(* The first entry of loadActions, or the route-request that follows them. *)
LoadAction(t, state) ==
  CASE state \in {"stopped", "unknown"} -> Action("start-instance", t)
    [] state = "loading" -> Action("wait-model-ready", t)
    [] state = "unloaded" -> Action("load-model", t)
    [] OTHER ->
         IF saved[t] = {} THEN Action("route-request", t)
         ELSE [type |-> "restore-slot", target |-> t, slot |-> Lowest(saved[t])]

FirstVictims(req, t) ==
  LET peers == MemoryPeers(req, t)
  IN  {peers[i].target : i \in NextVictim(peers, t, DOMAIN peers, req.prot, FALSE,
                                          Deficits(t, DOMAIN peers))}

(* The first action of the plan for t, all the executor ever looks at.     *)
FirstAction(req, t) ==
  LET plan == PlanRequest(req, t, FALSE)
  IN  IF ~plan.ok THEN Action("blocked", t)
      ELSE IF plan.victims = {} THEN LoadAction(t, req.rt[t].state)
      ELSE UnloadAction(CHOOSE v \in FirstVictims(req, t) : TRUE)

FreshAction(r) == FirstAction(PlanRequestOn(status), target[r])

-----------------------------------------------------------------------------
Init ==
  /\ status \in [Targets -> {"off", "ready"}]
  /\ \A p \in Pools :
       FreeFor(p, {InstanceOf[t] : t \in {m \in Targets : status[m] = "ready"}}) >= 0
  /\ seen = status
  /\ saved = [t \in Targets |-> {}]
  /\ phase = [r \in Requests |-> "idle"]
  /\ target = [r \in Requests |-> None]
  /\ view = [r \in Requests |-> None]
  /\ todo = [r \in Requests |-> NoAction]
  /\ started = {} /\ leases = {} /\ locks = {}
  /\ yields = [r \in Requests |-> 0]
  /\ pass = [left |-> {}, at |-> None, slots |-> [t \in Targets |-> {}]]
  /\ failures = 0

(* The processes.                                                          *)

Loaded(t) ==
  /\ status[t] = "loading"
  /\ status' = [status EXCEPT ![t] = "ready"]
  /\ UNCHANGED <<seen, saved, pass, failures, requestVars>>

Exited(t) ==
  /\ status[t] = "stopping"
  /\ status' = [status EXCEPT ![t] = "off"]
  /\ UNCHANGED <<seen, saved, pass, failures, requestVars>>

Dies(t) ==
  /\ status[t] \in {"loading", "ready"} /\ failures < MaxFailures
  /\ status' = [status EXCEPT ![t] = "off"]
  /\ failures' = failures + 1
  /\ UNCHANGED <<seen, saved, pass, requestVars>>

(* A probe of the one-second reconcile loop ends.                          *)
Reconcile(t) ==
  /\ seen[t] # status[t]
  /\ seen' = [seen EXCEPT ![t] = status[t]]
  /\ UNCHANGED <<status, saved, pass, failures, requestVars>>

-----------------------------------------------------------------------------
(* The request path.                                                       *)

(* Planned on the cached view; the gateway refuses a blocked plan, and a   *)
(* target without draws needs no lease.                                    *)
Arrive(r, t) ==
  LET req == PlanRequestOn(seen)
      first == FirstAction(req, t)
  IN  /\ phase[r] = "idle"
      /\ target' = [target EXCEPT ![r] = t]
      /\ todo' = [todo EXCEPT ![r] = first]
      /\ IF first.type = "blocked"
         THEN /\ phase' = [phase EXCEPT ![r] = "refused"]
              /\ UNCHANGED view
         ELSE /\ phase' = [phase EXCEPT ![r] =
                             IF Domains(t) = {} THEN "holding" ELSE "waiting"]
              /\ view' = [view EXCEPT ![r] = req]
      /\ UNCHANGED <<status, seen, saved, started, leases, locks, yields, pass,
                     failures>>

Holders(r) == {q \in leases : Domains(target[q]) \cap Domains(target[r]) # {}}

Maintained(D) == pass.at # None /\ Domains(pass.at) \cap D # {}

Decision(r) ==
  IF Maintained(Domains(target[r])) THEN Wait
  ELSE Decide(view[r], target[r], {target[q] : q \in Holders(r)},
              Cardinality({q \in Holders(r) : target[q] = target[r]}))

Admitted(r) ==
  /\ phase[r] = "waiting" /\ Decision(r).type = "admit"
  /\ phase' = [phase EXCEPT ![r] = "holding"]
  /\ leases' = leases \cup {r}
  /\ UNCHANGED <<status, seen, saved, target, view, todo, started, locks,
                 yields, pass, failures>>

(* The end of a request or of its readiness run.                           *)
Ends(r, p) ==
  /\ phase' = [phase EXCEPT ![r] = p]
  /\ todo' = [todo EXCEPT ![r] = NoAction]
  /\ view' = [view EXCEPT ![r] = None]
  /\ leases' = leases \ {r} /\ locks' = locks \ {r}
  /\ started' = started \ {r}
  /\ UNCHANGED <<target, yields>>

Aborted(r) == r \notin leases /\ Domains(target[r]) # {}

(* The model is ready: the executor's run ends and with it the set of the  *)
(* instances it started, the swap lock goes, and the request is forwarded, *)
(* which fails at once when its client has left.                           *)
Forward(r) ==
  IF Aborted(r) THEN Ends(r, "failed")
  ELSE /\ phase' = [phase EXCEPT ![r] = "serving"]
       /\ todo' = [todo EXCEPT ![r] = NoAction]
       /\ locks' = locks \ {r}
       /\ started' = started \ {r}
       /\ UNCHANGED <<target, view, leases, yields>>

GoesOn(r, p, a) ==
  /\ phase' = [phase EXCEPT ![r] = p]
  /\ todo' = [todo EXCEPT ![r] = a]
  /\ UNCHANGED <<target, view, leases, locks, yields>>

(* What an issued action does at once: a stop is a signal, and the server  *)
(* has a load whatever becomes of the answer.                              *)
Issued(a) ==
  CASE a.type = "stop-instance" -> [status EXCEPT ![a.target] = "stopping"]
    [] a.type = "load-model" /\ status[a.target] = "off" ->
         [status EXCEPT ![a.target] = "loading"]
    [] OTHER -> status

(* What it has done when it ends well: the start of a process that is      *)
(* still stopping does nothing.                                            *)
DoneBy(a) ==
  CASE a.type = "start-instance" /\ status[a.target] = "off" ->
         [status EXCEPT ![a.target] = "loading"]
    [] a.type = "unload-model" /\ status[a.target] = "ready" ->
         [status EXCEPT ![a.target] = "off"]
    [] OTHER -> status

(* One pass of the executor on the first action of its preview.  A run     *)
(* that has to start its instance a second time gives up.                  *)
ActOn(r, a) ==
  /\ CASE a.type = "route-request" -> Forward(r)
       [] a.type = "blocked" -> GoesOn(r, "blocked", NoAction) /\ UNCHANGED started
       [] a.type = "wait-model-ready" -> GoesOn(r, "polling", NoAction) /\ UNCHANGED started
       [] a.type = "stop-instance" -> GoesOn(r, "exec", NoAction) /\ UNCHANGED started
       [] a.type = "start-instance" ->
            IF r \in started THEN Ends(r, "failed")
            ELSE GoesOn(r, "acting", a) /\ started' = started \cup {r}
       [] OTHER -> GoesOn(r, "acting", a) /\ UNCHANGED started
  /\ status' = Issued(a)
  /\ UNCHANGED <<saved, pass, failures>>

(* Seeded fault: only a load or an unload counts as a swap.                *)
NeedsSwapForModels(a) ==
  a.type \in {"load-model", "unload-model", "start-instance", "stop-instance",
              "wait-model-ready"}

NeedsSwap(a) == a.type \notin {"route-request", "blocked"}

(* executeApiProxyTargetReadiness.  The first run uses the plan made       *)
(* before the request was queued, a resumed one a fresh preview; only a    *)
(* plan with readiness actions takes the swap lock.                        *)
Begin(r) ==
  /\ phase[r] = "holding"
  /\ \E a \in {IF yields[r] = 0 THEN todo[r] ELSE FreshAction(r)} :
       IF Domains(target[r]) # {} /\ NeedsSwap(a)
       THEN /\ GoesOn(r, "locking", NoAction)
            /\ UNCHANGED <<status, saved, started, pass, failures>>
       ELSE ActOn(r, a)
  /\ seen' = IF yields[r] = 0 THEN seen ELSE status

LockFree(r) ==
  \A q \in locks : Domains(target[q]) \cap Domains(target[r]) = {}

(* The lock is granted; the preview is made under it.                      *)
SwapStarts(r) ==
  /\ phase[r] = "locking"
  /\ LockFree(r)
  /\ phase' = [phase EXCEPT ![r] = "exec"]
  /\ locks' = locks \cup {r}
  /\ UNCHANGED <<status, seen, saved, target, view, todo, started, leases,
                 yields, pass, failures>>

Step(r) ==
  /\ phase[r] = "exec"
  /\ seen' = status
  /\ ActOn(r, FreshAction(r))

(* waitForPlanChange: a plan that is blocked meanwhile ends the request.   *)
Poll(r) ==
  /\ phase[r] = "polling"
  /\ seen' = status
  /\ \E a \in {FreshAction(r)} :
       /\ a.type # "wait-model-ready"
       /\ IF a.type = "blocked"
          THEN Ends(r, "failed") /\ UNCHANGED <<status, saved, pass, failures>>
          ELSE ActOn(r, a)

(* waitForPlanUnblock: it polls until the plan is no longer blocked or the *)
(* client has left.                                                        *)
Unblock(r) ==
  /\ phase[r] = "blocked"
  /\ seen' = status
  /\ \E a \in {FreshAction(r)} :
       \/ a.type # "blocked" /\ ActOn(r, a)
       \/ /\ a.type = "blocked" /\ Aborted(r)
          /\ Ends(r, "failed") /\ UNCHANGED <<status, saved, pass, failures>>

(* Seeded fault: the slot is recorded for the target that was requested.   *)
SavedAfterForRequested(a, t) ==
  CASE a.type = "save-slot" -> [saved EXCEPT ![t] = @ \cup {a.slot}]
    [] a.type = "restore-slot" -> [saved EXCEPT ![a.target] = @ \ {a.slot}]
    [] OTHER -> saved

(* The saved slots after action a, done for a request of t.                *)
SavedAfter(a, t) ==
  CASE a.type = "save-slot" -> [saved EXCEPT ![a.target] = @ \cup {a.slot}]
    [] a.type = "restore-slot" -> [saved EXCEPT ![a.target] = @ \ {a.slot}]
    [] OTHER -> saved

(* The awaited action ends.  A restore counts as done when it failed; any  *)
(* other failure ends the request.                                         *)
Acted(r) ==
  /\ phase[r] = "acting"
  /\ \/ /\ GoesOn(r, "exec", NoAction)
        /\ saved' = SavedAfter(todo[r], target[r])
        /\ status' = DoneBy(todo[r])
        /\ UNCHANGED started
     \/ /\ todo[r].type # "restore-slot"
        /\ Ends(r, "failed") /\ UNCHANGED <<status, saved>>
  /\ UNCHANGED <<seen, pass, failures>>

(* Seeded fault: a blocked plan is polled without end.                     *)
TimeOutPolling(r) ==
  /\ phase[r] = "polling"
  /\ Ends(r, "failed")
  /\ UNCHANGED <<status, seen, saved, pass, failures>>

(* The 15 minutes of a wait, or the 16 passes, are over.                   *)
TimeOut(r) ==
  /\ phase[r] \in {"polling", "blocked", "exec"}
  /\ Ends(r, "failed")
  /\ UNCHANGED <<status, seen, saved, pass, failures>>

Finish(r) ==
  /\ phase[r] = "serving"
  /\ Ends(r, "done")
  /\ UNCHANGED <<status, seen, saved, pass, failures>>

(* A preempted generation gives its lease back and queues with the plan    *)
(* request it had.                                                         *)
Yield(r) ==
  /\ phase[r] = "serving" /\ yields[r] < MaxYields /\ r \in leases
  /\ Preemptible[target[r]]
  /\ \E w \in Requests : phase[w] = "waiting" /\ target[r] \in Decision(w).targets
  /\ phase' = [phase EXCEPT ![r] = "waiting"]
  /\ leases' = leases \ {r}
  /\ yields' = [yields EXCEPT ![r] = @ + 1]
  /\ UNCHANGED <<status, seen, saved, target, view, todo, started, locks, pass,
                 failures>>

(* The client leaves: a queued request is rejected, a forwarded one ends,  *)
(* and a readiness run goes on without its lease.                          *)
Abort(r) ==
  /\ \/ phase[r] \in {"waiting", "serving"} /\ Ends(r, "failed")
     \/ /\ phase[r] \in Executing /\ r \in leases
        /\ leases' = leases \ {r}
        /\ UNCHANGED <<phase, target, view, todo, started, locks, yields>>
  /\ UNCHANGED <<status, seen, saved, pass, failures>>

-----------------------------------------------------------------------------
(* The idle maintenance pass.                                              *)

(* One plan for the whole pass; how long a target has been idle is left    *)
(* open.                                                                   *)
PlanPass(S) ==
  /\ pass.at = None /\ pass.left = {} /\ S # {}
  /\ \A t \in S : t \in IdleUnload /\ status[t] = "ready" /\ InFlight(t) = {}
  /\ pass' = [pass EXCEPT !.left = S,
                          !.slots = [t \in Targets |->
                             IF t \in S THEN SlotIds[t] \ saved[t] ELSE {}]]
  /\ seen' = status
  /\ UNCHANGED <<status, saved, failures, requestVars>>

(* Seeded fault: the pass takes its domains without looking.               *)
NextTargetAnyway(t) ==
  /\ pass.at = None /\ t \in pass.left
  /\ \A m \in pass.left : Position[t] <= Position[m]
  /\ pass' = [pass EXCEPT !.left = @ \ {t}, !.at = t]
  /\ UNCHANGED <<status, seen, saved, failures, requestVars>>

(* tryAcquireMaintenance on the domains of the next target, or skip it.    *)
NextTarget(t) ==
  LET taken == \E r \in Requests :
        /\ r \in leases \/ phase[r] = "waiting"
        /\ Domains(target[r]) \cap Domains(t) # {}
  IN  /\ pass.at = None /\ t \in pass.left
      /\ \A m \in pass.left : Position[t] <= Position[m]
      /\ pass' = [pass EXCEPT !.left = @ \ {t}, !.at = IF taken THEN None ELSE t]
      /\ UNCHANGED <<status, seen, saved, failures, requestVars>>

(* A slot is recorded as saved whatever the server answered.               *)
SaveInPass ==
  /\ pass.at # None /\ pass.slots[pass.at] # {}
  /\ LET s == Lowest(pass.slots[pass.at])
     IN  /\ saved' = [saved EXCEPT ![pass.at] = @ \cup {s}]
         /\ pass' = [pass EXCEPT !.slots[pass.at] = @ \ {s}]
  /\ UNCHANGED <<status, seen, failures, requestVars>>

(* The unload or the stop, and the release of the lease.                   *)
UnloadInPass ==
  /\ pass.at # None /\ pass.slots[pass.at] = {}
  /\ status' = CASE HasModel[pass.at] /\ status[pass.at] = "ready" ->
                      [status EXCEPT ![pass.at] = "off"]
                 [] ~HasModel[pass.at] /\ status[pass.at] \in {"loading", "ready"} ->
                      [status EXCEPT ![pass.at] = "stopping"]
                 [] OTHER -> status
  /\ pass' = [pass EXCEPT !.at = None]
  /\ UNCHANGED <<seen, saved, failures, requestVars>>

-----------------------------------------------------------------------------
RequestStep(r) ==
  \/ \E t \in Targets : Arrive(r, t)
  \/ Admitted(r) \/ Begin(r) \/ SwapStarts(r) \/ Step(r) \/ Poll(r) \/ Unblock(r)
  \/ Acted(r) \/ TimeOut(r) \/ Finish(r) \/ Yield(r) \/ Abort(r)

(* A lease that is granted, or not needed, is followed by the first run of *)
(* the executor in the same turn of the event loop.                        *)
Quiet == \A r \in Requests : phase[r] = "holding" => yields[r] > 0

Next ==
  \/ \E r \in Requests : Begin(r)
  \/ /\ Quiet
     /\ \/ \E r \in Requests : RequestStep(r)
        \/ \E t \in Targets :
             Loaded(t) \/ Exited(t) \/ Dies(t) \/ Reconcile(t) \/ NextTarget(t)
        \/ \E S \in SUBSET Targets : PlanPass(S)
        \/ SaveInPass \/ UnloadInPass

Spec == Init /\ [][Next]_vars

(* An awaited action ends by its own timeout, a response ends, a granted   *)
(* lease is acted on, a maintenance pass goes on, and a lease or a lock    *)
(* that is free is granted: the weak fairness of each, stated on the       *)
(* states.  The timers of the executor are stated on the action, for they  *)
(* are what ends a wait.                                                   *)
Fairness ==
  /\ []<>(pass.at = None)
  /\ \A r \in Requests :
       /\ []<>(phase[r] \notin {"acting", "serving", "holding"})
       /\ []<>~(phase[r] = "locking" /\ LockFree(r))
       /\ []<>~(phase[r] = "waiting" /\ Decision(r).type = "admit")
       /\ WF_phase(TimeOut(r))

FairSpec == Spec /\ Fairness

-----------------------------------------------------------------------------
(* Properties.                                                             *)

(* Every variable holds a value of its type, and a request is on an        *)
(* awaited action exactly while it has one.                                *)
TypeOK ==
  /\ status \in [Targets -> Statuses] /\ seen \in [Targets -> Statuses]
  /\ \A t \in Targets : saved[t] \subseteq SlotIds[t]
  /\ phase \in [Requests -> Phases]
  /\ target \in [Requests -> Targets \cup {None}]
  /\ \A r \in Requests : view[r] # None => view[r] \in PlanRequests
  /\ \A r \in Requests : phase[r] = "acting" => todo[r].type \in Awaited
  /\ started \cup leases \cup locks \subseteq Requests
  /\ yields \in [Requests -> 0..MaxYields]
  /\ pass.left \subseteq Targets /\ pass.at \in Targets \cup {None}
  /\ failures \in 0..MaxFailures

(* docs/RESOURCE_MANAGEMENT.md: swaps of one domain are serialized by the  *)
(* swap lock.  The code takes it or not on the first preview alone, and a  *)
(* blocked preview does not take it.  A request is not admitted on a plan  *)
(* that is blocked, so only a run that was resumed after a preemption      *)
(* loads and unloads without the lock.                                     *)
(* docs/API_PROXY_PREEMPTION.md: maintenance "cannot race a live request". *)
(* While it works on a domain nobody swaps or generates there, except the  *)
(* readiness run of a client that has left, which goes on without lease.   *)
SwapsAreSerialized ==
  \A r \in Requests :
    /\ phase[r] = "acting" /\ Domains(target[r]) # {} /\ r \notin locks => yields[r] > 0
    /\ phase[r] \in Executing \cup {"serving"} /\ Maintained(Domains(target[r]))
         => Aborted(r)

EvictionIssued(t) ==
  \/ \E r \in Requests : todo'[r] # todo[r] /\ todo'[r] = Action("unload-model", t)
  \/ status[t] = "ready" /\ status'[t] = "stopping"
  \/ pass.at = t /\ pass'.at = None /\ status'[t] # status[t]

(* No unload and no stop is issued for a target that draws on a pool while *)
(* a request is being forwarded to it, whoever issues it and however old   *)
(* the plan is: neither executors that lost their lease nor maintenance.   *)
EvictsNoForwarded ==
  [][\A t \in Targets : EvictionIssued(t) /\ Domains(t) # {} =>
       \A r \in Requests : target[r] = t => phase[r] # "serving"]_vars

(* Every queued request is answered, although an executor may hold the     *)
(* domain while its plan is blocked by the very requests that queue for    *)
(* it: only its timeout ends that wait.                                    *)
RequestsEnd == \A r \in Requests : phase[r] = "waiting" ~> phase[r] \in Ended

(* docs/RESOURCE_MANAGEMENT.md, on the swap lock and the preview under it: *)
(* "no transient over-subscription".  What is loaded, loading or still     *)
(* exiting fits every pool.                                                *)
BudgetKept ==
  \A p \in Pools :
    FreeFor(p, {InstanceOf[t] : t \in {m \in Targets : status[m] # "off"}}) >= 0
==============================================================================
