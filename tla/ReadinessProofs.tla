--------------------------- MODULE ReadinessProofs ---------------------------
(***************************************************************************)
(* The executor that carries the planner's plans out, for every number of  *)
(* requests on every configuration.                                        *)
(***************************************************************************)
EXTENDS Readiness, PlannerProofs

-----------------------------------------------------------------------------
(* The executor: what the first action of a plan is.                       *)

LEMMA LowestIn ==
  ASSUME NEW S \in SUBSET Nat, S # {}
  PROVE  Lowest(S) \in S
BY LeastNat DEF Lowest

ActionTypes ==
  Awaited \cup {"none", "blocked", "route-request", "wait-model-ready", "stop-instance"}
Actions == [type : ActionTypes, target : Targets \cup {None}, slot : Nat]
Unloading == {"unload-model", "stop-instance"}

(* A slot that is saved is a slot of the target that is unloaded.          *)
SavesItsSlot(a) ==
  a.type = "save-slot" => a.target \in Targets /\ a.slot \in SlotIds[a.target]

IsFirstAction(req, t, a) ==
  /\ a \in Actions /\ a.type # "none" /\ SavesItsSlot(a)
  /\ a.type \in Unloading => a.target \in Targets /\ ~req.rt[a.target].busy
  /\ Domains(t) = {} => a.type \notin Unloading

SavedTyped == saved \in [Targets -> SUBSET Nat]

LEMMA LoadActionFacts ==
  ASSUME SavedTyped, NEW req \in PlanRequests, NEW t \in Targets, NEW state
  PROVE  /\ LoadAction(t, state) \in Actions
         /\ LoadAction(t, state).type \notin Unloading \cup {"none", "save-slot"}
<1>1. ASSUME saved[t] # {} PROVE Lowest(saved[t]) \in Nat
  <2>1. saved[t] \in SUBSET Nat
    BY DEF SavedTyped
  <2> QED BY <1>1, <2>1, LowestIn
<1>2. 0 \in Nat
  OBVIOUS
<1> QED BY <1>1, <1>2 DEF LoadAction, Action, Actions, ActionTypes, Awaited, Unloading

LEMMA UnloadActionFacts ==
  ASSUME SavedTyped, NEW v \in Targets
  PROVE  /\ UnloadAction(v) \in Actions /\ UnloadAction(v).target = v
         /\ UnloadAction(v).type \in Unloading \cup {"save-slot"}
         /\ SavesItsSlot(UnloadAction(v))
<1>1. CASE SlotIds[v] \subseteq saved[v]
  BY <1>1 DEF UnloadAction, Action, Actions, ActionTypes, Awaited, Unloading, SavesItsSlot
<1>2. CASE ~(SlotIds[v] \subseteq saved[v])
  <2> DEFINE s == Lowest(SlotIds[v] \ saved[v])
  <2>1. s \in SlotIds[v] /\ s \in Nat
    <3>1. SlotIds[v] \ saved[v] \in SUBSET Nat /\ SlotIds[v] \ saved[v] # {}
      BY <1>2, ReadinessAssumption
    <3> QED BY <3>1, LowestIn
  <2>2. UnloadAction(v) = [type |-> "save-slot", target |-> v, slot |-> s]
    BY <1>2 DEF UnloadAction
  <2> HIDE DEF s
  <2> QED BY <2>1, <2>2 DEF Actions, ActionTypes, Awaited, Unloading, SavesItsSlot
<1> QED BY <1>1, <1>2

(* The first victim is nobody's who generates: a plan for the executor     *)
(* evicts idle instances only.                                             *)
LEMMA FirstVictimsAreIdle ==
  ASSUME NEW req \in PlanRequests, NEW t \in Targets,
         PlanRequest(req, t, FALSE).victims # {}
  PROVE  /\ FirstVictims(req, t) # {} /\ Domains(t) # {}
         /\ \A v \in FirstVictims(req, t) : v \in Targets /\ ~req.rt[v].busy
<1> DEFINE peers == MemoryPeers(req, t)
           memory == EvictUntilFits(peers, t, req.prot, FALSE)
           D == Deficits(t, DOMAIN peers)
           next == NextVictim(peers, t, DOMAIN peers, req.prot, FALSE, D)
<1>1. ~FitsAsIs(req, t) /\ PlanRequest(req, t, FALSE) = PlanFor(peers, memory)
  BY DEF PlanRequest, BlockedPlan, PlanWithPeers
<1>2. IsPeers(peers)
  BY PeersAre
<1>3. memory.victims # {}
  <2>1. PlanFor(peers, memory).victims # {}
    BY <1>1
  <2> HIDE DEF peers, memory
  <2> QED BY <2>1 DEF PlanFor, BlockedPlan
<1>4. IsEviction(peers, t, req.prot, FALSE, DOMAIN peers, memory)
  BY <1>2, EvictionFacts
<1>5. next # {} /\ D # {}
  BY <1>3, <1>4 DEF IsEviction, NextOf
<1>6. D \in SUBSET Pools
  BY DEF Deficits
<1>7. FirstVictims(req, t) = {peers[i].target : i \in next}
  BY DEF FirstVictims
<1>8. Domains(t) # {}
  BY <1>5 DEF Deficits, Domains
<1>9. ASSUME NEW i \in next
      PROVE  peers[i].target \in Targets /\ ~req.rt[peers[i].target].busy
  <2> HIDE DEF D
  <2>1. i \in IdleTier(peers, t, DOMAIN peers, D)
    BY <1>2, <1>6, <1>9, NextVictimFacts
  <2>2. i \in DOMAIN peers /\ peers[i].busy = FALSE
    BY <2>1 DEF IdleTier, Eligible
  <2>3. IsPeerOf(req, Residents(req, t, i), peers[i])
    BY <2>2, PeerFacts
  <2> QED BY <2>2, <2>3 DEF IsPeerOf
<1> HIDE DEF next, peers
<1> QED BY <1>5, <1>7, <1>8, <1>9

LEMMA FirstActionFacts ==
  ASSUME SavedTyped, NEW req \in PlanRequests, NEW t \in Targets
  PROVE  IsFirstAction(req, t, FirstAction(req, t))
<1> DEFINE plan1 == PlanRequest(req, t, FALSE)
<1>1. CASE ~plan1.ok
  BY <1>1 DEF FirstAction, IsFirstAction, SavesItsSlot, Action, Actions, ActionTypes, Unloading
<1>2. CASE plan1.ok /\ plan1.victims = {}
  <2>1. FirstAction(req, t) = LoadAction(t, req.rt[t].state)
    BY <1>2 DEF FirstAction
  <2> QED BY <2>1, LoadActionFacts DEF IsFirstAction, SavesItsSlot
<1>3. CASE plan1.ok /\ plan1.victims # {}
  <2> DEFINE v == CHOOSE v \in FirstVictims(req, t) : TRUE
  <2>1. FirstAction(req, t) = UnloadAction(v)
    BY <1>3 DEF FirstAction
  <2>2. v \in FirstVictims(req, t) /\ Domains(t) # {}
    BY <1>3, FirstVictimsAreIdle
  <2> HIDE DEF v
  <2>3. v \in Targets /\ ~req.rt[v].busy
    BY <1>3, <2>2, FirstVictimsAreIdle
  <2> QED BY <2>1, <2>2, <2>3, UnloadActionFacts DEF IsFirstAction, Unloading
<1> QED BY <1>1, <1>2, <1>3

-----------------------------------------------------------------------------
(* The inductive invariant of the request path and the maintenance pass.   *)

Running == Executing \ {"locking"}
Passes ==
  [left : SUBSET Targets, at : Targets \cup {None}, slots : [Targets -> SUBSET Nat]]

(* The types that TypeOK leaves open, for the steps that update a part.    *)
Shapes ==
  /\ SavedTyped
  /\ view \in [Requests -> PlanRequests \cup {None}]
  /\ todo \in [Requests -> Actions]
  /\ pass \in Passes /\ \A t \in Targets : pass.slots[t] \subseteq SlotIds[t]

(* A request on its way has a target.  The plan it queues with is not      *)
(* blocked, and evicts nobody for a target without draws.  It holds its    *)
(* lease from the admission until it ends or its client leaves, and never  *)
(* while maintenance works on its domains.  The swap lock is held while    *)
(* the executor runs, and only a run that was resumed does without.        *)
RequestInv(r) ==
  /\ phase[r] # "idle" => target[r] \in Targets
  /\ SavesItsSlot(todo[r])
  /\ phase[r] \in {"waiting", "holding"} /\ yields[r] = 0 =>
       /\ todo[r].type \notin {"none", "blocked"}
       /\ Domains(target[r]) = {} => todo[r].type \notin Unloading
  /\ r \in leases => /\ phase[r] \in Executing \cup {"holding", "serving"}
                     /\ ~Maintained(Domains(target[r]))
  /\ phase[r] = "serving" => ~Aborted(r)
  /\ r \in locks => phase[r] \in Running
  /\ phase[r] \in Running /\ Domains(target[r]) # {} /\ r \notin locks => yields[r] > 0

RequestsInv == \A r \in Requests : RequestInv(r)

LocksExclude ==
  \A q, r \in locks : q # r => Domains(target[q]) \cap Domains(target[r]) = {}

IInv == TypeOK /\ Shapes /\ RequestsInv /\ LocksExclude

(* What a fresh plan request is made of.                                   *)
LEMMA PlanRequestsTyped ==
  ASSUME IInv, NEW probed \in [Targets -> Statuses]
  PROVE  /\ PlanRequestOn(probed) \in PlanRequests
         /\ \A m \in Targets : ~PlanRequestOn(probed).rt[m].busy =>
              \A q \in Requests : target[q] = m => phase[q] # "serving"
<1>1. \A m \in Targets : RuntimeState(m, probed[m]) \in ModelStates
  BY SchedulerAssumption DEF RuntimeState, ModelStates, Statuses
<1>2. Wanted \in SUBSET Targets
  <2> SUFFICES ASSUME NEW r \in leases \cup {q \in Requests : phase[q] = "waiting"}
               PROVE  target[r] \in Targets
    BY DEF Wanted
  <2>1. r \in Requests /\ phase[r] # "idle"
    BY DEF IInv, TypeOK, RequestsInv, RequestInv, Executing
  <2> QED BY <2>1 DEF IInv, RequestsInv, RequestInv
<1>3. \A m \in Targets :
        [state |-> RuntimeState(m, probed[m]), busy |-> (InFlight(m) # {}), idleFor |-> 0]
          \in RuntimeView
  BY <1>1 DEF RuntimeView
<1>4. PlanRequestOn(probed) \in PlanRequests
  BY <1>2, <1>3 DEF PlanRequestOn, PlanRequests
<1>5. ASSUME NEW m \in Targets, ~PlanRequestOn(probed).rt[m].busy,
             NEW q \in Requests, target[q] = m
      PROVE  phase[q] # "serving"
  <2>1. InFlight(m) = {}
    BY <1>5 DEF PlanRequestOn
  <2> QED BY <1>5, <2>1 DEF InFlight, Ended
<1> QED BY <1>4, <1>5

LEMMA FreshActionFacts ==
  ASSUME IInv, NEW r \in Requests, phase[r] # "idle"
  PROVE  IsFirstAction(PlanRequestOn(status), target[r], FreshAction(r))
<1>1. status \in [Targets -> Statuses] /\ SavedTyped /\ target[r] \in Targets
  BY DEF IInv, TypeOK, Shapes, RequestsInv, RequestInv
<1>2. PlanRequestOn(status) \in PlanRequests
  BY <1>1, PlanRequestsTyped
<1> QED BY <1>1, <1>2, FirstActionFacts DEF FreshAction

(* The other requests keep what they have.                                 *)
Keeps(q) ==
  /\ phase'[q] = phase[q] /\ target'[q] = target[q] /\ todo'[q] = todo[q]
  /\ yields'[q] = yields[q] /\ (q \in leases' <=> q \in leases)
  /\ (q \in locks' <=> q \in locks)

LEMMA KeptRequest ==
  ASSUME NEW q, RequestInv(q), Keeps(q), pass'.at \in {pass.at, None}
  PROVE  RequestInv(q)'
<1>1. ~Maintained(Domains(target[q])) => ~Maintained(Domains(target[q]))'
  BY DEF Keeps, Maintained, Domains
<1>2. Domains(target[q])' = Domains(target[q]) /\ (Aborted(q)' <=> Aborted(q))
  BY DEF Keeps, Aborted, Domains
<1>3. SavesItsSlot(todo[q]) => SavesItsSlot(todo[q])'
  BY DEF Keeps, SavesItsSlot
<1> QED BY <1>1, <1>2, <1>3 DEF Keeps, RequestInv

(* The frame of the steps of a request.                                    *)
Frame ==
  /\ status' \in [Targets -> Statuses] /\ seen' \in [Targets -> Statuses]
  /\ saved' \in [Targets -> SUBSET Nat] /\ \A t \in Targets : saved'[t] \subseteq SlotIds[t]
  /\ pass' = pass /\ failures' = failures

(* A step that moves one request, past its arrival, keeps the invariant if *)
(* it leaves that request in a state the invariant allows.                 *)
LEMMA MovesOne ==
  ASSUME IInv, Frame, NEW r \in Requests,
         NEW p \in Phases, NEW a \in Actions,
         phase' = [phase EXCEPT ![r] = p], todo' = [todo EXCEPT ![r] = a],
         target' = target, p = "acting" => a.type \in Awaited,
         view' \in [Requests -> PlanRequests \cup {None}],
         started' \subseteq Requests, yields' \in [Requests -> 0..MaxYields],
         \A q \in Requests \ {r} : /\ yields'[q] = yields[q]
                                   /\ (q \in leases' <=> q \in leases)
                                   /\ (q \in locks' <=> q \in locks),
         leases' \subseteq Requests, locks' \subseteq Requests,
         r \in locks' => r \in locks \/ LockFree(r),
         RequestInv(r)'
  PROVE  IInv'
<1>1. ASSUME NEW q \in Requests, q # r PROVE RequestInv(q)'
  <2>1. Keeps(q)
    BY <1>1 DEF Keeps, IInv, TypeOK, Shapes
  <2>2. RequestInv(q) /\ pass'.at = pass.at
    BY DEF IInv, RequestsInv, Frame
  <2> QED BY <2>1, <2>2, KeptRequest
<1>2. RequestsInv'
  BY <1>1 DEF RequestsInv
<1>3. /\ phase' \in [Requests -> Phases] /\ todo' \in [Requests -> Actions]
      /\ \A q \in Requests : phase'[q] = "acting" => todo'[q].type \in Awaited
  BY DEF IInv, TypeOK, Shapes
<1>4. TypeOK'
  BY <1>3 DEF IInv, TypeOK, Frame
<1>5. Shapes'
  BY <1>3 DEF IInv, Shapes, Frame, SavedTyped
<1>6. LocksExclude'
  <2> SUFFICES ASSUME NEW q \in locks', NEW s \in locks', q # s
               PROVE  Domains(target[q]) \cap Domains(target[s]) = {}
    BY DEF LocksExclude, Domains
  <2>1. \A x \in locks' : x \in Requests /\ (x # r => x \in locks)
    OBVIOUS
  <2>2. \A x \in locks : \A y \in locks : x # y => Domains(target[x]) \cap Domains(target[y]) = {}
    BY DEF IInv, LocksExclude
  <2>3. CASE q # r /\ s # r
    BY <2>1, <2>2, <2>3
  <2>4. CASE q = r \/ s = r
    <3>1. PICK x \in locks : {q, s} = {r, x} /\ x # r
      BY <2>1, <2>4
    <3>2. r \in locks \/ LockFree(r)
      BY <2>4
    <3>3. Domains(target[x]) \cap Domains(target[r]) = {}
      BY <2>2, <3>1, <3>2 DEF LockFree
    <3> QED BY <3>1, <3>3
  <2> QED BY <2>3, <2>4
<1> QED BY <1>2, <1>4, <1>5, <1>6 DEF IInv

LEMMA IssuedTyped ==
  ASSUME status \in [Targets -> Statuses], NEW a
  PROVE  Issued(a) \in [Targets -> Statuses] /\ DoneBy(a) \in [Targets -> Statuses]
BY DEF Issued, DoneBy, Statuses

LEMMA EndsKeeps ==
  ASSUME IInv, Frame, NEW r \in Requests, NEW p \in {"failed", "done"},
         phase[r] # "idle", Ends(r, p)
  PROVE  IInv'
<1>1. target[r] \in Targets
  BY DEF IInv, RequestsInv, RequestInv
<1>2. NoAction \in Actions /\ p \in Phases /\ SavesItsSlot(NoAction)
  BY DEF NoAction, Actions, ActionTypes, Phases, Ended, SavesItsSlot
<1>3. /\ phase' = [phase EXCEPT ![r] = p] /\ todo' = [todo EXCEPT ![r] = NoAction]
      /\ view' = [view EXCEPT ![r] = None] /\ leases' = leases \ {r} /\ locks' = locks \ {r}
      /\ target' = target /\ started' = started \ {r} /\ yields' = yields
  BY DEF Ends
<1>4. phase'[r] = p /\ todo'[r] = NoAction /\ target'[r] = target[r]
  BY <1>3 DEF IInv, TypeOK, Shapes
<1>5. RequestInv(r)'
  BY <1>1, <1>2, <1>3, <1>4 DEF RequestInv, SavesItsSlot, Running, Executing
<1>6. /\ leases' \subseteq Requests /\ locks' \subseteq Requests /\ started' \subseteq Requests
      /\ yields' \in [Requests -> 0..MaxYields]
      /\ view' \in [Requests -> PlanRequests \cup {None}]
  BY <1>3 DEF IInv, TypeOK, Shapes
<1> QED BY <1>2, <1>3, <1>5, <1>6, MovesOne

LEMMA GoesOnKeeps ==
  ASSUME IInv, Frame, NEW r \in Requests, NEW p \in Executing, NEW a \in Actions,
         GoesOn(r, p, a), SavesItsSlot(a), p = "acting" => a.type \in Awaited,
         started' \subseteq Requests,
         phase[r] \in Running \cup {"holding"},
         p = "locking" => phase[r] = "holding",
         p # "locking" /\ Domains(target[r]) # {} /\ r \notin locks => yields[r] > 0
  PROVE  IInv'
<1>1. /\ target[r] \in Targets /\ (r \in leases => ~Maintained(Domains(target[r])))
      /\ (r \in locks => phase[r] \in Running)
  BY DEF IInv, RequestsInv, RequestInv, Running, Executing
<1>2. /\ phase' = [phase EXCEPT ![r] = p] /\ todo' = [todo EXCEPT ![r] = a]
      /\ target' = target /\ view' = view /\ leases' = leases /\ locks' = locks
      /\ yields' = yields /\ pass' = pass
  BY DEF GoesOn, Frame
<1>3. /\ phase'[r] = p /\ todo'[r] = a /\ target'[r] = target[r] /\ yields'[r] = yields[r]
      /\ SavesItsSlot(todo[r])'
  BY <1>2 DEF IInv, TypeOK, Shapes, SavesItsSlot
<1>4. Domains(target[r])' = Domains(target[r])
      /\ (Maintained(Domains(target[r]))' <=> Maintained(Domains(target[r])))
  BY <1>2 DEF Domains, Maintained
<1>5. RequestInv(r)'
  BY <1>1, <1>2, <1>3, <1>4 DEF RequestInv, Running, Executing
<1>6. /\ leases' \subseteq Requests /\ locks' \subseteq Requests /\ p \in Phases
      /\ yields' \in [Requests -> 0..MaxYields]
      /\ view' \in [Requests -> PlanRequests \cup {None}]
  BY <1>2 DEF IInv, TypeOK, Shapes, Phases
<1> QED BY <1>2, <1>5, <1>6, MovesOne

LEMMA ForwardKeeps ==
  ASSUME IInv, Frame, NEW r \in Requests, Forward(r), phase[r] \in Running \cup {"holding"}
  PROVE  IInv'
<1>1. phase[r] # "idle"
  BY DEF Running, Executing
<1>2. CASE Aborted(r)
  BY <1>1, <1>2, EndsKeeps DEF Forward
<1>3. CASE ~Aborted(r)
  <2>1. /\ target[r] \in Targets /\ (r \in leases => ~Maintained(Domains(target[r])))
    BY DEF IInv, RequestsInv, RequestInv, Running, Executing
  <2>2. /\ phase' = [phase EXCEPT ![r] = "serving"] /\ todo' = [todo EXCEPT ![r] = NoAction]
        /\ locks' = locks \ {r} /\ target' = target /\ view' = view
        /\ started' = started \ {r}
        /\ leases' = leases /\ yields' = yields /\ pass' = pass
    BY <1>3 DEF Forward, Frame
  <2>3. /\ phase'[r] = "serving" /\ todo'[r] = NoAction /\ target'[r] = target[r]
        /\ SavesItsSlot(todo[r])'
    BY <2>2 DEF IInv, TypeOK, Shapes, SavesItsSlot, NoAction
  <2>4. Domains(target[r])' = Domains(target[r]) /\ (Aborted(r)' <=> Aborted(r))
        /\ (Maintained(Domains(target[r]))' <=> Maintained(Domains(target[r])))
    BY <2>2 DEF Domains, Maintained, Aborted
  <2>5. RequestInv(r)'
    BY <1>3, <2>1, <2>2, <2>3, <2>4 DEF RequestInv, Running, Executing
  <2>6. /\ leases' \subseteq Requests /\ locks' \subseteq Requests /\ "serving" \in Phases
        /\ yields' \in [Requests -> 0..MaxYields] /\ started' \subseteq Requests
        /\ view' \in [Requests -> PlanRequests \cup {None}] /\ NoAction \in Actions
    BY <2>2 DEF IInv, TypeOK, Shapes, Phases, NoAction, Actions, ActionTypes
  <2> QED BY <2>2, <2>5, <2>6, MovesOne
<1> QED BY <1>2, <1>3

(* One pass of the executor on an action a plan may have.                  *)
LEMMA ActOnKeeps ==
  ASSUME IInv, NEW r \in Requests, NEW a \in Actions, ActOn(r, a),
         seen' \in [Targets -> Statuses], a.type # "none", SavesItsSlot(a),
         phase[r] \in Running \cup {"holding"},
         a.type # "route-request" /\ Domains(target[r]) # {} /\ r \notin locks =>
           yields[r] > 0
  PROVE  IInv'
<1>1. Frame
  <2>1. status' = Issued(a) /\ saved' = saved /\ pass' = pass /\ failures' = failures
    BY DEF ActOn
  <2>2. Issued(a) \in [Targets -> Statuses]
    BY IssuedTyped DEF IInv, TypeOK
  <2> QED BY <2>1, <2>2 DEF Frame, IInv, TypeOK, Shapes, SavedTyped
<1>2. NoAction \in Actions /\ SavesItsSlot(NoAction)
  BY DEF NoAction, Actions, ActionTypes, SavesItsSlot
<1>3. started \cup {r} \subseteq Requests
  BY DEF IInv, TypeOK
<1>4. CASE a.type = "route-request"
  BY <1>1, <1>4, ForwardKeeps DEF ActOn
<1>5. CASE a.type \in {"blocked", "wait-model-ready", "stop-instance"}
  <2>1. PICK p \in {"blocked", "polling", "exec"} : GoesOn(r, p, NoAction) /\ started' = started
    BY <1>5 DEF ActOn
  <2>2. p \in Executing /\ p # "acting" /\ p # "locking" /\ started' \subseteq Requests
    BY <1>3, <2>1 DEF Executing
  <2>3. a.type # "route-request"
    BY <1>5
  <2> QED BY <1>1, <1>2, <2>1, <2>2, <2>3, GoesOnKeeps
<1>6. CASE a.type = "start-instance" /\ r \in started
  BY <1>1, <1>6, EndsKeeps DEF ActOn, Running, Executing
<1>7. CASE a.type \in Awaited /\ ~(a.type = "start-instance" /\ r \in started)
  <2>1. GoesOn(r, "acting", a) /\ started' \subseteq Requests
    BY <1>3, <1>7 DEF ActOn, Awaited
  <2>2. a.type # "route-request" /\ "acting" \in Executing
    BY <1>7 DEF Awaited, Executing
  <2> QED BY <1>1, <1>7, <2>1, <2>2, GoesOnKeeps
<1>8. \/ a.type \in Awaited
      \/ a.type \in {"blocked", "wait-model-ready", "stop-instance", "route-request"}
  BY DEF Actions, ActionTypes
<1> QED BY <1>4, <1>5, <1>6, <1>7, <1>8

(* A pass on a fresh preview, by who holds the lock or was resumed.        *)
LEMMA FreshActOnKeeps ==
  ASSUME IInv, NEW r \in Requests, ActOn(r, FreshAction(r)), seen' = status,
         \/ phase[r] \in Running
         \/ /\ phase[r] = "holding"
            /\ yields[r] > 0 \/ Domains(target[r]) = {} \/ FreshAction(r).type = "route-request"
  PROVE  IInv'
<1> DEFINE a == FreshAction(r)
<1>1. phase[r] \in Running \cup {"holding"} /\ phase[r] # "idle"
  BY DEF Running, Executing
<1>2. a \in Actions /\ a.type # "none" /\ SavesItsSlot(a)
  BY <1>1, FreshActionFacts DEF IsFirstAction
<1>3. seen' \in [Targets -> Statuses]
  BY DEF IInv, TypeOK
<1>4. a.type # "route-request" /\ Domains(target[r]) # {} /\ r \notin locks => yields[r] > 0
  BY DEF IInv, RequestsInv, RequestInv
<1> QED BY <1>1, <1>2, <1>3, <1>4, ActOnKeeps

LEMMA ArriveKeeps ==
  ASSUME IInv, NEW r \in Requests, NEW t \in Targets, Arrive(r, t)
  PROVE  IInv'
<1> DEFINE req == PlanRequestOn(seen)
           a == FirstAction(req, t)
           p == phase'[r]
<1>1. req \in PlanRequests /\ IsFirstAction(req, t, a)
  <2>1. seen \in [Targets -> Statuses] /\ SavedTyped
    BY DEF IInv, TypeOK, Shapes
  <2> QED BY <2>1, PlanRequestsTyped, FirstActionFacts
<1>2. /\ phase[r] = "idle" /\ target' = [target EXCEPT ![r] = t]
      /\ todo' = [todo EXCEPT ![r] = a]
      /\ \/ a.type = "blocked" /\ phase' = [phase EXCEPT ![r] = "refused"] /\ view' = view
         \/ /\ a.type # "blocked" /\ view' = [view EXCEPT ![r] = req]
            /\ \/ Domains(t) = {} /\ phase' = [phase EXCEPT ![r] = "holding"]
               \/ Domains(t) # {} /\ phase' = [phase EXCEPT ![r] = "waiting"]
      /\ UNCHANGED <<status, seen, saved, started, leases, locks, yields, pass, failures>>
  BY DEF Arrive
<1> HIDE DEF req, a
<1>3. r \notin leases /\ r \notin locks
  BY <1>2 DEF IInv, RequestsInv, RequestInv, Executing, Running
<1>4. /\ phase' \in [Requests -> Phases] /\ target' \in [Requests -> Targets \cup {None}]
      /\ todo' \in [Requests -> Actions] /\ view' \in [Requests -> PlanRequests \cup {None}]
  BY <1>1, <1>2 DEF IInv, TypeOK, Shapes, Phases, Ended, IsFirstAction
<1>5. /\ target'[r] = t /\ todo'[r] = a
      /\ \/ a.type = "blocked" /\ phase'[r] = "refused"
         \/ a.type # "blocked" /\ phase'[r] \in {"waiting", "holding"}
      /\ \A q \in Requests \ {r} : /\ target'[q] = target[q] /\ phase'[q] = phase[q]
                                   /\ todo'[q] = todo[q]
  BY <1>2 DEF IInv, TypeOK, Shapes
<1>6. RequestInv(r)'
  <2>1. SavesItsSlot(todo[r])' /\ a.type # "none" /\ (Domains(t) = {} => a.type \notin Unloading)
    BY <1>1, <1>5 DEF IsFirstAction, SavesItsSlot
  <2>2. Domains(target[r])' = Domains(t)
    BY <1>5 DEF Domains
  <2> QED BY <1>2, <1>3, <1>5, <2>1, <2>2 DEF RequestInv, Running, Executing
<1>7. ASSUME NEW q \in Requests \ {r} PROVE RequestInv(q)'
  <2>1. Keeps(q)
    BY <1>2, <1>5 DEF Keeps
  <2> QED BY <1>2, <2>1, KeptRequest DEF IInv, RequestsInv
<1>8. RequestsInv'
  BY <1>6, <1>7 DEF RequestsInv
<1>9. \A q \in Requests : phase'[q] = "acting" => todo'[q].type \in Awaited
  BY <1>5 DEF IInv, TypeOK
<1>10. TypeOK'
  BY <1>2, <1>4, <1>9 DEF IInv, TypeOK, Shapes
<1>11. Shapes'
  BY <1>2, <1>4 DEF IInv, Shapes, SavedTyped
<1>12. LocksExclude'
  <2>1. \A q \in locks : q \in Requests \ {r}
    BY <1>3 DEF IInv, TypeOK
  <2> QED BY <1>2, <1>5, <2>1 DEF IInv, LocksExclude, Domains
<1> QED BY <1>8, <1>10, <1>11, <1>12 DEF IInv

(* The steps of the processes, of the probes and of the maintenance pass:  *)
(* only the pass that takes its domains asks who holds a lease on them.    *)
LEMMA BesideRequests ==
  ASSUME IInv, UNCHANGED requestVars,
         status' \in [Targets -> Statuses], seen' \in [Targets -> Statuses],
         saved' \in [Targets -> SUBSET Nat], \A t \in Targets : saved'[t] \subseteq SlotIds[t],
         pass' \in Passes, \A t \in Targets : pass'.slots[t] \subseteq SlotIds[t],
         failures' \in 0..MaxFailures,
         \/ pass'.at \in {pass.at, None}
         \/ \A r \in leases : Domains(target[r]) \cap Domains(pass'.at) = {}
  PROVE  IInv'
<1>1. /\ phase' = phase /\ target' = target /\ view' = view /\ todo' = todo
      /\ started' = started /\ leases' = leases /\ locks' = locks /\ yields' = yields
  BY DEF requestVars
<1>2. ASSUME NEW r \in Requests PROVE RequestInv(r)'
  <2>1. RequestInv(r)
    BY DEF IInv, RequestsInv
  <2>2. CASE pass'.at \in {pass.at, None}
    <3>1. Keeps(r)
      BY <1>1 DEF Keeps
    <3> QED BY <2>1, <2>2, <3>1, KeptRequest
  <2>3. CASE \A q \in leases : Domains(target[q]) \cap Domains(pass'.at) = {}
    <3>1. r \in leases => ~Maintained(Domains(target[r]))'
      BY <1>1, <2>3 DEF Maintained, Domains
    <3>2. Domains(target[r])' = Domains(target[r]) /\ (Aborted(r)' <=> Aborted(r))
          /\ SavesItsSlot(todo[r])' = SavesItsSlot(todo[r])
      BY <1>1 DEF Domains, Aborted, SavesItsSlot
    <3> QED BY <1>1, <2>1, <3>1, <3>2 DEF RequestInv
  <2> QED BY <2>2, <2>3
<1>3. RequestsInv'
  BY <1>2 DEF RequestsInv
<1>4. TypeOK'
  BY <1>1 DEF IInv, TypeOK, Passes
<1>5. Shapes' /\ LocksExclude'
  BY <1>1 DEF IInv, Shapes, SavedTyped, LocksExclude, Domains
<1> QED BY <1>3, <1>4, <1>5 DEF IInv

LEMMA ProcessesKeep ==
  ASSUME IInv, NEW t \in Targets, Loaded(t) \/ Exited(t) \/ Dies(t) \/ Reconcile(t)
  PROVE  IInv'
<1>1. /\ status \in [Targets -> Statuses] /\ seen \in [Targets -> Statuses]
      /\ saved \in [Targets -> SUBSET Nat] /\ \A x \in Targets : saved[x] \subseteq SlotIds[x]
      /\ pass \in Passes /\ \A x \in Targets : pass.slots[x] \subseteq SlotIds[x]
      /\ failures \in 0..MaxFailures
  BY DEF IInv, TypeOK, Shapes, SavedTyped
<1>2. /\ saved' = saved /\ pass' = pass /\ UNCHANGED requestVars
      /\ status' \in [Targets -> Statuses] /\ seen' \in [Targets -> Statuses]
      /\ failures' \in 0..MaxFailures
  BY <1>1, ReadinessAssumption DEF Loaded, Exited, Dies, Reconcile, Statuses
<1> QED BY <1>1, <1>2, BesideRequests

LEMMA MaintenanceKeeps ==
  ASSUME IInv, \/ \E t \in Targets : NextTarget(t)
               \/ \E S \in SUBSET Targets : PlanPass(S)
               \/ SaveInPass \/ UnloadInPass
  PROVE  IInv'
<1>1. /\ status \in [Targets -> Statuses] /\ seen \in [Targets -> Statuses]
      /\ saved \in [Targets -> SUBSET Nat] /\ \A x \in Targets : saved[x] \subseteq SlotIds[x]
      /\ pass \in Passes /\ \A x \in Targets : pass.slots[x] \subseteq SlotIds[x]
      /\ failures \in 0..MaxFailures
  BY DEF IInv, TypeOK, Shapes, SavedTyped
<1>2. ASSUME NEW t \in Targets, NextTarget(t) PROVE IInv'
  <2>1. /\ UNCHANGED requestVars /\ status' = status /\ seen' = seen /\ saved' = saved
        /\ failures' = failures /\ pass' \in Passes /\ pass'.slots = pass.slots
        /\ \/ pass'.at = None
           \/ /\ pass'.at = t
              /\ ~\E r \in Requests : /\ r \in leases \/ phase[r] = "waiting"
                                      /\ Domains(target[r]) \cap Domains(t) # {}
    BY <1>1, <1>2 DEF NextTarget, Passes
  <2>2. \A r \in leases : r \in Requests
    BY DEF IInv, TypeOK
  <2> QED BY <1>1, <2>1, <2>2, BesideRequests
<1>3. ASSUME NEW S \in SUBSET Targets, PlanPass(S) PROVE IInv'
  <2>1. /\ UNCHANGED requestVars /\ status' = status /\ saved' = saved
        /\ seen' = status /\ failures' = failures
        /\ pass' = [pass EXCEPT !.left = S,
                                !.slots = [x \in Targets |->
                                   IF x \in S THEN SlotIds[x] \ saved[x] ELSE {}]]
    BY <1>3 DEF PlanPass
  <2>2. pass' \in Passes /\ pass'.at = pass.at
        /\ \A x \in Targets : pass'.slots[x] \subseteq SlotIds[x]
    BY <1>1, <2>1, ReadinessAssumption DEF Passes
  <2> QED BY <1>1, <2>1, <2>2, BesideRequests
<1>4. ASSUME SaveInPass PROVE IInv'
  <2> DEFINE t == pass.at
             s == Lowest(pass.slots[t])
  <2>1. /\ UNCHANGED requestVars /\ status' = status /\ seen' = seen /\ failures' = failures
        /\ t # None /\ pass.slots[t] # {}
        /\ saved' = [saved EXCEPT ![t] = @ \cup {s}]
        /\ pass' = [pass EXCEPT !.slots[t] = @ \ {s}]
    BY <1>4 DEF SaveInPass
  <2>2. t \in Targets /\ pass.slots[t] \in SUBSET Nat
    BY <1>1, <2>1 DEF Passes
  <2>3. s \in pass.slots[t]
    BY <2>1, <2>2, LowestIn
  <2> HIDE DEF s
  <2>4. saved' \in [Targets -> SUBSET Nat] /\ \A x \in Targets : saved'[x] \subseteq SlotIds[x]
    BY <1>1, <2>1, <2>2, <2>3
  <2>5. pass' \in Passes /\ pass'.at = pass.at
        /\ \A x \in Targets : pass'.slots[x] \subseteq SlotIds[x]
    BY <1>1, <2>1, <2>2 DEF Passes
  <2> QED BY <1>1, <2>1, <2>4, <2>5, BesideRequests
<1>5. ASSUME UnloadInPass PROVE IInv'
  <2>1. /\ UNCHANGED requestVars /\ seen' = seen /\ saved' = saved /\ failures' = failures
        /\ pass' = [pass EXCEPT !.at = None]
        /\ status' \in {status, [status EXCEPT ![pass.at] = "off"],
                        [status EXCEPT ![pass.at] = "stopping"]}
    BY <1>5 DEF UnloadInPass
  <2>2. status' \in [Targets -> Statuses]
    BY <1>1, <2>1 DEF Statuses
  <2>3. pass' \in Passes /\ pass'.at = None /\ pass'.slots = pass.slots
    BY <1>1, <2>1 DEF Passes
  <2> QED BY <1>1, <2>1, <2>2, <2>3, BesideRequests
<1> QED BY <1>2, <1>3, <1>4, <1>5

LEMMA AdmittedKeeps ==
  ASSUME IInv, NEW r \in Requests, Admitted(r)
  PROVE  IInv'
<1>1. /\ phase[r] = "waiting" /\ ~Maintained(Domains(target[r]))
      /\ phase' = [phase EXCEPT ![r] = "holding"] /\ leases' = leases \cup {r}
      /\ UNCHANGED <<status, seen, saved, target, view, todo, started, locks, yields, pass,
                     failures>>
  BY DEF Admitted, Decision, Wait
<1>2. RequestInv(r) /\ todo[r] \in Actions
  BY DEF IInv, RequestsInv, Shapes
<1>3. /\ phase'[r] = "holding" /\ todo' = [todo EXCEPT ![r] = todo[r]] /\ "holding" \in Phases
      /\ leases' \subseteq Requests
  BY <1>1 DEF IInv, TypeOK, Shapes, Phases
<1>4. /\ Domains(target[r])' = Domains(target[r])
      /\ (Maintained(Domains(target[r]))' <=> Maintained(Domains(target[r])))
      /\ SavesItsSlot(todo[r])' = SavesItsSlot(todo[r])
  BY <1>1 DEF Domains, Maintained, SavesItsSlot
<1>5. RequestInv(r)'
  BY <1>1, <1>2, <1>3, <1>4 DEF RequestInv, Running, Executing
<1>6. Frame /\ locks' \subseteq Requests /\ started' \subseteq Requests
      /\ yields' \in [Requests -> 0..MaxYields]
      /\ view' \in [Requests -> PlanRequests \cup {None}]
  BY <1>1 DEF IInv, TypeOK, Shapes, Frame, SavedTyped
<1> QED BY <1>1, <1>2, <1>3, <1>5, <1>6, MovesOne

LEMMA BeginKeeps ==
  ASSUME IInv, NEW r \in Requests, Begin(r)
  PROVE  IInv'
<1> DEFINE a == IF yields[r] = 0 THEN todo[r] ELSE FreshAction(r)
<1>1. /\ phase[r] = "holding" /\ seen' = IF yields[r] = 0 THEN seen ELSE status
      /\ IF Domains(target[r]) # {} /\ NeedsSwap(a)
         THEN /\ GoesOn(r, "locking", NoAction)
              /\ UNCHANGED <<status, saved, started, pass, failures>>
         ELSE ActOn(r, a)
  BY DEF Begin
<1>2. RequestInv(r) /\ todo[r] \in Actions /\ yields[r] \in Nat
  BY ReadinessAssumption DEF IInv, RequestsInv, Shapes, TypeOK
<1>3. seen' \in [Targets -> Statuses]
  BY <1>1 DEF IInv, TypeOK
<1>4. CASE Domains(target[r]) # {} /\ NeedsSwap(a)
  <2>1. Frame /\ started' \subseteq Requests
    BY <1>1, <1>3, <1>4 DEF Frame, IInv, TypeOK, Shapes, SavedTyped
  <2>2. NoAction \in Actions /\ SavesItsSlot(NoAction) /\ "locking" \in Executing
        /\ "locking" # "acting"
    BY DEF NoAction, Actions, ActionTypes, SavesItsSlot, Executing
  <2> HIDE DEF a
  <2> QED BY <1>1, <1>4, <2>1, <2>2, GoesOnKeeps
<1>5. CASE ~(Domains(target[r]) # {} /\ NeedsSwap(a)) /\ yields[r] = 0
  <2>1. a = todo[r] /\ ActOn(r, todo[r])
    BY <1>1, <1>5
  <2>2. /\ todo[r].type \notin {"none", "blocked"} /\ SavesItsSlot(todo[r])
    BY <1>1, <1>2, <1>5 DEF RequestInv
  <2>3. todo[r].type = "route-request" \/ Domains(target[r]) = {}
    BY <1>5, <2>1, <2>2 DEF NeedsSwap
  <2> QED BY <1>1, <1>2, <1>3, <2>1, <2>2, <2>3, ActOnKeeps
<1>6. CASE ~(Domains(target[r]) # {} /\ NeedsSwap(a)) /\ yields[r] # 0
  <2>1. ActOn(r, FreshAction(r)) /\ yields[r] > 0 /\ seen' = status
    BY <1>1, <1>2, <1>6
  <2> QED BY <1>1, <2>1, FreshActOnKeeps
<1> QED BY <1>4, <1>5, <1>6

LEMMA SwapStartsKeeps ==
  ASSUME IInv, NEW r \in Requests, SwapStarts(r)
  PROVE  IInv'
<1>1. /\ phase[r] = "locking" /\ LockFree(r)
      /\ phase' = [phase EXCEPT ![r] = "exec"] /\ locks' = locks \cup {r}
      /\ UNCHANGED <<status, seen, saved, target, view, todo, started, leases, yields, pass,
                     failures>>
  BY DEF SwapStarts
<1>2. RequestInv(r) /\ todo[r] \in Actions
  BY DEF IInv, RequestsInv, Shapes
<1>3. /\ phase'[r] = "exec" /\ todo' = [todo EXCEPT ![r] = todo[r]] /\ "exec" \in Phases
      /\ locks' \subseteq Requests
  BY <1>1 DEF IInv, TypeOK, Shapes, Phases, Executing
<1>4. /\ Domains(target[r])' = Domains(target[r])
      /\ (Maintained(Domains(target[r]))' <=> Maintained(Domains(target[r])))
      /\ SavesItsSlot(todo[r])' = SavesItsSlot(todo[r])
  BY <1>1 DEF Domains, Maintained, SavesItsSlot
<1>5. RequestInv(r)'
  BY <1>1, <1>2, <1>3, <1>4 DEF RequestInv, Running, Executing
<1>6. Frame /\ leases' \subseteq Requests /\ started' \subseteq Requests
      /\ yields' \in [Requests -> 0..MaxYields]
      /\ view' \in [Requests -> PlanRequests \cup {None}]
  BY <1>1 DEF IInv, TypeOK, Shapes, Frame, SavedTyped
<1> QED BY <1>1, <1>2, <1>3, <1>5, <1>6, MovesOne

LEMMA ActedKeeps ==
  ASSUME IInv, NEW r \in Requests, Acted(r)
  PROVE  IInv'
<1>1. phase[r] = "acting" /\ seen' = seen /\ pass' = pass /\ failures' = failures
  BY DEF Acted
<1>2. RequestInv(r) /\ todo[r] \in Actions
  BY DEF IInv, RequestsInv, Shapes
<1>3. /\ status \in [Targets -> Statuses] /\ seen \in [Targets -> Statuses]
      /\ saved \in [Targets -> SUBSET Nat] /\ \A t \in Targets : saved[t] \subseteq SlotIds[t]
  BY DEF IInv, TypeOK, Shapes, SavedTyped
<1>4. CASE /\ GoesOn(r, "exec", NoAction) /\ saved' = SavedAfter(todo[r], target[r])
           /\ status' = DoneBy(todo[r]) /\ started' = started
  <2>1. status' \in [Targets -> Statuses]
    BY <1>3, <1>4, IssuedTyped
  <2>2. saved' \in [Targets -> SUBSET Nat] /\ \A t \in Targets : saved'[t] \subseteq SlotIds[t]
    <3>1. CASE todo[r].type = "save-slot"
      <4>1. /\ todo[r].target \in Targets /\ todo[r].slot \in SlotIds[todo[r].target]
            /\ todo[r].slot \in Nat
        BY <1>2, <3>1 DEF RequestInv, SavesItsSlot, Actions
      <4>2. saved' = [saved EXCEPT ![todo[r].target] = @ \cup {todo[r].slot}]
        BY <1>4, <3>1 DEF SavedAfter
      <4> QED BY <1>3, <4>1, <4>2
    <3>2. CASE todo[r].type = "restore-slot"
      <4>1. saved' = [saved EXCEPT ![todo[r].target] = @ \ {todo[r].slot}]
        BY <1>4, <3>2 DEF SavedAfter
      <4> QED BY <1>3, <4>1
    <3>3. CASE todo[r].type \notin {"save-slot", "restore-slot"}
      BY <1>3, <1>4, <3>3 DEF SavedAfter
    <3> QED BY <3>1, <3>2, <3>3
  <2>3. Frame
    BY <1>1, <1>3, <2>1, <2>2 DEF Frame
  <2>4. NoAction \in Actions /\ SavesItsSlot(NoAction) /\ "exec" \in Executing
        /\ "exec" # "acting" /\ "exec" # "locking" /\ phase[r] \in Running
    BY <1>1 DEF NoAction, Actions, ActionTypes, SavesItsSlot, Executing, Running
  <2>5. started' \subseteq Requests
    BY <1>4 DEF IInv, TypeOK
  <2>6. Domains(target[r]) # {} /\ r \notin locks => yields[r] > 0
    BY <1>2, <2>4 DEF RequestInv
  <2> QED BY <1>4, <2>3, <2>4, <2>5, <2>6, GoesOnKeeps
<1>5. CASE Ends(r, "failed") /\ status' = status /\ saved' = saved
  <2>1. Frame
    BY <1>1, <1>3, <1>5 DEF Frame
  <2> QED BY <1>1, <1>5, <2>1, EndsKeeps
<1> QED BY <1>4, <1>5 DEF Acted

LEMMA YieldKeeps ==
  ASSUME IInv, NEW r \in Requests, Yield(r)
  PROVE  IInv'
<1>1. /\ phase[r] = "serving" /\ yields[r] < MaxYields
      /\ phase' = [phase EXCEPT ![r] = "waiting"] /\ leases' = leases \ {r}
      /\ yields' = [yields EXCEPT ![r] = @ + 1]
      /\ UNCHANGED <<status, seen, saved, target, view, todo, started, locks, pass, failures>>
  BY DEF Yield
<1>2. RequestInv(r) /\ todo[r] \in Actions /\ yields[r] \in 0..MaxYields /\ MaxYields \in Nat
  BY ReadinessAssumption DEF IInv, RequestsInv, Shapes, TypeOK
<1>3. /\ phase'[r] = "waiting" /\ todo' = [todo EXCEPT ![r] = todo[r]] /\ "waiting" \in Phases
      /\ leases' \subseteq Requests /\ r \notin leases' /\ yields'[r] > 0
      /\ yields' \in [Requests -> 0..MaxYields]
      /\ \A q \in Requests \ {r} : yields'[q] = yields[q]
  BY <1>1, <1>2 DEF IInv, TypeOK, Shapes, Phases
<1>4. SavesItsSlot(todo[r])' = SavesItsSlot(todo[r]) /\ r \notin locks
  BY <1>1, <1>2 DEF SavesItsSlot, RequestInv, Running, Executing
<1>5. RequestInv(r)'
  BY <1>1, <1>2, <1>3, <1>4 DEF RequestInv, Running, Executing
<1>6. Frame /\ locks' \subseteq Requests /\ started' \subseteq Requests
      /\ view' \in [Requests -> PlanRequests \cup {None}]
  BY <1>1 DEF IInv, TypeOK, Shapes, Frame, SavedTyped
<1> QED BY <1>1, <1>2, <1>3, <1>5, <1>6, MovesOne

(* The steps that end a request, or the lease of one that goes on.         *)
LEMMA EndingKeeps ==
  ASSUME IInv, NEW r \in Requests, TimeOut(r) \/ Finish(r) \/ Abort(r)
  PROVE  IInv'
<1>1. UNCHANGED <<status, seen, saved, pass, failures>>
  BY DEF TimeOut, Finish, Abort
<1>2. Frame
  BY <1>1 DEF Frame, IInv, TypeOK, Shapes, SavedTyped
<1>3. CASE phase[r] # "idle" /\ \E p \in {"failed", "done"} : Ends(r, p)
  BY <1>2, <1>3, EndsKeeps
<1>4. CASE /\ phase[r] \in Executing /\ leases' = leases \ {r}
           /\ UNCHANGED <<phase, target, view, todo, started, locks, yields>>
  <2>1. RequestInv(r) /\ todo[r] \in Actions /\ phase[r] \in Phases
    BY DEF IInv, RequestsInv, Shapes, TypeOK
  <2>2. /\ todo' = [todo EXCEPT ![r] = todo[r]] /\ phase' = [phase EXCEPT ![r] = phase[r]]
        /\ leases' \subseteq Requests
        /\ phase[r] = "acting" => todo[r].type \in Awaited
    BY <1>4 DEF IInv, TypeOK, Shapes
  <2>3. /\ Domains(target[r])' = Domains(target[r])
        /\ SavesItsSlot(todo[r])' = SavesItsSlot(todo[r])
    BY <1>4 DEF Domains, SavesItsSlot
  <2>4. RequestInv(r)'
    BY <1>4, <2>1, <2>3 DEF RequestInv, Executing
  <2>5. locks' \subseteq Requests /\ started' \subseteq Requests
        /\ yields' \in [Requests -> 0..MaxYields]
        /\ view' \in [Requests -> PlanRequests \cup {None}]
    BY <1>4 DEF IInv, TypeOK, Shapes
  <2> QED BY <1>2, <1>4, <2>1, <2>2, <2>4, <2>5, MovesOne
<1>5. \/ phase[r] # "idle" /\ \E p \in {"failed", "done"} : Ends(r, p)
      \/ /\ phase[r] \in Executing /\ leases' = leases \ {r}
         /\ UNCHANGED <<phase, target, view, todo, started, locks, yields>>
  BY DEF TimeOut, Finish, Abort
<1> QED BY <1>3, <1>4, <1>5

(* The passes of the executor that look at a fresh preview.                *)
LEMMA PassesKeep ==
  ASSUME IInv, NEW r \in Requests, Step(r) \/ Poll(r) \/ Unblock(r)
  PROVE  IInv'
<1>1. phase[r] \in Running /\ phase[r] # "idle" /\ seen' = status
  BY DEF Step, Poll, Unblock, Running, Executing
<1>2. CASE ActOn(r, FreshAction(r))
  BY <1>1, <1>2, FreshActOnKeeps
<1>3. CASE Ends(r, "failed") /\ UNCHANGED <<status, saved, pass, failures>>
  <2>1. Frame
    BY <1>1, <1>3 DEF Frame, IInv, TypeOK, Shapes, SavedTyped
  <2> QED BY <1>1, <1>3, <2>1, EndsKeeps
<1>4. ActOn(r, FreshAction(r)) \/ (Ends(r, "failed") /\ UNCHANGED <<status, saved, pass, failures>>)
  BY DEF Step, Poll, Unblock
<1> QED BY <1>2, <1>3, <1>4

LEMMA RequestStepKeeps ==
  ASSUME IInv, NEW r \in Requests, RequestStep(r)
  PROVE  IInv'
BY ArriveKeeps, AdmittedKeeps, BeginKeeps, SwapStartsKeeps, PassesKeep, ActedKeeps,
   EndingKeeps, YieldKeeps DEF RequestStep

LEMMA InitHolds == Init => IInv
<1> SUFFICES ASSUME Init PROVE IInv
  OBVIOUS
<1>1. NoAction \in Actions /\ NoAction.type = "none"
  BY DEF NoAction, Actions, ActionTypes
<1>2. 0 \in 0..MaxYields /\ 0 \in 0..MaxFailures
  BY ReadinessAssumption
<1>3. [left |-> {}, at |-> None, slots |-> [t \in Targets |-> {}]] \in Passes
  BY DEF Passes
<1>4. TypeOK
  BY <1>1, <1>2 DEF Init, TypeOK, Statuses, Phases, Ended
<1>5. Shapes
  BY <1>1, <1>3 DEF Init, Shapes, SavedTyped
<1>6. RequestsInv
  BY <1>1 DEF Init, RequestsInv, RequestInv, SavesItsSlot, Running, Executing
<1>7. LocksExclude
  BY DEF Init, LocksExclude
<1> QED BY <1>4, <1>5, <1>6, <1>7 DEF IInv

LEMMA NextKeeps == IInv /\ [Next]_vars => IInv'
<1> SUFFICES ASSUME IInv, [Next]_vars PROVE IInv'
  OBVIOUS
<1>1. CASE \E r \in Requests : Begin(r) \/ RequestStep(r)
  BY <1>1, BeginKeeps, RequestStepKeeps
<1>2. CASE \E t \in Targets : Loaded(t) \/ Exited(t) \/ Dies(t) \/ Reconcile(t)
  BY <1>2, ProcessesKeep
<1>3. CASE \/ \E t \in Targets : NextTarget(t)
           \/ \E S \in SUBSET Targets : PlanPass(S)
           \/ SaveInPass \/ UnloadInPass
  BY <1>3, MaintenanceKeeps
<1>4. CASE UNCHANGED vars
  <2>1. UNCHANGED requestVars
    BY <1>4 DEF vars, requestVars
  <2> QED BY <1>4, <2>1, BesideRequests DEF vars, IInv, TypeOK, Shapes, SavedTyped
<1> QED BY <1>1, <1>2, <1>3, <1>4 DEF Next

LEMMA ReadinessInvariant == Spec => []IInv
BY InitHolds, NextKeeps, PTL DEF Spec

-----------------------------------------------------------------------------
(* Evictions and forwarded requests.                                       *)

(* What a pass of the executor has to do to issue an eviction of t.        *)
LEMMA EvictionByPass ==
  ASSUME IInv, NEW r \in Requests, NEW a \in Actions, ActOn(r, a),
         NEW t \in Targets, EvictionIssued(t)
  PROVE  /\ a.type \in Unloading /\ a.target = t
         /\ a.type = "unload-model" => a # todo[r]
<1>1. status \in [Targets -> Statuses] /\ todo \in [Requests -> Actions] /\ pass'.at = pass.at
  BY DEF IInv, TypeOK, Shapes, ActOn
<1>2. status' = Issued(a)
  BY DEF ActOn
<1>3. CASE status[t] = "ready" /\ status'[t] = "stopping"
  <2>1. a.type = "stop-instance" /\ a.target = t
    BY <1>1, <1>2, <1>3 DEF Issued
  <2> QED BY <2>1 DEF Unloading
<1>4. CASE \E x \in Requests : todo'[x] # todo[x] /\ todo'[x] = Action("unload-model", t)
  <2>1. PICK x \in Requests : todo'[x] # todo[x] /\ todo'[x] = Action("unload-model", t)
    BY <1>4
  <2>2. todo' = [todo EXCEPT ![r] = NoAction] \/ todo' = [todo EXCEPT ![r] = a]
    BY DEF ActOn, Forward, Ends, GoesOn
  <2>3. todo'[x] = a /\ x = r
    BY <1>1, <2>1, <2>2 DEF NoAction, Action
  <2> QED BY <2>1, <2>3 DEF Action, Unloading
<1>5. CASE pass.at = t /\ pass'.at = None
  BY <1>1, <1>5, ReadinessAssumption
<1> QED BY <1>3, <1>4, <1>5 DEF EvictionIssued

(* A fresh plan evicts no instance with a request in flight.               *)
LEMMA FreshPassEvictsIdle ==
  ASSUME IInv, NEW r \in Requests, phase[r] # "idle", ActOn(r, FreshAction(r)),
         NEW t \in Targets, EvictionIssued(t), NEW q \in Requests, target[q] = t
  PROVE  phase[q] # "serving"
<1> DEFINE a == FreshAction(r)
<1>1. IsFirstAction(PlanRequestOn(status), target[r], a)
  BY FreshActionFacts
<1>2. a \in Actions
  BY <1>1 DEF IsFirstAction
<1>3. a.type \in Unloading /\ a.target = t
  BY <1>2, EvictionByPass
<1>4. ~PlanRequestOn(status).rt[t].busy
  BY <1>1, <1>3 DEF IsFirstAction
<1>5. status \in [Targets -> Statuses]
  BY DEF IInv, TypeOK
<1> QED BY <1>4, <1>5, PlanRequestsTyped

LEMMA BeginEvictsIdle ==
  ASSUME IInv, NEW r \in Requests, Begin(r),
         NEW t \in Targets, EvictionIssued(t), NEW q \in Requests, target[q] = t
  PROVE  phase[q] # "serving"
<1> DEFINE a == IF yields[r] = 0 THEN todo[r] ELSE FreshAction(r)
<1>1. /\ phase[r] = "holding"
      /\ IF Domains(target[r]) # {} /\ NeedsSwap(a)
         THEN GoesOn(r, "locking", NoAction) /\ UNCHANGED <<status, pass>>
         ELSE ActOn(r, a)
  BY DEF Begin
<1>2. RequestInv(r) /\ todo \in [Requests -> Actions] /\ status \in [Targets -> Statuses]
  BY DEF IInv, RequestsInv, Shapes, TypeOK
<1>3. CASE Domains(target[r]) # {} /\ NeedsSwap(a)
  <2>1. todo' = [todo EXCEPT ![r] = NoAction] /\ status' = status /\ pass' = pass
    BY <1>1, <1>3 DEF GoesOn
  <2>2. ~EvictionIssued(t)
    BY <1>2, <2>1, ReadinessAssumption DEF EvictionIssued, NoAction, Action
  <2> QED BY <2>2
<1>4. CASE ~(Domains(target[r]) # {} /\ NeedsSwap(a)) /\ yields[r] = 0
  <2>1. a = todo[r] /\ ActOn(r, todo[r]) /\ todo[r] \in Actions
    BY <1>1, <1>2, <1>4
  <2>2. todo[r].type \in Unloading
    BY <2>1, EvictionByPass
  <2>3. Domains(target[r]) # {}
    BY <1>1, <1>2, <1>4, <2>2 DEF RequestInv
  <2> QED BY <1>4, <2>1, <2>2, <2>3 DEF NeedsSwap, Unloading
<1>5. CASE ~(Domains(target[r]) # {} /\ NeedsSwap(a)) /\ yields[r] # 0
  <2>1. ActOn(r, FreshAction(r))
    BY <1>1, <1>5
  <2> QED BY <1>1, <2>1, FreshPassEvictsIdle
<1> QED BY <1>3, <1>4, <1>5

LEMMA RequestsEvictIdle ==
  ASSUME IInv, NEW r \in Requests, RequestStep(r),
         NEW t \in Targets, EvictionIssued(t), NEW q \in Requests, target[q] = t
  PROVE  phase[q] # "serving"
<1>1. /\ status \in [Targets -> Statuses] /\ seen \in [Targets -> Statuses] /\ SavedTyped
      /\ todo \in [Requests -> Actions]
  BY DEF IInv, TypeOK, Shapes
<1>2. ASSUME NEW x \in Targets, Arrive(r, x) PROVE phase[q] # "serving"
  <2> DEFINE req == PlanRequestOn(seen)
             a == FirstAction(req, x)
  <2>1. IsFirstAction(req, x, a)
    BY <1>1, PlanRequestsTyped, FirstActionFacts
  <2>2. todo' = [todo EXCEPT ![r] = a] /\ status' = status /\ pass' = pass
    BY <1>2 DEF Arrive
  <2> HIDE DEF a
  <2>3. a = Action("unload-model", t)
    BY <1>1, <2>2, ReadinessAssumption DEF EvictionIssued
  <2>4. ~req.rt[t].busy
    BY <2>1, <2>3 DEF IsFirstAction, Action, Unloading
  <2> QED BY <1>1, <2>4, PlanRequestsTyped
<1>3. CASE Step(r) \/ Poll(r) \/ Unblock(r)
  <2>1. phase[r] # "idle"
    BY <1>3 DEF Step, Poll, Unblock
  <2>2. CASE ActOn(r, FreshAction(r))
    BY <2>1, <2>2, FreshPassEvictsIdle
  <2>3. CASE Ends(r, "failed") /\ UNCHANGED <<status, saved, pass, failures>>
    <3>1. todo' = [todo EXCEPT ![r] = NoAction] /\ status' = status /\ pass' = pass
      BY <2>3 DEF Ends
    <3>2. ~EvictionIssued(t)
      BY <1>1, <3>1, ReadinessAssumption DEF EvictionIssued, NoAction, Action
    <3> QED BY <3>2
  <2> QED BY <1>3, <2>2, <2>3 DEF Step, Poll, Unblock
<1>4. CASE Admitted(r) \/ SwapStarts(r) \/ Yield(r) \/ Acted(r) \/ TimeOut(r) \/ Finish(r)
           \/ Abort(r)
  <2>1. (todo' = todo \/ todo' = [todo EXCEPT ![r] = NoAction]) /\ pass' = pass
    BY <1>4 DEF Admitted, SwapStarts, Yield, Acted, TimeOut, Finish, Abort, Ends, GoesOn
  <2>2. status' = status \/ status' = DoneBy(todo[r])
    BY <1>4 DEF Admitted, SwapStarts, Yield, Acted, TimeOut, Finish, Abort
  <2>3. ~(status[t] = "ready" /\ status'[t] = "stopping")
    BY <1>1, <2>2 DEF DoneBy
  <2>4. ~EvictionIssued(t)
    BY <1>1, <2>1, <2>3, ReadinessAssumption DEF EvictionIssued, NoAction, Action
  <2> QED BY <2>4
<1>5. CASE Begin(r)
  BY <1>5, BeginEvictsIdle
<1> QED BY <1>2, <1>3, <1>4, <1>5 DEF RequestStep

(* Maintenance holds the domains of the target it unloads, so no lease and *)
(* hence no forwarded request is left there.                               *)
LEMMA BesideRequestsEvictsIdle ==
  ASSUME IInv, \/ \E x \in Targets : Loaded(x) \/ Exited(x) \/ Dies(x) \/ Reconcile(x)
               \/ \E x \in Targets : NextTarget(x)
               \/ \E S \in SUBSET Targets : PlanPass(S)
               \/ SaveInPass \/ UnloadInPass,
         NEW t \in Targets, EvictionIssued(t), Domains(t) # {},
         NEW q \in Requests, target[q] = t
  PROVE  phase[q] # "serving"
<1>1. status \in [Targets -> Statuses] /\ pass \in Passes /\ RequestInv(q)
  BY DEF IInv, TypeOK, Shapes, RequestsInv
<1>2. todo' = todo
  BY DEF Loaded, Exited, Dies, Reconcile, NextTarget, PlanPass, SaveInPass, UnloadInPass,
         requestVars
<1>3. CASE UnloadInPass
  <2>1. pass.at = t
    BY <1>1, <1>2, <1>3 DEF UnloadInPass, EvictionIssued
  <2>2. Maintained(Domains(target[q]))
    BY <2>1, ReadinessAssumption DEF Maintained
  <2> QED BY <1>1, <2>2 DEF RequestInv, Aborted
<1>4. CASE ~UnloadInPass
  <2>1. pass'.at = pass.at \/ pass.at = None
    BY <1>1, <1>4 DEF Loaded, Exited, Dies, Reconcile, NextTarget, PlanPass, SaveInPass, Passes
  <2>2. ~(status[t] = "ready" /\ status'[t] = "stopping")
    BY <1>1, <1>4 DEF Loaded, Exited, Dies, Reconcile, NextTarget, PlanPass, SaveInPass
  <2> QED BY <1>2, <2>1, <2>2, ReadinessAssumption DEF EvictionIssued
<1> QED BY <1>3, <1>4

LEMMA NextEvictsIdle ==
  IInv /\ [Next]_vars =>
    [\A t \in Targets : EvictionIssued(t) /\ Domains(t) # {} =>
       \A r \in Requests : target[r] = t => phase[r] # "serving"]_vars
<1> SUFFICES ASSUME IInv, Next, NEW t \in Targets, EvictionIssued(t), Domains(t) # {},
                    NEW q \in Requests, target[q] = t
             PROVE  phase[q] # "serving"
  OBVIOUS
<1>1. \/ \E r \in Requests : Begin(r)
      \/ \E r \in Requests : RequestStep(r)
      \/ \E x \in Targets : Loaded(x) \/ Exited(x) \/ Dies(x) \/ Reconcile(x)
      \/ \E x \in Targets : NextTarget(x)
      \/ \E S \in SUBSET Targets : PlanPass(S)
      \/ SaveInPass \/ UnloadInPass
  BY DEF Next
<1> QED BY <1>1, BeginEvictsIdle, RequestsEvictIdle, BesideRequestsEvictsIdle

-----------------------------------------------------------------------------
(* The theorems about the executor.                                        *)

(* Every variable keeps its type, for every number of requests.            *)
THEOREM ReadinessTypeCorrect == Spec => []TypeOK
<1>1. IInv => TypeOK
  BY DEF IInv
<1> QED BY <1>1, ReadinessInvariant, PTL

(* Loads and unloads on shared domains run under the swap lock, but for a  *)
(* run that was resumed after a preemption; and where maintenance works,   *)
(* only the run of a client that has left still goes on.                   *)
THEOREM SwapsSerialized == Spec => []SwapsAreSerialized
<1>1. IInv => SwapsAreSerialized
  <2> SUFFICES ASSUME IInv, NEW r \in Requests
               PROVE  /\ phase[r] = "acting" /\ Domains(target[r]) # {} /\ r \notin locks =>
                           yields[r] > 0
                      /\ phase[r] \in Executing \cup {"serving"}
                           /\ Maintained(Domains(target[r])) => Aborted(r)
    BY DEF SwapsAreSerialized
  <2>1. RequestInv(r)
    BY DEF IInv, RequestsInv
  <2>2. Maintained(Domains(target[r])) => Domains(target[r]) # {}
    BY DEF Maintained
  <2> QED BY <2>1, <2>2 DEF RequestInv, Aborted, Running, Executing
<1> QED BY <1>1, ReadinessInvariant, PTL

(* Of two requests that load, unload or start at the same time in domains  *)
(* they share, one was preempted and resumed: first runs exclude another.  *)
FirstRunsExclude ==
  \A q, r \in Requests :
    q # r /\ phase[q] = "acting" /\ phase[r] = "acting"
      /\ Domains(target[q]) \cap Domains(target[r]) # {} => yields[q] > 0 \/ yields[r] > 0

THEOREM FirstRunsAreExclusive == Spec => []FirstRunsExclude
<1>1. IInv => FirstRunsExclude
  <2> SUFFICES ASSUME IInv, NEW q \in Requests, NEW r \in Requests, q # r,
                      phase[q] = "acting", phase[r] = "acting",
                      Domains(target[q]) \cap Domains(target[r]) # {}
               PROVE  yields[q] > 0 \/ yields[r] > 0
    BY DEF FirstRunsExclude
  <2>1. q \notin locks \/ r \notin locks
    BY DEF IInv, LocksExclude
  <2>2. RequestInv(q) /\ RequestInv(r)
    BY DEF IInv, RequestsInv
  <2> QED BY <2>1, <2>2 DEF RequestInv, Running, Executing
<1> QED BY <1>1, ReadinessInvariant, PTL

(* No model and no process with a draw on a pool is unloaded while a       *)
(* request is forwarded to it, by whichever path: a plan counts every      *)
(* request in flight as busy, and maintenance excludes every lease.        *)
THEOREM NoForwardedIsEvicted == Spec => EvictsNoForwarded
BY ReadinessInvariant, NextEvictsIdle, PTL DEF Spec, EvictsNoForwarded

=============================================================================
