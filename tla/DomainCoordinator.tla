-------------------------- MODULE DomainCoordinator --------------------------
(***************************************************************************)
(* The ComputeDomainCoordinator of proxy/domain-coordinator.ts: leases on  *)
(* sets of compute domains, granted by priority, affinity and age, with a  *)
(* cooperative preemption of the holders.                                  *)
(*                                                                         *)
(* The code runs on one event loop, so a handler and the scheduleAdmission *)
(* it ends with are one atomic step.  What happens between two steps is    *)
(* what the handlers await: a plan is built before its lease is queued, a  *)
(* holder reacts to its preempt signal later, a client may leave at any    *)
(* moment.                                                                 *)
(***************************************************************************)
EXTENDS DomainAdmission

CONSTANTS
  Leases,       \* lease objects; one is created per request
  Snapshots,    \* runtime views a request may be planned on
  Maintenance,  \* the target of idle maintenance, MAINTENANCE_TARGET
  None,         \* no target, no plan request yet
  MaxYields     \* how often one request yields: maxAttempts - 1 of the loop

ASSUME CoordinatorAssumption ==
  /\ IsFiniteSet(Leases)
  /\ Snapshots \subseteq [Targets -> RuntimeView]
  /\ Maintenance \notin Targets
  /\ None \notin Targets \cup {Maintenance}
  /\ MaxYields \in Nat

VARIABLES
  lease,    \* what createLease fixes: target, domains, seq and plan request
  status,   \* DomainLeaseStatus, "new" before createLease
  holders,  \* the holders list; its order is never observed
  waiters,  \* the waiters list; it is sorted by a total order when used
  fired,    \* leases whose current preemptSignal has been aborted
  aged,     \* leases created at least swapFairnessMs ago
  caller,   \* where the code that owns the lease stands
  yields,   \* how often the owner has yielded
  nextSeq

vars == <<lease, status, holders, waiters, fired, aged, caller, yields, nextSeq>>

Statuses == {"new", "waiting", "holding", "suspended", "settled"}

(* "refused": the gateway answered 503; "awaiting": on the promise of      *)
(* acquire() or yield(); "running": it resolved; "rejected": it failed;    *)
(* "done": the owner has released.                                         *)
Callers ==
  {"idle", "refused", "planned", "awaiting", "running", "rejected", "done"}

LeaseData == [target : Targets \cup {Maintenance, None},
              domains : SUBSET Pools, seq : Nat, req : PlanRequests \cup {None}]

-----------------------------------------------------------------------------
(* Admission.  These operators take the lease data as a parameter because  *)
(* acquire() queues a lease and runs the admission in the same step.       *)

Overlap(data, a, b) == data[a].domains \cap data[b].domains # {}

OnDomainsOf(data, l, H) == {h \in H : Overlap(data, h, l)}

DecisionBeside(data, l, on) ==
  IF \E h \in on : data[h].target = Maintenance THEN Wait
  ELSE Decide(data[l].req, data[l].target, {data[h].target : h \in on},
              Cardinality({h \in on : data[h].target = data[l].target}))

(* What becomes of candidate l when H holds; maintenance on one of its     *)
(* domains skips it.                                                       *)
DecisionFor(data, l, H) == DecisionBeside(data, l, OnDomainsOf(data, l, H))

IsAffine(data, l, H) ==
  \E h \in OnDomainsOf(data, l, H) : data[h].target = data[l].target

StarvedSwapWaiting(data, H, W) ==
  \E w \in W : ~IsAffine(data, w, H) /\ w \in aged

(* Seeded fault: the newest of two equal candidates goes first.            *)
CandidateKeyNewestFirst(data, H, l, starved) ==
  << -Priority[data[l].target],
     IF starved \/ IsAffine(data, l, H) THEN 0 ELSE 1,
     -data[l].seq >>

CandidateKey(data, H, l, starved) ==
  << -Priority[data[l].target],
     IF starved \/ IsAffine(data, l, H) THEN 0 ELSE 1,
     data[l].seq >>

Precedes(data, H, starved, a, b) ==
  LexLess(CandidateKey(data, H, a, starved), CandidateKey(data, H, b, starved))

(* The decision on candidate w asks holder h to yield.                     *)
AskedToYield(data, h, w, decision) ==
  /\ Overlap(data, h, w)
  /\ data[h].target \in decision.targets
  /\ data[h].target \in Targets /\ Preemptible[data[h].target]

FirePreemptions(data, H, examined, decision) ==
  {h \in H : \E w \in examined : AskedToYield(data, h, w, decision[w])}

(* One pass of the admission loop over the waiters W, given the decision   *)
(* on each: it promotes the first candidate that may be admitted, and      *)
(* preempts on behalf of the candidates it examined before that one.       *)
PassWith(data, H, W, decision, starved) ==
  LET ready == {w \in W : decision[w].type = "admit"}
      next == {l \in ready : \A w \in ready \ {l} : Precedes(data, H, starved, l, w)}
      examined == {w \in W : \A l \in next : Precedes(data, H, starved, w, l)}
  IN  [ready |-> ready, next |-> next,
       fired |-> FirePreemptions(data, H, examined, decision)]

AdmissionPass(data, H, W) ==
  PassWith(data, H, W, [w \in W |-> DecisionFor(data, w, H)],
           StarvedSwapWaiting(data, H, W))

(* The runs of the loop: which waiters it promotes, in which order.        *)
AdmissionOrders(W) ==
  {order \in UNION {[1..n -> W] : n \in 0..Cardinality(W)} : IsInjective(order)}

PromotedBefore(order, k) == {order[j] : j \in 1..(k - 1)}

Passes(data, H, W, order) ==
  [k \in 1..(Len(order) + 1) |->
     AdmissionPass(data, H \cup PromotedBefore(order, k),
                   W \ PromotedBefore(order, k))]

(* The loop stops after the first pass that finds nobody to admit.         *)
IsLoopRun(passes, order) ==
  /\ \A k \in DOMAIN order : order[k] \in passes[k].next
  /\ passes[Len(order) + 1].ready = {}

(* scheduleAdmission on lists H and W.  st, cl and F are status, caller    *)
(* and fired as the handler left them; promoting a lease resolves its      *)
(* promise and gives it a fresh preempt signal.                            *)
ScheduleAdmission(data, H, W, st, cl, F) ==
  \E order \in AdmissionOrders(W) : \E passes \in {Passes(data, H, W, order)} :
    LET promoted == Range(order)
    IN  /\ IsLoopRun(passes, order)
        /\ holders' = H \cup promoted
        /\ waiters' = W \ promoted
        /\ status' = [l \in Leases |-> IF l \in promoted THEN "holding" ELSE st[l]]
        /\ caller' = [l \in Leases |-> IF l \in promoted THEN "running" ELSE cl[l]]
        /\ fired' = (F \ promoted) \cup UNION {passes[k].fired : k \in DOMAIN passes}

-----------------------------------------------------------------------------
Init ==
  /\ lease = [l \in Leases |->
       [target |-> None, domains |-> {}, seq |-> 0, req |-> None]]
  /\ status = [l \in Leases |-> "new"]
  /\ holders = {} /\ waiters = {} /\ fired = {} /\ aged = {}
  /\ caller = [l \in Leases |-> "idle"]
  /\ yields = [l \in Leases |-> 0]
  /\ nextSeq = 0

WantedTargetIds == {lease[l].target : l \in holders \cup waiters} \ {Maintenance}

(* The request is planned on a snapshot, and the gateway refuses it when   *)
(* the plan, which may not unload a busy model, is blocked.  The lease     *)
(* comes later.                                                            *)
PlanRequestFor(l, t, rt) ==
  LET req == [rt |-> rt, prot |-> WantedTargetIds]
  IN  /\ caller[l] = "idle"
      /\ Domains(t) # {}
      /\ lease' = [lease EXCEPT ![l].target = t, ![l].req = req]
      /\ caller' = [caller EXCEPT
           ![l] = IF PlanRequest(req, t, FALSE).ok THEN "planned" ELSE "refused"]
      /\ UNCHANGED <<status, holders, waiters, fired, aged, yields, nextSeq>>

Acquire(l) ==
  /\ caller[l] = "planned"
  /\ lease' = [lease EXCEPT ![l].domains = Domains(lease[l].target),
                            ![l].seq = nextSeq]
  /\ nextSeq' = nextSeq + 1
  /\ ScheduleAdmission(lease', holders, waiters \cup {l},
                       [status EXCEPT ![l] = "waiting"],
                       [caller EXCEPT ![l] = "awaiting"], fired)
  /\ UNCHANGED <<aged, yields>>

(* Seeded fault: only the queue is looked at, not the holders.             *)
TryAcquireMaintenanceUnlessQueued(l, D) ==
  /\ caller[l] = "idle"
  /\ \A k \in waiters : lease[k].domains \cap D = {}
  /\ lease' = [lease EXCEPT ![l].target = Maintenance, ![l].domains = D,
                            ![l].seq = nextSeq]
  /\ nextSeq' = nextSeq + 1
  /\ status' = [status EXCEPT ![l] = "holding"]
  /\ holders' = holders \cup {l}
  /\ caller' = [caller EXCEPT ![l] = "running"]
  /\ UNCHANGED <<waiters, fired, aged, yields>>

(* Idle maintenance takes only domains nobody holds or waits for.          *)
TryAcquireMaintenance(l, D) ==
  /\ caller[l] = "idle"
  /\ \A k \in holders \cup waiters : lease[k].domains \cap D = {}
  /\ lease' = [lease EXCEPT ![l].target = Maintenance, ![l].domains = D,
                            ![l].seq = nextSeq]
  /\ nextSeq' = nextSeq + 1
  /\ status' = [status EXCEPT ![l] = "holding"]
  /\ holders' = holders \cup {l}
  /\ caller' = [caller EXCEPT ![l] = "running"]
  /\ UNCHANGED <<waiters, fired, aged, yields>>

(* Seeded fault: the resume loop has no cap on its rounds.                 *)
YieldForever(l) ==
  /\ caller[l] = "running" /\ l \in fired /\ l \in holders
  /\ yields' = [yields EXCEPT ![l] = @ + 1]
  /\ ScheduleAdmission(lease, holders \ {l}, waiters \cup {l},
                       [status EXCEPT ![l] = "suspended"],
                       [caller EXCEPT ![l] = "awaiting"], fired)
  /\ UNCHANGED <<lease, aged, nextSeq>>

(* A preempted generation gives its domains back and queues again.  The    *)
(* lease may have been released by an abort meanwhile: yield() rejects.    *)
Yield(l) ==
  /\ caller[l] = "running" /\ l \in fired /\ yields[l] < MaxYields
  /\ yields' = [yields EXCEPT ![l] = @ + 1]
  /\ IF l \in holders
     THEN ScheduleAdmission(lease, holders \ {l}, waiters \cup {l},
                            [status EXCEPT ![l] = "suspended"],
                            [caller EXCEPT ![l] = "awaiting"], fired)
     ELSE /\ caller' = [caller EXCEPT ![l] = "rejected"]
          /\ UNCHANGED <<status, holders, waiters, fired>>
  /\ UNCHANGED <<lease, aged, nextSeq>>

(* Seeded fault: nobody is rescheduled.                                    *)
ReleaseLeaseSilently(l, cl) ==
  /\ holders' = holders \ {l} /\ waiters' = waiters \ {l}
  /\ status' = [status EXCEPT ![l] = "settled"]
  /\ caller' = cl /\ UNCHANGED fired

(* releaseLease, by the owner or on behalf of an aborted holder.           *)
ReleaseLease(l, cl) ==
  ScheduleAdmission(lease, holders \ {l}, waiters \ {l},
                    [status EXCEPT ![l] = "settled"], cl, fired)

Release(l) ==
  /\ caller[l] = "running"
  /\ IF status[l] = "settled"
     THEN /\ caller' = [caller EXCEPT ![l] = "done"]
          /\ UNCHANGED <<status, holders, waiters, fired>>
     ELSE ReleaseLease(l, [caller EXCEPT ![l] = "done"])
  /\ UNCHANGED <<lease, aged, yields, nextSeq>>

(* Seeded fault: the promise of a dropped lease is never rejected.         *)
AbortLeaseSilently(l) ==
  /\ status[l] \in {"waiting", "holding", "suspended"}
  /\ lease[l].target # Maintenance
  /\ IF status[l] = "holding"
     THEN ReleaseLease(l, caller)
     ELSE ScheduleAdmission(lease, holders, waiters \ {l},
                            [status EXCEPT ![l] = "settled"], caller, fired)
  /\ UNCHANGED <<lease, aged, yields, nextSeq>>

(* The client disconnects: a holder is released under its owner, a queued  *)
(* lease is dropped and its promise rejects.                               *)
AbortLease(l) ==
  /\ status[l] \in {"waiting", "holding", "suspended"}
  /\ lease[l].target # Maintenance
  /\ IF status[l] = "holding"
     THEN ReleaseLease(l, caller)
     ELSE ScheduleAdmission(lease, holders, waiters \ {l},
                            [status EXCEPT ![l] = "settled"],
                            [caller EXCEPT ![l] = "rejected"], fired)
  /\ UNCHANGED <<lease, aged, yields, nextSeq>>

(* swapFairnessMs pass after the lease was created.  Nothing is rescheduled. *)
GrowOld(l) ==
  /\ l \in holders \cup waiters /\ l \notin aged
  /\ lease[l].target # Maintenance
  /\ \A k \in (holders \cup waiters) \ aged : lease[l].seq <= lease[k].seq
  /\ aged' = aged \cup {l}
  /\ UNCHANGED <<lease, status, holders, waiters, fired, caller, yields, nextSeq>>

Next ==
  \E l \in Leases :
    \/ \E t \in Targets, rt \in Snapshots : PlanRequestFor(l, t, rt)
    \/ Acquire(l)
    \/ \E i \in Instances :
         {p \in Pools : Draw[i][p] > 0} # {} /\
         TryAcquireMaintenance(l, {p \in Pools : Draw[i][p] > 0})
    \/ Yield(l)
    \/ Release(l)
    \/ AbortLease(l)
    \/ GrowOld(l)

Spec == Init /\ [][Next]_vars

(* A running owner finishes: its response ends, by completion, error or    *)
(* timeout, or it reacts to its preempt signal.  Release is enabled for as *)
(* long as the owner runs, so this is the weak fairness of its finishing,  *)
(* stated on the states: TLC evaluates it much faster than an action.      *)
OwnersFinish == \A l \in Leases : []<>(caller[l] # "running")

FairSpec == Spec /\ OwnersFinish

-----------------------------------------------------------------------------
(* Properties.                                                             *)

(* Every variable holds a value of its type.                               *)
TypeOK ==
  /\ lease \in [Leases -> LeaseData]
  /\ status \in [Leases -> Statuses]
  /\ holders \subseteq Leases /\ waiters \subseteq Leases
  /\ fired \subseteq Leases /\ aged \subseteq Leases
  /\ caller \in [Leases -> Callers]
  /\ yields \in [Leases -> 0..MaxYields]
  /\ nextSeq \in Nat

(* The two lists and the status field agree whatever order acquire, yield, *)
(* release and abort come in: no lease is listed twice or after it         *)
(* settled.  The promise of acquire() or yield() is pending exactly while  *)
(* its lease is queued: nobody awaits a lease that cannot be granted.      *)
QueuesAgree ==
  /\ holders = {l \in Leases : status[l] = "holding"}
  /\ waiters = {l \in Leases : status[l] \in {"waiting", "suspended"}}
  /\ \A l \in Leases : caller[l] = "awaiting" <=> l \in waiters

(* No wakeup is lost: after every handler, no queued lease could be        *)
(* admitted with the holders there are.  Nothing else would admit it.      *)
NoLostWakeup == \A w \in waiters : DecisionFor(lease, w, holders).type # "admit"

(* Idle maintenance never shares a domain with a request that holds it.    *)
MaintenanceAlone ==
  \A h, k \in holders :
    h # k /\ Overlap(lease, h, k) =>
      lease[h].target # Maintenance /\ lease[k].target # Maintenance

(* A target never serves more requests than its instance has slots.        *)
ParallelLimitKept ==
  \A t \in Targets :
    ParallelLimit[t] > 0 =>
      Cardinality({h \in holders : lease[h].target = t}) <= ParallelLimit[t]

(* No preemption is forgotten: whoever a queued request needs out of the   *)
(* way has been told so, however its queueing and their admission raced.   *)
PreemptionAsked ==
  \A w \in waiters, h \in holders : 
    AskedToYield(lease, h, w, DecisionFor(lease, w, holders)) => h \in fired

(* The holders may hold together: maintenance shares no domain, and no     *)
(* target has more requests than slots.                                    *)
LeasesCompatible == MaintenanceAlone /\ ParallelLimitKept

(* Whatever order acquire, yield, release and abort come in, the queue is  *)
(* never stuck: who can be admitted is, and who is in the way has been     *)
(* asked to yield.                                                         *)
NobodyForgotten == NoLostWakeup /\ PreemptionAsked

(* New work is never started beside a request of higher priority that goes *)
(* on running on a shared domain.                                          *)
PriorityHeld ==
  [][\A l \in holders' \ holders, h \in holders \cap holders' :
       /\ lease'[l].target # Maintenance /\ Overlap(lease', l, h)
       /\ yields'[h] = yields[h]
       =>
         Priority[lease[h].target] <= Priority[lease'[l].target]]_vars

(* The barrier: a request that was not resident when it was planned is     *)
(* admitted only when it fits beside everything that goes on running, so   *)
(* its swap never has to unload a model that is generating.                *)
SwapBarrier ==
  [][\A l \in holders' \ holders :
       lease'[l].target \in Targets /\ ~FitsAsIs(lease'[l].req, lease'[l].target) =>
         LET going == {h \in holders \cap holders' : yields'[h] = yields[h]}
             beside == OnDomainsOf(lease', l, going)
             loaded == {InstanceOf[lease'[k].target] : k \in beside \cup {l}}
         IN  \A p \in lease'[l].domains : FreeFor(p, loaded) >= 0]_vars

(* A request that was preempted resumes before newer requests of its       *)
(* target that were planned on the same view.                              *)
ResumesFirst ==
  [][\A l \in waiters \cap holders', w \in waiters \cap waiters' :
       /\ lease[l].target = lease[w].target
       /\ lease[l].req = lease[w].req
       => lease[l].seq < lease[w].seq]_vars

(* Every queued request is admitted or rejected, whatever is preempted and *)
(* however the clients come and go.                                        *)
EventuallyServed == \A l \in Leases : l \in waiters ~> l \notin waiters
==============================================================================
