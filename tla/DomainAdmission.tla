--------------------------- MODULE DomainAdmission ---------------------------
(***************************************************************************)
(* The admission policy of proxy/domain-admission.ts: what the coordinator *)
(* is told about one queued request, from the plan request captured before *)
(* it was queued and from the leases that hold its domains now.            *)
(***************************************************************************)
EXTENDS Scheduler

CONSTANT
  ParallelLimit \* ParallelLimit[m]: --parallel of m's instance, 0 when unset

ASSUME AdmissionAssumption == ParallelLimit \in [Targets -> Nat]

Domains(t) == {p \in Pools : Draw[InstanceOf[t]][p] > 0}

(* Seeded fault: a held target counts as ready only.                       *)
OverlayHoldersIdle(req, t, held) ==
  [req EXCEPT !.rt =
     [m \in Targets |->
        IF m \in held \ {t} THEN [req.rt[m] EXCEPT !.state = "ready"]
        ELSE req.rt[m]]]

(* A held target counts as ready and busy whatever the snapshot says; the  *)
(* candidate's own row is left as it was when the request was planned.     *)
OverlayHolders(req, t, held) ==
  [req EXCEPT !.rt =
     [m \in Targets |->
        IF m \in held \ {t} THEN [req.rt[m] EXCEPT !.state = "ready", !.busy = TRUE]
        ELSE req.rt[m]]]

Admit == [type |-> "admit", targets |-> {}]
Wait == [type |-> "wait", targets |-> {}]
Preempt(targets) == [type |-> "preempt", targets |-> targets]

(* Seeded fault: nobody waits for a holder of higher priority.             *)
NeverOutranked(t, held) == FALSE

(* held: the targets of the leases that hold one of t's domains;           *)
(* sameTarget: how many of those leases are on t itself.                   *)
AtParallelLimit(t, sameTarget) ==
  ParallelLimit[t] > 0 /\ sameTarget >= ParallelLimit[t]

Outranked(t, held) == \E m \in held : Priority[m] > Priority[t]

DecideOnPlan(plan, held) ==
  IF plan.ok /\ plan.preempts = {} THEN Admit
  ELSE IF plan.ok /\ plan.preempts \cap held # {} THEN Preempt(plan.preempts \cap held)
  ELSE Wait

Decide(req, t, held, sameTarget) ==
  IF AtParallelLimit(t, sameTarget) \/ Outranked(t, held) THEN Wait
  ELSE DecideOnPlan(PlanRequest(OverlayHolders(req, t, held), t, TRUE), held)
==============================================================================
