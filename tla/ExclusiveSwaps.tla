---------------------------- MODULE ExclusiveSwaps ----------------------------
(***************************************************************************)
(* What the swap lock promises to the readiness executor: model swaps that *)
(* share a compute domain never overlap, the others may.  How the calls    *)
(* wait for one another is left to the implementation.                     *)
(***************************************************************************)
CONSTANTS
  Calls,   \* calls of executeApiProxyTargetReadiness that need a swap
  Domains  \* compute domains

VARIABLES
  stage,   \* how far each call is
  claims   \* the domains each call has asked for

vars == <<stage, claims>>

Init ==
  /\ stage = [c \in Calls |-> "idle"]
  /\ claims = [c \in Calls |-> {}]

Request(c, D) ==
  /\ stage[c] = "idle"
  /\ stage' = [stage EXCEPT ![c] = "queueing"]
  /\ claims' = [claims EXCEPT ![c] = D]

Start(c) ==
  /\ stage[c] = "queueing"
  /\ \A d \in Calls : stage[d] = "running" => claims[d] \cap claims[c] = {}
  /\ stage' = [stage EXCEPT ![c] = "running"]
  /\ UNCHANGED claims

End(c) ==
  /\ stage[c] = "running"
  /\ stage' = [stage EXCEPT ![c] = "done"]
  /\ UNCHANGED claims

Next ==
  \E c \in Calls :
    \/ \E D \in SUBSET Domains : Request(c, D)
    \/ Start(c)
    \/ End(c)

Spec == Init /\ [][Next]_vars
===============================================================================
