------------------------------ MODULE Scheduler ------------------------------
(***************************************************************************)
(* The memory half of the API proxy's scheduler, proxy/scheduler.ts: given *)
(* what is resident, which residents have to be unloaded so that a         *)
(* requested target fits its memory pools.                                 *)
(*                                                                         *)
(* A plan request is a record [rt, prot]: rt[m] is the runtime view of     *)
(* target m (state, busy, idleFor) and prot the protected ("wanted")       *)
(* targets.  Bytes are small numbers; the time a peer has been idle is a   *)
(* rank.  Every target is served by a managed instance: the planner takes  *)
(* no decision for the others.                                             *)
(***************************************************************************)
EXTENDS Integers, Sequences, FiniteSets, FiniteSetsExt

CONSTANTS
  Targets,      \* proxy targets
  Instances,    \* managed llama-server instances
  Pools,        \* memory pools; a pool is also a compute domain
  Position,     \* Position[m]: the place of m in the configured target list
  InstanceOf,   \* InstanceOf[m]: the instance that serves m
  HasModel,     \* HasModel[m]: m names a model of a router instance
  Draw,         \* Draw[i][p]: memory instance i declares on pool p
  Avail,        \* Avail[p]: budgetBytes - usedByOthersBytes of pool p
  Priority,
  Preemptible

ASSUME SchedulerAssumption ==
  /\ IsFiniteSet(Targets) /\ IsFiniteSet(Instances) /\ IsFiniteSet(Pools)
  /\ Position \in [Targets -> Nat]
  /\ \A m, n \in Targets : Position[m] = Position[n] => m = n
  /\ InstanceOf \in [Targets -> Instances]
  /\ HasModel \in [Targets -> BOOLEAN]
  /\ Draw \in [Instances -> [Pools -> Nat]]
  /\ Avail \in [Pools -> Int]
  /\ Priority \in [Targets -> Int]
  /\ Preemptible \in [Targets -> BOOLEAN]

ModelStates == {"ready", "loading", "unloaded", "stopped", "unknown", "error"}

RuntimeView == [state : ModelStates, busy : BOOLEAN, idleFor : Nat]
PlanRequests == [rt : [Targets -> RuntimeView], prot : SUBSET Targets]

(* Lexicographic order of equally long tuples of numbers: a chain of       *)
(* comparator keys joined by ||.                                           *)
LexLess(s, t) ==
  \E k \in DOMAIN s : s[k] < t[k] /\ \A j \in 1..(k - 1) : s[j] = t[j]

-----------------------------------------------------------------------------
(* Peers: the other instances with a ready target, one entry per instance. *)

IsActive(req, m) == req.rt[m].state = "ready"

Residents(req, t, i) ==
  {m \in Targets \ {t} : InstanceOf[m] = i /\ IsActive(req, m)}

FirstOf(S) == CHOOSE m \in S : \A n \in S : Position[m] <= Position[n]

(* The target the unload action is issued for: the one whose protection    *)
(* and preemption stand for the whole instance.                            *)
PeerTarget(all) ==
  FirstOf(IF HasModel[FirstOf(all)] THEN all
          ELSE LET modelled == {m \in all : HasModel[m]}
               IN  IF modelled = {} THEN all ELSE modelled)

(* Seeded fault: only the representative's preemptible flag counts.        *)
PeerInstanceByTarget(req, all) ==
  [target |-> PeerTarget(all),
   busy |-> \E m \in all : req.rt[m].busy,
   preemptible |-> Preemptible[PeerTarget(all)],
   priority |-> Max({Priority[m] : m \in all}),
   idleFor |-> req.rt[FirstOf(all)].idleFor,
   position |-> Position[FirstOf(all)]]

PeerInstance(req, all) ==
  [target |-> PeerTarget(all),
   busy |-> \E m \in all : req.rt[m].busy,
   preemptible |-> \A m \in all : Preemptible[m],
   priority |-> Max({Priority[m] : m \in all}),
   idleFor |-> req.rt[FirstOf(all)].idleFor,
   position |-> Position[FirstOf(all)]]

MemoryPeers(req, t) ==
  [i \in {j \in Instances \ {InstanceOf[t]} :
            Residents(req, t, j) # {} /\ \E p \in Pools : Draw[j][p] > 0}
     |-> PeerInstance(req, Residents(req, t, i))]

-----------------------------------------------------------------------------
(* The eviction loop of planMemoryEvictions.                               *)

DrawsOn(p) == [i \in Instances |-> Draw[i][p]]

(* A pool that is drawn on but is not in the request has nothing free: it  *)
(* is one whose Avail is 0, since freeFor is only asked whether it covers  *)
(* a need above 0.                                                         *)
FreeFor(p, kept) == Avail[p] - SumFunctionOnSet(DrawsOn(p), kept)

(* Seeded fault: a pool is short only once it is full.                     *)
DeficitsOfFullPools(t, kept) ==
  {p \in Pools : Draw[InstanceOf[t]][p] > 0 /\ FreeFor(p, kept) <= 0}

Deficits(t, kept) ==
  {p \in Pools : /\ Draw[InstanceOf[t]][p] > 0
                 /\ Draw[InstanceOf[t]][p] > FreeFor(p, kept)}

DrawOn(i, D) == SumFunctionOnSet(Draw[i], D)

Eligible(peer, i, t, busy, D) ==
  /\ peer.preemptible
  /\ peer.busy = busy
  /\ DrawOn(i, D) > 0
  /\ IF busy THEN peer.priority < Priority[t] ELSE peer.priority <= Priority[t]

IdleTier(peers, t, kept, D) == {i \in kept : Eligible(peers[i], i, t, FALSE, D)}
BusyTier(peers, t, kept, D) == {i \in kept : Eligible(peers[i], i, t, TRUE, D)}

VictimKey(peer, i, prot, D) ==
  << IF peer.target \in prot THEN 1 ELSE 0, peer.priority, -peer.idleFor,
     -DrawOn(i, D), peer.position >>

FirstVictim(peers, tier, prot, D) ==
  CHOOSE v \in tier : \A i \in tier \ {v} :
    LexLess(VictimKey(peers[v], v, prot, D), VictimKey(peers[i], i, prot, D))

(* Seeded fault: idle and busy peers are one tier.                         *)
NextVictimOneTier(peers, t, kept, prot, allowBusy, D) ==
  LET tier == IdleTier(peers, t, kept, D)
                \cup (IF allowBusy THEN BusyTier(peers, t, kept, D) ELSE {})
  IN  IF tier = {} THEN {} ELSE {FirstVictim(peers, tier, prot, D)}

(* The instance evicted next from those kept, as a set: empty when no peer *)
(* is eligible.                                                            *)
NextVictim(peers, t, kept, prot, allowBusy, D) ==
  LET idle == IdleTier(peers, t, kept, D)
      busy == IF allowBusy THEN BusyTier(peers, t, kept, D) ELSE {}
      tier == IF idle # {} THEN idle ELSE busy
  IN  IF tier = {} THEN {} ELSE {FirstVictim(peers, tier, prot, D)}

EvictAlso(victims, rest) == [rest EXCEPT !.victims = victims \cup @]

(* The instances unloaded, or ok = FALSE when the loop runs out of         *)
(* eligible peers before the deficits are gone.                            *)
EvictUntilFits(peers, t, prot, allowBusy) ==
  LET evict[kept \in SUBSET DOMAIN peers] ==
        IF Deficits(t, kept) = {} THEN [ok |-> TRUE, victims |-> {}]
        ELSE LET next == NextVictim(peers, t, kept, prot, allowBusy,
                                    Deficits(t, kept))
             IN  IF next = {} THEN [ok |-> FALSE, victims |-> {}]
                 ELSE EvictAlso(next, evict[kept \ next])
  IN  evict[DOMAIN peers]

FitsAsIs(req, t) ==
  IsActive(req, t) \/ \A p \in Pools : Draw[InstanceOf[t]][p] = 0

BlockedPlan == [ok |-> FALSE, victims |-> {}, preempts |-> {}]

PlanFor(peers, memory) ==
  IF memory.ok
  THEN [ok |-> TRUE, victims |-> memory.victims,
        preempts |-> {peers[i].target : i \in {j \in memory.victims : peers[j].busy}}]
  ELSE BlockedPlan

PlanWithPeers(peers, t, prot, allowBusy) ==
  PlanFor(peers, EvictUntilFits(peers, t, prot, allowBusy))

PlanRequest(req, t, allowBusy) ==
  IF req.rt[t].state = "error" THEN BlockedPlan
  ELSE IF FitsAsIs(req, t) THEN [ok |-> TRUE, victims |-> {}, preempts |-> {}]
  ELSE PlanWithPeers(MemoryPeers(req, t), t, req.prot, allowBusy)
==============================================================================
