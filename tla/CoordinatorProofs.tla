-------------------------- MODULE CoordinatorProofs --------------------------
(***************************************************************************)
(* Safety of the two coordinators, that of the leases and that of the      *)
(* swaps, for every set of targets, instances, pools, leases and calls.    *)
(*                                                                         *)
(* Every handler of the compute domain coordinator ends with               *)
(* scheduleAdmission, so the argument has two halves: each handler leaves  *)
(* its lists, status and callers in a sound intermediate state, and the    *)
(* admission loop takes every sound intermediate state to a state of the   *)
(* invariant.                                                              *)
(***************************************************************************)
EXTENDS DomainCoordinator, SwapCoordinator, PlannerProofs

-----------------------------------------------------------------------------
(* The invariant, as operators on the lists, so that it can be stated of   *)
(* the intermediate state in which a handler calls scheduleAdmission too.  *)

Typed(data, st, cl, F) ==
  /\ data \in [Leases -> LeaseData]
  /\ st \in [Leases -> Statuses]
  /\ cl \in [Leases -> Callers]
  /\ F \subseteq Leases

ListsAgree(st, H, W) ==
  /\ H = {l \in Leases : st[l] = "holding"}
  /\ W = {l \in Leases : st[l] \in {"waiting", "suspended"}}

(* How the target, the status and the caller of one lease belong together. *)
LeaseShape(data, st, cl, F, l) ==
  /\ data[l].target = None <=> cl[l] = "idle"
  /\ st[l] = "new" <=> cl[l] \in {"idle", "refused", "planned"}
  /\ cl[l] \in {"refused", "planned"} => data[l].target \in Targets
  /\ cl[l] = "planned" => Domains(data[l].target) # {}
  /\ st[l] \in {"waiting", "suspended"} <=> cl[l] = "awaiting"
  /\ st[l] \in {"waiting", "suspended"} => data[l].target \in Targets
  /\ st[l] = "holding" => cl[l] = "running"
  /\ st[l] # "new" /\ data[l].target \in Targets =>
       data[l].domains = Domains(data[l].target) /\ data[l].domains # {}
  /\ data[l].target \in Targets => data[l].req \in PlanRequests
  /\ l \in F => data[l].target \in Targets

Apart(data, H) ==
  \A h, k \in H : h # k /\ Overlap(data, h, k) =>
    data[h].target # Maintenance /\ data[k].target # Maintenance

WithinLimits(data, H) ==
  \A t \in Targets : ParallelLimit[t] > 0 =>
    Cardinality({h \in H : data[h].target = t}) <= ParallelLimit[t]

Sound(data, H, W, st, cl, F) ==
  /\ Typed(data, st, cl, F)
  /\ ListsAgree(st, H, W)
  /\ \A l \in Leases : LeaseShape(data, st, cl, F, l)
  /\ Apart(data, H)
  /\ WithinLimits(data, H)

IInv ==
  /\ Sound(lease, holders, waiters, status, caller, fired)
  /\ aged \subseteq Leases /\ yields \in [Leases -> 0..MaxYields] /\ nextSeq \in Nat
  /\ NoLostWakeup
  /\ PreemptionAsked

-----------------------------------------------------------------------------
(* The admission loop.                                                     *)

LEMMA OrderFacts ==
  ASSUME NEW W, NEW order \in AdmissionOrders(W)
  PROVE  /\ Len(order) \in Nat
         /\ DOMAIN order = 1..Len(order)
         /\ \A k \in 1..Len(order) : order[k] \in W
         /\ \A j, k \in 1..Len(order) : order[j] = order[k] => j = k
         /\ Range(order) = {order[k] : k \in 1..Len(order)}
         /\ PromotedBefore(order, Len(order) + 1) = Range(order)
<1>1. PICK n \in 0..Cardinality(W) : order \in [1..n -> W]
  BY DEF AdmissionOrders
<1>2. n \in Nat
  OBVIOUS
<1>3. Len(order) = n /\ DOMAIN order = 1..n
  BY <1>1, <1>2
<1>4. IsInjective(order)
  BY DEF AdmissionOrders
<1>5. \A j, k \in 1..n : order[j] = order[k] => j = k
  BY <1>3, <1>4 DEF IsInjective
<1>6. Range(order) = {order[k] : k \in 1..n}
  BY <1>3 DEF Range
<1>7. PromotedBefore(order, n + 1) = {order[k] : k \in 1..n}
  BY <1>2 DEF PromotedBefore
<1>8. QED
  BY <1>1, <1>2, <1>3, <1>5, <1>6, <1>7

(* Of any set T of leases promoted in one run, the last was admitted beside *)
(* all the others.                                                         *)
AdmittedLast(data, H, P, T) ==
  \E p \in T, G \in SUBSET (H \cup P) :
    /\ H \cup (T \ {p}) \subseteq G /\ p \notin G
    /\ DecisionFor(data, p, G).type = "admit"

(* What the admission loop does with lists H and W.                        *)
Admission(data, H, W, st, cl, F, P) ==
  /\ holders' = H \cup P
  /\ waiters' = W \ P
  /\ status' = [l \in Leases |-> IF l \in P THEN "holding" ELSE st[l]]
  /\ caller' = [l \in Leases |-> IF l \in P THEN "running" ELSE cl[l]]
  /\ fired' \subseteq F \cup {h \in H \cup P : data[h].target \in Targets}
  /\ \A w \in W \ P : DecisionFor(data, w, H \cup P).type # "admit"
  /\ \A w \in W \ P, h \in H \cup P :
       AskedToYield(data, h, w, DecisionFor(data, w, H \cup P)) => h \in fired'
  /\ \A T \in SUBSET P : T # {} => AdmittedLast(data, H, P, T)

LEMMA LastOf ==
  ASSUME NEW W, NEW order \in AdmissionOrders(W), NEW T \in SUBSET Range(order), T # {}
  PROVE  \E k \in 1..Len(order) :
           /\ order[k] \in T
           /\ T \ {order[k]} \subseteq PromotedBefore(order, k)
           /\ order[k] \notin PromotedBefore(order, k)
           /\ PromotedBefore(order, k) \subseteq Range(order)
<1> DEFINE n == Len(order)
           R == {n - k : k \in {j \in 1..n : order[j] \in T}}
<1>1. /\ n \in Nat /\ DOMAIN order = 1..n
      /\ \A j, k \in 1..n : order[j] = order[k] => j = k
      /\ Range(order) = {order[k] : k \in 1..n}
  BY OrderFacts
<1>2. R \in SUBSET Nat /\ R # {}
  BY <1>1
<1>3. PICK x \in R : \A y \in R : x <= y
  BY <1>2, LeastNat
<1>4. PICK k \in 1..n : order[k] \in T /\ x = n - k
  BY <1>3
<1>5. \A j \in 1..n : order[j] \in T => j <= k
  <2>1. ASSUME NEW j \in 1..n, order[j] \in T
        PROVE  j <= k
    <3>1. n - k <= n - j
      BY <1>3, <1>4, <2>1
    <3>2. QED
      BY <1>1, <3>1
  <2>2. QED
    BY <2>1
<1>6. T \ {order[k]} \subseteq PromotedBefore(order, k)
  <2>1. ASSUME NEW w \in T, w # order[k]
        PROVE  w \in PromotedBefore(order, k)
    <3>1. PICK j \in 1..n : order[j] = w
      BY <1>1
    <3>2. j \in 1..(k - 1)
      BY <1>1, <1>5, <2>1, <3>1
    <3>3. QED
      BY <3>1, <3>2 DEF PromotedBefore
  <2>2. QED
    BY <2>1
<1>7. order[k] \notin PromotedBefore(order, k)
  BY <1>1 DEF PromotedBefore
<1>8. PromotedBefore(order, k) \subseteq Range(order)
  BY <1>1 DEF PromotedBefore
<1>9. QED
  BY <1>4, <1>6, <1>7, <1>8

(* One pass: whoever it promotes may be admitted, and it asks only target  *)
(* holders to yield, all of those it has to when it promotes nobody.       *)
LEMMA PassFacts ==
  ASSUME NEW data, NEW H, NEW W, NEW pass, pass = AdmissionPass(data, H, W)
  PROVE  /\ \A l \in pass.next : l \in W /\ DecisionFor(data, l, H).type = "admit"
         /\ pass.ready = {w \in W : DecisionFor(data, w, H).type = "admit"}
         /\ pass.fired \subseteq {h \in H : data[h].target \in Targets}
         /\ pass.ready = {} => \A w \in W, h \in H :
              AskedToYield(data, h, w, DecisionFor(data, w, H)) => h \in pass.fired
<1> DEFINE decision == [w \in W |-> DecisionFor(data, w, H)]
           starved == StarvedSwapWaiting(data, H, W)
<1>1. pass = PassWith(data, H, W, decision, starved)
  BY DEF AdmissionPass
<1>2. pass.ready = {w \in W : DecisionFor(data, w, H).type = "admit"}
  BY <1>1 DEF PassWith
<1>3. \A l \in pass.next : l \in pass.ready
  BY <1>1 DEF PassWith
<1>4. pass.fired \subseteq {h \in H : data[h].target \in Targets}
  BY <1>1 DEF PassWith, FirePreemptions, AskedToYield
<1>5. ASSUME pass.ready = {}, NEW w \in W, NEW h \in H,
             AskedToYield(data, h, w, DecisionFor(data, w, H))
      PROVE  h \in pass.fired
  <2>1. pass.next = {}
    BY <1>3, <1>5
  <2>2. pass.fired = FirePreemptions(data, H, {v \in W : \A l \in pass.next :
                       Precedes(data, H, starved, v, l)}, decision)
    BY <1>1 DEF PassWith
  <2>3. pass.fired = FirePreemptions(data, H, W, decision)
    BY <2>1, <2>2
  <2>4. QED
    BY <1>5, <2>3 DEF FirePreemptions
<1>6. QED
  BY <1>2, <1>3, <1>4, <1>5

LEMMA AdmissionFacts ==
  ASSUME NEW data, NEW H, NEW W, NEW st, NEW cl, NEW F, H \cap W = {},
         ScheduleAdmission(data, H, W, st, cl, F)
  PROVE  \E P \in SUBSET W : Admission(data, H, W, st, cl, F, P)
<1>o. PICK order \in AdmissionOrders(W) : \E passes \in {Passes(data, H, W, order)} :
        /\ IsLoopRun(passes, order)
        /\ holders' = H \cup Range(order)
        /\ waiters' = W \ Range(order)
        /\ status' = [l \in Leases |-> IF l \in Range(order) THEN "holding" ELSE st[l]]
        /\ caller' = [l \in Leases |-> IF l \in Range(order) THEN "running" ELSE cl[l]]
        /\ fired' = (F \ Range(order)) \cup UNION {passes[k].fired : k \in DOMAIN passes}
  BY DEF ScheduleAdmission
<1> DEFINE passes == Passes(data, H, W, order)
<1>1.   /\ IsLoopRun(passes, order)
        /\ holders' = H \cup Range(order)
        /\ waiters' = W \ Range(order)
        /\ status' = [l \in Leases |-> IF l \in Range(order) THEN "holding" ELSE st[l]]
        /\ caller' = [l \in Leases |-> IF l \in Range(order) THEN "running" ELSE cl[l]]
        /\ fired' = (F \ Range(order)) \cup UNION {passes[k].fired : k \in DOMAIN passes}
  BY <1>o
<1> DEFINE P == Range(order)
           n == Len(order)
           Hk(k) == H \cup PromotedBefore(order, k)
           Wk(k) == W \ PromotedBefore(order, k)
<1>2. /\ n \in Nat /\ DOMAIN order = 1..n
      /\ \A k \in 1..n : order[k] \in W
      /\ P = {order[k] : k \in 1..n}
      /\ PromotedBefore(order, n + 1) = P
  BY OrderFacts
<1>3. DOMAIN passes = 1..(n + 1) /\
      \A k \in 1..(n + 1) : passes[k] = AdmissionPass(data, Hk(k), Wk(k))
  BY DEF Passes
<1> HIDE DEF passes
<1>4. P \in SUBSET W
  BY <1>2
<1>5. \A k \in 1..(n + 1) : PromotedBefore(order, k) \subseteq P
  BY <1>2 DEF PromotedBefore
<1> HIDE DEF P
<1>6. fired' \subseteq F \cup {h \in H \cup P : data[h].target \in Targets}
  <2>1. ASSUME NEW k \in 1..(n + 1)
        PROVE  passes[k].fired \subseteq {h \in H \cup P : data[h].target \in Targets}
    <3>1. passes[k] = AdmissionPass(data, Hk(k), Wk(k))
      BY <1>3
    <3>2. passes[k].fired \subseteq {h \in Hk(k) : data[h].target \in Targets}
      BY <3>1, PassFacts
    <3>3. Hk(k) \subseteq H \cup P
      BY <1>5
    <3>4. QED
      BY <3>2, <3>3
  <2>2. QED
    BY <1>1, <1>3, <2>1
<1>7. passes[n + 1] = AdmissionPass(data, H \cup P, W \ P) /\ n + 1 \in DOMAIN passes
  BY <1>2, <1>3
<1>8. passes[n + 1].ready = {}
  BY <1>1 DEF IsLoopRun
<1> DEFINE H2 == H \cup P
           W2 == W \ P
           last == passes[n + 1]
<1>l. /\ last.ready = {w \in W2 : DecisionFor(data, w, H2).type = "admit"}
      /\ last.ready = {} => \A w \in W2, h \in H2 :
           AskedToYield(data, h, w, DecisionFor(data, w, H2)) => h \in last.fired
  <2>1. last = AdmissionPass(data, H2, W2)
    BY <1>7
  <2> HIDE DEF last, H2, W2
  <2>2. QED
    BY <2>1, PassFacts
<1>9. \A w \in W \ P : DecisionFor(data, w, H \cup P).type # "admit"
  BY <1>8, <1>l
<1>10. \A w \in W \ P, h \in H \cup P :
         AskedToYield(data, h, w, DecisionFor(data, w, H \cup P)) => h \in fired'
  <2>1. \A w \in W \ P, h \in H \cup P :
          AskedToYield(data, h, w, DecisionFor(data, w, H \cup P))
            => h \in passes[n + 1].fired
    BY <1>8, <1>l
  <2>2. QED
    BY <1>1, <1>7, <2>1
<1>11. ASSUME NEW T \in SUBSET P, T # {}
       PROVE  AdmittedLast(data, H, P, T)
  <2>1. PICK k \in 1..n :
          /\ order[k] \in T
          /\ T \ {order[k]} \subseteq PromotedBefore(order, k)
          /\ order[k] \notin PromotedBefore(order, k)
          /\ PromotedBefore(order, k) \subseteq P
    BY <1>11, LastOf DEF P
  <2>2. order[k] \in passes[k].next
    BY <1>1, <1>2 DEF IsLoopRun
  <2>3. passes[k] = AdmissionPass(data, Hk(k), Wk(k))
    BY <1>2, <1>3
  <2>4. DecisionFor(data, order[k], Hk(k)).type = "admit"
    BY <2>2, <2>3, PassFacts
  <2>5. order[k] \notin H
    BY <1>4, <2>1
  <2>6. QED
    BY <2>1, <2>4, <2>5 DEF AdmittedLast
<1>12. QED
  BY <1>1, <1>4, <1>6, <1>9, <1>10, <1>11 DEF Admission, P

LEMMA AdmitFacts ==
  ASSUME NEW data, NEW p, NEW G, DecisionFor(data, p, G).type = "admit"
  PROVE  LET on == OnDomainsOf(data, p, G)
         IN  /\ \A h \in on : data[h].target # Maintenance
             /\ ~AtParallelLimit(data[p].target,
                    Cardinality({h \in on : data[h].target = data[p].target}))
             /\ ~Outranked(data[p].target, {data[h].target : h \in on})
BY DEF DecisionFor, DecisionBeside, Decide, Wait

LEMMA AdmissionKeepsApart ==
  ASSUME NEW data, NEW H, NEW W, NEW P \in SUBSET W,
         \A w \in W : data[w].target \in Targets,
         Apart(data, H),
         \A T \in SUBSET P : T # {} => AdmittedLast(data, H, P, T)
  PROVE  Apart(data, H \cup P)
<1>1. ASSUME NEW p \in P, NEW k \in H, Overlap(data, k, p)
      PROVE  data[k].target # Maintenance
  <2>1. AdmittedLast(data, H, P, {p})
    OBVIOUS
  <2>2. PICK G \in SUBSET (H \cup P) :
          H \subseteq G /\ DecisionFor(data, p, G).type = "admit"
    BY <2>1 DEF AdmittedLast
  <2>3. k \in OnDomainsOf(data, p, G)
    BY <1>1, <2>2 DEF OnDomainsOf
  <2>4. QED
    BY <2>2, <2>3, AdmitFacts
<1>2. \A p \in P : data[p].target # Maintenance
  BY CoordinatorAssumption
<1>3. \A h, k : Overlap(data, h, k) <=> Overlap(data, k, h)
  BY DEF Overlap
<1>4. QED
  BY <1>1, <1>2, <1>3 DEF Apart

LEMMA AdmissionKeepsLimits ==
  ASSUME NEW data, NEW H \in SUBSET Leases, NEW W \in SUBSET Leases,
         NEW P \in SUBSET W,
         \A l \in H \cup W : data[l].target \in Targets =>
           data[l].domains = Domains(data[l].target) /\ data[l].domains # {},
         WithinLimits(data, H),
         \A T \in SUBSET P : T # {} => AdmittedLast(data, H, P, T)
  PROVE  WithinLimits(data, H \cup P)
<1> SUFFICES ASSUME NEW t \in Targets, ParallelLimit[t] > 0
             PROVE  Cardinality({h \in H \cup P : data[h].target = t})
                      <= ParallelLimit[t]
  BY DEF WithinLimits
<1> DEFINE T == {l \in P : data[l].target = t}
           S == {h \in H \cup P : data[h].target = t}
<1>1. CASE T = {}
  <2>1. S = {h \in H : data[h].target = t}
    BY <1>1
  <2>2. QED
    BY <2>1 DEF WithinLimits
<1>2. CASE T # {}
  <2>1. AdmittedLast(data, H, P, T)
    BY <1>2
  <2>2. PICK p \in T : \E G \in SUBSET (H \cup P) :
          /\ H \cup (T \ {p}) \subseteq G /\ p \notin G
          /\ DecisionFor(data, p, G).type = "admit"
    BY <2>1 DEF AdmittedLast
  <2>3. PICK G \in SUBSET (H \cup P) :
          /\ H \cup (T \ {p}) \subseteq G /\ p \notin G
          /\ DecisionFor(data, p, G).type = "admit"
    BY <2>2
  <2> DEFINE same == {h \in OnDomainsOf(data, p, G) : data[h].target = data[p].target}
  <2>4. ~AtParallelLimit(t, Cardinality(same))
    <3>1. ~AtParallelLimit(data[p].target, Cardinality(same))
      BY <2>3, AdmitFacts
    <3>2. data[p].target = t
      OBVIOUS
    <3>3. QED
      BY <3>1, <3>2
  <2>5. same \subseteq Leases /\ S \subseteq Leases
    BY DEF OnDomainsOf
  <2>6. IsFiniteSet(same) /\ IsFiniteSet(S) /\ IsFiniteSet(S \ {p})
    BY <2>5, FS_Subset, CoordinatorAssumption
  <2>7. S \ {p} \subseteq same
    <3>1. ASSUME NEW h \in S, h # p
          PROVE  h \in same
      <4>1. h \in G
        BY <2>3, <3>1
      <4>2. data[h].domains = data[p].domains /\ data[p].domains # {}
        OBVIOUS
      <4>3. Overlap(data, h, p)
        BY <4>2 DEF Overlap
      <4>4. QED
        BY <4>1, <4>3 DEF OnDomainsOf
    <3>2. QED
      BY <3>1
  <2>8. Cardinality(S \ {p}) <= Cardinality(same)
    BY <2>6, <2>7, FS_Subset
  <2>9. Cardinality(S) = Cardinality(S \ {p}) + 1
    <3>1. p \in S /\ S = (S \ {p}) \cup {p}
      OBVIOUS
    <3>2. QED
      BY <2>6, <3>1, FS_AddElement
  <2>10. Cardinality(same) < ParallelLimit[t]
    <3>1. Cardinality(same) \in Nat /\ ParallelLimit[t] \in Nat
      BY <2>6, FS_CardinalityType, AdmissionAssumption
    <3>2. QED
      BY <2>4, <3>1 DEF AtParallelLimit
  <2>11. /\ Cardinality(S \ {p}) \in Nat /\ Cardinality(same) \in Nat
         /\ ParallelLimit[t] \in Nat
    BY <2>6, FS_CardinalityType, AdmissionAssumption
  <2> HIDE DEF S, same
  <2>12. Cardinality(S) <= ParallelLimit[t]
    BY <2>8, <2>9, <2>10, <2>11
  <2>13. QED
    BY <2>12 DEF S
<1>3. QED
  BY <1>1, <1>2

(* From a sound intermediate state the loop reaches a sound state in which *)
(* nobody who could run is left waiting and every needed holder was told.  *)
LEMMA AdmissionSound ==
  ASSUME NEW H, NEW W, NEW st, NEW cl, NEW F,
         Sound(lease', H, W, st, cl, F), ScheduleAdmission(lease', H, W, st, cl, F)
  PROVE  /\ Sound(lease', holders', waiters', status', caller', fired')
         /\ NoLostWakeup' /\ PreemptionAsked'
<1>1. /\ Typed(lease', st, cl, F) /\ ListsAgree(st, H, W)
      /\ \A l \in Leases : LeaseShape(lease', st, cl, F, l)
      /\ Apart(lease', H) /\ WithinLimits(lease', H)
  BY DEF Sound
<1>2. H \in SUBSET Leases /\ W \in SUBSET Leases /\ H \cap W = {}
  BY <1>1 DEF ListsAgree
<1>3. PICK P \in SUBSET W : Admission(lease', H, W, st, cl, F, P)
  BY <1>2, AdmissionFacts
<1>4. /\ holders' = H \cup P
      /\ waiters' = W \ P
      /\ status' = [l \in Leases |-> IF l \in P THEN "holding" ELSE st[l]]
      /\ caller' = [l \in Leases |-> IF l \in P THEN "running" ELSE cl[l]]
      /\ fired' \subseteq F \cup {h \in H \cup P : lease'[h].target \in Targets}
      /\ \A T \in SUBSET P : T # {} => AdmittedLast(lease', H, P, T)
  BY <1>3 DEF Admission
<1>5. Typed(lease', status', caller', fired')
  BY <1>1, <1>2, <1>4 DEF Typed, Statuses, Callers
<1>6. ListsAgree(status', holders', waiters')
  BY <1>1, <1>2, <1>4 DEF ListsAgree
<1>7. ASSUME NEW l \in Leases
      PROVE  LeaseShape(lease', status', caller', fired', l)
  <2>1. LeaseShape(lease', st, cl, F, l)
    BY <1>1
  <2>2. l \in fired' => l \in F \/ lease'[l].target \in Targets
    BY <1>4
  <2>3. CASE l \in P
    <3>1. st[l] \in {"waiting", "suspended"}
      BY <1>1, <2>3 DEF ListsAgree
    <3>2. status'[l] = "holding" /\ caller'[l] = "running"
      BY <1>4, <2>3
    <3>3. QED
      BY <2>1, <2>2, <3>1, <3>2, CoordinatorAssumption DEF LeaseShape
  <2>4. CASE l \notin P
    <3>1. status'[l] = st[l] /\ caller'[l] = cl[l]
      BY <1>4, <2>4
    <3>2. QED
      BY <2>1, <2>2, <3>1 DEF LeaseShape
  <2>5. QED
    BY <2>3, <2>4
<1>8. \A l \in W : lease'[l].target \in Targets
  BY <1>1 DEF ListsAgree, LeaseShape
<1>9. Apart(lease', holders')
  BY <1>1, <1>4, <1>8, AdmissionKeepsApart
<1>10. \A l \in H \cup W : lease'[l].target \in Targets =>
         lease'[l].domains = Domains(lease'[l].target) /\ lease'[l].domains # {}
  BY <1>1 DEF ListsAgree, LeaseShape
<1>11. WithinLimits(lease', holders')
  BY <1>1, <1>2, <1>4, <1>10, AdmissionKeepsLimits
<1>12. NoLostWakeup' /\ PreemptionAsked'
  BY <1>3 DEF Admission, NoLostWakeup, PreemptionAsked
<1>13. QED
  BY <1>5, <1>6, <1>7, <1>9, <1>11, <1>12 DEF Sound

-----------------------------------------------------------------------------
(* The handlers.                                                           *)

(* Dropping holders, and changing leases that do not hold, is harmless.    *)
LEMMA FewerHolders ==
  ASSUME NEW data, NEW data2, NEW H \in SUBSET Leases, NEW H2 \in SUBSET H,
         \A h \in H2 : data2[h] = data[h],
         Apart(data, H), WithinLimits(data, H)
  PROVE  Apart(data2, H2) /\ WithinLimits(data2, H2)
<1>1. Apart(data2, H2)
  BY DEF Apart, Overlap
<1>2. ASSUME NEW t \in Targets, ParallelLimit[t] > 0
      PROVE  Cardinality({h \in H2 : data2[h].target = t}) <= ParallelLimit[t]
  <2> DEFINE S == {h \in H : data[h].target = t}
             S2 == {h \in H2 : data2[h].target = t}
  <2>1. S2 \subseteq S /\ S \subseteq Leases
    OBVIOUS
  <2>2. IsFiniteSet(S) /\ IsFiniteSet(S2)
    BY <2>1, FS_Subset, CoordinatorAssumption
  <2>3. Cardinality(S2) <= Cardinality(S) /\ Cardinality(S) <= ParallelLimit[t]
    BY <1>2, <2>1, <2>2, FS_Subset DEF WithinLimits
  <2>4. Cardinality(S) \in Nat /\ Cardinality(S2) \in Nat /\ ParallelLimit[t] \in Nat
    BY <2>2, FS_CardinalityType, AdmissionAssumption
  <2> HIDE DEF S, S2
  <2>5. Cardinality(S2) <= ParallelLimit[t]
    BY <2>3, <2>4
  <2>6. QED
    BY <2>5 DEF S2
<1>3. QED
  BY <1>1, <1>2 DEF WithinLimits

(* A handler touches one lease.                                            *)
LEMMA OneLeaseChanges ==
  ASSUME NEW l \in Leases, NEW data, NEW H, NEW W, NEW st, NEW cl,
         Sound(lease, holders, waiters, status, caller, fired),
         Typed(data, st, cl, fired),
         H \subseteq Leases, W \subseteq Leases,
         \A k \in Leases \ {l} :
           /\ data[k] = lease[k] /\ st[k] = status[k] /\ cl[k] = caller[k]
           /\ k \in H <=> k \in holders
           /\ k \in W <=> k \in waiters,
         l \in H <=> st[l] = "holding",
         l \in W <=> st[l] \in {"waiting", "suspended"},
         LeaseShape(data, st, cl, fired, l),
         Apart(data, H), WithinLimits(data, H)
  PROVE  Sound(data, H, W, st, cl, fired)
<1>1. ListsAgree(st, H, W)
  <2>1. ListsAgree(status, holders, waiters)
    BY DEF Sound
  <2>2. QED
    BY <2>1 DEF ListsAgree
<1>2. ASSUME NEW k \in Leases
      PROVE  LeaseShape(data, st, cl, fired, k)
  <2>1. CASE k = l
    BY <2>1
  <2>2. CASE k # l
    <3>1. LeaseShape(lease, status, caller, fired, k)
      BY DEF Sound
    <3>2. data[k] = lease[k] /\ st[k] = status[k] /\ cl[k] = caller[k]
      BY <2>2
    <3>3. QED
      BY <3>1, <3>2 DEF LeaseShape
  <2>3. QED
    BY <2>1, <2>2
<1>3. QED
  BY <1>1, <1>2 DEF Sound

LEMMA SoundFacts ==
  ASSUME Sound(lease, holders, waiters, status, caller, fired), NEW l \in Leases
  PROVE  /\ Typed(lease, status, caller, fired)
         /\ holders \in SUBSET Leases /\ waiters \in SUBSET Leases
         /\ l \in holders <=> status[l] = "holding"
         /\ l \in waiters <=> status[l] \in {"waiting", "suspended"}
         /\ LeaseShape(lease, status, caller, fired, l)
         /\ Apart(lease, holders) /\ WithinLimits(lease, holders)
BY DEF Sound, ListsAgree

LEMMA AcquireSound ==
  ASSUME NEW l \in Leases, IInv, Acquire(l)
  PROVE  Sound(lease', holders, waiters \cup {l}, [status EXCEPT ![l] = "waiting"],
               [caller EXCEPT ![l] = "awaiting"], fired)
<1>1. Sound(lease, holders, waiters, status, caller, fired) /\ nextSeq \in Nat
  BY DEF IInv
<1>2. /\ Typed(lease, status, caller, fired)
      /\ holders \in SUBSET Leases /\ waiters \in SUBSET Leases
      /\ l \in holders <=> status[l] = "holding"
      /\ LeaseShape(lease, status, caller, fired, l)
      /\ Apart(lease, holders) /\ WithinLimits(lease, holders)
  BY <1>1, SoundFacts
<1> DEFINE st == [status EXCEPT ![l] = "waiting"]
           cl == [caller EXCEPT ![l] = "awaiting"]
<1>3. /\ caller[l] = "planned"
      /\ lease' = [lease EXCEPT ![l].domains = Domains(lease[l].target), ![l].seq = nextSeq]
  BY DEF Acquire
<1>4. Domains(lease[l].target) \in SUBSET Pools
  BY DEF Domains
<1>5. lease' \in [Leases -> LeaseData]
  <2>1. lease \in [Leases -> LeaseData]
    BY <1>2 DEF Typed
  <2>2. QED
    BY <1>1, <1>3, <1>4, <2>1 DEF LeaseData
<1>6. Typed(lease', st, cl, fired)
  BY <1>2, <1>5 DEF Typed, Statuses, Callers
<1>7. /\ st[l] = "waiting" /\ cl[l] = "awaiting"
      /\ lease'[l].target = lease[l].target /\ lease'[l].req = lease[l].req
      /\ lease'[l].domains = Domains(lease[l].target)
  BY <1>2, <1>3 DEF Typed, LeaseData
<1>8. LeaseShape(lease', st, cl, fired, l)
  BY <1>2, <1>3, <1>7 DEF LeaseShape
<1>9. \A k \in Leases \ {l} : lease'[k] = lease[k] /\ st[k] = status[k] /\ cl[k] = caller[k]
  BY <1>2, <1>3 DEF Typed
<1>10. l \notin holders
  BY <1>2, <1>3 DEF LeaseShape
<1>11. Apart(lease', holders) /\ WithinLimits(lease', holders)
  BY <1>2, <1>9, <1>10, FewerHolders
<1> HIDE DEF st, cl
<1>12. Sound(lease', holders, waiters \cup {l}, st, cl, fired)
  BY <1>1, <1>2, <1>6, <1>7, <1>8, <1>9, <1>10, <1>11, OneLeaseChanges
<1>13. QED
  BY <1>12 DEF st, cl

LEMMA YieldSound ==
  ASSUME NEW l \in Leases, IInv, Yield(l), l \in holders, lease' = lease
  PROVE  Sound(lease', holders \ {l}, waiters \cup {l},
               [status EXCEPT ![l] = "suspended"],
               [caller EXCEPT ![l] = "awaiting"], fired)
<1>1. Sound(lease, holders, waiters, status, caller, fired) /\ l \in fired
  BY DEF IInv, Yield
<1>2. /\ Typed(lease, status, caller, fired)
      /\ holders \in SUBSET Leases /\ waiters \in SUBSET Leases
      /\ l \in holders <=> status[l] = "holding"
      /\ LeaseShape(lease, status, caller, fired, l)
      /\ Apart(lease, holders) /\ WithinLimits(lease, holders)
  BY <1>1, SoundFacts
<1> DEFINE st == [status EXCEPT ![l] = "suspended"]
           cl == [caller EXCEPT ![l] = "awaiting"]
<1>3. Typed(lease', st, cl, fired)
  BY <1>2 DEF Typed, Statuses, Callers
<1>4. st[l] = "suspended" /\ cl[l] = "awaiting"
  BY <1>2 DEF Typed
<1>5. LeaseShape(lease', st, cl, fired, l)
  BY <1>1, <1>2, <1>4, CoordinatorAssumption DEF LeaseShape
<1>6. \A k \in Leases \ {l} : lease'[k] = lease[k] /\ st[k] = status[k] /\ cl[k] = caller[k]
  BY <1>2 DEF Typed
<1>7. Apart(lease', holders \ {l}) /\ WithinLimits(lease', holders \ {l})
  BY <1>2, FewerHolders
<1> HIDE DEF st, cl
<1>8. Sound(lease', holders \ {l}, waiters \cup {l}, st, cl, fired)
  BY <1>1, <1>2, <1>3, <1>4, <1>5, <1>6, <1>7, OneLeaseChanges
<1>9. QED
  BY <1>8 DEF st, cl

(* releaseLease and abortLease: the lease settles and leaves both lists;   *)
(* c is what becomes of its owner.                                         *)
LEMMA SettleSound ==
  ASSUME NEW l \in Leases, IInv, lease' = lease,
         status[l] \in {"waiting", "suspended", "holding"},
         NEW c \in {"running", "done", "rejected"}
  PROVE  Sound(lease', holders \ {l}, waiters \ {l},
               [status EXCEPT ![l] = "settled"], [caller EXCEPT ![l] = c], fired)
<1>1. Sound(lease, holders, waiters, status, caller, fired)
  BY DEF IInv
<1>2. /\ Typed(lease, status, caller, fired)
      /\ holders \in SUBSET Leases /\ waiters \in SUBSET Leases
      /\ LeaseShape(lease, status, caller, fired, l)
      /\ Apart(lease, holders) /\ WithinLimits(lease, holders)
  BY <1>1, SoundFacts
<1> DEFINE st == [status EXCEPT ![l] = "settled"]
           cl == [caller EXCEPT ![l] = c]
<1>3. Typed(lease', st, cl, fired)
  BY <1>2 DEF Typed, Statuses, Callers
<1>4. st[l] = "settled" /\ cl[l] = c
  BY <1>2 DEF Typed
<1>5. LeaseShape(lease', st, cl, fired, l)
  BY <1>2, <1>4 DEF LeaseShape
<1>6. \A k \in Leases \ {l} : lease'[k] = lease[k] /\ st[k] = status[k] /\ cl[k] = caller[k]
  BY <1>2 DEF Typed
<1>7. Apart(lease', holders \ {l}) /\ WithinLimits(lease', holders \ {l})
  BY <1>2, FewerHolders
<1> HIDE DEF st, cl
<1>8. Sound(lease', holders \ {l}, waiters \ {l}, st, cl, fired)
  BY <1>1, <1>2, <1>3, <1>4, <1>5, <1>6, <1>7, OneLeaseChanges
<1>9. QED
  BY <1>8 DEF st, cl

(* The steps that do not run the admission loop.                           *)

LEMMA DecisionDependsOnHolders ==
  ASSUME NEW data, NEW data2, NEW w, NEW H, NEW H2, data2[w] = data[w],
         OnDomainsOf(data2, w, H2) = OnDomainsOf(data, w, H),
         \A h \in OnDomainsOf(data, w, H) : data2[h] = data[h]
  PROVE  DecisionFor(data2, w, H2) = DecisionFor(data, w, H)
<1> DEFINE on == OnDomainsOf(data, w, H)
<1>1. {data2[h].target : h \in on} = {data[h].target : h \in on}
  OBVIOUS
<1>2. {h \in on : data2[h].target = data2[w].target}
        = {h \in on : data[h].target = data[w].target}
  OBVIOUS
<1>3. (\E h \in on : data2[h].target = Maintenance)
        <=> (\E h \in on : data[h].target = Maintenance)
  OBVIOUS
<1> HIDE DEF on
<1>4. DecisionBeside(data2, w, on) = DecisionBeside(data, w, on)
  BY <1>1, <1>2, <1>3 DEF DecisionBeside
<1>5. QED
  BY <1>4 DEF DecisionFor, on

(* A step leaves the queue served when it adds no waiter, and only holders *)
(* that share no domain with a waiter.                                     *)
LEMMA QueueUndisturbed ==
  ASSUME IInv, waiters' = waiters, fired' = fired,
         \A k \in holders \cup waiters : lease'[k] = lease[k],
         holders \subseteq holders',
         \A h \in holders' \ holders, w \in waiters : ~Overlap(lease', h, w)
  PROVE  NoLostWakeup' /\ PreemptionAsked'
<1>1. ASSUME NEW w \in waiters
      PROVE  /\ OnDomainsOf(lease', w, holders') = OnDomainsOf(lease, w, holders)
             /\ DecisionFor(lease', w, holders') = DecisionFor(lease, w, holders)
  <2>1. OnDomainsOf(lease', w, holders') = OnDomainsOf(lease, w, holders)
    BY DEF OnDomainsOf, Overlap
  <2>2. \A h \in OnDomainsOf(lease, w, holders) : lease'[h] = lease[h]
    BY DEF OnDomainsOf
  <2>3. QED
    BY <2>1, <2>2, DecisionDependsOnHolders
<1>2. NoLostWakeup'
  BY <1>1 DEF IInv, NoLostWakeup
<1>3. ASSUME NEW w \in waiters, NEW h \in holders',
             AskedToYield(lease', h, w, DecisionFor(lease', w, holders'))
      PROVE  h \in fired
  <2>1. Overlap(lease', h, w)
    BY <1>3 DEF AskedToYield
  <2>2. h \in holders
    BY <2>1
  <2>3. AskedToYield(lease, h, w, DecisionFor(lease, w, holders))
    BY <1>1, <1>3, <2>2 DEF AskedToYield, Overlap
  <2>4. QED
    BY <2>2, <2>3 DEF IInv, PreemptionAsked
<1>4. PreemptionAsked'
  BY <1>3 DEF PreemptionAsked
<1>5. QED
  BY <1>2, <1>4

LEMMA PlanRequestForSound ==
  ASSUME NEW l \in Leases, NEW t \in Targets, NEW rt \in Snapshots, IInv,
         PlanRequestFor(l, t, rt)
  PROVE  IInv'
<1>1. Sound(lease, holders, waiters, status, caller, fired)
  BY DEF IInv
<1>2. /\ Typed(lease, status, caller, fired)
      /\ holders \in SUBSET Leases /\ waiters \in SUBSET Leases
      /\ l \in holders <=> status[l] = "holding"
      /\ l \in waiters <=> status[l] \in {"waiting", "suspended"}
      /\ LeaseShape(lease, status, caller, fired, l)
      /\ Apart(lease, holders) /\ WithinLimits(lease, holders)
  BY <1>1, SoundFacts
<1> DEFINE req == [rt |-> rt, prot |-> WantedTargetIds]
           c == IF PlanRequest(req, t, FALSE).ok THEN "planned" ELSE "refused"
<1>3. /\ caller[l] = "idle" /\ Domains(t) # {}
      /\ lease' = [lease EXCEPT ![l].target = t, ![l].req = req]
      /\ caller' = [caller EXCEPT ![l] = c]
      /\ UNCHANGED <<status, holders, waiters, fired, aged, yields, nextSeq>>
  BY DEF PlanRequestFor
<1>4. c \in {"planned", "refused"}
  OBVIOUS
<1> HIDE DEF c
<1>5. \A k \in holders \cup waiters : lease[k].target \in Targets \cup {Maintenance}
  <2>1. ASSUME NEW k \in holders \cup waiters
        PROVE  lease[k].target # None
    <3>1. k \in Leases
      BY <1>2
    <3>2. /\ k \in holders <=> status[k] = "holding"
          /\ k \in waiters <=> status[k] \in {"waiting", "suspended"}
          /\ LeaseShape(lease, status, caller, fired, k)
      BY <1>1, <3>1, SoundFacts
    <3>3. QED
      BY <2>1, <3>2 DEF LeaseShape
  <2>2. QED
    BY <1>2, <2>1 DEF Typed, LeaseData
<1>6. req \in PlanRequests
  <2>1. WantedTargetIds \subseteq Targets
    BY <1>5 DEF WantedTargetIds
  <2>2. rt \in [Targets -> RuntimeView]
    BY CoordinatorAssumption
  <2>3. QED
    BY <2>1, <2>2 DEF PlanRequests
<1> HIDE DEF req
<1>7. lease' \in [Leases -> LeaseData]
  <2>1. lease \in [Leases -> LeaseData]
    BY <1>2 DEF Typed
  <2>2. QED
    BY <1>3, <1>6, <2>1 DEF LeaseData
<1>8. Typed(lease', status, caller', fired)
  BY <1>2, <1>3, <1>4, <1>7 DEF Typed, Callers
<1>9. lease'[l].target = t /\ caller'[l] = c /\ lease'[l].req \in PlanRequests
  BY <1>2, <1>3, <1>6 DEF Typed, LeaseData
<1>10. status[l] = "new" /\ l \notin fired
  BY <1>2, <1>3, CoordinatorAssumption DEF LeaseShape
<1>11. LeaseShape(lease', status, caller', fired, l)
  BY <1>3, <1>4, <1>9, <1>10, CoordinatorAssumption DEF LeaseShape
<1>12. \A k \in Leases \ {l} : lease'[k] = lease[k] /\ caller'[k] = caller[k]
  BY <1>2, <1>3 DEF Typed
<1>13. l \notin holders \cup waiters
  BY <1>2, <1>10
<1>14. Apart(lease', holders) /\ WithinLimits(lease', holders)
  BY <1>2, <1>12, <1>13, FewerHolders
<1>15. Sound(lease', holders, waiters, status, caller', fired)
  BY <1>1, <1>2, <1>8, <1>11, <1>12, <1>14, OneLeaseChanges
<1>16. NoLostWakeup' /\ PreemptionAsked'
  <2>1. \A k \in holders \cup waiters : lease'[k] = lease[k]
    BY <1>2, <1>12, <1>13
  <2>2. QED
    BY <1>3, <2>1, QueueUndisturbed
<1>17. QED
  BY <1>3, <1>15, <1>16 DEF IInv

LEMMA TryAcquireMaintenanceSound ==
  ASSUME NEW l \in Leases, NEW D \in SUBSET Pools, IInv, TryAcquireMaintenance(l, D)
  PROVE  IInv'
<1>1. Sound(lease, holders, waiters, status, caller, fired) /\ nextSeq \in Nat
  BY DEF IInv
<1>2. /\ Typed(lease, status, caller, fired)
      /\ holders \in SUBSET Leases /\ waiters \in SUBSET Leases
      /\ l \in holders <=> status[l] = "holding"
      /\ l \in waiters <=> status[l] \in {"waiting", "suspended"}
      /\ LeaseShape(lease, status, caller, fired, l)
      /\ Apart(lease, holders) /\ WithinLimits(lease, holders)
  BY <1>1, SoundFacts
<1>3. /\ caller[l] = "idle"
      /\ \A k \in holders \cup waiters : lease[k].domains \cap D = {}
      /\ lease' = [lease EXCEPT ![l].target = Maintenance, ![l].domains = D,
                                ![l].seq = nextSeq]
      /\ nextSeq' = nextSeq + 1
      /\ status' = [status EXCEPT ![l] = "holding"]
      /\ holders' = holders \cup {l}
      /\ caller' = [caller EXCEPT ![l] = "running"]
      /\ UNCHANGED <<waiters, fired, aged, yields>>
  BY DEF TryAcquireMaintenance
<1>4. lease' \in [Leases -> LeaseData]
  <2>1. lease \in [Leases -> LeaseData]
    BY <1>2 DEF Typed
  <2>2. QED
    BY <1>1, <1>3, <2>1, ZenonT(60) DEF LeaseData
<1>5. Typed(lease', status', caller', fired)
  BY <1>2, <1>3, <1>4 DEF Typed, Statuses, Callers
<1>6. /\ lease'[l].target = Maintenance /\ lease'[l].domains = D
      /\ status'[l] = "holding" /\ caller'[l] = "running"
  BY <1>2, <1>3 DEF Typed, LeaseData
<1>7. status[l] = "new" /\ l \notin fired
  BY <1>2, <1>3, CoordinatorAssumption DEF LeaseShape
<1>8. LeaseShape(lease', status', caller', fired, l)
  BY <1>6, <1>7, CoordinatorAssumption DEF LeaseShape
<1>9. \A k \in Leases \ {l} :
        lease'[k] = lease[k] /\ status'[k] = status[k] /\ caller'[k] = caller[k]
  BY <1>2, <1>3 DEF Typed
<1>10. l \notin holders \cup waiters
  BY <1>2, <1>7
<1>11. \A k \in holders \cup waiters : lease'[k] = lease[k] /\ ~Overlap(lease', l, k)
                                      /\ ~Overlap(lease', k, l)
  BY <1>2, <1>3, <1>6, <1>9, <1>10 DEF Overlap
<1>12. Apart(lease', holders')
  <2>1. ASSUME NEW h \in holders', NEW k \in holders', h # k, Overlap(lease', h, k)
        PROVE  h \in holders /\ k \in holders
    BY <1>3, <1>11, <2>1
  <2>2. Apart(lease', holders)
    BY <1>2, <1>11, FewerHolders
  <2>3. QED
    BY <2>1, <2>2 DEF Apart
<1>13. WithinLimits(lease', holders')
  <2>1. WithinLimits(lease', holders)
    BY <1>2, <1>11, FewerHolders
  <2>2. ASSUME NEW t \in Targets
        PROVE  {h \in holders' : lease'[h].target = t}
                 = {h \in holders : lease'[h].target = t}
    BY <1>3, <1>6, CoordinatorAssumption
  <2>3. QED
    BY <2>1, <2>2 DEF WithinLimits
<1>14. Sound(lease', holders', waiters, status', caller', fired)
  <2>1. \A k \in Leases \ {l} : k \in holders' <=> k \in holders
    BY <1>3
  <2>2. l \in holders' /\ holders' \subseteq Leases
    BY <1>2, <1>3
  <2>3. Typed(lease', status', caller', fired) /\ waiters \subseteq Leases
    BY <1>2, <1>3, <1>5
  <2>4. l \in waiters <=> status'[l] \in {"waiting", "suspended"}
    BY <1>6, <1>10
  <2>5. LeaseShape(lease', status', caller', fired, l)
    BY <1>3, <1>8
  <2>6. QED
    BY <1>1, <1>6, <1>9, <1>12, <1>13, <2>1, <2>2, <2>3, <2>4, <2>5, OneLeaseChanges
<1>15. NoLostWakeup' /\ PreemptionAsked'
  BY <1>3, <1>11, QueueUndisturbed
<1>16. QED
  BY <1>1, <1>3, <1>14, <1>15 DEF IInv

(* The owner of a settled lease notices: its yield() rejects, or it         *)
(* releases once more.                                                     *)
LEMMA OwnerEndsSound ==
  ASSUME NEW l \in Leases, IInv, caller[l] = "running", status[l] = "settled",
         NEW c \in {"done", "rejected"},
         caller' = [caller EXCEPT ![l] = c],
         UNCHANGED <<lease, status, holders, waiters, fired>>
  PROVE  Sound(lease', holders', waiters', status', caller', fired')
         /\ NoLostWakeup' /\ PreemptionAsked'
<1>1. Sound(lease, holders, waiters, status, caller, fired)
  BY DEF IInv
<1>2. /\ Typed(lease, status, caller, fired)
      /\ holders \in SUBSET Leases /\ waiters \in SUBSET Leases
      /\ l \in holders <=> status[l] = "holding"
      /\ l \in waiters <=> status[l] \in {"waiting", "suspended"}
      /\ LeaseShape(lease, status, caller, fired, l)
      /\ Apart(lease, holders) /\ WithinLimits(lease, holders)
  BY <1>1, SoundFacts
<1>3. Typed(lease, status, caller', fired)
  BY <1>2 DEF Typed, Callers
<1>4. /\ caller'[l] = c
      /\ \A k \in Leases \ {l} : caller'[k] = caller[k]
  BY <1>2 DEF Typed
<1>5. LeaseShape(lease, status, caller', fired, l)
  BY <1>2, <1>4 DEF LeaseShape
<1>6. Sound(lease, holders, waiters, status, caller', fired)
  BY <1>1, <1>2, <1>3, <1>4, <1>5, OneLeaseChanges
<1>7. NoLostWakeup' /\ PreemptionAsked'
  BY QueueUndisturbed
<1>8. QED
  BY <1>6, <1>7

LEMMA AcquireStep ==
  ASSUME NEW l \in Leases, IInv, Acquire(l)
  PROVE  IInv'
<1>1. /\ nextSeq' = nextSeq + 1 /\ UNCHANGED <<aged, yields>>
      /\ ScheduleAdmission(lease', holders, waiters \cup {l},
                           [status EXCEPT ![l] = "waiting"],
                           [caller EXCEPT ![l] = "awaiting"], fired)
  BY DEF Acquire
<1>2. /\ Sound(lease', holders', waiters', status', caller', fired')
      /\ NoLostWakeup' /\ PreemptionAsked'
  BY <1>1, AcquireSound, AdmissionSound
<1>3. QED
  BY <1>1, <1>2 DEF IInv

LEMMA YieldStep ==
  ASSUME NEW l \in Leases, IInv, Yield(l)
  PROVE  IInv'
<1>1. /\ caller[l] = "running" /\ l \in fired /\ yields[l] < MaxYields
      /\ yields' = [yields EXCEPT ![l] = @ + 1]
      /\ UNCHANGED <<lease, aged, nextSeq>>
  BY DEF Yield
<1>2. yields' \in [Leases -> 0..MaxYields]
  BY <1>1, CoordinatorAssumption DEF IInv
<1>3. CASE l \in holders
  <2>1. ScheduleAdmission(lease', holders \ {l}, waiters \cup {l},
                          [status EXCEPT ![l] = "suspended"],
                          [caller EXCEPT ![l] = "awaiting"], fired)
    BY <1>1, <1>3 DEF Yield
  <2>2. /\ Sound(lease', holders', waiters', status', caller', fired')
        /\ NoLostWakeup' /\ PreemptionAsked'
    BY <1>1, <1>3, <2>1, YieldSound, AdmissionSound
  <2>3. QED
    BY <1>1, <1>2, <2>2 DEF IInv
<1>4. CASE l \notin holders
  <2>1. /\ caller' = [caller EXCEPT ![l] = "rejected"]
        /\ UNCHANGED <<status, holders, waiters, fired>>
    BY <1>4 DEF Yield
  <2>2. status[l] = "settled"
    <3>1. Sound(lease, holders, waiters, status, caller, fired)
      BY DEF IInv
    <3>2. /\ status[l] \in Statuses /\ status[l] # "holding"
          /\ LeaseShape(lease, status, caller, fired, l)
      BY <1>4, <3>1, SoundFacts DEF Typed
    <3>3. QED
      BY <1>1, <3>2 DEF LeaseShape, Statuses
  <2>3. /\ Sound(lease', holders', waiters', status', caller', fired')
        /\ NoLostWakeup' /\ PreemptionAsked'
    BY <1>1, <2>1, <2>2, OwnerEndsSound
  <2>4. QED
    BY <1>1, <1>2, <2>3 DEF IInv
<1>5. QED
  BY <1>3, <1>4

LEMMA ReleaseStep ==
  ASSUME NEW l \in Leases, IInv, Release(l)
  PROVE  IInv'
<1>1. caller[l] = "running" /\ UNCHANGED <<lease, aged, yields, nextSeq>>
  BY DEF Release
<1>2. CASE status[l] = "settled"
  <2>1. /\ caller' = [caller EXCEPT ![l] = "done"]
        /\ UNCHANGED <<status, holders, waiters, fired>>
    BY <1>2 DEF Release
  <2>2. /\ Sound(lease', holders', waiters', status', caller', fired')
        /\ NoLostWakeup' /\ PreemptionAsked'
    BY <1>1, <1>2, <2>1, OwnerEndsSound
  <2>3. QED
    BY <1>1, <2>2 DEF IInv
<1>3. CASE status[l] # "settled"
  <2>1. ScheduleAdmission(lease', holders \ {l}, waiters \ {l},
                          [status EXCEPT ![l] = "settled"],
                          [caller EXCEPT ![l] = "done"], fired)
    BY <1>1, <1>3 DEF Release, ReleaseLease
  <2>2. status[l] \in {"waiting", "suspended", "holding"}
    <3>1. Sound(lease, holders, waiters, status, caller, fired)
      BY DEF IInv
    <3>2. status[l] \in Statuses /\ LeaseShape(lease, status, caller, fired, l)
      BY <3>1, SoundFacts DEF Typed
    <3>3. QED
      BY <1>1, <1>3, <3>2 DEF LeaseShape, Statuses
  <2>3. /\ Sound(lease', holders', waiters', status', caller', fired')
        /\ NoLostWakeup' /\ PreemptionAsked'
    BY <1>1, <2>1, <2>2, SettleSound, AdmissionSound
  <2>4. QED
    BY <1>1, <2>3 DEF IInv
<1>4. QED
  BY <1>2, <1>3

LEMMA AbortLeaseStep ==
  ASSUME NEW l \in Leases, IInv, AbortLease(l)
  PROVE  IInv'
<1>1. /\ status[l] \in {"waiting", "holding", "suspended"}
      /\ UNCHANGED <<lease, aged, yields, nextSeq>>
  BY DEF AbortLease
<1>2. Sound(lease, holders, waiters, status, caller, fired)
  BY DEF IInv
<1>3. /\ Typed(lease, status, caller, fired)
      /\ l \in holders <=> status[l] = "holding"
      /\ LeaseShape(lease, status, caller, fired, l)
  BY <1>2, SoundFacts
<1>4. CASE status[l] = "holding"
  <2>1. caller[l] = "running"
    BY <1>3, <1>4 DEF LeaseShape
  <2>2. caller = [caller EXCEPT ![l] = "running"]
    BY <1>3, <2>1 DEF Typed
  <2>3. ScheduleAdmission(lease', holders \ {l}, waiters \ {l},
                          [status EXCEPT ![l] = "settled"],
                          [caller EXCEPT ![l] = "running"], fired)
    BY <1>1, <1>4, <2>2 DEF AbortLease, ReleaseLease
  <2>4. /\ Sound(lease', holders', waiters', status', caller', fired')
        /\ NoLostWakeup' /\ PreemptionAsked'
    BY <1>1, <2>3, SettleSound, AdmissionSound
  <2>5. QED
    BY <1>1, <2>4 DEF IInv
<1>5. CASE status[l] # "holding"
  <2>1. holders = holders \ {l}
    BY <1>3, <1>5
  <2>2. ScheduleAdmission(lease', holders \ {l}, waiters \ {l},
                          [status EXCEPT ![l] = "settled"],
                          [caller EXCEPT ![l] = "rejected"], fired)
    BY <1>1, <1>5, <2>1 DEF AbortLease
  <2>3. /\ Sound(lease', holders', waiters', status', caller', fired')
        /\ NoLostWakeup' /\ PreemptionAsked'
    BY <1>1, <2>2, SettleSound, AdmissionSound
  <2>4. QED
    BY <1>1, <2>3 DEF IInv
<1>6. QED
  BY <1>4, <1>5

LEMMA GrowOldStep ==
  ASSUME NEW l \in Leases, IInv, GrowOld(l)
  PROVE  IInv'
<1>1. /\ aged' = aged \cup {l}
      /\ UNCHANGED <<lease, status, holders, waiters, fired, caller, yields, nextSeq>>
  BY DEF GrowOld
<1>2. NoLostWakeup' /\ PreemptionAsked'
  BY <1>1, QueueUndisturbed
<1>3. QED
  BY <1>1, <1>2 DEF IInv

-----------------------------------------------------------------------------
LEMMA InitIInv == Init => IInv
<1> SUFFICES ASSUME Init PROVE IInv
  OBVIOUS
<1>1. Typed(lease, status, caller, fired)
  BY DEF Init, Typed, LeaseData, Statuses, Callers
<1>2. ListsAgree(status, holders, waiters)
  BY DEF Init, ListsAgree
<1>3. \A l \in Leases : LeaseShape(lease, status, caller, fired, l)
  BY CoordinatorAssumption DEF Init, LeaseShape
<1>4. Apart(lease, holders)
  BY DEF Init, Apart
<1>5. WithinLimits(lease, holders)
  <2>1. ASSUME NEW t \in Targets, ParallelLimit[t] > 0
        PROVE  Cardinality({h \in holders : lease[h].target = t}) <= ParallelLimit[t]
    <3>1. {h \in holders : lease[h].target = t} = {}
      BY DEF Init
    <3>2. Cardinality({}) = 0
      BY FS_EmptySet
    <3>3. ParallelLimit[t] \in Nat
      BY AdmissionAssumption
    <3>4. QED
      BY <3>1, <3>2, <3>3
  <2>2. QED
    BY <2>1 DEF WithinLimits
<1>6. /\ aged \subseteq Leases /\ yields \in [Leases -> 0..MaxYields] /\ nextSeq \in Nat
  BY CoordinatorAssumption DEF Init
<1>7. NoLostWakeup /\ PreemptionAsked
  BY DEF Init, NoLostWakeup, PreemptionAsked
<1>8. QED
  BY <1>1, <1>2, <1>3, <1>4, <1>5, <1>6, <1>7 DEF IInv, Sound

LEMMA NextIInv == IInv /\ [Next]_vars => IInv'
<1> SUFFICES ASSUME IInv, [Next]_vars PROVE IInv'
  OBVIOUS
<1>1. ASSUME NEW l \in Leases, NEW t \in Targets, NEW rt \in Snapshots,
             PlanRequestFor(l, t, rt)
      PROVE  IInv'
  BY <1>1, PlanRequestForSound
<1>2. ASSUME NEW l \in Leases, Acquire(l)
      PROVE  IInv'
  BY <1>2, AcquireStep
<1>3. ASSUME NEW l \in Leases, NEW i \in Instances,
             TryAcquireMaintenance(l, {p \in Pools : Draw[i][p] > 0})
      PROVE  IInv'
  BY <1>3, TryAcquireMaintenanceSound
<1>4. ASSUME NEW l \in Leases, Yield(l)
      PROVE  IInv'
  BY <1>4, YieldStep
<1>5. ASSUME NEW l \in Leases, Release(l)
      PROVE  IInv'
  BY <1>5, ReleaseStep
<1>6. ASSUME NEW l \in Leases, AbortLease(l)
      PROVE  IInv'
  BY <1>6, AbortLeaseStep
<1>7. ASSUME NEW l \in Leases, GrowOld(l)
      PROVE  IInv'
  BY <1>7, GrowOldStep
<1>8. CASE UNCHANGED vars
  <2>1. UNCHANGED <<lease, status, holders, waiters, fired, aged, caller, yields, nextSeq>>
    BY <1>8 DEF vars
  <2>2. NoLostWakeup' /\ PreemptionAsked'
    BY <2>1, QueueUndisturbed
  <2>3. QED
    BY <2>1, <2>2 DEF IInv
<1>9. QED
  BY <1>1, <1>2, <1>3, <1>4, <1>5, <1>6, <1>7, <1>8 DEF Next

(* The inductive invariant holds in every reachable state.                 *)
THEOREM CoordinatorInvariant == Spec => []IInv
BY InitIInv, NextIInv, PTL DEF Spec

(* Every variable keeps its type: in particular no request yields more     *)
(* often than the resume loop allows.                                      *)
THEOREM TypeCorrect == Spec => []TypeOK
<1>1. IInv => TypeOK
  BY DEF IInv, Sound, Typed, ListsAgree, TypeOK
<1>2. QED
  BY <1>1, CoordinatorInvariant, PTL

(* The holders list, the waiters list and the status fields agree, and a   *)
(* promise is pending exactly while its lease is queued.                   *)
THEOREM ListsAgreeWithStatus == Spec => []QueuesAgree
<1>1. IInv => QueuesAgree
  BY DEF IInv, Sound, ListsAgree, LeaseShape, QueuesAgree
<1>2. QED
  BY <1>1, CoordinatorInvariant, PTL

(* After every handler nobody who could be admitted is left in the queue.  *)
THEOREM WakeupsAreNotLost == Spec => []NoLostWakeup
<1>1. IInv => NoLostWakeup
  BY DEF IInv
<1>2. QED
  BY <1>1, CoordinatorInvariant, PTL

(* Idle maintenance shares no domain with any other holder.                *)
THEOREM MaintenanceIsAlone == Spec => []MaintenanceAlone
<1>1. IInv => MaintenanceAlone
  BY DEF IInv, Sound, Apart, MaintenanceAlone
<1>2. QED
  BY <1>1, CoordinatorInvariant, PTL

(* No target serves more requests at once than its parallel limit.         *)
THEOREM LimitIsKept == Spec => []ParallelLimitKept
<1>1. IInv => ParallelLimitKept
  BY DEF IInv, Sound, WithinLimits, ParallelLimitKept
<1>2. QED
  BY <1>1, CoordinatorInvariant, PTL

(* Every holder that a queued request needs out of the way has been told.  *)
THEOREM PreemptionIsAsked == Spec => []PreemptionAsked
<1>1. IInv => PreemptionAsked
  BY DEF IInv
<1>2. QED
  BY <1>1, CoordinatorInvariant, PTL

(* The queue is never stuck: nobody is left who could be admitted, and     *)
(* nobody in the way has not been asked to yield.                          *)
THEOREM NobodyIsForgotten == Spec => []NobodyForgotten
<1>1. NoLostWakeup /\ PreemptionAsked => NobodyForgotten
  BY DEF NobodyForgotten
<1>2. QED
  BY <1>1, WakeupsAreNotLost, PreemptionIsAsked, PTL

(* The leases that are held at one time may be held together.              *)
THEOREM LeasesAreCompatible == Spec => []LeasesCompatible
<1>1. MaintenanceAlone /\ ParallelLimitKept => LeasesCompatible
  BY DEF LeasesCompatible
<1>2. QED
  BY <1>1, MaintenanceIsAlone, LimitIsKept, PTL

-----------------------------------------------------------------------------
LEMMA SettledDoesNotHold ==
  ASSUME NEW l \in Leases, NEW H, NEW W, NEW st, NEW cl, NEW F, l \notin H \cup W,
         H \cap W = {}, ScheduleAdmission(lease', H, W, st, cl, F)
  PROVE  l \notin holders'
<1>1. PICK P \in SUBSET W : Admission(lease', H, W, st, cl, F, P)
  BY AdmissionFacts
<1>2. holders' = H \cup P
  BY <1>1 DEF Admission
<1>3. QED
  BY <1>2

(* What a step does to the lists: it leaves the queue alone, it gives      *)
(* domains to maintenance, or it hands lists H and W to the admission      *)
(* loop.  A holder that is not in H is the one that yields or ends.        *)
LeavesQueueAlone == holders' \subseteq holders /\ waiters' = waiters

StartsMaintenance ==
  \E l \in Leases : /\ holders' = holders \cup {l} /\ waiters' = waiters /\ l \notin waiters
                    /\ lease'[l].target = Maintenance

RunsAdmission ==
  \E H, W, st, cl, F :
    /\ H \subseteq holders
    /\ Sound(lease', H, W, st, cl, F)
    /\ ScheduleAdmission(lease', H, W, st, cl, F)
    /\ \A k \in holders \cup waiters : lease'[k] = lease[k]
    /\ \A h \in holders \ H : h \in holders' => yields'[h] # yields[h]

LEMMA SettleRunsAdmission ==
  ASSUME IInv, NEW l \in Leases, NEW c \in {"running", "done", "rejected"}, lease' = lease,
         status[l] \in {"waiting", "suspended", "holding"},
         ScheduleAdmission(lease, holders \ {l}, waiters \ {l},
                           [status EXCEPT ![l] = "settled"],
                           [caller EXCEPT ![l] = c], fired)
  PROVE  RunsAdmission
<1> DEFINE H == holders \ {l}
           W == waiters \ {l}
           st == [status EXCEPT ![l] = "settled"]
           cl == [caller EXCEPT ![l] = c]
<1>1. Sound(lease', H, W, st, cl, fired)
  BY SettleSound
<1>2. ScheduleAdmission(lease', H, W, st, cl, fired)
  OBVIOUS
<1>3. l \notin H \cup W /\ H \cap W = {} /\ H \in SUBSET holders
  BY DEF IInv, Sound, ListsAgree
<1> HIDE DEF W, st, cl
<1>4. l \notin holders'
  BY <1>2, <1>3, SettledDoesNotHold
<1> QED BY <1>1, <1>2, <1>3, <1>4 DEF RunsAdmission

LEMMA NextMovesQueue ==
  ASSUME IInv, [Next]_vars
  PROVE  LeavesQueueAlone \/ StartsMaintenance \/ RunsAdmission
<1>0. Sound(lease, holders, waiters, status, caller, fired)
  BY DEF IInv
<1>1. ASSUME NEW l \in Leases, NEW t \in Targets, NEW rt \in Snapshots,
             PlanRequestFor(l, t, rt)
      PROVE  LeavesQueueAlone
  BY <1>1 DEF PlanRequestFor, LeavesQueueAlone
<1>2. ASSUME NEW l \in Leases, Acquire(l)
      PROVE  RunsAdmission
  <2> DEFINE W == waiters \cup {l}
             st == [status EXCEPT ![l] = "waiting"]
             cl == [caller EXCEPT ![l] = "awaiting"]
  <2>1. Sound(lease', holders, W, st, cl, fired)
    BY <1>2, AcquireSound
  <2>2. ScheduleAdmission(lease', holders, W, st, cl, fired)
    BY <1>2 DEF Acquire
  <2>3. \A k \in holders \cup waiters : lease'[k] = lease[k]
    <3>1. l \notin holders \cup waiters
      <4>1. caller[l] = "planned"
        BY <1>2 DEF Acquire
      <4>2. /\ LeaseShape(lease, status, caller, fired, l)
            /\ l \in holders <=> status[l] = "holding"
            /\ l \in waiters <=> status[l] \in {"waiting", "suspended"}
        BY <1>0, SoundFacts
      <4> QED BY <4>1, <4>2 DEF LeaseShape
    <3>2. holders \cup waiters \subseteq Leases /\ lease \in [Leases -> LeaseData]
      BY <1>0 DEF Sound, ListsAgree, Typed
    <3>3. lease' = [lease EXCEPT ![l].domains = Domains(lease[l].target), ![l].seq = nextSeq]
      BY <1>2 DEF Acquire
    <3> QED BY <3>1, <3>2, <3>3
  <2> HIDE DEF W, st, cl
  <2> QED BY <2>1, <2>2, <2>3 DEF RunsAdmission
<1>3. ASSUME NEW l \in Leases, NEW i \in Instances,
             TryAcquireMaintenance(l, {p \in Pools : Draw[i][p] > 0})
      PROVE  StartsMaintenance
  <2>1. lease \in [Leases -> LeaseData] /\ l \notin waiters
    <3>1. caller[l] = "idle"
      BY <1>3 DEF TryAcquireMaintenance
    <3>2. /\ LeaseShape(lease, status, caller, fired, l)
          /\ l \in waiters <=> status[l] \in {"waiting", "suspended"}
      BY <1>0, SoundFacts
    <3> QED BY <1>0, <3>1, <3>2 DEF LeaseShape, Sound, Typed
  <2> QED BY <1>3, <2>1 DEF TryAcquireMaintenance, LeaseData, StartsMaintenance
<1>4. ASSUME NEW l \in Leases, Yield(l)
      PROVE  LeavesQueueAlone \/ RunsAdmission
  <2>1. CASE l \in holders
    <3> DEFINE H == holders \ {l}
               W == waiters \cup {l}
               st == [status EXCEPT ![l] = "suspended"]
               cl == [caller EXCEPT ![l] = "awaiting"]
    <3>1. /\ lease' = lease /\ yields' = [yields EXCEPT ![l] = @ + 1]
          /\ ScheduleAdmission(lease', H, W, st, cl, fired)
      BY <1>4, <2>1 DEF Yield
    <3>2. Sound(lease', H, W, st, cl, fired)
      BY <1>4, <2>1, <3>1, YieldSound
    <3>3. yields'[l] # yields[l]
      BY <3>1, CoordinatorAssumption DEF IInv
    <3>4. H \in SUBSET holders /\ holders \ H \subseteq {l}
      OBVIOUS
    <3> HIDE DEF H, W, st, cl
    <3> QED BY <3>1, <3>2, <3>3, <3>4 DEF RunsAdmission
  <2>2. CASE l \notin holders
    BY <1>4, <2>2 DEF Yield, LeavesQueueAlone
  <2> QED BY <2>1, <2>2
<1>5. ASSUME NEW l \in Leases, Release(l)
      PROVE  LeavesQueueAlone \/ RunsAdmission
  <2>1. CASE status[l] = "settled"
    BY <1>5, <2>1 DEF Release, LeavesQueueAlone
  <2>2. CASE status[l] # "settled"
    <3>1. /\ caller[l] = "running" /\ lease' = lease
          /\ ScheduleAdmission(lease, holders \ {l}, waiters \ {l},
                               [status EXCEPT ![l] = "settled"],
                               [caller EXCEPT ![l] = "done"], fired)
      BY <1>5, <2>2 DEF Release, ReleaseLease
    <3>2. status[l] \in Statuses /\ LeaseShape(lease, status, caller, fired, l)
      BY <1>0, SoundFacts DEF Typed
    <3>3. status[l] \in {"waiting", "suspended", "holding"}
      BY <2>2, <3>1, <3>2 DEF LeaseShape, Statuses
    <3> QED BY <3>1, <3>3, SettleRunsAdmission
  <2> QED BY <2>1, <2>2
<1>6. ASSUME NEW l \in Leases, AbortLease(l)
      PROVE  RunsAdmission
  <2>1. status[l] \in {"waiting", "suspended", "holding"} /\ lease' = lease
    BY <1>6 DEF AbortLease
  <2>2. /\ caller \in [Leases -> Callers]
        /\ l \in holders <=> status[l] = "holding"
        /\ LeaseShape(lease, status, caller, fired, l)
    BY <1>0, SoundFacts DEF Typed
  <2>3. CASE status[l] = "holding"
    <3>1. caller = [caller EXCEPT ![l] = "running"]
      BY <2>2, <2>3 DEF LeaseShape
    <3>2. ScheduleAdmission(lease, holders \ {l}, waiters \ {l},
                            [status EXCEPT ![l] = "settled"],
                            [caller EXCEPT ![l] = "running"], fired)
      BY <1>6, <2>3, <3>1 DEF AbortLease, ReleaseLease
    <3> QED BY <2>1, <3>2, SettleRunsAdmission
  <2>4. CASE status[l] # "holding"
    <3>1. holders = holders \ {l}
      BY <2>2, <2>4
    <3>2. ScheduleAdmission(lease, holders \ {l}, waiters \ {l},
                            [status EXCEPT ![l] = "settled"],
                            [caller EXCEPT ![l] = "rejected"], fired)
      BY <1>6, <2>4, <3>1 DEF AbortLease
    <3> QED BY <2>1, <3>2, SettleRunsAdmission
  <2> QED BY <2>3, <2>4
<1>7. ASSUME NEW l \in Leases, GrowOld(l)
      PROVE  LeavesQueueAlone
  BY <1>7 DEF GrowOld, LeavesQueueAlone
<1>8. CASE UNCHANGED vars
  BY <1>8 DEF vars, LeavesQueueAlone
<1> QED
  BY <1>1, <1>2, <1>3, <1>4, <1>5, <1>6, <1>7, <1>8 DEF Next

-----------------------------------------------------------------------------
(* Priority.  Whoever the loop promotes was examined beside everybody who  *)
(* held before the loop, and none of those outranked it.                   *)

LEMMA AdmissionRespectsPriority ==
  ASSUME NEW H, NEW W, NEW st, NEW cl, NEW F,
         Sound(lease', H, W, st, cl, F), ScheduleAdmission(lease', H, W, st, cl, F),
         NEW l \in holders' \ H, NEW h \in H, Overlap(lease', l, h)
  PROVE  Priority[lease'[h].target] <= Priority[lease'[l].target]
<1>1. /\ Typed(lease', st, cl, F) /\ ListsAgree(st, H, W)
      /\ \A k \in Leases : LeaseShape(lease', st, cl, F, k)
  BY DEF Sound
<1>2. H \in SUBSET Leases /\ W \in SUBSET Leases /\ H \cap W = {}
  BY <1>1 DEF ListsAgree
<1>3. PICK P \in SUBSET W : Admission(lease', H, W, st, cl, F, P)
  BY <1>2, AdmissionFacts
<1>4. l \in P /\ AdmittedLast(lease', H, P, {l})
  BY <1>3 DEF Admission
<1>5. PICK G \in SUBSET (H \cup P) :
        H \subseteq G /\ DecisionFor(lease', l, G).type = "admit"
  BY <1>4 DEF AdmittedLast
<1>6. h \in OnDomainsOf(lease', l, G)
  BY <1>5 DEF OnDomainsOf, Overlap
<1>7. /\ lease'[h].target # Maintenance
      /\ ~Outranked(lease'[l].target, {lease'[k].target : k \in OnDomainsOf(lease', l, G)})
  BY <1>5, <1>6, AdmitFacts
<1>8. ~(Priority[lease'[h].target] > Priority[lease'[l].target])
  BY <1>6, <1>7 DEF Outranked
<1>9. lease'[h].target \in Targets
  <2>1. st[h] = "holding" /\ h \in Leases
    BY <1>1 DEF ListsAgree
  <2>2. lease'[h].target # None
    BY <1>1, <2>1 DEF LeaseShape
  <2>3. QED
    BY <1>1, <1>7, <2>1, <2>2 DEF Typed, LeaseData
<1>10. lease'[l].target \in Targets
  BY <1>1, <1>2, <1>4 DEF ListsAgree, LeaseShape
<1>11. Priority[lease'[h].target] \in Int /\ Priority[lease'[l].target] \in Int
  BY <1>9, <1>10, SchedulerAssumption
<1>12. QED
  BY <1>8, <1>11

(* The step of PriorityHeld.                                               *)
PriorityKept ==
  \A l \in holders' \ holders, h \in holders \cap holders' :
    /\ lease'[l].target # Maintenance /\ Overlap(lease', l, h)
    /\ yields'[h] = yields[h]
    =>
      Priority[lease[h].target] <= Priority[lease'[l].target]

LEMMA NextKeepsPriority == IInv /\ [Next]_vars => PriorityKept
<1> SUFFICES ASSUME IInv, [Next]_vars, NEW l \in holders' \ holders,
                    NEW h \in holders \cap holders',
                    lease'[l].target # Maintenance, Overlap(lease', l, h),
                    yields'[h] = yields[h]
             PROVE  Priority[lease[h].target] <= Priority[lease'[l].target]
  BY DEF PriorityKept
<1>1. RunsAdmission
  BY NextMovesQueue DEF LeavesQueueAlone, StartsMaintenance
<1>2. PICK H, W, st, cl, F :
        /\ H \subseteq holders
        /\ Sound(lease', H, W, st, cl, F)
        /\ ScheduleAdmission(lease', H, W, st, cl, F)
        /\ \A k \in holders \cup waiters : lease'[k] = lease[k]
        /\ \A k \in holders \ H : k \in holders' => yields'[k] # yields[k]
  BY <1>1 DEF RunsAdmission
<1>3. h \in H /\ l \in holders' \ H
  BY <1>2
<1>4. Priority[lease'[h].target] <= Priority[lease'[l].target]
  BY <1>2, <1>3, AdmissionRespectsPriority
<1> QED BY <1>2, <1>4

(* No step starts work beside a request of higher priority that goes on    *)
(* running on a shared domain.                                             *)
THEOREM PriorityIsHeld == Spec => PriorityHeld
<1>1. IInv /\ [Next]_vars => [PriorityKept]_vars
  BY NextKeepsPriority
<1>2. [][PriorityKept]_vars => PriorityHeld
  <2>1. [PriorityKept]_vars <=>
        [\A l \in holders' \ holders, h \in holders \cap holders' :
           /\ lease'[l].target # Maintenance /\ Overlap(lease', l, h)
           /\ yields'[h] = yields[h]
           =>
             Priority[lease[h].target] <= Priority[lease'[l].target]]_vars
    BY DEF PriorityKept
  <2>2. QED
    BY <2>1, PTL DEF PriorityHeld
<1>3. QED
  BY <1>1, <1>2, CoordinatorInvariant, PTL DEF Spec

-----------------------------------------------------------------------------
(* Age.  Of two waiters that differ only in their age, the loop promotes   *)
(* the older one first.                                                    *)

(* The comparison of keys with three entries.                              *)
LEMMA LexLessOfThree ==
  ASSUME NEW a1, NEW a2, NEW a3, NEW b1, NEW b2, NEW b3,
         LexLess(<<a1, a2, a3>>, <<b1, b2, b3>>)
  PROVE  \/ a1 < b1
         \/ a1 = b1 /\ a2 < b2
         \/ a1 = b1 /\ a2 = b2 /\ a3 < b3
<1> DEFINE s == <<a1, a2, a3>>
           t == <<b1, b2, b3>>
<1>1. /\ DOMAIN s = 1..3
      /\ s[1] = a1 /\ s[2] = a2 /\ s[3] = a3 /\ t[1] = b1 /\ t[2] = b2 /\ t[3] = b3
  OBVIOUS
<1>2. PICK k \in 1..3 : s[k] < t[k] /\ \A j \in 1..(k - 1) : s[j] = t[j]
  BY <1>1 DEF LexLess
<1> HIDE DEF s, t
<1>3. k = 1 \/ k = 2 \/ k = 3
  OBVIOUS
<1> QED BY <1>1, <1>2, <1>3

(* Of two waiters alike, with as many holders to look at, the decision and *)
(* the affinity are the same: only the sequence number tells them apart.   *)
LEMMA FirstOfTwins ==
  ASSUME NEW data, NEW H, NEW W, NEW pass, pass = AdmissionPass(data, H, W),
         NEW l \in pass.next, NEW w \in W, l # w,
         data[l].target = data[w].target, data[l].req = data[w].req,
         data[l].domains = data[w].domains,
         Priority[data[l].target] \in Int
  PROVE  data[l].seq < data[w].seq
<1> DEFINE decision == [v \in W |-> DecisionFor(data, v, H)]
           starved == StarvedSwapWaiting(data, H, W)
<1>1. /\ pass.ready = {v \in W : decision[v].type = "admit"}
      /\ pass.next = {v \in pass.ready : \A u \in pass.ready \ {v} :
                        Precedes(data, H, starved, v, u)}
  BY DEF AdmissionPass, PassWith
<1>2. OnDomainsOf(data, l, H) = OnDomainsOf(data, w, H)
  BY DEF OnDomainsOf, Overlap
<1>3. DecisionFor(data, l, H) = DecisionFor(data, w, H)
  BY <1>2 DEF DecisionFor, DecisionBeside
<1>4. IsAffine(data, l, H) <=> IsAffine(data, w, H)
  BY <1>2 DEF IsAffine
<1>5. w \in pass.ready \ {l}
  BY <1>1, <1>3
<1> HIDE DEF starved, decision
<1>6. Precedes(data, H, starved, l, w)
  BY <1>1, <1>5
<1> DEFINE a == IF starved \/ IsAffine(data, l, H) THEN 0 ELSE 1
           p == -Priority[data[l].target]
<1>7. LexLess(<<p, a, data[l].seq>>, <<p, a, data[w].seq>>)
  BY <1>4, <1>6 DEF Precedes, CandidateKey
<1>8. a \in Int /\ p \in Int
  OBVIOUS
<1> HIDE DEF a, p
<1> QED BY <1>7, <1>8, LexLessOfThree

(* A run of the loop promotes the older one of two waiters alike.          *)
LEMMA AdmissionKeepsOrder ==
  ASSUME NEW H, NEW W, NEW st, NEW cl, NEW F,
         Sound(lease', H, W, st, cl, F), ScheduleAdmission(lease', H, W, st, cl, F),
         NEW l \in holders' \ H, NEW w \in W \cap waiters',
         lease'[l].target = lease'[w].target, lease'[l].req = lease'[w].req
  PROVE  lease'[l].seq < lease'[w].seq
<1>1. PICK order \in AdmissionOrders(W) :
        /\ IsLoopRun(Passes(lease', H, W, order), order)
        /\ holders' = H \cup Range(order) /\ waiters' = W \ Range(order)
  BY DEF ScheduleAdmission
<1> DEFINE n == Len(order)
           passes == Passes(lease', H, W, order)
           Hk(k) == H \cup PromotedBefore(order, k)
           Wk(k) == W \ PromotedBefore(order, k)
<1>2. /\ n \in Nat /\ DOMAIN order = 1..n
      /\ \A k \in 1..n : order[k] \in W
      /\ Range(order) = {order[k] : k \in 1..n}
  BY OrderFacts
<1>3. PICK k \in 1..n : order[k] = l
  BY <1>1, <1>2
<1>4. passes[k] = AdmissionPass(lease', Hk(k), Wk(k)) /\ l \in passes[k].next
  <2>1. \A j \in 1..(n + 1) : passes[j] = AdmissionPass(lease', Hk(j), Wk(j))
    BY DEF Passes
  <2> QED BY <1>1, <1>2, <1>3, <2>1 DEF IsLoopRun
<1>5. w \in Wk(k) /\ l # w
  <2>1. PromotedBefore(order, k) \subseteq Range(order)
    BY <1>2 DEF PromotedBefore
  <2> QED BY <1>1, <1>2, <1>3, <2>1
<1>6. /\ lease'[l].domains = lease'[w].domains
      /\ Priority[lease'[l].target] \in Int
  <2>1. l \in W /\ w \in W
    BY <1>2, <1>3
  <2>2. \A v \in W : /\ lease'[v].target \in Targets
                     /\ lease'[v].domains = Domains(lease'[v].target)
    BY DEF Sound, ListsAgree, LeaseShape
  <2> QED BY <2>1, <2>2, SchedulerAssumption
<1> HIDE DEF passes
<1> DEFINE G == Hk(k)
           V == Wk(k)
<1>7. passes[k] = AdmissionPass(lease', G, V) /\ w \in V
  BY <1>4, <1>5
<1> HIDE DEF G, V
<1> QED BY <1>4, <1>5, <1>6, <1>7, FirstOfTwins

(* The step of ResumesFirst.                                               *)
OlderFirst ==
  \A l \in waiters \cap holders', w \in waiters \cap waiters' :
    /\ lease[l].target = lease[w].target
    /\ lease[l].req = lease[w].req
    => lease[l].seq < lease[w].seq

LEMMA NextKeepsOrder == IInv /\ [Next]_vars => OlderFirst
<1> SUFFICES ASSUME IInv, [Next]_vars, NEW l \in waiters \cap holders',
                    NEW w \in waiters \cap waiters',
                    lease[l].target = lease[w].target, lease[l].req = lease[w].req
             PROVE  lease[l].seq < lease[w].seq
  BY DEF OlderFirst
<1>1. holders \cap waiters = {}
  BY DEF IInv, Sound, ListsAgree
<1>2. RunsAdmission
  BY <1>1, NextMovesQueue DEF LeavesQueueAlone, StartsMaintenance
<1>3. PICK H, W, st, cl, F :
        /\ H \subseteq holders
        /\ Sound(lease', H, W, st, cl, F)
        /\ ScheduleAdmission(lease', H, W, st, cl, F)
        /\ \A k \in holders \cup waiters : lease'[k] = lease[k]
  BY <1>2 DEF RunsAdmission
<1>4. w \in W
  <2>1. H \cap W = {}
    BY <1>3 DEF Sound, ListsAgree
  <2>2. PICK P \in SUBSET W : Admission(lease', H, W, st, cl, F, P)
    BY <1>3, <2>1, AdmissionFacts
  <2> QED BY <2>2 DEF Admission
<1>5. lease'[l] = lease[l] /\ lease'[w] = lease[w]
  BY <1>3
<1>6. lease'[l].seq < lease'[w].seq
  BY <1>1, <1>3, <1>4, <1>5, AdmissionKeepsOrder
<1> QED BY <1>5, <1>6

(* A request that was preempted keeps its sequence number, and so resumes  *)
(* before newer requests of its target that were planned on the same view: *)
(* nobody overtakes one that differs from it only in its age.              *)
THEOREM PreemptedResumeFirst == Spec => ResumesFirst
<1>1. IInv /\ [Next]_vars => [OlderFirst]_vars
  BY NextKeepsOrder
<1>2. [][OlderFirst]_vars => ResumesFirst
  <2>1. [OlderFirst]_vars <=>
        [\A l \in waiters \cap holders', w \in waiters \cap waiters' :
           /\ lease[l].target = lease[w].target
           /\ lease[l].req = lease[w].req
           => lease[l].seq < lease[w].seq]_vars
    BY DEF OlderFirst
  <2> QED BY <2>1, PTL DEF ResumesFirst
<1> QED BY <1>1, <1>2, CoordinatorInvariant, PTL DEF Spec

-----------------------------------------------------------------------------
(* The barrier.  A held target is ready and busy for the planner, and the  *)
(* plan that admits unloads no busy peer: it makes room beside all of them. *)

LEMMA OverlayFacts ==
  ASSUME NEW req \in PlanRequests, NEW t \in Targets, NEW held
  PROVE  /\ OverlayHolders(req, t, held) \in PlanRequests
         /\ OverlayHolders(req, t, held).prot = req.prot
         /\ OverlayHolders(req, t, held).rt[t] = req.rt[t]
         /\ \A m \in Targets \cap held : m # t =>
              /\ OverlayHolders(req, t, held).rt[m].state = "ready"
              /\ OverlayHolders(req, t, held).rt[m].busy
<1> DEFINE row(m) == IF m \in held \ {t}
                     THEN [req.rt[m] EXCEPT !.state = "ready", !.busy = TRUE]
                     ELSE req.rt[m]
<1>1. OverlayHolders(req, t, held) = [req EXCEPT !.rt = [m \in Targets |-> row(m)]]
  BY DEF OverlayHolders
<1>2. \A m \in Targets : row(m) \in RuntimeView
  BY DEF PlanRequests, RuntimeView, ModelStates
<1>3. \A m \in Targets \cap held : m # t => row(m).state = "ready" /\ row(m).busy
  BY DEF PlanRequests, RuntimeView
<1>4. row(t) = req.rt[t]
  OBVIOUS
<1> HIDE DEF row
<1> QED BY <1>1, <1>2, <1>3, <1>4 DEF PlanRequests

(* The instance of a held target is a busy peer.                           *)
LEMMA HeldIsBusyPeer ==
  ASSUME NEW req \in PlanRequests, NEW t \in Targets, NEW m \in Targets,
         req.rt[m].state = "ready", req.rt[m].busy,
         InstanceOf[m] # InstanceOf[t], Domains(m) # {}
  PROVE  /\ InstanceOf[m] \in DOMAIN MemoryPeers(req, t)
         /\ MemoryPeers(req, t)[InstanceOf[m]].busy
<1> DEFINE i == InstanceOf[m]
<1>1. m \in Residents(req, t, i) /\ i \in Instances
  BY SchedulerAssumption DEF Residents, IsActive
<1>2. \E p \in Pools : Draw[i][p] > 0
  BY DEF Domains
<1>3. i \in DOMAIN MemoryPeers(req, t)
  BY <1>1, <1>2 DEF MemoryPeers
<1>4. IsPeerOf(req, Residents(req, t, i), MemoryPeers(req, t)[i])
  BY <1>3, PeerFacts
<1>5. MemoryPeers(req, t)[i].busy = (\E n \in Residents(req, t, i) : req.rt[n].busy)
  BY <1>4 DEF IsPeerOf
<1> QED BY <1>1, <1>3, <1>5

(* What the plan leaves resident: every busy peer stays, and with all that *)
(* stays there is room for the target.                                     *)
LEMMA PlanLeavesRoom ==
  ASSUME NEW req \in PlanRequests, NEW t \in Targets, ~FitsAsIs(req, t),
         PlanRequest(req, t, TRUE).ok, PlanRequest(req, t, TRUE).preempts = {}
  PROVE  \E K \in SUBSET DOMAIN MemoryPeers(req, t) :
           /\ Deficits(t, K) = {}
           /\ \A i \in DOMAIN MemoryPeers(req, t) : MemoryPeers(req, t)[i].busy => i \in K
<1> DEFINE peers == MemoryPeers(req, t)
           memory == EvictUntilFits(peers, t, req.prot, TRUE)
<1>1. PlanRequest(req, t, TRUE) = PlanFor(peers, memory)
  BY DEF PlanRequest, BlockedPlan, PlanWithPeers
<1>2. IsPeers(peers)
  BY PeersAre
<1> HIDE DEF peers
<1>3. IsEviction(peers, t, req.prot, TRUE, DOMAIN peers, memory)
  BY <1>2, EvictionFacts
<1> HIDE DEF memory
<1> DEFINE preempts == {peers[i].target : i \in {j \in memory.victims : peers[j].busy}}
<1>4. memory.ok /\ preempts = {}
  <2>1. memory.ok \in BOOLEAN
    BY <1>3 DEF IsEviction, Evictions
  <2> DEFINE thePlan == PlanRequest(req, t, TRUE)
  <2>2. /\ memory.ok => thePlan = [ok |-> TRUE, victims |-> memory.victims,
                                  preempts |-> preempts]
        /\ ~memory.ok => thePlan = [ok |-> FALSE, victims |-> {}, preempts |-> {}]
    BY <1>1 DEF PlanFor, BlockedPlan
  <2>3. thePlan.ok /\ thePlan.preempts = {}
    OBVIOUS
  <2> HIDE DEF preempts, thePlan
  <2>4. memory.ok
    BY <2>2, <2>3
  <2> QED BY <2>2, <2>3, <2>4
<1>5. Deficits(t, DOMAIN peers \ memory.victims) = {}
  BY <1>3, <1>4 DEF IsEviction
<1>6. \A i \in DOMAIN peers : peers[i].busy => i \in DOMAIN peers \ memory.victims
  BY <1>4
<1> QED BY <1>5, <1>6 DEF peers

(* Whoever is admitted without being resident fits beside the held ones.   *)
LEMMA AdmittedFits ==
  ASSUME NEW req \in PlanRequests, NEW t \in Targets, NEW held \in SUBSET Targets,
         NEW same, Decide(req, t, held, same).type = "admit", ~FitsAsIs(req, t),
         \A m \in held : Domains(m) # {}, NEW p \in Domains(t)
  PROVE  FreeFor(p, {InstanceOf[m] : m \in held} \cup {InstanceOf[t]}) >= 0
<1> DEFINE over == OverlayHolders(req, t, held)
           own == InstanceOf[t]
           others == {InstanceOf[m] : m \in held} \ {own}
<1>1. /\ over \in PlanRequests /\ over.rt[t] = req.rt[t]
      /\ \A m \in held : m # t => over.rt[m].state = "ready" /\ over.rt[m].busy
  BY OverlayFacts
<1> DEFINE thePlan == PlanRequest(over, t, TRUE)
<1>2. thePlan.ok /\ thePlan.preempts = {}
  <2>1. DecideOnPlan(thePlan, held).type = "admit"
    BY DEF Decide, Wait
  <2> HIDE DEF thePlan
  <2> QED BY <2>1 DEF DecideOnPlan, Preempt, Wait
<1> HIDE DEF over
<1>3. ~FitsAsIs(over, t)
  BY <1>1 DEF FitsAsIs, IsActive
<1>4. PICK K \in SUBSET DOMAIN MemoryPeers(over, t) :
        /\ Deficits(t, K) = {}
        /\ \A i \in DOMAIN MemoryPeers(over, t) : MemoryPeers(over, t)[i].busy => i \in K
  BY <1>1, <1>2, <1>3, PlanLeavesRoom
<1>5. K \in SUBSET Instances
  BY <1>1, PeersAre DEF IsPeers
<1>6. others \subseteq K
  <2> SUFFICES ASSUME NEW m \in held, InstanceOf[m] # own PROVE InstanceOf[m] \in K
    OBVIOUS
  <2>1. m # t /\ m \in Targets /\ Domains(m) # {}
    OBVIOUS
  <2> QED BY <1>1, <1>4, <2>1, HeldIsBusyPeer
<1>7. p \in Pools /\ Draw[own][p] > 0
  BY DEF Domains
<1>8. own \in Instances /\ Draw[own][p] \in Nat /\ Avail[p] \in Int
      /\ \A i \in Instances : DrawsOn(p)[i] = Draw[i][p] /\ DrawsOn(p)[i] \in Nat
  BY <1>7, SchedulerAssumption DEF DrawsOn
<1>9. others \in SUBSET Instances /\ own \notin others
  BY <1>5, <1>6
<1> HIDE DEF others, own
<1>10. /\ FreeFor(p, K) <= FreeFor(p, others)
       /\ FreeFor(p, K) \in Int /\ FreeFor(p, others) \in Int
  BY <1>5, <1>6, <1>7, <1>9, FreeForFewer
<1>11. Draw[own][p] <= FreeFor(p, K)
  BY <1>4, <1>7, <1>8, <1>10 DEF Deficits, own
<1>12. FreeFor(p, others \cup {own}) = FreeFor(p, others) - Draw[own][p]
  <2> DEFINE loaded == others \cup {own}
             f == DrawsOn(p)
  <2>1. IsFiniteSet(loaded) /\ IsFiniteSet(others)
    BY <1>8, <1>9, FS_Subset, SchedulerAssumption
  <2>2. \A i \in loaded : f[i] \in Nat
    BY <1>8, <1>9
  <2>3. own \in loaded /\ loaded \ {own} = others /\ f[own] = Draw[own][p]
    BY <1>8, <1>9
  <2>4. SumFunctionOnSet(f, others) \in Nat
    BY <2>1, <2>2, SumNat
  <2> HIDE DEF loaded, f
  <2>5. SumFunctionOnSet(f, loaded) = f[own] + SumFunctionOnSet(f, loaded \ {own})
    BY <2>1, <2>2, <2>3, SumRemove
  <2>6. SumFunctionOnSet(f, loaded) = Draw[own][p] + SumFunctionOnSet(f, others)
    BY <2>3, <2>5
  <2>7. Avail[p] - SumFunctionOnSet(f, loaded)
          = (Avail[p] - SumFunctionOnSet(f, others)) - Draw[own][p]
    BY <1>8, <2>4, <2>6
  <2> QED BY <2>7 DEF FreeFor, f, loaded
<1> DEFINE loaded == {InstanceOf[m] : m \in held} \cup {InstanceOf[t]}
<1>13. loaded = others \cup {own}
  BY DEF others, own
<1> HIDE DEF loaded
<1>14. FreeFor(p, loaded) >= 0
  BY <1>8, <1>10, <1>11, <1>12, <1>13
<1> QED BY <1>14 DEF loaded

(* The loop promotes nobody who would not fit beside those who held before *)
(* it and are still there.                                                 *)
LEMMA AdmissionKeepsBarrier ==
  ASSUME NEW H, NEW W, NEW st, NEW cl, NEW F,
         Sound(lease', H, W, st, cl, F), ScheduleAdmission(lease', H, W, st, cl, F),
         NEW l \in holders' \ H, NEW S \in SUBSET H,
         ~FitsAsIs(lease'[l].req, lease'[l].target), NEW p \in lease'[l].domains
  PROVE  FreeFor(p, {InstanceOf[lease'[k].target] :
                       k \in OnDomainsOf(lease', l, S) \cup {l}}) >= 0
<1>1. /\ Typed(lease', st, cl, F) /\ ListsAgree(st, H, W)
      /\ \A k \in Leases : LeaseShape(lease', st, cl, F, k)
  BY DEF Sound
<1>2. H \in SUBSET Leases /\ W \in SUBSET Leases /\ H \cap W = {}
  BY <1>1 DEF ListsAgree
<1>3. PICK P \in SUBSET W : Admission(lease', H, W, st, cl, F, P)
  BY <1>2, AdmissionFacts
<1>4. l \in P /\ AdmittedLast(lease', H, P, {l})
  BY <1>3 DEF Admission
<1>5. PICK G \in SUBSET (H \cup P) :
        H \subseteq G /\ DecisionFor(lease', l, G).type = "admit"
  BY <1>4 DEF AdmittedLast
<1> DEFINE on == OnDomainsOf(lease', l, G)
           t == lease'[l].target
           req == lease'[l].req
           held == {lease'[k].target : k \in on}
           same == Cardinality({k \in on : lease'[k].target = t})
<1>6. /\ t \in Targets /\ req \in PlanRequests /\ lease'[l].domains = Domains(t)
  BY <1>1, <1>2, <1>4 DEF ListsAgree, LeaseShape
<1>7. (\A k \in on : lease'[k].target # Maintenance) /\ Decide(req, t, held, same).type = "admit"
  BY <1>5 DEF DecisionFor, DecisionBeside, Wait
<1>8. \A k \in on : lease'[k].target \in Targets /\ Domains(lease'[k].target) # {}
  <2> SUFFICES ASSUME NEW k \in on
               PROVE  lease'[k].target \in Targets /\ Domains(lease'[k].target) # {}
    OBVIOUS
  <2>1. k \in Leases /\ st[k] \in {"holding", "waiting", "suspended"}
    BY <1>1, <1>2, <1>3, <1>5 DEF ListsAgree, OnDomainsOf
  <2>2. lease'[k].target \in Targets
    <3>1. lease'[k].target # None
      BY <1>1, <2>1 DEF LeaseShape
    <3> QED BY <1>1, <1>7, <2>1, <3>1 DEF Typed, LeaseData
  <2> QED BY <1>1, <2>1, <2>2 DEF LeaseShape
<1> HIDE DEF on, same, req, t
<1>9. held \in SUBSET Targets /\ \A m \in held : Domains(m) # {}
  BY <1>8
<1> DEFINE all == {InstanceOf[m] : m \in held} \cup {InstanceOf[t]}
           some == {InstanceOf[lease'[k].target] : k \in OnDomainsOf(lease', l, S) \cup {l}}
<1> HIDE DEF held
<1>10. FreeFor(p, all) >= 0
  BY <1>6, <1>7, <1>9, AdmittedFits DEF t, req
<1>11. some \subseteq all /\ all \in SUBSET Instances
  <2>1. OnDomainsOf(lease', l, S) \subseteq on
    BY <1>5 DEF OnDomainsOf, on
  <2>2. some \subseteq all
    BY <2>1 DEF held, t
  <2>3. all \in SUBSET Instances
    BY <1>6, <1>9, SchedulerAssumption
  <2> QED BY <2>2, <2>3
<1>12. p \in Pools
  BY <1>6 DEF Domains
<1> HIDE DEF all, some
<1>13. FreeFor(p, all) <= FreeFor(p, some) /\ FreeFor(p, all) \in Int /\ FreeFor(p, some) \in Int
  BY <1>11, <1>12, FreeForFewer
<1>14. FreeFor(p, some) >= 0
  BY <1>10, <1>13
<1> QED BY <1>14 DEF some

(* The step of SwapBarrier.                                                *)
RoomIsLeft ==
  \A l \in holders' \ holders :
    lease'[l].target \in Targets /\ ~FitsAsIs(lease'[l].req, lease'[l].target) =>
      LET going == {h \in holders \cap holders' : yields'[h] = yields[h]}
          beside == OnDomainsOf(lease', l, going)
          loaded == {InstanceOf[lease'[k].target] : k \in beside \cup {l}}
      IN  \A p \in lease'[l].domains : FreeFor(p, loaded) >= 0

LEMMA NextLeavesRoom == IInv /\ [Next]_vars => RoomIsLeft
<1> SUFFICES ASSUME IInv, [Next]_vars, NEW l \in holders' \ holders,
                    lease'[l].target \in Targets,
                    ~FitsAsIs(lease'[l].req, lease'[l].target), NEW p \in lease'[l].domains
             PROVE  LET going == {h \in holders \cap holders' : yields'[h] = yields[h]}
                    IN  FreeFor(p, {InstanceOf[lease'[k].target] :
                              k \in OnDomainsOf(lease', l, going) \cup {l}}) >= 0
  BY DEF RoomIsLeft
<1> DEFINE going == {h \in holders \cap holders' : yields'[h] = yields[h]}
<1>1. RunsAdmission
  BY NextMovesQueue, CoordinatorAssumption DEF LeavesQueueAlone, StartsMaintenance
<1>2. PICK H, W, st, cl, F :
        /\ H \subseteq holders
        /\ Sound(lease', H, W, st, cl, F)
        /\ ScheduleAdmission(lease', H, W, st, cl, F)
        /\ \A k \in holders \cup waiters : lease'[k] = lease[k]
        /\ \A k \in holders \ H : k \in holders' => yields'[k] # yields[k]
  BY <1>1 DEF RunsAdmission
<1>3. going \in SUBSET H /\ l \in holders' \ H
  BY <1>2
<1> HIDE DEF going
<1>4. FreeFor(p, {InstanceOf[lease'[k].target] :
                    k \in OnDomainsOf(lease', l, going) \cup {l}}) >= 0
  BY <1>2, <1>3, AdmissionKeepsBarrier
<1> QED BY <1>4 DEF going

(* Whoever was not resident when it was planned is admitted only where it  *)
(* fits beside all that goes on running on its domains: for any draws,     *)
(* budgets and priorities, and however stale the view it was planned on.   *)
THEOREM BarrierHolds == Spec => SwapBarrier
<1>1. IInv /\ [Next]_vars => [RoomIsLeft]_vars
  BY NextLeavesRoom
<1>2. [][RoomIsLeft]_vars => SwapBarrier
  <2>1. [RoomIsLeft]_vars <=>
        [\A l \in holders' \ holders :
           lease'[l].target \in Targets /\ ~FitsAsIs(lease'[l].req, lease'[l].target) =>
             LET going == {h \in holders \cap holders' : yields'[h] = yields[h]}
                 beside == OnDomainsOf(lease', l, going)
                 loaded == {InstanceOf[lease'[k].target] : k \in beside \cup {l}}
             IN  \A p \in lease'[l].domains : FreeFor(p, loaded) >= 0]_vars
    BY DEF RoomIsLeft
  <2> QED BY <2>1, PTL DEF SwapBarrier
<1> QED BY <1>1, <1>2, CoordinatorInvariant, PTL DEF Spec

-----------------------------------------------------------------------------
(* The swap lock: exclusive, first come first served per domain and free   *)
(* of deadlock, for every set of domains in any order of their names.      *)

LEMMA LeastKeyIsLeast ==
  ASSUME NEW S \in SUBSET DomainKeys, S # {}, NEW list
  PROVE  /\ LeastKey(S, list) \in S
         /\ \A m \in S : Rank[LeastKey(S, list)] <= Rank[m]
<1> DEFINE R == {Rank[k] : k \in S}
<1>1. R \in SUBSET Nat /\ R # {}
  BY SwapAssumption
<1>2. PICK x \in R : \A y \in R : x <= y
  BY <1>1, LeastNat
<1>3. \E k \in S : \A m \in S : Rank[k] <= Rank[m]
  BY <1>2
<1>4. QED
  BY <1>3 DEF LeastKey

-----------------------------------------------------------------------------
(* The inductive invariant.  A call has joined the chains of an initial    *)
(* part of its sorted keys and awaits the last of them; the tickets on a   *)
(* domain are 1..tails[k], one owner each, and a promise is resolved       *)
(* exactly when its owner is done.                                         *)

Progress(c) ==
  /\ stage[c] = "idle" => joined[c] = {}
  /\ stage[c] # "idle" =>
       /\ domains[c] \in DomainLists
       /\ joined[c] \subseteq Keys(c)
       /\ awaits[c] \in joined[c]
       /\ \A k \in joined[c] : Rank[k] <= Rank[awaits[c]]
       /\ \A k \in Keys(c) \ joined[c] : Rank[awaits[c]] < Rank[k]
  /\ stage[c] \in {"running", "done"} => joined[c] = Keys(c)

Tickets(k) ==
  /\ \A c \in Calls : ticket[c][k] \in 0..tails[k] /\ (k \in joined[c] <=> ticket[c][k] > 0)
  /\ \A c, d \in Calls : k \in joined[c] /\ ticket[c][k] = ticket[d][k] => c = d
  /\ \A n \in 1..tails[k] : \E c \in Calls : ticket[c][k] = n
  /\ \A c \in Calls : k \in joined[c] => (ticket[c][k] \in resolved[k] <=> stage[c] = "done")

SwapIInv ==
  /\ SwapTypeOK
  /\ \A c \in Calls : Progress(c)
  /\ \A k \in DomainKeys : Tickets(k)
  /\ InOrder

LEMMA SwapInitIInv == SwapInit => SwapIInv
  BY SwapAssumption DEF SwapInit, SwapIInv, SwapTypeOK, Progress, Tickets, InOrder, Passed

(* What both actions that join a chain share.                              *)
LEMMA JoinFacts ==
  ASSUME SwapIInv, NEW c \in Calls, NEW k \in DomainKeys, k \notin joined[c], Join(c, k)
  PROVE  /\ joined' \in [Calls -> SUBSET DomainKeys]
         /\ awaits' \in [Calls -> DomainKeys \cup {NoKey}]
         /\ ticket' \in [Calls -> [DomainKeys -> Nat]]
         /\ tails' \in [DomainKeys -> Nat]
         /\ joined'[c] = joined[c] \cup {k} /\ awaits'[c] = k
         /\ ticket'[c][k] = tails[k] + 1 /\ tails'[k] = tails[k] + 1
         /\ \A d \in Calls \ {c} : /\ joined'[d] = joined[d]
                                   /\ awaits'[d] = awaits[d]
                                   /\ ticket'[d] = ticket[d]
         /\ \A m \in DomainKeys \ {k} : tails'[m] = tails[m] /\ ticket'[c][m] = ticket[c][m]
  BY DEF SwapIInv, SwapTypeOK, Join

LEMMA JoinResolved ==
  ASSUME SwapIInv, NEW c \in Calls, NEW k \in DomainKeys, k \notin joined[c], Join(c, k),
         UNCHANGED resolved
  PROVE  \A m \in DomainKeys : resolved'[m] \subseteq 1..tails'[m]
<1>1. \A m \in DomainKeys : tails[m] \in Nat /\ resolved[m] \subseteq 1..tails[m]
  BY DEF SwapIInv, SwapTypeOK
<1>2. \A m \in DomainKeys : tails'[m] \in Nat /\ tails'[m] >= tails[m]
  BY <1>1, JoinFacts
<1>3. QED
  BY <1>1, <1>2

LEMMA JoinTickets ==
  ASSUME SwapIInv, NEW c \in Calls, NEW k \in DomainKeys, k \notin joined[c], Join(c, k),
         UNCHANGED resolved, stage[c] # "done", stage'[c] # "done",
         \A d \in Calls \ {c} : stage'[d] = stage[d]
  PROVE  \A m \in DomainKeys : Tickets(m)'
<1>1. ASSUME NEW m \in DomainKeys, m # k
      PROVE  Tickets(m)'
  <2>1. Tickets(m) /\ tails'[m] = tails[m] /\ resolved'[m] = resolved[m]
    BY <1>1, JoinFacts DEF SwapIInv
  <2>2. \A d \in Calls : /\ ticket'[d][m] = ticket[d][m]
                         /\ m \in joined'[d] <=> m \in joined[d]
                         /\ stage'[d] = "done" <=> stage[d] = "done"
    BY <1>1, JoinFacts
  <2>3. QED
    BY <2>1, <2>2 DEF Tickets
<1>2. Tickets(k)'
  <2>1. Tickets(k) /\ tails[k] \in Nat /\ tails'[k] = tails[k] + 1
        /\ resolved'[k] \subseteq 1..tails[k] /\ resolved'[k] = resolved[k]
    BY JoinFacts DEF SwapIInv, SwapTypeOK
  <2>2. ticket'[c][k] = tails[k] + 1 /\ k \in joined'[c]
    BY JoinFacts
  <2>3. \A d \in Calls \ {c} : /\ ticket'[d][k] = ticket[d][k]
                               /\ ticket[d][k] \in 0..tails[k]
                               /\ k \in joined'[d] <=> k \in joined[d]
    BY <2>1, JoinFacts DEF Tickets
  <2>4. \A d \in Calls : /\ ticket'[d][k] \in 0..tails'[k]
                         /\ k \in joined'[d] <=> ticket'[d][k] > 0
    BY <2>1, <2>2, <2>3 DEF Tickets
  <2>5. \A d, e \in Calls : k \in joined'[d] /\ ticket'[d][k] = ticket'[e][k] => d = e
    BY <2>1, <2>2, <2>3 DEF Tickets
  <2>6. ASSUME NEW n \in 1..tails'[k]
        PROVE  \E d \in Calls : ticket'[d][k] = n
    <3>1. CASE n = tails[k] + 1
      BY <3>1, <2>2
    <3>2. CASE n # tails[k] + 1
      <4>1. n \in 1..tails[k]
        BY <3>2, <2>1
      <4>2. PICK d \in Calls : ticket[d][k] = n
        BY <4>1, <2>1 DEF Tickets
      <4>3. ticket[c][k] = 0
        BY <2>1 DEF Tickets, SwapIInv, SwapTypeOK
      <4>4. d # c
        BY <4>1, <4>2, <4>3
      <4>5. QED
        BY <4>2, <4>4, <2>3
    <3>3. QED
      BY <3>1, <3>2
  <2>7. \A d \in Calls : k \in joined'[d] =>
          (ticket'[d][k] \in resolved'[k] <=> stage'[d] = "done")
    BY <2>1, <2>2, <2>3 DEF Tickets
  <2>8. QED
    BY <2>4, <2>5, <2>6, <2>7 DEF Tickets
<1>3. QED
  BY <1>1, <1>2

(* A call whose awaited promise is resolved comes after finished calls only. *)
LEMMA PriorDone ==
  ASSUME SwapIInv, NEW d \in Calls, CanProceed(d), NEW c \in Calls,
         awaits[d] \in joined[c], ticket[c][awaits[d]] < ticket[d][awaits[d]]
  PROVE  stage[c] = "done"
<1> DEFINE k == awaits[d]
<1>1. k \in joined[d] /\ k \in DomainKeys /\ stage[d] = "queueing"
  BY DEF SwapIInv, SwapTypeOK, Progress, CanProceed
<1>2. /\ Tickets(k) /\ InOrder
      /\ ticket[c][k] \in Nat /\ ticket[c][k] > 0
      /\ ticket[d][k] \in Nat /\ ticket[d][k] > 0
      /\ tails[k] \in Nat
  BY <1>1 DEF SwapIInv, SwapTypeOK, Tickets
<1>3. ticket[d][k] - 1 \in resolved[k] /\ ticket[d][k] - 1 \in 1..tails[k]
  BY <1>1, <1>2 DEF CanProceed, IsResolved, Prior, Tickets
<1>4. PICK e \in Calls : ticket[e][k] = ticket[d][k] - 1
  BY <1>2, <1>3 DEF Tickets
<1>5. k \in joined[e] /\ stage[e] = "done"
  BY <1>1, <1>2, <1>3, <1>4 DEF Tickets
<1>6. CASE ticket[c][k] = ticket[e][k]
  BY <1>1, <1>2, <1>5, <1>6 DEF Tickets
<1>7. CASE ticket[c][k] < ticket[e][k]
  BY <1>1, <1>2, <1>5, <1>7 DEF InOrder, Passed
<1>8. QED
  BY <1>2, <1>4, <1>6, <1>7

-----------------------------------------------------------------------------
(* Each action preserves the invariant.                                    *)

LEMMA RunStep ==
  ASSUME SwapIInv, NEW c \in Calls, NEW list \in DomainLists, Run(c, list)
  PROVE  SwapIInv'
<1> DEFINE k == LeastKey(Range(list), list)
<1>1. /\ Range(list) \in SUBSET DomainKeys /\ Range(list) # {} /\ list \in Seq(DomainKeys)
  <2>1. list \in Seq(DomainKeys) /\ list # <<>>
    BY SwapAssumption
  <2>2. 1 \in DOMAIN list
    BY <2>1
  <2>3. QED
    BY <2>1, <2>2 DEF Range
<1>2. k \in Range(list) /\ k \in DomainKeys /\ \A m \in Range(list) : Rank[k] <= Rank[m]
  BY <1>1, LeastKeyIsLeast
<1>3. /\ stage[c] = "idle" /\ joined[c] = {}
      /\ stage' = [stage EXCEPT ![c] = "queueing"]
      /\ domains' = [domains EXCEPT ![c] = list]
      /\ Join(c, k) /\ UNCHANGED resolved
  BY DEF SwapIInv, Progress, Run
<1> HIDE DEF k
<1>4. stage'[c] = "queueing" /\ domains'[c] = list /\ joined'[c] = {k} /\ awaits'[c] = k
  BY <1>2, <1>3, JoinFacts DEF SwapIInv, SwapTypeOK
<1> DEFINE Frame(d) == /\ stage'[d] = stage[d] /\ domains'[d] = domains[d]
                       /\ joined'[d] = joined[d] /\ awaits'[d] = awaits[d]
                       /\ ticket'[d] = ticket[d]
<1>f. \A d \in Calls \ {c} : Frame(d)
  <2>1. \A d \in Calls \ {c} : joined'[d] = joined[d] /\ awaits'[d] = awaits[d]
                                 /\ ticket'[d] = ticket[d]
    BY <1>2, <1>3, JoinFacts
  <2>2. \A d \in Calls \ {c} : stage'[d] = stage[d] /\ domains'[d] = domains[d]
    BY <1>3 DEF SwapIInv, SwapTypeOK
  <2>3. QED
    BY <2>1, <2>2
<1>5. SwapTypeOK'
  <2>1. \A m \in DomainKeys : resolved'[m] \subseteq 1..tails'[m]
    BY <1>2, <1>3, JoinResolved
  <2>2. QED
    BY <1>1, <1>2, <1>3, <2>1, JoinFacts DEF SwapIInv, SwapTypeOK
<1>6. ASSUME NEW d \in Calls
      PROVE  Progress(d)'
  <2>1. CASE d = c
    <3>1. \A m \in Range(list) \ {k} : Rank[k] < Rank[m]
      BY <1>1, <1>2, SwapAssumption
    <3>2. QED
      BY <1>2, <1>4, <2>1, <3>1, SwapAssumption DEF Progress, Keys
  <2>2. CASE d # c
    <3>1. /\ stage'[d] = stage[d] /\ domains'[d] = domains[d]
          /\ joined'[d] = joined[d] /\ awaits'[d] = awaits[d]
      BY <1>f, <2>2
    <3>2. QED
      BY <3>1 DEF SwapIInv, Progress, Keys
  <2>3. QED
    BY <2>1, <2>2
<1>7. \A m \in DomainKeys : Tickets(m)'
  <2>1. \A d \in Calls \ {c} : stage'[d] = stage[d]
    BY <1>3 DEF SwapIInv, SwapTypeOK
  <2>2. QED
    BY <1>2, <1>3, <1>4, <2>1, JoinTickets
<1>8. InOrder'
  <2>1. SUFFICES ASSUME NEW b \in Calls, NEW d \in Calls, NEW m \in DomainKeys,
                        m \in joined'[b], Passed(d, m)', ticket'[b][m] < ticket'[d][m]
                 PROVE  stage'[b] = "done"
    BY DEF InOrder
  <2>2. d # c
    BY <1>4, <2>1 DEF Passed
  <2>3. Passed(d, m) /\ ticket'[d][m] = ticket[d][m] /\ ticket[d][m] \in 0..tails[m]
    <3>1. ticket[d][m] \in 0..tails[m]
      BY DEF SwapIInv, Tickets
    <3>2. QED
      BY <1>f, <2>1, <2>2, <3>1 DEF Passed
  <2>4. b # c
    <3>1. joined'[c] = {k}
      BY <1>4
    <3>2. ticket'[c][k] = tails[k] + 1
      BY <1>2, <1>3, JoinFacts
    <3>3. tails[k] \in Nat
      BY <1>2 DEF SwapIInv, SwapTypeOK
    <3>4. QED
      BY <2>1, <2>3, <3>1, <3>2, <3>3
  <2>5. m \in joined[b] /\ ticket'[b][m] = ticket[b][m] /\ stage'[b] = stage[b]
    BY <1>f, <2>1, <2>4
  <2>6. QED
    BY <2>1, <2>3, <2>5 DEF SwapIInv, InOrder
<1>9. QED
  BY <1>5, <1>6, <1>7, <1>8 DEF SwapIInv

LEMMA ProceedStep ==
  ASSUME SwapIInv, NEW c \in Calls, Proceed(c)
  PROVE  SwapIInv'
<1>1. /\ CanProceed(c) /\ stage[c] = "queueing" /\ Progress(c)
      /\ awaits[c] \in joined[c] /\ awaits[c] \in DomainKeys
      /\ domains[c] \in Seq(DomainKeys) /\ Keys(c) \subseteq DomainKeys
      /\ UNCHANGED <<domains, resolved>>
  <2>1. /\ CanProceed(c) /\ stage[c] = "queueing" /\ Progress(c)
        /\ UNCHANGED <<domains, resolved>>
    BY DEF SwapIInv, Proceed, CanProceed
  <2>2. domains[c] \in Seq(DomainKeys)
    BY DEF SwapIInv, SwapTypeOK
  <2>3. Keys(c) \subseteq DomainKeys
    BY <2>2 DEF Keys, Range
  <2>4. awaits[c] \in joined[c] /\ joined[c] \subseteq Keys(c)
    BY <2>1 DEF Progress
  <2>5. QED
    BY <2>1, <2>2, <2>3, <2>4
(* The key that c leaves behind, and those before it.                      *)
<1>2. \A b \in Calls, m \in joined[c] :
        m \in joined[b] /\ ticket[b][m] < ticket[c][m] => stage[b] = "done"
  <2>1. SUFFICES ASSUME NEW b \in Calls, NEW m \in joined[c],
                        m \in joined[b], ticket[b][m] < ticket[c][m]
                 PROVE  stage[b] = "done"
    OBVIOUS
  <2>2. CASE m = awaits[c]
    BY <1>1, <2>1, <2>2, PriorDone
  <2>3. CASE m # awaits[c]
    BY <1>1, <2>1, <2>3 DEF SwapIInv, SwapTypeOK, InOrder, Passed
  <2>4. QED
    BY <2>2, <2>3
<1>3. CASE joined[c] = Keys(c)
  <2>1. /\ stage' = [stage EXCEPT ![c] = "running"]
        /\ UNCHANGED <<joined, awaits, ticket, tails>>
    BY <1>3 DEF Proceed
  <2>2. SwapTypeOK'
    BY <1>1, <2>1 DEF SwapIInv, SwapTypeOK
  <2>3. \A d \in Calls : Progress(d)'
    BY <1>1, <1>3, <2>1 DEF SwapIInv, SwapTypeOK, Progress, Keys
  <2>4. \A m \in DomainKeys : Tickets(m)'
    BY <1>1, <2>1 DEF SwapIInv, SwapTypeOK, Tickets
  <2>5. InOrder'
    BY <1>1, <1>2, <2>1 DEF SwapIInv, SwapTypeOK, InOrder, Passed
  <2>6. QED
    BY <2>2, <2>3, <2>4, <2>5 DEF SwapIInv
<1>4. CASE joined[c] # Keys(c)
  <2> DEFINE S == Keys(c) \ joined[c]
             k == LeastKey(S, domains[c])
  <2>1. S \in SUBSET DomainKeys /\ S # {}
    BY <1>1, <1>4 DEF Progress
  <2>2. /\ k \in S /\ k \in DomainKeys /\ k \notin joined[c] /\ k \in Keys(c)
        /\ \A m \in S : Rank[k] <= Rank[m]
    <3>1. k \in S /\ \A m \in S : Rank[k] <= Rank[m]
      BY <2>1, LeastKeyIsLeast
    <3>2. QED
      BY <2>1, <3>1
  <2>3. Join(c, k) /\ UNCHANGED stage
    BY <1>4 DEF Proceed
  <2> HIDE DEF S, k
  <2>4. joined'[c] = joined[c] \cup {k} /\ awaits'[c] = k
    BY <2>2, <2>3, JoinFacts
  <2>5. SwapTypeOK'
    <3>1. \A m \in DomainKeys : resolved'[m] \subseteq 1..tails'[m]
      BY <1>1, <2>2, <2>3, JoinResolved
    <3>2. QED
      BY <1>1, <2>2, <2>3, <3>1, JoinFacts DEF SwapIInv, SwapTypeOK
  <2>6. ASSUME NEW d \in Calls
        PROVE  Progress(d)'
    <3>1. CASE d = c
      <4>1. \A m \in joined[c] : Rank[m] <= Rank[k]
        <5>1. Rank[awaits[c]] < Rank[k]
          BY <1>1, <2>2 DEF Progress
        <5>2. \A m \in joined[c] : Rank[m] <= Rank[awaits[c]] /\ m \in DomainKeys
          BY <1>1 DEF Progress
        <5>3. QED
          BY <1>1, <2>2, <5>1, <5>2, SwapAssumption
      <4>2. \A m \in Keys(c) \ (joined[c] \cup {k}) : Rank[k] < Rank[m]
        BY <1>1, <2>2, SwapAssumption DEF S
      <4>3. joined[c] \cup {k} \subseteq Keys(c) /\ domains[c] \in DomainLists
        BY <1>1, <2>2 DEF Progress
      <4>4. Rank[k] <= Rank[k]
        BY <2>2, SwapAssumption
      <4>5. QED
        BY <1>1, <2>3, <2>4, <3>1, <4>1, <4>2, <4>3, <4>4 DEF Progress, Keys
    <3>2. CASE d # c
      <4>1. joined'[d] = joined[d] /\ awaits'[d] = awaits[d]
        BY <2>2, <2>3, <3>2, JoinFacts
      <4>2. stage'[d] = stage[d] /\ domains'[d] = domains[d]
        BY <1>1, <2>3
      <4>3. QED
        BY <4>1, <4>2 DEF SwapIInv, Progress, Keys
    <3>3. QED
      BY <3>1, <3>2
  <2>7. \A m \in DomainKeys : Tickets(m)'
    BY <1>1, <2>2, <2>3, JoinTickets
  <2>8. InOrder'
    <3>1. SUFFICES ASSUME NEW b \in Calls, NEW d \in Calls, NEW m \in DomainKeys,
                          m \in joined'[b], Passed(d, m)', ticket'[b][m] < ticket'[d][m]
                   PROVE  stage'[b] = "done"
      BY DEF InOrder
    <3>2. ticket'[d][m] = ticket[d][m] /\ m \in joined[d] /\ (d # c => Passed(d, m))
      BY <1>1, <2>2, <2>3, <2>4, <3>1, JoinFacts, SMTT(30) DEF Passed
    <3>3. ticket[d][m] \in 0..tails[m] /\ tails[m] \in Nat
      BY DEF SwapIInv, SwapTypeOK, Tickets
    <3>4. m \in joined[b] /\ ticket'[b][m] = ticket[b][m]
      BY <2>2, <2>3, <2>4, <3>1, <3>2, <3>3, JoinFacts
    <3>5. CASE d = c
      BY <1>2, <2>3, <3>1, <3>2, <3>4, <3>5
    <3>6. CASE d # c
      BY <2>3, <3>1, <3>2, <3>4, <3>6 DEF SwapIInv, InOrder
    <3>7. QED
      BY <3>5, <3>6
  <2>9. QED
    BY <2>5, <2>6, <2>7, <2>8 DEF SwapIInv
<1>5. QED
  BY <1>3, <1>4

LEMMA FinishStep ==
  ASSUME SwapIInv, NEW c \in Calls, Finish(c)
  PROVE  SwapIInv'
<1>1. /\ stage[c] = "running" /\ stage' = [stage EXCEPT ![c] = "done"]
      /\ \A k \in DomainKeys : resolved'[k] =
           IF k \in Keys(c) THEN resolved[k] \cup {ticket[c][k]} ELSE resolved[k]
      /\ DOMAIN resolved' = DomainKeys
      /\ UNCHANGED <<domains, joined, awaits, ticket, tails>>
      /\ joined[c] = Keys(c)
  BY DEF SwapIInv, Progress, Finish
<1>2. ASSUME NEW k \in DomainKeys
      PROVE  resolved'[k] \subseteq 1..tails'[k]
  <2>1. resolved[k] \subseteq 1..tails[k] /\ tails'[k] = tails[k] /\ tails[k] \in Nat
    BY <1>1 DEF SwapIInv, SwapTypeOK
  <2>2. k \in Keys(c) => ticket[c][k] \in 1..tails[k]
    BY <1>1, <2>1 DEF SwapIInv, Tickets
  <2>3. QED
    BY <1>1, <2>1, <2>2
<1>3. SwapTypeOK'
  <2>1. resolved' \in [DomainKeys -> SUBSET Nat]
    BY <1>2 DEF SwapIInv, SwapTypeOK, Finish
  <2>2. QED
    BY <1>1, <1>2, <2>1 DEF SwapIInv, SwapTypeOK
<1>4. \A d \in Calls : Progress(d)'
  BY <1>1 DEF SwapIInv, SwapTypeOK, Progress, Keys
<1>5. \A k \in DomainKeys : Tickets(k)'
  BY <1>1 DEF SwapIInv, SwapTypeOK, Tickets
<1>6. InOrder'
  BY <1>1 DEF SwapIInv, SwapTypeOK, InOrder, Passed
<1>7. QED
  BY <1>3, <1>4, <1>5, <1>6 DEF SwapIInv

LEMMA StutterStep ==
  ASSUME SwapIInv, UNCHANGED swapVars
  PROVE  SwapIInv'
BY DEF SwapIInv, swapVars, SwapTypeOK, Progress, Keys, Tickets, InOrder, Passed

THEOREM SwapInvariant == SwapSpec => []SwapIInv
<1>1. SwapIInv /\ [SwapNext]_swapVars => SwapIInv'
  <2>1. SUFFICES ASSUME SwapIInv, [SwapNext]_swapVars
                 PROVE  SwapIInv'
    OBVIOUS
  <2>2. CASE UNCHANGED swapVars
    BY <2>1, <2>2, StutterStep
  <2>3. ASSUME NEW c \in Calls, NEW list \in DomainLists, Run(c, list)
        PROVE  SwapIInv'
    BY <2>1, <2>3, RunStep
  <2>4. ASSUME NEW c \in Calls, Proceed(c)
        PROVE  SwapIInv'
    BY <2>1, <2>4, ProceedStep
  <2>5. ASSUME NEW c \in Calls, Finish(c)
        PROVE  SwapIInv'
    BY <2>1, <2>5, FinishStep
  <2>6. QED
    BY <2>1, <2>2, <2>3, <2>4, <2>5 DEF SwapNext
<1>2. QED
  BY SwapInitIInv, <1>1, PTL DEF SwapSpec

-----------------------------------------------------------------------------
(* The theorems.                                                           *)

(* In every reachable state the variables have their types and only        *)
(* promises that were made are resolved.                                   *)
THEOREM SwapTypeCorrect == SwapSpec => []SwapTypeOK
<1>1. SwapIInv => SwapTypeOK
  BY DEF SwapIInv
<1>2. QED
  BY SwapInvariant, <1>1, PTL

(* The chains of promises of DomainSwapCoordinator are first come, first   *)
(* served on every domain.                                                 *)
THEOREM FirstComeFirstServed == SwapSpec => []InOrder
<1>1. SwapIInv => InOrder
  BY DEF SwapIInv
<1>2. QED
  BY SwapInvariant, <1>1, PTL

(* Sorting the keys rules out a circular wait.  Of the queueing calls take *)
(* one that awaits the greatest key, and of the calls that hold up that    *)
(* key the one with the least ticket.                                      *)
LEMMA LastKey ==
  ASSUME SwapIInv, NEW Q \in SUBSET Calls, Q # {}, \A c \in Q : stage[c] = "queueing"
  PROVE  \E c \in Q : \A d \in Q : Rank[awaits[d]] <= Rank[awaits[c]]
<1> DEFINE N == Cardinality(DomainKeys)
           R == {N - Rank[awaits[c]] : c \in Q}
<1>1. N \in Nat
  BY SwapAssumption, FS_CardinalityType
<1>2. \A c \in Q : awaits[c] \in DomainKeys /\ Rank[awaits[c]] \in 1..N
  <2>1. \A c \in Q : awaits[c] \in DomainKeys
    BY DEF SwapIInv, SwapTypeOK, Progress
  <2>2. QED
    BY <2>1, SwapAssumption
<1>3. R \in SUBSET Nat /\ R # {}
  BY <1>1, <1>2
<1>4. PICK x \in R : \A y \in R : x <= y
  BY <1>3, LeastNat
<1>5. PICK c \in Q : x = N - Rank[awaits[c]]
  BY <1>4
<1>6. \A d \in Q : N - Rank[awaits[c]] <= N - Rank[awaits[d]]
  BY <1>4, <1>5
<1>7. QED
  BY <1>1, <1>2, <1>6

LEMMA FirstInLine ==
  ASSUME SwapIInv, NEW k \in DomainKeys, NEW Q \in SUBSET Calls, Q # {}
  PROVE  \E c \in Q : \A d \in Q : ticket[c][k] <= ticket[d][k]
<1> DEFINE T == {ticket[c][k] : c \in Q}
<1>1. T \in SUBSET Nat /\ T # {}
  BY DEF SwapIInv, SwapTypeOK
<1>2. PICK x \in T : \A y \in T : x <= y
  BY <1>1, LeastNat
<1>3. QED
  BY <1>2

LEMMA NotStuck == SwapIInv => NoStuckCall
<1> SUFFICES ASSUME SwapIInv, NEW q \in Calls, stage[q] = "queueing",
                    \A c \in Calls : stage[c] # "running"
             PROVE  \E c \in Calls : CanProceed(c)
  BY DEF NoStuckCall
<1> DEFINE Queueing == {c \in Calls : stage[c] = "queueing"}
<1>1. PICK z \in Queueing : \A d \in Queueing : Rank[awaits[d]] <= Rank[awaits[z]]
  BY LastKey
<1> DEFINE k == awaits[z]
           Line == {c \in Queueing : awaits[c] = k}
<1>2. k \in DomainKeys /\ z \in Line
  BY <1>1 DEF SwapIInv, SwapTypeOK, Progress
<1> HIDE DEF k
<1>3. PICK c \in Line : \A d \in Line : ticket[c][k] <= ticket[d][k]
  BY <1>2, FirstInLine
<1>4. /\ c \in Calls /\ stage[c] = "queueing" /\ awaits[c] = k /\ k \in joined[c]
      /\ Tickets(k) /\ tails[k] \in Nat
  BY <1>2, <1>3 DEF SwapIInv, SwapTypeOK, Progress
<1>5. ticket[c][k] \in 1..tails[k]
  BY <1>4 DEF Tickets
<1>6. CASE ticket[c][k] = 1
  BY <1>4, <1>6 DEF CanProceed, IsResolved, Prior
<1>7. CASE ticket[c][k] # 1
  <2>1. ticket[c][k] - 1 \in 1..tails[k]
    BY <1>4, <1>5, <1>7
  <2>2. PICK e \in Calls : ticket[e][k] = ticket[c][k] - 1
    BY <1>4, <2>1 DEF Tickets
  <2>3. k \in joined[e]
    BY <1>4, <2>1, <2>2 DEF Tickets
  <2>4. e \notin Line
    BY <1>3, <1>5, <2>2
  <2>5. stage[e] # "queueing"
    <3>1. SUFFICES ASSUME stage[e] = "queueing"
                   PROVE  FALSE
      OBVIOUS
    <3>2. awaits[e] # k /\ Rank[awaits[e]] <= Rank[k]
      BY <1>1, <2>4, <3>1 DEF k
    <3>3. Progress(e) /\ joined[e] \subseteq DomainKeys
      BY DEF SwapIInv, SwapTypeOK
    <3>4. Rank[k] <= Rank[awaits[e]] /\ awaits[e] \in DomainKeys
      BY <2>3, <3>1, <3>3 DEF Progress
    <3>5. QED
      BY <1>2, <3>2, <3>4, SwapAssumption
  <2>6. stage[e] = "done"
    BY <2>3, <2>5 DEF SwapIInv, SwapTypeOK, Progress
  <2>7. ticket[c][k] - 1 \in resolved[k]
    BY <1>4, <2>2, <2>3, <2>6 DEF Tickets
  <2>8. QED
    BY <1>4, <2>7 DEF CanProceed, IsResolved, Prior
<1>8. QED
  BY <1>6, <1>7

(* DomainSwapCoordinator sorts the keys: no set of calls deadlocks, with   *)
(* any number of calls and domains.                                        *)
THEOREM NoDeadlock == SwapSpec => []NoStuckCall
  BY SwapInvariant, NotStuck, PTL

(* Both: turns are taken in order, and there is always a next one.         *)
THEOREM EveryTurnIsTaken == SwapSpec => []TurnsAreTaken
<1>1. InOrder /\ NoStuckCall => TurnsAreTaken
  BY DEF TurnsAreTaken
<1>2. QED
  BY <1>1, FirstComeFirstServed, NoDeadlock, PTL

(* Two swaps that share a domain do not run at the same time.              *)
MutualExclusion ==
  \A c, d \in Calls :
    c # d /\ stage[c] = "running" /\ stage[d] = "running" => Claims[c] \cap Claims[d] = {}

LEMMA RunningIsExclusive == SwapIInv => MutualExclusion
<1> SUFFICES ASSUME SwapIInv, NEW c \in Calls, NEW d \in Calls, c # d,
                    stage[c] = "running", stage[d] = "running",
                    NEW k \in Keys(c), k \in Keys(d)
             PROVE  FALSE
  BY DEF MutualExclusion, Claims, Keys
<1>2. k \in joined[c] /\ k \in joined[d] /\ k \in DomainKeys
  BY DEF SwapIInv, SwapTypeOK, Progress
<1>3. ticket[c][k] # ticket[d][k] /\ ticket[c][k] \in Nat /\ ticket[d][k] \in Nat
  BY <1>2 DEF SwapIInv, SwapTypeOK, Tickets
<1>4. ticket[c][k] < ticket[d][k] \/ ticket[d][k] < ticket[c][k]
  BY <1>3
<1>5. Passed(c, k) /\ Passed(d, k)
  BY <1>2 DEF Passed
<1>6. QED
  BY <1>2, <1>4, <1>5 DEF SwapIInv, InOrder

(* The chains of promises implement ExclusiveSwaps: the readiness executor *)
(* may take the lock for an exclusive lock on its set of domains.          *)
THEOREM ImplementsExclusiveSwaps == SwapSpec => ExclusiveSpec
<1>1. SwapInit => Exclusive!Init
  BY DEF SwapInit, Exclusive!Init, Claims, Range
<1>m. SwapSpec => []MutualExclusion
  BY SwapInvariant, RunningIsExclusive, PTL
<1>2. SwapIInv /\ MutualExclusion' /\ [SwapNext]_swapVars => [Exclusive!Next]_(Exclusive!vars)
  <2> SUFFICES ASSUME SwapIInv, MutualExclusion', [SwapNext]_swapVars
               PROVE  [Exclusive!Next]_(Exclusive!vars)
    OBVIOUS
  <2>1. CASE UNCHANGED swapVars
    BY <2>1 DEF swapVars, Exclusive!vars, Claims
  <2>2. ASSUME NEW c \in Calls, NEW list \in DomainLists, Run(c, list)
        PROVE  Exclusive!Request(c, Range(list))
    <3>1. Claims' = [Claims EXCEPT ![c] = Range(list)]
      BY <2>2 DEF Run, Claims, SwapIInv, SwapTypeOK
    <3>2. QED
      BY <2>2, <3>1 DEF Run, Exclusive!Request
  <2>3. ASSUME NEW list \in DomainLists
        PROVE  Range(list) \in SUBSET DomainKeys
    BY SwapAssumption DEF Range
  <2>4. ASSUME NEW c \in Calls, Proceed(c)
        PROVE  Exclusive!Start(c) \/ UNCHANGED Exclusive!vars
    <3>1. Claims' = Claims
      BY <2>4 DEF Proceed, Claims
    <3>2. CASE joined[c] = Keys(c)
      <4>1. stage[c] = "queueing" /\ stage' = [stage EXCEPT ![c] = "running"]
        BY <2>4, <3>2 DEF Proceed, CanProceed
      <4>2. stage'[c] = "running" /\ \A d \in Calls \ {c} : stage'[d] = stage[d]
        BY <4>1 DEF SwapIInv, SwapTypeOK
      <4>3. ASSUME NEW d \in Calls, stage[d] = "running"
            PROVE  Claims[d] \cap Claims[c] = {}
        <5>1. d # c /\ stage'[d] = "running"
          BY <4>1, <4>2, <4>3
        <5>2. Claims'[d] \cap Claims'[c] = {}
          BY <4>2, <5>1 DEF MutualExclusion
        <5>3. QED
          BY <3>1, <5>2
      <4>4. QED
        BY <3>1, <4>1, <4>3 DEF Exclusive!Start
    <3>3. CASE joined[c] # Keys(c)
      BY <2>4, <3>1, <3>3 DEF Proceed, Exclusive!vars
    <3>4. QED
      BY <3>2, <3>3
  <2>5. ASSUME NEW c \in Calls, Finish(c)
        PROVE  Exclusive!End(c)
    BY <2>5 DEF Finish, Exclusive!End, Claims
  <2>6. QED
    BY <2>1, <2>2, <2>3, <2>4, <2>5 DEF SwapNext, Exclusive!Next
<1>3. QED
  BY <1>1, <1>2, <1>m, SwapInvariant, PTL DEF SwapSpec, ExclusiveSpec, Exclusive!Spec
==============================================================================
