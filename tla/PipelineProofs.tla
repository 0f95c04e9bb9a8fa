---------------------------- MODULE PipelineProofs ----------------------------
(***************************************************************************)
(* What pipelines rely on.  Routes: nothing that is stored refers to       *)
(* something that is not, and a walk along a route that was validated is   *)
(* served, for every set of pipelines, targets and models, every graph     *)
(* that is offered, and however edits and walks are mixed.                 *)
(* Sharing: at the cache nodes, whoever reads the broadcast of a stream    *)
(* hears one owner, for every number of requests and every route.          *)
(***************************************************************************)
EXTENDS Routes, Sharing, SequenceTheorems, FiniteSetTheorems, WellFoundedInduction, TLAPS

(* What g refers to is among the pipelines P and the targets T.            *)
Closed(g, P, T) ==
  /\ PipelineRefs(g) \subseteq P
  /\ TargetRefs(g) \subseteq T
  /\ \A r \in Refs(g) : r.type = "node" => r.id \in DOMAIN g.nodes

(* So it is with the route of a model, whose fields are references.        *)
Bound(m, P, T) ==
  /\ m.routeTo \in PortRef \cup {None} /\ m.targetId \in T \cup {None}
  /\ m.routeTo # None /\ m.routeTo.type = "target" => m.routeTo.id \in T
  /\ m.routeTo # None /\ m.routeTo.type = "pipeline" => m.routeTo.id \in P

Stores(ps, ts, ms) ==
  /\ \A p \in DOMAIN ps : Closed(ps[p].graph, DOMAIN ps, ts)
  /\ \A m \in DOMAIN ms : Bound(ms[m], DOMAIN ps, ts)

IInv == Stores(pipelines, targets, models)

-----------------------------------------------------------------------------
(* A valid graph is closed under what is stored once it is saved.          *)
LEMMA CheckedGraphIsClosed ==
  ASSUME NEW g, NEW env, RefsExist(g, env), CallsFit(g, env)
  PROVE  Closed(g, DOMAIN env, targets)
<1>1. Jumps(g) \subseteq DOMAIN env
  BY DEF RefsExist, Jumps
<1>2. Callees(g) \subseteq DOMAIN env
  BY DEF CallsFit, Callees
<1>3. TargetRefs(g) \subseteq targets
  BY DEF RefsExist, TargetRefs
<1>4. \A r \in Refs(g) : r.type = "node" => r.id \in DOMAIN g.nodes
  BY DEF RefsExist
<1>5. QED
  BY <1>1, <1>2, <1>3, <1>4 DEF Closed, PipelineRefs

LEMMA ValidGraphIsClosed ==
  ASSUME NEW g, NEW self, self = None \/ self \in DOMAIN pipelines, GraphValid(g, self)
  PROVE  Closed(g, DOMAIN pipelines, targets)
<1> DEFINE env == IF self = None THEN Env ELSE With(Env, self, g)
<1>1. DOMAIN env = DOMAIN pipelines
  BY DEF Env, With
<1>2. RefsExist(g, env) /\ CallsFit(g, env)
  BY DEF GraphValid
<1> HIDE DEF env
<1>3. Closed(g, DOMAIN env, targets)
  BY <1>2, CheckedGraphIsClosed
<1>4. QED
  BY <1>1, <1>3

(* More pipelines and targets leave what is closed closed.                 *)
LEMMA MoreIsStored ==
  ASSUME NEW P, NEW Q, NEW T, NEW U, P \subseteq Q, T \subseteq U
  PROVE  /\ \A g : Closed(g, P, T) => Closed(g, Q, U)
         /\ \A m : Bound(m, P, T) => Bound(m, Q, U)
<1>1. ASSUME NEW g, Closed(g, P, T) PROVE Closed(g, Q, U)
  BY <1>1 DEF Closed
<1>2. ASSUME NEW m, Bound(m, P, T) PROVE Bound(m, Q, U)
  BY <1>2 DEF Bound
<1>3. QED
  BY <1>1, <1>2

LEMMA References ==
  /\ \A type, id : To(type, id).type = type /\ To(type, id).id = id
  /\ \A r \in PortRef : r = To(r.type, r.id)
BY DEF To, PortRef

-----------------------------------------------------------------------------
(* One lemma for each edit.                                                *)
LEMMA CreatePipelineKeeps ==
  ASSUME IInv, NEW p, NEW g, CreatePipeline(p, g)
  PROVE  IInv'
<1> DEFINE entry == [graph |-> g, enabled |-> TRUE]
<1>1. /\ pipelines' = With(pipelines, p, entry) /\ p \notin DOMAIN pipelines
      /\ targets' = targets /\ models' = models
  BY DEF CreatePipeline
<1>2. Closed(g, DOMAIN pipelines, targets)
  BY ValidGraphIsClosed DEF CreatePipeline
<1>3. DOMAIN pipelines' = DOMAIN pipelines \cup {p}
  BY <1>1 DEF With
<1>4. \A q \in DOMAIN pipelines' : Closed(pipelines'[q].graph, DOMAIN pipelines', targets')
  <2> TAKE q \in DOMAIN pipelines'
  <2>1. CASE q = p
    <3>1. pipelines'[q].graph = g
      BY <1>1, <2>1 DEF With
    <3>2. QED
      BY <1>1, <1>2, <1>3, <3>1, MoreIsStored
  <2>2. CASE q # p
    <3>1. q \in DOMAIN pipelines /\ pipelines'[q] = pipelines[q]
      BY <1>1, <1>3, <2>2 DEF With
    <3>2. Closed(pipelines[q].graph, DOMAIN pipelines, targets)
      BY <3>1 DEF IInv, Stores
    <3>3. QED
      BY <1>1, <1>3, <3>1, <3>2, MoreIsStored
  <2>3. QED
    BY <2>1, <2>2
<1>5. \A m \in DOMAIN models' : Bound(models'[m], DOMAIN pipelines', targets')
  BY <1>1, <1>3, MoreIsStored DEF IInv, Stores
<1>6. QED
  BY <1>4, <1>5 DEF IInv, Stores

LEMMA UpdatePipelineKeeps ==
  ASSUME IInv, NEW p, NEW g, NEW enabled, UpdatePipeline(p, g, enabled)
  PROVE  IInv'
<1>1. /\ pipelines' = [pipelines EXCEPT ![p] = [graph |-> g, enabled |-> enabled]]
      /\ p \in DOMAIN pipelines
      /\ targets' = targets /\ models' = models
  BY DEF UpdatePipeline
<1>2. Closed(g, DOMAIN pipelines, targets)
  BY <1>1, ValidGraphIsClosed DEF UpdatePipeline
<1>3. /\ DOMAIN pipelines' = DOMAIN pipelines
      /\ pipelines'[p].graph = g
      /\ \A q \in DOMAIN pipelines \ {p} : pipelines'[q] = pipelines[q]
  BY <1>1
<1>4. \A q \in DOMAIN pipelines' : Closed(pipelines'[q].graph, DOMAIN pipelines', targets')
  BY <1>1, <1>2, <1>3 DEF IInv, Stores
<1>5. QED
  BY <1>1, <1>3, <1>4 DEF IInv, Stores

LEMMA DeletePipelineKeeps ==
  ASSUME IInv, NEW p, DeletePipeline(p)
  PROVE  IInv'
<1>1. /\ pipelines' = Without(pipelines, p)
      /\ \A m \in DOMAIN models : models[m].routeTo # To("pipeline", p)
      /\ \A q \in DOMAIN pipelines \ {p} : p \notin PipelineRefs(pipelines[q].graph)
      /\ targets' = targets /\ models' = models
  BY DEF DeletePipeline
<1>2. /\ DOMAIN pipelines' = DOMAIN pipelines \ {p}
      /\ \A q \in DOMAIN pipelines' : pipelines'[q] = pipelines[q]
  BY <1>1 DEF Without
<1>3. \A q \in DOMAIN pipelines' : Closed(pipelines'[q].graph, DOMAIN pipelines', targets')
  <2> TAKE q \in DOMAIN pipelines'
  <2>1. Closed(pipelines[q].graph, DOMAIN pipelines, targets)
    BY <1>2 DEF IInv, Stores
  <2>2. PipelineRefs(pipelines[q].graph) \subseteq DOMAIN pipelines'
    BY <1>1, <1>2, <2>1 DEF Closed
  <2>3. QED
    BY <1>1, <1>2, <2>1, <2>2 DEF Closed
<1>4. \A m \in DOMAIN models' : Bound(models'[m], DOMAIN pipelines', targets')
  <2> TAKE m \in DOMAIN models'
  <2>1. Bound(models[m], DOMAIN pipelines, targets) /\ models[m].routeTo # To("pipeline", p)
    BY <1>1 DEF IInv, Stores
  <2>2. QED
    BY <1>1, <1>2, <2>1, References DEF Bound
<1>5. QED
  BY <1>3, <1>4 DEF IInv, Stores

LEMMA CreateTargetKeeps ==
  ASSUME IInv, NEW t, CreateTarget(t)
  PROVE  IInv'
<1>1. /\ targets' = targets \cup {t}
      /\ pipelines' = pipelines /\ models' = models
  BY DEF CreateTarget
<1>2. QED
  BY <1>1, MoreIsStored DEF IInv, Stores

LEMMA DeleteTargetKeeps ==
  ASSUME IInv, NEW t, DeleteTarget(t)
  PROVE  IInv'
<1>1. /\ targets' = targets \ {t}
      /\ \A m \in DOMAIN models : models[m].targetId # t /\ models[m].routeTo # To("target", t)
      /\ \A p \in DOMAIN pipelines : t \notin TargetRefs(pipelines[p].graph)
      /\ pipelines' = pipelines /\ models' = models
  BY DEF DeleteTarget
<1>2. \A p \in DOMAIN pipelines : Closed(pipelines[p].graph, DOMAIN pipelines, targets')
  BY <1>1 DEF IInv, Stores, Closed
<1>3. \A m \in DOMAIN models : Bound(models[m], DOMAIN pipelines, targets')
  BY <1>1, References DEF IInv, Stores, Bound
<1>4. QED
  BY <1>1, <1>2, <1>3 DEF IInv, Stores

(* A model that is saved is bound, and the others stay as they are.        *)
LEMMA SavedModelKeeps ==
  ASSUME IInv, NEW m, NEW r \in PortRef \cup {None}, NEW t,
         models' = With(models, m, [routeTo |-> r, targetId |-> t]),
         pipelines' = pipelines, targets \subseteq targets',
         Bound([routeTo |-> r, targetId |-> t], DOMAIN pipelines', targets')
  PROVE  IInv'
<1>1. /\ DOMAIN models' = DOMAIN models \cup {m}
      /\ models'[m] = [routeTo |-> r, targetId |-> t]
      /\ \A n \in DOMAIN models : n # m => models'[n] = models[n]
  BY DEF With
<1>2. \A n \in DOMAIN models' : Bound(models'[n], DOMAIN pipelines', targets')
  <2> TAKE n \in DOMAIN models'
  <2>1. CASE n = m
    BY <1>1, <2>1
  <2>2. CASE n # m
    BY <1>1, <2>2, MoreIsStored DEF IInv, Stores
  <2>3. QED
    BY <2>1, <2>2
<1>3. \A p \in DOMAIN pipelines' : Closed(pipelines'[p].graph, DOMAIN pipelines', targets')
  BY MoreIsStored DEF IInv, Stores
<1>4. QED
  BY <1>2, <1>3 DEF IInv, Stores

LEMMA CreateModelKeeps ==
  ASSUME IInv, NEW m, NEW r \in PortRef \cup {None}, NEW t, CreateModel(m, r, t)
  PROVE  IInv'
<1>1. /\ models' = With(models, m, [routeTo |-> r, targetId |-> t])
      /\ pipelines' = pipelines /\ targets' = targets
      /\ RouteValid(r) /\ t \in targets \cup {None}
  BY DEF CreateModel
<1>2. Bound([routeTo |-> r, targetId |-> t], DOMAIN pipelines', targets')
  BY <1>1 DEF RouteValid, Bound
<1>3. QED
  BY <1>1, <1>2, SavedModelKeeps

(* A route or a target that is kept is bound as it was.                    *)
LEMMA UpdateModelKeeps ==
  ASSUME IInv, NEW m, NEW r \in PortRef \cup {None}, NEW t, UpdateModel(m, r, t)
  PROVE  IInv'
<1>1. /\ m \in DOMAIN models
      /\ r = models[m].routeTo \/ RouteValid(r)
      /\ t = models[m].targetId \/ t \in targets \cup {None}
      /\ models' = [models EXCEPT ![m] = [routeTo |-> r, targetId |-> t]]
      /\ pipelines' = pipelines /\ targets' = targets
  BY DEF UpdateModel
<1>2. Bound(models[m], DOMAIN pipelines, targets)
  BY <1>1 DEF IInv, Stores
<1>3. Bound([routeTo |-> r, targetId |-> t], DOMAIN pipelines', targets')
  BY <1>1, <1>2 DEF RouteValid, Bound
<1>4. models' = With(models, m, [routeTo |-> r, targetId |-> t])
  BY <1>1 DEF With
<1>5. QED
  BY <1>1, <1>3, <1>4, SavedModelKeeps

LEMMA QuickRouteKeeps ==
  ASSUME IInv, NEW m, NEW t \in Targets, QuickRoute(m, t)
  PROVE  IInv'
<1>1. /\ targets' = targets \cup {t} /\ pipelines' = pipelines
      /\ models' = With(models, m, [routeTo |-> To("target", t), targetId |-> t])
  BY DEF QuickRoute
<1>2. To("target", t) \in PortRef
  BY DEF To, PortRef
<1>3. Bound([routeTo |-> To("target", t), targetId |-> t], DOMAIN pipelines', targets')
  BY <1>1, <1>2, References DEF Bound
<1>4. QED
  BY <1>1, <1>2, <1>3, SavedModelKeeps

LEMMA DeleteModelKeeps ==
  ASSUME IInv, NEW m, DeleteModel(m)
  PROVE  IInv'
<1>1. /\ models' = Without(models, m)
      /\ pipelines' = pipelines /\ targets' = targets
  BY DEF DeleteModel
<1>2. /\ DOMAIN models' \subseteq DOMAIN models
      /\ \A n \in DOMAIN models' : models'[n] = models[n]
  BY <1>1 DEF Without
<1>3. QED
  BY <1>1, <1>2 DEF IInv, Stores

LEMMA StoresUnchanged ==
  ASSUME IInv, UNCHANGED <<targets, pipelines, models>>
  PROVE  IInv'
BY DEF IInv

(* Walks only read.                                                        *)
LEMMA EndsOnlyRead ==
  ASSUME NEW outcome, End(outcome)
  PROVE  UNCHANGED <<targets, pipelines, models>>
BY DEF End, NextBranch, Walk

LEMMA WalkingReads ==
  ASSUME Walking
  PROVE  UNCHANGED <<targets, pipelines, models>>
<1>1. CASE Unbound
  BY <1>1, EndsOnlyRead DEF Unbound
<1>2. CASE ReachTarget
  BY <1>2, EndsOnlyRead DEF ReachTarget
<1>3. CASE EnterPipeline
  BY <1>3, EndsOnlyRead DEF EnterPipeline, Walk
<1>4. CASE NotVisited
  BY <1>4, EndsOnlyRead DEF NotVisited
<1>5. CASE EditNode
  BY <1>5 DEF EditNode, Walk
<1>6. CASE CacheNode
  BY <1>6 DEF CacheNode, Walk
<1>7. CASE CacheHit
  BY <1>7, EndsOnlyRead DEF CacheHit
<1>8. CASE CacheMiss
  BY <1>8 DEF CacheMiss, Walk
<1>9. CASE ConditionNode
  BY <1>9 DEF ConditionNode, Walk
<1>10. CASE CallNode
  BY <1>10, EndsOnlyRead DEF CallNode, Walk
<1>11. CASE ExitNode
  BY <1>11, EndsOnlyRead DEF ExitNode, Walk
<1>12. CASE FusionNode
  BY <1>12, EndsOnlyRead DEF FusionNode, NextBranch, Walk
<1>13. CASE PanelAnswered
  BY <1>13 DEF PanelAnswered, Walk
<1>14. CASE Dispatch
  BY <1>14 DEF Dispatch, Walk
<1>15. QED
  BY <1>1, <1>2, <1>3, <1>4, <1>5, <1>6, <1>7, <1>8, <1>9, <1>10, <1>11,
     <1>12, <1>13, <1>14 DEF Walking

LEMMA WalkingKeeps ==
  ASSUME IInv, Walking
  PROVE  IInv'
BY WalkingReads, StoresUnchanged

LEMMA EditsKeep ==
  ASSUME IInv, Edits
  PROVE  IInv'
<1> DEFINE Routed == {To("target", u) : u \in Targets}
                       \cup {To("pipeline", p) : p \in Pipelines} \cup {None}
<1>1. Routed \subseteq PortRef \cup {None}
  BY DEF To, PortRef
<1>2. CASE \E p \in Pipelines : \E g \in Drafts[p] : CreatePipeline(p, g)
  BY <1>2, CreatePipelineKeeps
<1>3. CASE \E p \in DOMAIN pipelines : \E g, enabled : UpdatePipeline(p, g, enabled)
  BY <1>3, UpdatePipelineKeeps
<1>4. CASE \E p \in Pipelines : DeletePipeline(p)
  BY <1>4, DeletePipelineKeeps
<1>5. CASE \E t \in Targets : CreateTarget(t) \/ DeleteTarget(t)
  BY <1>5, CreateTargetKeeps, DeleteTargetKeeps
<1>6. CASE \E m \in Models, t \in Targets \cup {None}, r \in Routed :
             CreateModel(m, r, t) \/ UpdateModel(m, r, t)
  BY <1>1, <1>6, CreateModelKeeps, UpdateModelKeeps
<1>7. CASE \E m \in Models : DeleteModel(m)
  BY <1>7, DeleteModelKeeps
<1>8. CASE \E m \in Models, t \in Targets : QuickRoute(m, t)
  BY <1>8, QuickRouteKeeps
<1>9. QED
  BY <1>2, <1>3, <1>4, <1>5, <1>6, <1>7, <1>8 DEF Edits

-----------------------------------------------------------------------------
(* The invariant: what is stored refers to what is stored only, and the    *)
(* routes of models are references (routes/proxy-targets.routes.ts).       *)
THEOREM RoutesInvariant == Spec => []IInv
<1>1. Init => IInv
  BY DEF Init, IInv, Stores
<1>2. IInv /\ [Next]_vars => IInv'
  <2> SUFFICES ASSUME IInv, [Next]_vars PROVE IInv'
    OBVIOUS
  <2>1. CASE Edits
    BY <2>1, EditsKeep
  <2>2. CASE \E m \in DOMAIN models : Arrive(m)
    BY <2>2, StoresUnchanged DEF Arrive, Walk
  <2>3. CASE Walking
    BY <2>3, WalkingKeeps
  <2>4. CASE UNCHANGED vars
    BY <2>4, StoresUnchanged DEF vars
  <2>5. QED
    BY <2>1, <2>2, <2>3, <2>4 DEF Next
<1>3. QED
  BY <1>1, <1>2, PTL DEF Spec

(* No edit that is accepted, in whatever order, leaves a pipeline or a     *)
(* model that refers to something that is not stored.                      *)
THEOREM NothingEverDangles == Spec => []NothingDangles
<1>1. IInv => NothingDangles
  BY DEF IInv, Stores, Closed, Bound, NothingDangles
<1>2. QED
  BY <1>1, RoutesInvariant, PTL

-----------------------------------------------------------------------------
(* What is reached in so many steps.                                       *)

LEMMA Induct ==
  ASSUME NEW S, 0 \in S, \A k \in Nat : k \in S => k + 1 \in S
  PROVE  Nat \subseteq S
<1> DEFINE T == Nat \ S
           less == OpToRel(<, Nat)
<1> SUFFICES ASSUME T # {} PROVE FALSE
  OBVIOUS
<1>1. \A x, y \in Nat : <<y, x>> \in less <=> y < x
  BY DEF OpToRel
<1>2. IsWellFoundedOn(less, Nat)
  BY NatLessThanWellFounded
<1> HIDE DEF less
<1>3. PICK x \in T : \A y \in T : <<y, x>> \notin less
  BY <1>2, WFMin
<1>4. x # 0 /\ x - 1 \in Nat /\ x - 1 < x /\ (x - 1) + 1 = x
  BY <1>3
<1>5. x - 1 \in S
  BY <1>1, <1>3, <1>4
<1>6. QED
  BY <1>3, <1>4, <1>5

(* A function on a set can be iterated.                                    *)
Maps(h, V) == h \in [V -> V]
Iteration(f, h, V, a) ==
  f \in [Nat -> V] /\ f[0] = a /\ \A k \in Nat : f[k + 1] = h[f[k]]

LEMMA Iterates ==
  ASSUME NEW V, NEW h, Maps(h, V), NEW a \in V
  PROVE  \E f : Iteration(f, h, V, a)
<1> USE DEF Maps
<1> DEFINE Upto(g, k) ==
             g \in [0..k -> V] /\ g[0] = a /\ \A j \in 0..(k - 1) : g[j + 1] = h[g[j]]
           Some == {k \in Nat : \E g : Upto(g, k)}
           Agree(j) == \A k, l, g1, g2 : k \in Nat /\ l \in Nat /\ j <= k /\ j <= l
                         /\ Upto(g1, k) /\ Upto(g2, l) => g1[j] = g2[j]
           Agreed == {j \in Nat : Agree(j)}
<1>1. Nat \subseteq Some
  <2>1. 0 \in Some
    <3>1. Upto([j \in 0..0 |-> a], 0)
      OBVIOUS
    <3>2. QED
      BY <3>1
  <2>2. ASSUME NEW k \in Nat, k \in Some PROVE k + 1 \in Some
    <3>1. PICK g : Upto(g, k)
      BY <2>2
    <3> DEFINE g1 == [j \in 0..(k + 1) |-> IF j = k + 1 THEN h[g[k]] ELSE g[j]]
    <3>2. g[k] \in V /\ h[g[k]] \in V
      BY <3>1
    <3>3. g1 \in [0..(k + 1) -> V]
      BY <3>1, <3>2
    <3>4. g1[0] = a
      BY <3>1
    <3>5. ASSUME NEW j \in 0..k PROVE g1[j + 1] = h[g1[j]]
      <4>1. CASE j = k
        BY <4>1
      <4>2. CASE j # k
        <5>1. j \in 0..(k - 1) /\ j + 1 # k + 1 /\ j + 1 \in 0..(k + 1)
          BY <4>2
        <5>2. g1[j + 1] = g[j + 1] /\ g1[j] = g[j]
          BY <5>1
        <5>3. QED
          BY <3>1, <5>1, <5>2
      <4>3. QED
        BY <4>1, <4>2
    <3> HIDE DEF g1
    <3>6. Upto(g1, k + 1)
      <4>1. k + 1 \in Nat /\ 0..(k + 1 - 1) = 0..k
        OBVIOUS
      <4>2. QED
        BY <3>3, <3>4, <3>5, <4>1
    <3> HIDE DEF Upto, g1
    <3>7. QED
      BY <3>6
  <2> HIDE DEF Some
  <2>3. QED
    BY <2>1, <2>2, Induct
<1>2. Nat \subseteq Agreed
  <2>1. Agree(0)
    OBVIOUS
  <2>2. ASSUME NEW j \in Nat, Agree(j) PROVE Agree(j + 1)
    <3> HIDE DEF Upto
    <3> SUFFICES ASSUME NEW k, NEW l, NEW g1, NEW g2, k \in Nat, l \in Nat,
                        j + 1 <= k, j + 1 <= l, Upto(g1, k), Upto(g2, l)
                 PROVE  g1[j + 1] = g2[j + 1]
      OBVIOUS
    <3>1. j <= k /\ j <= l /\ j \in 0..(k - 1) /\ j \in 0..(l - 1)
      OBVIOUS
    <3>2. g1[j + 1] = h[g1[j]] /\ g2[j + 1] = h[g2[j]]
      BY <3>1 DEF Upto
    <3>3. g1[j] = g2[j]
      BY <2>2, <3>1
    <3>4. QED
      BY <3>2, <3>3
  <2> HIDE DEF Agree
  <2>3. 0 \in Agreed /\ \A j \in Nat : j \in Agreed => j + 1 \in Agreed
    BY <2>1, <2>2
  <2> HIDE DEF Agreed
  <2>4. QED
    BY <2>3, Induct
<1> DEFINE first(k) == CHOOSE g : Upto(g, k)
<1>3. \A k \in Nat : \E g : Upto(g, k)
  BY <1>1
<1>4. ASSUME NEW k \in Nat PROVE Upto(first(k), k)
  <2> HIDE DEF Upto
  <2>1. QED
    BY <1>3
<1> HIDE DEF first
<1> DEFINE f == [k \in Nat |-> first(k)[k]]
<1>5. ASSUME NEW k \in Nat PROVE f[k] = first(k)[k] /\ f[k] \in V
  BY <1>4
<1>6. f[0] = a
  BY <1>4
<1>7. ASSUME NEW k \in Nat PROVE f[k + 1] = h[f[k]]
  <2>1. Upto(first(k), k) /\ Upto(first(k + 1), k + 1)
    BY <1>4
  <2>2. first(k + 1)[k + 1] = h[first(k + 1)[k]]
    BY <2>1
  <2>3. Agree(k) /\ k <= k /\ k <= k + 1 /\ k + 1 \in Nat
    BY <1>2
  <2> HIDE DEF Upto
  <2>4. first(k)[k] = first(k + 1)[k]
    BY <2>1, <2>3
  <2>5. QED
    BY <2>2, <2>4
<1>8. f \in [Nat -> V]
  BY <1>5
<1> HIDE DEF f
<1>9. QED
  BY <1>6, <1>7, <1>8 DEF Iteration

Leads(st, U) == st \in [U -> SUBSET U]

(* What the elements of S reach when x leads to st[x].                     *)
Spreading(f, st, U, S) ==
  /\ f \in [Nat -> SUBSET U]
  /\ f = [k \in Nat |-> IF k = 0 THEN S
                         ELSE f[k - 1] \cup UNION {st[x] : x \in f[k - 1]}]

LEMMA Spreads ==
  ASSUME NEW U, NEW st, Leads(st, U), NEW S \in SUBSET U
  PROVE  \E f : Spreading(f, st, U, S)
<1> DEFINE h == [X \in SUBSET U |-> X \cup UNION {st[x] : x \in X}]
<1>1. h \in [SUBSET U -> SUBSET U]
  BY DEF Leads
<1>2. \A X \in SUBSET U : h[X] = X \cup UNION {st[x] : x \in X}
  OBVIOUS
<1> HIDE DEF h
<1>3. PICK f : Iteration(f, h, SUBSET U, S)
  <2>1. Maps(h, SUBSET U) /\ S \in SUBSET U
    BY <1>1 DEF Maps
  <2>2. QED
    BY <2>1, Iterates
<1>4. f \in [Nat -> SUBSET U] /\ f[0] = S /\ \A k \in Nat : f[k + 1] = h[f[k]]
  BY <1>3 DEF Iteration
<1>5. ASSUME NEW k \in Nat
      PROVE  f[k] = IF k = 0 THEN S ELSE f[k - 1] \cup UNION {st[x] : x \in f[k - 1]}
  <2>1. CASE k = 0
    BY <1>4, <2>1
  <2>2. CASE k # 0
    <3>1. k - 1 \in Nat /\ (k - 1) + 1 = k
      BY <2>2
    <3>2. f[k] = h[f[k - 1]] /\ f[k - 1] \in SUBSET U
      BY <1>4, <3>1
    <3>3. QED
      BY <1>2, <2>2, <3>2
  <2>3. QED
    BY <2>1, <2>2
<1>6. QED
  BY <1>4, <1>5 DEF Spreading

(* Every pipeline that a graph refers to has a name of a pipeline; a set   *)
(* of pipelines is under env if env leads nowhere else from it.            *)
Known(env) == \A p \in DOMAIN env : PipelineRefs(env[p]) \subseteq Pipelines
Under(C, env) == \A p \in C \cap DOMAIN env : PipelineRefs(env[p]) \subseteq C

PipelineSteps(p, env) == IF p \in DOMAIN env THEN PipelineRefs(env[p]) ELSE {}
PipelinesWithin(S, env) ==
  CHOOSE f : f = [k \in Nat |->
    IF k = 0 THEN S ELSE f[k - 1] \cup UNION {PipelineSteps(p, env) : p \in f[k - 1]}]

LEMMA PipelinesSpread ==
  ASSUME NEW env, Known(env), NEW S \in SUBSET Pipelines
  PROVE  LET f == PipelinesWithin(S, env) IN
         /\ f \in [Nat -> SUBSET Pipelines]
         /\ f[0] = S
         /\ \A k \in Nat : f[k + 1] = f[k] \cup UNION {PipelineSteps(p, env) : p \in f[k]}
<1> DEFINE st == [p \in Pipelines |-> PipelineSteps(p, env)]
           Eq(g) == g = [k \in Nat |->
             IF k = 0 THEN S ELSE g[k - 1] \cup UNION {PipelineSteps(p, env) : p \in g[k - 1]}]
<1>1. st \in [Pipelines -> SUBSET Pipelines]
  BY DEF Known, PipelineSteps
<1>2. \A p \in Pipelines : st[p] = PipelineSteps(p, env)
  OBVIOUS
<1> HIDE DEF st
<1>3. PICK g \in [Nat -> SUBSET Pipelines] :
        g = [k \in Nat |-> IF k = 0 THEN S ELSE g[k - 1] \cup UNION {st[p] : p \in g[k - 1]}]
  <2>1. PICK g : Spreading(g, st, Pipelines, S)
    BY <1>1, Spreads DEF Leads
  <2>2. QED
    BY <2>1 DEF Spreading
<1>4. ASSUME NEW T \in SUBSET Pipelines
      PROVE  {st[p] : p \in T} = {PipelineSteps(p, env) : p \in T}
  BY <1>2
<1>5. ASSUME NEW k \in Nat
      PROVE  g[k] = IF k = 0 THEN S
                    ELSE g[k - 1] \cup UNION {PipelineSteps(p, env) : p \in g[k - 1]}
  <2>1. CASE k = 0
    BY <1>3, <2>1
  <2>2. CASE k # 0
    <3>1. k - 1 \in Nat
      BY <2>2
    <3>2. g[k - 1] \in SUBSET Pipelines
      BY <3>1
    <3>3. g[k] = g[k - 1] \cup UNION {st[p] : p \in g[k - 1]}
      BY <1>3, <2>2
    <3>4. QED
      BY <1>4, <2>2, <3>2, <3>3
  <2>3. QED
    BY <2>1, <2>2
<1>6. Eq(g)
  BY <1>5
<1>7. Eq(PipelinesWithin(S, env))
  <2>1. PipelinesWithin(S, env) = CHOOSE f : Eq(f)
    BY DEF PipelinesWithin
  <2> HIDE DEF Eq
  <2>2. QED
    BY <1>6, <2>1
<1> DEFINE f == PipelinesWithin(S, env)
<1> HIDE DEF f
<1>8. f[0] = S /\ \A k \in Nat : f[k + 1] = f[k] \cup UNION {PipelineSteps(p, env) : p \in f[k]}
  <2>1. f = [k \in Nat |->
          IF k = 0 THEN S ELSE f[k - 1] \cup UNION {PipelineSteps(p, env) : p \in f[k - 1]}]
    BY <1>7 DEF f
  <2>2. ASSUME NEW k \in Nat
        PROVE  f[k + 1] = f[k] \cup UNION {PipelineSteps(p, env) : p \in f[k]}
    <3>1. k + 1 \in Nat /\ k + 1 # 0 /\ (k + 1) - 1 = k
      OBVIOUS
    <3>2. f[k + 1] = f[(k + 1) - 1] \cup UNION {PipelineSteps(p, env) : p \in f[(k + 1) - 1]}
      BY <2>1, <3>1
    <3>3. QED
      BY <3>1, <3>2
  <2>3. f[0] = S
    BY <2>1
  <2>4. QED
    BY <2>2, <2>3
<1>9. f \in [Nat -> SUBSET Pipelines]
  <2>1. DOMAIN f = Nat /\ f = [k \in Nat |-> f[k]]
    BY <1>7 DEF f
  <2>2. Nat \subseteq {k \in Nat : f[k] \in SUBSET Pipelines}
    <3> DEFINE T == {k \in Nat : f[k] \in SUBSET Pipelines}
    <3>1. 0 \in T
      BY <1>8
    <3>2. ASSUME NEW k \in Nat, k \in T PROVE k + 1 \in T
      <4>1. \A p \in f[k] : PipelineSteps(p, env) \subseteq Pipelines
        BY DEF PipelineSteps, Known
      <4>2. QED
        BY <1>8, <3>2, <4>1
    <3> HIDE DEF T
    <3>3. Nat \subseteq T
      BY <3>1, <3>2, Induct
    <3>4. QED
      BY <3>3 DEF T
  <2>3. QED
    BY <2>1, <2>2
<1>10. QED
  BY <1>8, <1>9 DEF f

(* PipelinesReached(S, env) is the least set with S that is under env.     *)
LEMMA ReachedPipelines ==
  ASSUME NEW env, Known(env), NEW S \in SUBSET Pipelines
  PROVE  LET R == PipelinesReached(S, env) IN
         /\ S \subseteq R /\ R \subseteq Pipelines
         /\ Under(R, env)
         /\ \A C : S \subseteq C /\ Under(C, env) => R \subseteq C
<1> DEFINE f == PipelinesWithin(S, env)
           N == Cardinality(Pipelines)
<1>1. PipelinesReached(S, env) = f[N]
  BY DEF PipelinesReached, Reached, PipelinesWithin, PipelineSteps
<1>2. IsFiniteSet(Pipelines) /\ N \in Nat
  BY RoutesAssumption, FS_CardinalityType
<1>3. /\ f \in [Nat -> SUBSET Pipelines]
      /\ f[0] = S
      /\ \A k \in Nat : f[k + 1] = f[k] \cup UNION {PipelineSteps(p, env) : p \in f[k]}
  BY PipelinesSpread
<1> HIDE DEF f, N
<1>4. \A k \in Nat : Under(f[k], env) <=> f[k + 1] = f[k]
  <2> TAKE k \in Nat
  <2>1. f[k + 1] = f[k] <=> \A p \in f[k] : PipelineSteps(p, env) \subseteq f[k]
    <3> DEFINE More == UNION {PipelineSteps(p, env) : p \in f[k]}
    <3>1. f[k + 1] = f[k] \cup More
      BY <1>3
    <3>2. More \subseteq f[k] <=> \A p \in f[k] : PipelineSteps(p, env) \subseteq f[k]
      OBVIOUS
    <3> HIDE DEF More
    <3>3. QED
      BY <3>1, <3>2
  <2>2. QED
    BY <2>1 DEF Under, PipelineSteps
<1>5. Under(f[N], env)
  <2> DEFINE T == {k \in Nat : Under(f[k], env) \/ Cardinality(f[k]) >= k}
  <2>1. \A k \in Nat : IsFiniteSet(f[k]) /\ Cardinality(f[k]) \in Nat
    BY <1>2, <1>3, FS_Subset, FS_CardinalityType
  <2>2. 0 \in T
    BY <2>1
  <2>3. ASSUME NEW k \in Nat, k \in T PROVE k + 1 \in T
    <3>1. CASE Under(f[k], env)
      BY <1>4, <3>1
    <3>2. CASE ~Under(f[k], env)
      <4>1. f[k] \subseteq f[k + 1] /\ f[k] # f[k + 1]
        BY <1>3, <1>4, <3>2
      <4>2. Cardinality(f[k]) <= Cardinality(f[k + 1])
              /\ Cardinality(f[k]) # Cardinality(f[k + 1])
        BY <2>1, <4>1, FS_Subset
      <4>3. Cardinality(f[k + 1]) >= k + 1
        BY <2>1, <2>3, <3>2, <4>2
      <4>4. QED
        BY <4>3
    <3>3. QED
      BY <3>1, <3>2
  <2> HIDE DEF T
  <2>4. Nat \subseteq T
    BY <2>2, <2>3, Induct
  <2>5. CASE Cardinality(f[N]) >= N
    <3>1. f[N] = Pipelines
      BY <1>2, <1>3, <2>1, <2>5, FS_Subset DEF N
    <3>2. QED
      BY <3>1 DEF Under, Known
  <2>6. QED
    BY <1>2, <2>4, <2>5 DEF T
<1>6. \A k \in Nat : S \subseteq f[k]
  <2> DEFINE T == {k \in Nat : S \subseteq f[k]}
  <2>1. 0 \in T /\ \A k \in Nat : k \in T => k + 1 \in T
    BY <1>3
  <2> HIDE DEF T
  <2>2. Nat \subseteq T
    BY <2>1, Induct
  <2>3. QED
    BY <2>2 DEF T
<1>7. ASSUME NEW C, S \subseteq C, Under(C, env) PROVE f[N] \subseteq C
  <2> DEFINE T == {k \in Nat : f[k] \subseteq C}
  <2>1. 0 \in T
    BY <1>3, <1>7
  <2>2. ASSUME NEW k \in Nat, k \in T PROVE k + 1 \in T
    <3>1. \A p \in f[k] : PipelineSteps(p, env) \subseteq C
      BY <1>7, <2>2 DEF PipelineSteps, Under
    <3>2. QED
      BY <1>3, <2>2, <3>1
  <2> HIDE DEF T
  <2>3. Nat \subseteq T
    BY <2>1, <2>2, Induct
  <2>4. QED
    BY <1>2, <2>3 DEF T
<1>8. QED
  BY <1>1, <1>2, <1>3, <1>5, <1>6, <1>7

-----------------------------------------------------------------------------
(* No pipeline can be reached from itself, and edits keep it so.           *)

Whole(env) ==
  DOMAIN env \subseteq Pipelines /\ \A p \in DOMAIN env : PipelineRefs(env[p]) \subseteq DOMAIN env

Below(p, env) == PipelinesReached(PipelineRefs(env[p]), env)
Acyclic(env) == \A p \in DOMAIN env : p \notin Below(p, env)

LEMMA WholeIsKnown ==
  ASSUME NEW env, Whole(env)
  PROVE  Known(env)
BY DEF Whole, Known

(* What is below a pipeline.                                               *)
LEMMA BelowPipelines ==
  ASSUME NEW env, Whole(env), NEW p \in DOMAIN env
  PROVE  /\ PipelineRefs(env[p]) \subseteq Below(p, env)
         /\ Below(p, env) \subseteq DOMAIN env
         /\ Under(Below(p, env), env)
         /\ \A C : PipelineRefs(env[p]) \subseteq C /\ Under(C, env) => Below(p, env) \subseteq C
<1>1. Known(env) /\ PipelineRefs(env[p]) \in SUBSET Pipelines
  BY WholeIsKnown DEF Whole
<1>2. PipelineRefs(env[p]) \subseteq DOMAIN env /\ Under(DOMAIN env, env)
  BY DEF Whole, Under
<1>3. QED
  BY <1>1, <1>2, ReachedPipelines DEF Below

LEMMA AddKeepsAcyclic ==
  ASSUME NEW env, Whole(env), Acyclic(env), NEW p \in Pipelines, p \notin DOMAIN env,
         NEW g, PipelineRefs(g) \subseteq DOMAIN env
  PROVE  Whole(With(env, p, g)) /\ Acyclic(With(env, p, g))
<1> DEFINE new == With(env, p, g)
<1>1. /\ DOMAIN new = DOMAIN env \cup {p} /\ new[p] = g
      /\ \A q \in DOMAIN env : new[q] = env[q]
  BY DEF With
<1> HIDE DEF new
<1>2. Whole(new)
  BY <1>1 DEF Whole
<1>3. ASSUME NEW q \in DOMAIN new PROVE q \notin Below(q, new)
  <2>1. CASE q = p
    <3>1. Under(DOMAIN env, new)
      BY <1>1 DEF Under, Whole
    <3>2. Below(p, new) \subseteq DOMAIN env
      BY <1>1, <1>2, <3>1, BelowPipelines
    <3>3. QED
      BY <2>1, <3>2
  <2>2. CASE q # p
    <3>1. q \in DOMAIN env /\ new[q] = env[q]
      BY <1>1, <2>2
    <3>2. Under(Below(q, env), new)
      BY <1>1, <3>1, BelowPipelines DEF Under
    <3>3. Below(q, new) \subseteq Below(q, env)
      BY <1>2, <3>1, <3>2, BelowPipelines
    <3>4. QED
      BY <3>1, <3>3 DEF Acyclic
  <2>3. QED
    BY <2>1, <2>2
<1>4. QED
  BY <1>2, <1>3 DEF new, Acyclic

LEMMA ChangeKeepsAcyclic ==
  ASSUME NEW env, Whole(env), Acyclic(env), NEW p \in DOMAIN env,
         NEW g, PipelineRefs(g) \subseteq DOMAIN env,
         p \notin PipelinesReached(PipelineRefs(g), env)
  PROVE  Whole(With(env, p, g)) /\ Acyclic(With(env, p, g))
<1> DEFINE new == With(env, p, g)
           G == PipelinesReached(PipelineRefs(g), env)
<1>1. /\ DOMAIN new = DOMAIN env /\ new[p] = g
      /\ \A q \in DOMAIN env : q # p => new[q] = env[q]
  BY DEF With
<1>2. PipelineRefs(g) \subseteq G /\ Under(G, env) /\ p \notin G
  BY WholeIsKnown, ReachedPipelines DEF Whole
<1> HIDE DEF new, G
<1>3. Whole(new)
  BY <1>1 DEF Whole
<1>4. Under(G, new)
  BY <1>1, <1>2 DEF Under
<1>5. ASSUME NEW q \in DOMAIN new PROVE q \notin Below(q, new)
  <2>1. CASE q = p
    <3>1. Below(p, new) \subseteq G
      BY <1>1, <1>2, <1>3, <1>4, BelowPipelines
    <3>2. QED
      BY <1>2, <2>1, <3>1
  <2>2. CASE q # p
    <3>1. q \in DOMAIN env /\ new[q] = env[q] /\ q \notin Below(q, env)
      BY <1>1, <2>2 DEF Acyclic
    <3>2. Under(Below(q, env) \cup G, new)
      BY <1>1, <1>2, <1>4, <3>1, BelowPipelines DEF Under
    <3>3. Below(q, new) \subseteq Below(q, env) \cup G
      BY <1>3, <3>1, <3>2, BelowPipelines
    <3>4. ASSUME q \in Below(q, new) PROVE FALSE
      <4>1. q \in G
        BY <3>1, <3>3, <3>4
      <4>2. PipelineRefs(env[q]) \subseteq G
        BY <1>2, <3>1, <4>1 DEF Under
      <4>3. Below(q, env) \subseteq G
        BY <1>2, <3>1, <4>2, BelowPipelines
      <4>4. Under(Below(q, env), new)
        BY <1>1, <1>2, <3>1, <4>3, BelowPipelines DEF Under
      <4>5. Below(q, new) \subseteq Below(q, env)
        BY <1>3, <3>1, <4>4, BelowPipelines
      <4>6. QED
        BY <3>1, <3>4, <4>5
    <3>5. QED
      BY <3>4
  <2>3. QED
    BY <2>1, <2>2
<1>6. QED
  BY <1>3, <1>5 DEF new, Acyclic

LEMMA RemoveKeepsAcyclic ==
  ASSUME NEW env, Whole(env), Acyclic(env), NEW p,
         \A q \in DOMAIN env \ {p} : p \notin PipelineRefs(env[q])
  PROVE  Whole(Without(env, p)) /\ Acyclic(Without(env, p))
<1> DEFINE new == Without(env, p)
<1>1. DOMAIN new = DOMAIN env \ {p} /\ \A q \in DOMAIN new : new[q] = env[q]
  BY DEF Without
<1> HIDE DEF new
<1>2. Whole(new)
  BY <1>1 DEF Whole
<1>3. ASSUME NEW q \in DOMAIN new PROVE q \notin Below(q, new)
  <2>1. q \in DOMAIN env /\ new[q] = env[q] /\ q \notin Below(q, env)
    BY <1>1 DEF Acyclic
  <2>2. Under(Below(q, env), new)
    BY <1>1, <2>1, BelowPipelines DEF Under
  <2>3. Below(q, new) \subseteq Below(q, env)
    BY <1>2, <2>1, <2>2, BelowPipelines
  <2>4. QED
    BY <2>1, <2>3
<1>4. QED
  BY <1>2, <1>3 DEF new, Acyclic

-----------------------------------------------------------------------------
(* The search for holes among the pipelines D, out of which env does not   *)
(* lead.                                                                   *)

Fits(env, D) ==
  /\ D \subseteq DOMAIN env
  /\ \A p \in D : IsGraph(env[p]) /\ PipelineRefs(env[p]) \subseteq D

OpenCalls(env, D) == UNION {{CallFrom(p, env[p].nodes[i]) : i \in DOMAIN env[p].nodes} : p \in D}
PlacesOf(env, D) ==
  UNION {{Place(r, p, s) : r \in Refs(env[p]) \cup {None}, s \in Seq(OpenCalls(env, D))} : p \in D}

(* What is wired in a graph.                                               *)
LEMMA Wired ==
  ASSUME NEW g, IsGraph(g)
  PROVE  /\ g.entry \in Refs(g) \cup {None}
         /\ \A i \in DOMAIN g.nodes : \A p : Port(g.nodes[i], p) \in Refs(g) \cup {None}
         /\ \A i \in DOMAIN g.nodes : IsNode(g.nodes[i])
         /\ \A i \in DOMAIN g.nodes :
              g.nodes[i].type = "call" => g.nodes[i].callee \in PipelineRefs(g)
         /\ \A r \in Refs(g) : /\ r # None /\ r \in PortRef
                               /\ r.type = "pipeline" => r.id \in PipelineRefs(g)
                               /\ r.type = "target" => r.id \in TargetRefs(g)
<1>1. g.entry \in Refs(g) \cup {None}
  BY DEF Refs
<1>2. ASSUME NEW i \in DOMAIN g.nodes, NEW p PROVE Port(g.nodes[i], p) \in Refs(g) \cup {None}
  <2>1. CASE p \in DOMAIN g.nodes[i].ports
    <3>1. Port(g.nodes[i], p) \in NodePorts(g.nodes[i])
      BY <2>1 DEF Port, NodePorts
    <3>2. QED
      BY <3>1 DEF Refs
  <2>2. CASE p \notin DOMAIN g.nodes[i].ports
    BY <2>2 DEF Port
  <2>3. QED
    BY <2>1, <2>2
<1>3. \A i \in DOMAIN g.nodes : IsNode(g.nodes[i])
  BY DEF IsGraph
<1>4. \A i \in DOMAIN g.nodes : NodePorts(g.nodes[i]) \subseteq PortRef
  BY <1>3 DEF IsNode, NodePorts
<1>5. \A r \in Refs(g) : r # None /\ r \in PortRef
  BY <1>4 DEF Refs, IsGraph
<1>6. \A i \in DOMAIN g.nodes :
        g.nodes[i].type = "call" => g.nodes[i].callee \in PipelineRefs(g)
  BY DEF PipelineRefs, Callees
<1>7. \A r \in Refs(g) : /\ r.type = "pipeline" => r.id \in PipelineRefs(g)
                         /\ r.type = "target" => r.id \in TargetRefs(g)
  BY DEF PipelineRefs, Jumps, TargetRefs
<1>8. QED
  BY <1>1, <1>2, <1>3, <1>5, <1>6, <1>7

LEMMA PlaceFields ==
  /\ \A r, p, s : Place(r, p, s).ref = r /\ Place(r, p, s).at = p /\ Place(r, p, s).calls = s
  /\ \A p, n : CallFrom(p, n).at = p /\ CallFrom(p, n).node = n
BY DEF Place, CallFrom

LEMMA CallsAre ==
  ASSUME NEW env, NEW D
  PROVE  /\ \A f \in OpenCalls(env, D) :
              /\ f.at \in D
              /\ \E i \in DOMAIN env[f.at].nodes : f.node = env[f.at].nodes[i]
         /\ \A p \in D : \A i \in DOMAIN env[p].nodes :
              CallFrom(p, env[p].nodes[i]) \in OpenCalls(env, D)
<1>1. ASSUME NEW f \in OpenCalls(env, D)
      PROVE  /\ f.at \in D
             /\ \E i \in DOMAIN env[f.at].nodes : f.node = env[f.at].nodes[i]
  <2>1. PICK p \in D : f \in {CallFrom(p, env[p].nodes[i]) : i \in DOMAIN env[p].nodes}
    BY DEF OpenCalls
  <2>2. PICK i \in DOMAIN env[p].nodes : f = CallFrom(p, env[p].nodes[i])
    BY <2>1
  <2>3. QED
    BY <2>2, PlaceFields
<1>2. \A p \in D : \A i \in DOMAIN env[p].nodes :
        CallFrom(p, env[p].nodes[i]) \in OpenCalls(env, D)
  BY DEF OpenCalls
<1>3. QED
  BY <1>1, <1>2

LEMMA PlacesAre ==
  ASSUME NEW env, NEW D
  PROVE  /\ \A p \in D : \A r \in Refs(env[p]) \cup {None} :
              \A s \in Seq(OpenCalls(env, D)) : Place(r, p, s) \in PlacesOf(env, D)
         /\ \A c \in PlacesOf(env, D) : /\ c.at \in D
                                        /\ c.ref \in Refs(env[c.at]) \cup {None}
                                        /\ c.calls \in Seq(OpenCalls(env, D))
<1>1. ASSUME NEW p \in D, NEW r \in Refs(env[p]) \cup {None}, NEW s \in Seq(OpenCalls(env, D))
      PROVE  Place(r, p, s) \in PlacesOf(env, D)
  BY DEF PlacesOf
<1>2. ASSUME NEW c \in PlacesOf(env, D)
      PROVE  c.at \in D /\ c.ref \in Refs(env[c.at]) \cup {None}
               /\ c.calls \in Seq(OpenCalls(env, D))
  <2>1. PICK p \in D : c \in {Place(r, p, s) : r \in Refs(env[p]) \cup {None},
                                              s \in Seq(OpenCalls(env, D))}
    BY DEF PlacesOf
  <2>2. PICK r \in Refs(env[p]) \cup {None}, s \in Seq(OpenCalls(env, D)) : c = Place(r, p, s)
    BY <2>1
  <2>3. QED
    BY <2>2, PlaceFields
<1>3. QED
  BY <1>1, <1>2

(* From a place in D that is no hole there are only ways to places in D.   *)
LEMMA NextStays ==
  ASSUME NEW env, NEW D, Fits(env, D), NEW c \in PlacesOf(env, D)
  PROVE  NextPlaces(env, c) \subseteq PlacesOf(env, D)
<1> DEFINE g == env[c.at]
           n == NodeAt(env, c)
           last == Len(c.calls)
           Open == OpenCalls(env, D)
<1>1. c.at \in D /\ c.ref \in Refs(g) \cup {None} /\ c.calls \in Seq(Open)
  BY PlacesAre
<1>2. IsGraph(g) /\ PipelineRefs(g) \subseteq D
  BY <1>1 DEF Fits
<1> SUFFICES ASSUME ~IsHole(env, c), c.ref.type # "target"
             PROVE  NextPlaces(env, c) \subseteq PlacesOf(env, D)
  BY DEF NextPlaces
<1>3. c.ref # None /\ c.ref \in PortRef
  BY <1>1, <1>2, Wired DEF IsHole
<1>4. CASE c.ref.type = "pipeline"
  <2>1. c.ref.id \in D
    BY <1>1, <1>2, <1>3, <1>4, Wired
  <2>2. env[c.ref.id].entry \in Refs(env[c.ref.id]) \cup {None}
    BY <2>1, Wired DEF Fits
  <2>3. Place(env[c.ref.id].entry, c.ref.id, c.calls) \in PlacesOf(env, D)
    BY <1>1, <2>1, <2>2, PlacesAre
  <2>4. QED
    BY <1>4, <2>3 DEF NextPlaces
<1>5. CASE c.ref.type = "node"
  <2>1. c.ref.id \in DOMAIN g.nodes /\ n = g.nodes[c.ref.id]
    BY <1>3, <1>5 DEF IsHole, NodeAt
  <2>2. IsNode(n)
    BY <1>2, <2>1, Wired
  <2>3. \A p : Place(Port(n, p), c.at, c.calls) \in PlacesOf(env, D)
    BY <1>1, <1>2, <2>1, Wired, PlacesAre
  <2>4. CASE n.type \in {"edit", "cache"}
    <3>1. NextPlaces(env, c) = {Place(Port(n, "next"), c.at, c.calls)}
      BY <1>5, <2>4 DEF NextPlaces
    <3>2. QED
      BY <2>3, <3>1
  <2>5. CASE n.type = "condition"
    <3>1. NextPlaces(env, c) = {Place(Port(n, p), c.at, c.calls) : p \in {"true", "false"}}
      BY <1>5, <2>5 DEF NextPlaces
    <3>2. QED
      BY <2>3, <3>1
  <2>6. CASE n.type = "call"
    <3>1. n.callee \in D
      BY <1>2, <2>1, <2>6, Wired
    <3>2. env[n.callee].entry \in Refs(env[n.callee]) \cup {None}
      BY <3>1, Wired DEF Fits
    <3>3. CallFrom(c.at, n) \in Open
      BY <1>1, <2>1, CallsAre
    <3>4. Append(c.calls, CallFrom(c.at, n)) \in Seq(Open)
      BY <1>1, <3>3, AppendProperties
    <3>5. Place(env[n.callee].entry, n.callee, Append(c.calls, CallFrom(c.at, n)))
            \in PlacesOf(env, D)
      BY <3>1, <3>2, <3>4, PlacesAre
    <3>6. NextPlaces(env, c)
            = {Place(env[n.callee].entry, n.callee, Append(c.calls, CallFrom(c.at, n)))}
      BY <1>5, <2>6 DEF NextPlaces
    <3>7. QED
      BY <3>5, <3>6
  <2>7. CASE n.type = "exit"
    <3>1. c.calls # << >>
      BY <1>3, <1>5, <2>7 DEF IsHole
    <3>2. last \in Nat \ {0} /\ c.calls[last] \in Open
      BY <1>1, <3>1, EmptySeq, LenProperties, ElementOfSeq
    <3> DEFINE f == c.calls[last]
    <3>9. f \in OpenCalls(env, D)
      BY <3>2
    <3> HIDE DEF f
    <3>3. PICK i \in DOMAIN env[f.at].nodes : f.node = env[f.at].nodes[i]
      BY <3>9, CallsAre
    <3>4. f.at \in D /\ Port(f.node, n.exitName) \in Refs(env[f.at]) \cup {None}
      BY <3>9, <3>3, CallsAre, Wired DEF Fits
    <3>5. SubSeq(c.calls, 1, last - 1) \in Seq(Open)
      BY <1>1, <3>2, SubSeqProperties
    <3>6. Place(Port(f.node, n.exitName), f.at, SubSeq(c.calls, 1, last - 1))
            \in PlacesOf(env, D)
      BY <3>4, <3>5, PlacesAre
    <3>7. NextPlaces(env, c)
            = {Place(Port(f.node, n.exitName), f.at, SubSeq(c.calls, 1, last - 1))}
      BY <1>5, <2>7 DEF NextPlaces, f
    <3>8. QED
      BY <3>6, <3>7
  <2>8. CASE n.type = "fusion"
    BY <1>5, <2>8 DEF NextPlaces
  <2>9. QED
    BY <2>2, <2>4, <2>5, <2>6, <2>7, <2>8 DEF IsNode, NodeTypes
<1>6. QED
  BY <1>3, <1>4, <1>5 DEF PortRef

(* What is not in D does not matter to it.                                 *)
LEMMA SameNext ==
  ASSUME NEW env, NEW new, NEW D, Fits(env, D), D \subseteq DOMAIN new,
         \A p \in D : new[p] = env[p], NEW c \in PlacesOf(env, D)
  PROVE  IsHole(new, c) = IsHole(env, c) /\ NextPlaces(new, c) = NextPlaces(env, c)
<1> DEFINE g == env[c.at]
           n == NodeAt(env, c)
<1>1. c.at \in D /\ c.ref \in Refs(g) \cup {None} /\ new[c.at] = g
  BY PlacesAre
<1>2. IsGraph(g) /\ PipelineRefs(g) \subseteq D
  BY <1>1 DEF Fits
<1>3. NodeAt(new, c) = n
  BY <1>1 DEF NodeAt
<1>4. c.ref # None /\ c.ref.type = "pipeline" =>
        c.ref.id \in D /\ c.ref.id \in DOMAIN env /\ c.ref.id \in DOMAIN new
          /\ new[c.ref.id] = env[c.ref.id]
  BY <1>1, <1>2, Wired DEF Fits
<1>5. c.ref # None /\ c.ref.type = "node" /\ c.ref.id \in DOMAIN g.nodes /\ n.type = "call" =>
        n.callee \in D /\ n.callee \in DOMAIN env /\ n.callee \in DOMAIN new
          /\ new[n.callee] = env[n.callee]
  BY <1>1, <1>2, Wired DEF Fits, NodeAt
<1>6. IsHole(new, c) = IsHole(env, c)
  <2>1. IsHole(new, c) <=> IsHole(env, c)
    BY <1>1, <1>3, <1>4, <1>5 DEF IsHole
  <2>2. QED
    BY <2>1 DEF IsHole
<1>7. NextPlaces(new, c) = NextPlaces(env, c)
  <2>1. CASE IsHole(env, c) \/ c.ref.type = "target"
    BY <1>6, <2>1 DEF NextPlaces
  <2>2. CASE ~IsHole(env, c) /\ c.ref.type = "pipeline"
    BY <1>4, <1>6, <2>2 DEF NextPlaces, IsHole
  <2>3. CASE ~IsHole(env, c) /\ c.ref.type = "node"
    <3>1. c.ref # None /\ c.ref.id \in DOMAIN g.nodes
      BY <2>3 DEF IsHole
    <3>2. n.type = "call" => new[n.callee] = env[n.callee]
      BY <1>5, <2>3, <3>1
    <3>3. ~IsHole(new, c)
      BY <1>6, <2>3
    <3>4. IsNode(n)
      BY <1>2, <3>1, Wired DEF NodeAt
    <3> HIDE DEF n, g
    <3>5. CASE n.type = "call"
      BY <1>3, <2>3, <3>2, <3>3, <3>5 DEF NextPlaces, n
    <3>6. CASE n.type \in NodeTypes \ {"call"}
      BY <1>3, <2>3, <3>3, <3>6 DEF NextPlaces, n, NodeTypes
    <3>7. QED
      BY <3>4, <3>5, <3>6 DEF IsNode
  <2>4. IsHole(env, c) \/ (c.ref # None /\ c.ref \in PortRef)
    BY <1>1, <1>2, Wired DEF IsHole
  <2>5. QED
    BY <2>1, <2>2, <2>3, <2>4 DEF PortRef
<1>8. QED
  BY <1>6, <1>7

PlacesWithin(p, env) ==
  CHOOSE f : f = [k \in Nat |->
    IF k = 0 THEN {Place(env[p].entry, p, << >>)}
    ELSE f[k - 1] \cup UNION {NextPlaces(env, c) : c \in f[k - 1]}]

IsSearch(f, p, env, D) ==
  /\ f \in [Nat -> SUBSET PlacesOf(env, D)]
  /\ f[0] = {Place(env[p].entry, p, << >>)}
  /\ \A k \in Nat : f[k + 1] = f[k] \cup UNION {NextPlaces(env, c) : c \in f[k]}

LEMMA PlacesSpread ==
  ASSUME NEW env, NEW D, Fits(env, D), NEW p \in D
  PROVE  IsSearch(PlacesWithin(p, env), p, env, D)
<1> DEFINE U == PlacesOf(env, D)
           S == {Place(env[p].entry, p, << >>)}
           st == [c \in U |-> NextPlaces(env, c)]
           Eq(g) == g = [k \in Nat |->
             IF k = 0 THEN S ELSE g[k - 1] \cup UNION {NextPlaces(env, c) : c \in g[k - 1]}]
<1>1. S \in SUBSET U
  <2>1. env[p].entry \in Refs(env[p]) \cup {None}
    BY Wired DEF Fits
  <2>2. << >> \in Seq(OpenCalls(env, D))
    BY EmptySeq
  <2>3. Place(env[p].entry, p, << >>) \in PlacesOf(env, D)
    BY <2>1, <2>2, PlacesAre
  <2>4. QED
    BY <2>3
<1>2. \A c \in U : NextPlaces(env, c) \subseteq U
  BY NextStays
<1> HIDE DEF S, U
<1>3. Leads(st, U) /\ \A c \in U : st[c] = NextPlaces(env, c)
  BY <1>2 DEF Leads
<1> HIDE DEF st
<1>4. PICK g : Spreading(g, st, U, S)
  BY <1>1, <1>3, Spreads
<1>5. ASSUME NEW k \in Nat
      PROVE  g[k] = IF k = 0 THEN S
                    ELSE g[k - 1] \cup UNION {NextPlaces(env, c) : c \in g[k - 1]}
  <2>1. CASE k = 0
    BY <1>4, <2>1 DEF Spreading
  <2>2. CASE k # 0
    <3>1. k - 1 \in Nat
      BY <2>2
    <3>2. g[k - 1] \in SUBSET U
      BY <1>4, <3>1 DEF Spreading
    <3>3. g[k] = g[k - 1] \cup UNION {st[c] : c \in g[k - 1]}
      BY <1>4, <2>2 DEF Spreading
    <3>4. {st[c] : c \in g[k - 1]} = {NextPlaces(env, c) : c \in g[k - 1]}
      BY <1>3, <3>2
    <3>5. QED
      BY <2>2, <3>3, <3>4
  <2>3. QED
    BY <2>1, <2>2
<1>6. Eq(g)
  BY <1>4, <1>5 DEF Spreading
<1>7. Eq(PlacesWithin(p, env))
  <2>1. PlacesWithin(p, env) = CHOOSE f : Eq(f)
    BY DEF PlacesWithin, S
  <2> HIDE DEF Eq
  <2>2. QED
    BY <1>6, <2>1
<1> DEFINE f == PlacesWithin(p, env)
<1> HIDE DEF f
<1>8. f[0] = S /\ \A k \in Nat : f[k + 1] = f[k] \cup UNION {NextPlaces(env, c) : c \in f[k]}
  <2>1. f = [k \in Nat |->
          IF k = 0 THEN S ELSE f[k - 1] \cup UNION {NextPlaces(env, c) : c \in f[k - 1]}]
    BY <1>7 DEF f
  <2>2. ASSUME NEW k \in Nat
        PROVE  f[k + 1] = f[k] \cup UNION {NextPlaces(env, c) : c \in f[k]}
    <3>1. k + 1 \in Nat /\ k + 1 # 0 /\ (k + 1) - 1 = k
      OBVIOUS
    <3>2. f[k + 1] = f[(k + 1) - 1] \cup UNION {NextPlaces(env, c) : c \in f[(k + 1) - 1]}
      BY <2>1, <3>1
    <3>3. QED
      BY <3>1, <3>2
  <2>3. f[0] = S
    BY <2>1
  <2>4. QED
    BY <2>2, <2>3
<1>9. f \in [Nat -> SUBSET U]
  <2> DEFINE T == {k \in Nat : f[k] \in SUBSET U}
  <2>1. 0 \in T
    BY <1>1, <1>8
  <2>2. ASSUME NEW k \in Nat, k \in T PROVE k + 1 \in T
    <3>1. \A c \in f[k] : NextPlaces(env, c) \subseteq U
      BY <1>2, <2>2
    <3>2. QED
      BY <1>8, <2>2, <3>1
  <2> HIDE DEF T
  <2>3. Nat \subseteq T
    BY <2>1, <2>2, Induct
  <2>4. DOMAIN f = Nat /\ f = [k \in Nat |-> f[k]]
    BY <1>7 DEF f
  <2>5. QED
    BY <2>3, <2>4 DEF T
<1>10. QED
  BY <1>8, <1>9 DEF f, S, U, IsSearch

LEMMA HolesAre ==
  ASSUME NEW env, NEW p \in DOMAIN env
  PROVE  HasHoles(p, env) <=> \E c \in PlacesWithin(p, env)[MaxHoleDepth] : IsHole(env, c)
BY DEF HasHoles, Reached, PlacesWithin

(* So an edit outside of D neither makes a hole in D nor fills one.        *)
LEMMA SameHoles ==
  ASSUME NEW env, NEW new, NEW D, Fits(env, D), D \subseteq DOMAIN new,
         \A q \in D : new[q] = env[q], NEW p \in D
  PROVE  HasHoles(p, new) <=> HasHoles(p, env)
<1> DEFINE f == PlacesWithin(p, env)
           h == PlacesWithin(p, new)
           T == {k \in Nat : h[k] = f[k]}
<1>1. Fits(new, D) /\ p \in DOMAIN env /\ p \in DOMAIN new /\ new[p] = env[p]
  BY DEF Fits
<1>2. /\ f \in [Nat -> SUBSET PlacesOf(env, D)]
      /\ f[0] = {Place(env[p].entry, p, << >>)}
      /\ \A k \in Nat : f[k + 1] = f[k] \cup UNION {NextPlaces(env, c) : c \in f[k]}
  <2>1. IsSearch(f, p, env, D)
    BY PlacesSpread
  <2> HIDE DEF f
  <2>2. QED
    BY <2>1 DEF IsSearch
<1>3. /\ h[0] = {Place(new[p].entry, p, << >>)}
      /\ \A k \in Nat : h[k + 1] = h[k] \cup UNION {NextPlaces(new, c) : c \in h[k]}
  <2>1. IsSearch(h, p, new, D)
    BY <1>1, PlacesSpread
  <2> HIDE DEF h
  <2>2. QED
    BY <2>1 DEF IsSearch
<1> HIDE DEF f, h
<1>4. 0 \in T
  BY <1>1, <1>2, <1>3
<1>5. ASSUME NEW k \in Nat, k \in T PROVE k + 1 \in T
  <2>1. \A c \in f[k] : NextPlaces(new, c) = NextPlaces(env, c)
    BY <1>2, SameNext
  <2>2. {NextPlaces(new, c) : c \in f[k]} = {NextPlaces(env, c) : c \in f[k]}
    BY <2>1
  <2>3. h[k] = f[k] /\ h[k + 1] = h[k] \cup UNION {NextPlaces(new, c) : c \in h[k]}
           /\ f[k + 1] = f[k] \cup UNION {NextPlaces(env, c) : c \in f[k]}
    BY <1>2, <1>3, <1>5
  <2>4. h[k + 1] = f[k + 1]
    BY <2>2, <2>3
  <2>5. QED
    BY <2>4
<1> HIDE DEF T
<1>6. Nat \subseteq T
  BY <1>4, <1>5, Induct
<1>7. MaxHoleDepth \in Nat
  BY RoutesAssumption
<1>8. h[MaxHoleDepth] = f[MaxHoleDepth]
  BY <1>6, <1>7 DEF T
<1>9. \A c \in f[MaxHoleDepth] : IsHole(new, c) = IsHole(env, c)
  BY <1>2, <1>7, SameNext
<1>10. QED
  BY <1>1, <1>8, <1>9, HolesAre DEF f, h

-----------------------------------------------------------------------------
(* Edits keep the pipelines free of loops, and the routes of models free   *)
(* of holes.                                                               *)

Offered ==
  /\ DOMAIN pipelines \subseteq Pipelines
  /\ \A p \in DOMAIN pipelines : pipelines[p].graph \in Drafts[p]

Served(ms, env) ==
  \A m \in DOMAIN ms : LET r == ms[m].routeTo IN
    r # None => /\ r.type \in {"target", "pipeline"}
                /\ r.type = "pipeline" => ~HasHoles(r.id, env)

ServedInv == IInv /\ Offered /\ Acyclic(Env) /\ Served(models, Env)

LEMMA EnvIs ==
  DOMAIN Env = DOMAIN pipelines /\ \A p \in DOMAIN pipelines : Env[p] = pipelines[p].graph
BY DEF Env

LEMMA EnvFits ==
  ASSUME IInv, Offered
  PROVE  /\ Whole(Env) /\ Fits(Env, DOMAIN Env)
         /\ \A p \in DOMAIN Env : TargetRefs(Env[p]) \subseteq targets
<1>1. \A p \in DOMAIN Env :
        /\ IsGraph(Env[p]) /\ PipelineRefs(Env[p]) \subseteq DOMAIN Env
        /\ TargetRefs(Env[p]) \subseteq targets
  BY EnvIs, RoutesAssumption DEF IInv, Stores, Closed, Offered
<1>2. DOMAIN Env \subseteq Pipelines
  BY EnvIs DEF Offered
<1>3. QED
  BY <1>1, <1>2 DEF Whole, Fits

LEMMA CreatePipelineServes ==
  ASSUME ServedInv, NEW p \in Pipelines, NEW g \in Drafts[p], CreatePipeline(p, g)
  PROVE  ServedInv'
<1> DEFINE new == With(Env, p, g)
<1>1. /\ pipelines' = With(pipelines, p, [graph |-> g, enabled |-> TRUE])
      /\ p \notin DOMAIN pipelines /\ models' = models
  BY DEF CreatePipeline
<1>2. PipelineRefs(g) \subseteq DOMAIN Env
  BY ValidGraphIsClosed, EnvIs DEF CreatePipeline, Closed
<1>3. DOMAIN pipelines' = DOMAIN pipelines \cup {p}
      /\ \A q \in DOMAIN pipelines' :
           pipelines'[q] = IF q = p THEN [graph |-> g, enabled |-> TRUE] ELSE pipelines[q]
  BY <1>1 DEF With
<1>4. Env' = new
  BY <1>1, <1>3 DEF Env, With
<1>5. DOMAIN Env \subseteq DOMAIN new /\ \A q \in DOMAIN Env : new[q] = Env[q]
  BY <1>1, EnvIs DEF With
<1> HIDE DEF new
<1>6. Acyclic(new)
  BY <1>1, <1>2, EnvIs, EnvFits, AddKeepsAcyclic DEF ServedInv, new
<1>7. \A q \in DOMAIN Env : HasHoles(q, new) <=> HasHoles(q, Env)
  BY <1>5, EnvFits, SameHoles DEF ServedInv
<1>8. \A q : ~HasHoles(q, Env) => q \in DOMAIN Env
  BY DEF HasHoles
<1>9. Served(models, new)
  BY <1>7, <1>8 DEF ServedInv, Served
<1>10. Offered'
  BY <1>3 DEF ServedInv, Offered
<1>11. IInv'
  BY CreatePipelineKeeps DEF ServedInv
<1>12. QED
  BY <1>1, <1>4, <1>6, <1>9, <1>10, <1>11 DEF ServedInv

LEMMA UpdatePipelineServes ==
  ASSUME ServedInv, NEW p, NEW g, g \in Drafts[p], NEW enabled, UpdatePipeline(p, g, enabled)
  PROVE  ServedInv'
<1> DEFINE new == With(Env, p, g)
<1>1. /\ pipelines' = [pipelines EXCEPT ![p] = [graph |-> g, enabled |-> enabled]]
      /\ p \in DOMAIN pipelines /\ models' = models
      /\ GraphValid(g, p) /\ RoutesComplete(p, new)
  BY DEF UpdatePipeline
<1>2. PipelineRefs(g) \subseteq DOMAIN Env
  BY <1>1, ValidGraphIsClosed, EnvIs DEF Closed
<1>3. DOMAIN pipelines' = DOMAIN pipelines
      /\ \A q \in DOMAIN pipelines :
           pipelines'[q].graph = IF q = p THEN g ELSE pipelines[q].graph
  BY <1>1
<1>4. Env' = new
  BY <1>1, <1>3 DEF Env, With
<1>5. DOMAIN new = DOMAIN Env /\ \A q \in DOMAIN Env : q # p => new[q] = Env[q]
  BY <1>1, EnvIs DEF With
<1> HIDE DEF new
<1>6. Whole(new) /\ Acyclic(new)
  BY <1>1, <1>2, EnvIs, EnvFits, ChangeKeepsAcyclic DEF ServedInv, new, GraphValid
<1>7. ASSUME NEW q \in DOMAIN Env, ~HasHoles(q, Env), p \notin PipelinesReached({q}, new)
      PROVE  ~HasHoles(q, new)
  <2> DEFINE D == PipelinesReached({q}, new)
  <2>1. {q} \subseteq DOMAIN new /\ Under(DOMAIN new, new) /\ {q} \in SUBSET Pipelines
    BY <1>5, <1>6 DEF Whole, Under
  <2>2. q \in D /\ D \subseteq DOMAIN new /\ Under(D, new)
    BY <1>6, <2>1, WholeIsKnown, ReachedPipelines
  <2> HIDE DEF D
  <2>3. \A x \in D : new[x] = Env[x]
    BY <1>5, <1>7, <2>2 DEF D
  <2>4. \A x \in D : PipelineRefs(Env[x]) \subseteq D
    BY <2>2, <2>3 DEF Under
  <2>5. Fits(Env, D) /\ D \subseteq DOMAIN new
    BY <1>5, <2>2, <2>4, EnvFits DEF ServedInv, Fits
  <2>6. QED
    BY <1>7, <2>2, <2>3, <2>5, SameHoles
<1>8. \A q : ~HasHoles(q, Env) => q \in DOMAIN Env
  BY DEF HasHoles
<1>9. Served(models, new)
  <2>1. ASSUME NEW m \in DOMAIN models, models[m].routeTo # None,
               models[m].routeTo.type = "pipeline"
        PROVE  ~HasHoles(models[m].routeTo.id, new)
    <3>1. ~HasHoles(models[m].routeTo.id, Env)
      BY <2>1 DEF ServedInv, Served
    <3>2. p \in PipelinesReached({models[m].routeTo.id}, new)
            => ~HasHoles(models[m].routeTo.id, new)
      BY <1>1, <2>1 DEF RoutesComplete
    <3>3. QED
      BY <1>7, <1>8, <3>1, <3>2
  <2>2. QED
    BY <2>1 DEF ServedInv, Served
<1>10. Offered'
  BY <1>3 DEF ServedInv, Offered
<1>11. IInv'
  BY UpdatePipelineKeeps DEF ServedInv
<1>12. QED
  BY <1>1, <1>4, <1>6, <1>9, <1>10, <1>11 DEF ServedInv

LEMMA DeletePipelineServes ==
  ASSUME ServedInv, NEW p, DeletePipeline(p)
  PROVE  ServedInv'
<1> DEFINE new == Without(Env, p)
           D == DOMAIN Env \ {p}
<1>1. /\ pipelines' = Without(pipelines, p) /\ models' = models
      /\ \A m \in DOMAIN models : models[m].routeTo # To("pipeline", p)
      /\ \A q \in DOMAIN pipelines \ {p} : p \notin PipelineRefs(pipelines[q].graph)
  BY DEF DeletePipeline
<1>2. DOMAIN pipelines' = DOMAIN pipelines \ {p}
      /\ \A q \in DOMAIN pipelines' : pipelines'[q] = pipelines[q]
  BY <1>1 DEF Without
<1>3. Env' = new
  BY <1>2 DEF Env, Without
<1>4. DOMAIN new = D /\ \A q \in D : new[q] = Env[q]
  BY DEF Without
<1>5. \A q \in D : p \notin PipelineRefs(Env[q])
  BY <1>1, EnvIs
<1> HIDE DEF new
<1>6. Acyclic(new)
  BY <1>5, EnvFits, RemoveKeepsAcyclic DEF ServedInv, new
<1>7. Fits(Env, D)
  BY <1>5, EnvFits DEF ServedInv, Fits
<1>8. \A q \in D : HasHoles(q, new) <=> HasHoles(q, Env)
  BY <1>4, <1>7, SameHoles
<1>9. \A q : ~HasHoles(q, Env) => q \in DOMAIN Env
  BY DEF HasHoles
<1>10. Served(models, new)
  <2>1. ASSUME NEW m \in DOMAIN models, models[m].routeTo # None,
               models[m].routeTo.type = "pipeline"
        PROVE  ~HasHoles(models[m].routeTo.id, new)
    <3>1. ~HasHoles(models[m].routeTo.id, Env)
      BY <2>1 DEF ServedInv, Served
    <3>2. models[m].routeTo \in PortRef /\ models[m].routeTo # To("pipeline", p)
      BY <1>1, <2>1 DEF ServedInv, IInv, Stores, Bound
    <3>3. models[m].routeTo.id # p
      BY <2>1, <3>2, References
    <3>4. QED
      BY <1>8, <1>9, <3>1, <3>3
  <2>2. QED
    BY <2>1 DEF ServedInv, Served
<1>11. Offered'
  BY <1>2 DEF ServedInv, Offered
<1>12. IInv'
  BY DeletePipelineKeeps DEF ServedInv
<1>13. QED
  BY <1>1, <1>3, <1>6, <1>10, <1>11, <1>12 DEF ServedInv

(* The edits of targets and models leave the pipelines as they are.        *)
LEMMA ModelsServe ==
  ASSUME ServedInv, IInv', pipelines' = pipelines, Served(models', Env)
  PROVE  ServedInv'
<1>1. Env' = Env
  BY DEF Env
<1>2. Offered'
  BY DEF ServedInv, Offered
<1>3. QED
  BY <1>1, <1>2 DEF ServedInv

LEMMA SavedModelServes ==
  ASSUME ServedInv, NEW m, NEW r, NEW t,
         models' = With(models, m, [routeTo |-> r, targetId |-> t]),
         r # None => /\ r.type \in {"target", "pipeline"}
                     /\ r.type = "pipeline" => ~HasHoles(r.id, Env)
  PROVE  Served(models', Env)
<1>1. /\ DOMAIN models' = DOMAIN models \cup {m}
      /\ models'[m] = [routeTo |-> r, targetId |-> t]
      /\ \A n \in DOMAIN models : n # m => models'[n] = models[n]
  BY DEF With
<1>2. QED
  BY <1>1 DEF ServedInv, Served

LEMMA EditsServe ==
  ASSUME ServedInv, Edits
  PROVE  ServedInv'
<1> DEFINE Routed == {To("target", u) : u \in Targets}
                       \cup {To("pipeline", p) : p \in Pipelines} \cup {None}
<1>0. IInv'
  BY EditsKeep DEF ServedInv
<1>1. CASE \E p \in Pipelines : \E g \in Drafts[p] : CreatePipeline(p, g)
  BY <1>1, CreatePipelineServes
<1>2. CASE \E p \in DOMAIN pipelines :
             \/ \E g \in Drafts[p] : UpdatePipeline(p, g, pipelines[p].enabled)
             \/ \E enabled \in BOOLEAN : UpdatePipeline(p, pipelines[p].graph, enabled)
  <2>1. \A p \in DOMAIN pipelines : pipelines[p].graph \in Drafts[p]
    BY DEF ServedInv, Offered
  <2>2. QED
    BY <1>2, <2>1, UpdatePipelineServes
<1>3. CASE \E p \in Pipelines : DeletePipeline(p)
  BY <1>3, DeletePipelineServes
<1>4. CASE \E t \in Targets : CreateTarget(t) \/ DeleteTarget(t)
  <2>1. pipelines' = pipelines /\ models' = models
    BY <1>4 DEF CreateTarget, DeleteTarget
  <2>2. QED
    BY <1>0, <2>1, ModelsServe DEF ServedInv
<1>5. CASE \E m \in Models, t \in Targets \cup {None}, r \in Routed :
             CreateModel(m, r, t) \/ UpdateModel(m, r, t)
  <2>1. PICK m \in Models, t \in Targets \cup {None}, r \in Routed :
               CreateModel(m, r, t) \/ UpdateModel(m, r, t)
    BY <1>5
  <2>2. pipelines' = pipelines
    BY <2>1 DEF CreateModel, UpdateModel
  <2>3. models' = With(models, m, [routeTo |-> r, targetId |-> t])
    BY <2>1 DEF CreateModel, UpdateModel, With
  <2>4. RouteValid(r) \/ (m \in DOMAIN models /\ r = models[m].routeTo)
    BY <2>1 DEF CreateModel, UpdateModel
  <2>5. r # None => /\ r.type \in {"target", "pipeline"}
                    /\ r.type = "pipeline" => ~HasHoles(r.id, Env)
    BY <2>4 DEF RouteValid, ServedInv, Served
  <2>6. QED
    BY <1>0, <2>2, <2>3, <2>5, SavedModelServes, ModelsServe
<1>6. CASE \E m \in Models : DeleteModel(m)
  <2>1. PICK m \in Models : DeleteModel(m)
    BY <1>6
  <2>2. /\ DOMAIN models' \subseteq DOMAIN models /\ pipelines' = pipelines
        /\ \A n \in DOMAIN models' : models'[n] = models[n]
    BY <2>1 DEF DeleteModel, Without
  <2>3. Served(models', Env)
    BY <2>2 DEF ServedInv, Served
  <2>4. QED
    BY <1>0, <2>2, <2>3, ModelsServe
<1>7. CASE \E m \in Models, t \in Targets : QuickRoute(m, t)
  <2>1. PICK m \in Models, t \in Targets : QuickRoute(m, t)
    BY <1>7
  <2>2. /\ models' = With(models, m, [routeTo |-> To("target", t), targetId |-> t])
        /\ pipelines' = pipelines
    BY <2>1 DEF QuickRoute
  <2>3. Served(models', Env)
    BY <2>2, References, SavedModelServes
  <2>4. QED
    BY <1>0, <2>2, <2>3, ModelsServe
<1>8. QED
  BY <1>1, <1>2, <1>3, <1>4, <1>5, <1>6, <1>7 DEF Edits

-----------------------------------------------------------------------------
(* A walk follows the search: where it is, the search has been.            *)

PipelineCount == Cardinality(Pipelines)
AtPipeline(p, env) == [id |-> p, graph |-> env[p]]

NodesOf(env) == UNION {{env[p].nodes[i] : i \in DOMAIN env[p].nodes} : p \in DOMAIN env}
WalkCalls(env) ==
  [at : {AtPipeline(p, env) : p \in DOMAIN env}, node : NodesOf(env), callee : DOMAIN env]

(* The calls of a walk as the search has them.                             *)
OpenOf(cs) == [i \in DOMAIN cs |-> CallFrom(cs[i].at.id, cs[i].node)]
Here(w) == Place(w.ref, w.at.id, OpenOf(w.calls))

(* A walk is in what it has called, or below it, and so are the calls that *)
(* it has made from there.                                                 *)
From(q, env) == {q} \cup Below(q, env)
Nested(w, env) ==
  \A i \in DOMAIN w.calls :
    /\ w.at.id \in From(w.calls[i].callee, env)
    /\ \A j \in DOMAIN w.calls : i < j => w.calls[j].at.id \in From(w.calls[i].callee, env)

(* With v nodes visited, and jumps from pipeline to pipeline between them, *)
(* which go down, the search is in its step d.                             *)
Inside(w, env, root, d, v) ==
  /\ root \in DOMAIN env /\ ~HasHoles(root, env)
  /\ w.at \in {AtPipeline(p, env) : p \in DOMAIN env}
  /\ w.calls \in Seq(WalkCalls(env))
  /\ Nested(w, env)
  /\ d \in Nat /\ v \in 0..MaxVisitedNodes
  /\ Here(w) \in PlacesWithin(root, env)[d]
  /\ d + Cardinality(Below(w.at.id, env)) <= v * (PipelineCount + 1) + PipelineCount

Good(env, ts) ==
  /\ Whole(env) /\ Acyclic(env) /\ Fits(env, DOMAIN env)
  /\ \A p \in DOMAIN env : TargetRefs(env[p]) \subseteq ts /\ AtPipeline(p, env) # None

LEMMA Counts ==
  ASSUME NEW env, Whole(env), NEW p \in DOMAIN env
  PROVE  /\ PipelineCount \in Nat
         /\ IsFiniteSet(Below(p, env))
         /\ Cardinality(Below(p, env)) \in Nat
         /\ Cardinality(Below(p, env)) <= PipelineCount
<1>1. IsFiniteSet(Pipelines) /\ PipelineCount \in Nat
  BY RoutesAssumption, FS_CardinalityType DEF PipelineCount
<1>2. Below(p, env) \subseteq Pipelines
  BY BelowPipelines DEF Whole
<1>3. QED
  BY <1>1, <1>2, FS_Subset, FS_CardinalityType DEF PipelineCount

LEMMA Lower ==
  ASSUME NEW env, Whole(env), Acyclic(env), NEW p \in DOMAIN env, NEW q \in PipelineRefs(env[p])
  PROVE  /\ q \in DOMAIN env
         /\ Cardinality(Below(q, env)) + 1 <= Cardinality(Below(p, env))
<1>1. q \in DOMAIN env /\ q \in Below(p, env)
  BY BelowPipelines DEF Whole
<1>2. PipelineRefs(env[q]) \subseteq Below(p, env)
  BY <1>1, BelowPipelines DEF Under
<1>3. Below(q, env) \subseteq Below(p, env)
  BY <1>1, <1>2, BelowPipelines
<1>4. Below(q, env) # Below(p, env)
  BY <1>1 DEF Acyclic
<1>5. /\ Cardinality(Below(q, env)) \in Nat /\ Cardinality(Below(p, env)) \in Nat
      /\ IsFiniteSet(Below(p, env))
  BY <1>1, Counts
<1>6. Cardinality(Below(q, env)) <= Cardinality(Below(p, env))
        /\ Cardinality(Below(q, env)) # Cardinality(Below(p, env))
  BY <1>3, <1>4, <1>5, FS_Subset
<1>7. QED
  BY <1>1, <1>5, <1>6

LEMMA FromStep ==
  ASSUME NEW env, Whole(env), NEW q \in DOMAIN env, NEW x \in From(q, env),
         NEW y \in PipelineRefs(env[x])
  PROVE  y \in Below(q, env)
<1>1. CASE x = q
  BY <1>1, BelowPipelines
<1>2. CASE x \in Below(q, env)
  BY <1>2, BelowPipelines DEF Under
<1>3. QED
  BY <1>1, <1>2 DEF From

LEMMA SearchGrows ==
  ASSUME NEW env, NEW D, NEW p, NEW f, IsSearch(f, p, env, D),
         NEW d \in Nat, NEW e \in Nat, d <= e
  PROVE  f[d] \subseteq f[e]
<1> DEFINE T == {k \in Nat : f[d] \subseteq f[d + k]}
<1>1. 0 \in T
  OBVIOUS
<1>2. ASSUME NEW k \in Nat, k \in T PROVE k + 1 \in T
  <2>1. f[(d + k) + 1] = f[d + k] \cup UNION {NextPlaces(env, c) : c \in f[d + k]}
    BY DEF IsSearch
  <2>2. f[d + k] \subseteq f[(d + k) + 1]
    BY <2>1
  <2>3. (d + k) + 1 = d + (k + 1)
    OBVIOUS
  <2>4. QED
    BY <1>2, <2>2, <2>3
<1> HIDE DEF T
<1>3. Nat \subseteq T
  BY <1>1, <1>2, Induct
<1>4. e - d \in Nat /\ d + (e - d) = e
  OBVIOUS
<1>5. f[d] \subseteq f[d + (e - d)]
  BY <1>3, <1>4 DEF T
<1>6. QED
  BY <1>4, <1>5

(* The search goes deeper than a walk.                                     *)
LEMMA DeepEnough ==
  ASSUME NEW d \in Nat, NEW v \in 0..MaxVisitedNodes,
         d <= v * (PipelineCount + 1) + PipelineCount
  PROVE  d <= MaxHoleDepth
<1> DEFINE N == PipelineCount + 1
           M == MaxVisitedNodes
<1>1. PipelineCount \in Nat
  BY RoutesAssumption, FS_CardinalityType DEF PipelineCount
<1>2. M \in Nat /\ MaxHoleDepth \in Nat /\ MaxHoleDepth >= (M + 1) * N
  BY RoutesAssumption DEF PipelineCount
<1>3. N \in Nat /\ d <= v * N + N
  BY <1>1
<1> HIDE DEF N, M
<1>4. v \in Nat /\ M - v \in Nat
  BY <1>2 DEF M
<1>5. \A a, b, c \in Nat : (a + b) * c = a * c + b * c /\ a * c \in Nat
  OBVIOUS
<1>6. M * N = v * N + (M - v) * N
  <2>1. v + (M - v) = M
    BY <1>2, <1>4
  <2>2. QED
    BY <1>3, <1>4, <1>5, <2>1
<1>7. v * N \in Nat /\ (M - v) * N \in Nat /\ M * N \in Nat /\ (M + 1) * N = M * N + 1 * N
  BY <1>2, <1>3, <1>4, <1>5
<1>8. QED
  BY <1>2, <1>3, <1>6, <1>7

LEMMA OpensAre ==
  ASSUME NEW cs, NEW S, cs \in Seq(S)
  PROVE  /\ DOMAIN OpenOf(cs) = DOMAIN cs /\ DOMAIN cs = 1..Len(cs)
         /\ \A i \in DOMAIN cs : OpenOf(cs)[i] = CallFrom(cs[i].at.id, cs[i].node)
BY LenProperties DEF OpenOf

LEMMA CallsTyped ==
  ASSUME NEW env, NEW cs \in Seq(WalkCalls(env)), NEW i \in DOMAIN cs
  PROVE  /\ cs[i] \in WalkCalls(env)
         /\ cs[i].callee \in DOMAIN env /\ cs[i].at.id \in DOMAIN env
         /\ cs[i].at \in {AtPipeline(p, env) : p \in DOMAIN env}
<1>1. cs[i] \in WalkCalls(env)
  BY ElementOfSeq, LenProperties
<1>2. QED
  BY <1>1 DEF WalkCalls, AtPipeline

(* Where a walk is there is no hole, and the ways on lead to places that   *)
(* the search has been to as well.                                         *)
LEMMA InsideIsSearched ==
  ASSUME NEW env, NEW ts, Good(env, ts), NEW w, NEW root, NEW d, NEW v,
         Inside(w, env, root, d, v)
  PROVE  /\ Here(w) \in PlacesOf(env, DOMAIN env)
         /\ ~IsHole(env, Here(w))
         /\ NextPlaces(env, Here(w)) \subseteq PlacesWithin(root, env)[d + 1]
<1> DEFINE f == PlacesWithin(root, env)
           c == Here(w)
<1>1. root \in DOMAIN env /\ Fits(env, DOMAIN env) /\ d \in Nat /\ c \in f[d]
  BY DEF Good, Inside
<1>2. IsSearch(f, root, env, DOMAIN env)
  BY <1>1, PlacesSpread
<1> HIDE DEF f, c
<1>3. /\ f \in [Nat -> SUBSET PlacesOf(env, DOMAIN env)]
      /\ f[d + 1] = f[d] \cup UNION {NextPlaces(env, x) : x \in f[d]}
  BY <1>1, <1>2 DEF IsSearch
<1>4. c \in PlacesOf(env, DOMAIN env) /\ NextPlaces(env, c) \subseteq f[d + 1]
  BY <1>1, <1>3
<1>5. w.at.id \in DOMAIN env
  BY DEF Inside, AtPipeline
<1>6. d <= v * (PipelineCount + 1) + PipelineCount /\ v \in 0..MaxVisitedNodes
  <2>1. PipelineCount \in Nat /\ Cardinality(Below(w.at.id, env)) \in Nat
    BY <1>5, Counts DEF Good
  <2>2. v \in Nat /\ v * (PipelineCount + 1) \in Nat
    BY <2>1 DEF Inside
  <2>3. QED
    BY <1>1, <2>1, <2>2 DEF Inside
<1>7. d <= MaxHoleDepth /\ MaxHoleDepth \in Nat
  BY <1>1, <1>6, DeepEnough, RoutesAssumption
<1>8. c \in f[MaxHoleDepth]
  BY <1>1, <1>2, <1>7, SearchGrows
<1>9. ~IsHole(env, c)
  BY <1>1, <1>8, HolesAre DEF f, Inside
<1>10. QED
  BY <1>4, <1>9 DEF c, f

LEMMA InsideIs ==
  ASSUME NEW env, NEW ts, Good(env, ts), NEW w, NEW root, NEW d, NEW v,
         Inside(w, env, root, d, v)
  PROVE  /\ w.at.id \in DOMAIN env /\ w.at = AtPipeline(w.at.id, env)
         /\ w.at.graph = env[w.at.id] /\ w.at # None
         /\ w.ref # None /\ w.ref \in PortRef
         /\ w.ref.type = "target" => w.ref.id \in ts
         /\ w.ref.type = "pipeline" => w.ref.id \in PipelineRefs(env[w.at.id])
         /\ w.ref.type = "node" =>
              /\ w.ref.id \in DOMAIN w.at.graph.nodes
              /\ NodeAt(env, Here(w)) = w.at.graph.nodes[w.ref.id]
              /\ IsNode(w.at.graph.nodes[w.ref.id])
              /\ w.at.graph.nodes[w.ref.id].type = "call" =>
                   w.at.graph.nodes[w.ref.id].callee \in PipelineRefs(env[w.at.id])
              /\ w.at.graph.nodes[w.ref.id].type = "exit" => w.calls # << >>
<1> DEFINE c == Here(w)
           p == w.at.id
<1>1. p \in DOMAIN env /\ w.at = AtPipeline(p, env) /\ w.at.graph = env[p]
  BY DEF Inside, AtPipeline
<1>2. w.at # None /\ IsGraph(env[p]) /\ TargetRefs(env[p]) \subseteq ts
  BY <1>1 DEF Good, Fits
<1>3. c.ref = w.ref /\ c.at = p /\ c.calls = OpenOf(w.calls)
  BY PlaceFields DEF Here
<1>4. c \in PlacesOf(env, DOMAIN env) /\ ~IsHole(env, c)
  BY InsideIsSearched
<1>5. w.ref \in Refs(env[p]) \cup {None}
  BY <1>3, <1>4, PlacesAre
<1> HIDE DEF c
<1>6. w.ref # None
  BY <1>3, <1>4 DEF IsHole
<1>7. /\ w.ref \in PortRef
      /\ w.ref.type = "target" => w.ref.id \in ts
      /\ w.ref.type = "pipeline" => w.ref.id \in PipelineRefs(env[p])
  BY <1>2, <1>5, <1>6, Wired
<1>8. ASSUME w.ref.type = "node"
      PROVE  /\ w.ref.id \in DOMAIN w.at.graph.nodes
             /\ NodeAt(env, c) = w.at.graph.nodes[w.ref.id]
             /\ IsNode(w.at.graph.nodes[w.ref.id])
             /\ w.at.graph.nodes[w.ref.id].type = "call" =>
                  w.at.graph.nodes[w.ref.id].callee \in PipelineRefs(env[p])
             /\ w.at.graph.nodes[w.ref.id].type = "exit" => w.calls # << >>
  <2>1. w.ref.id \in DOMAIN env[p].nodes /\ NodeAt(env, c) = env[p].nodes[w.ref.id]
    BY <1>3, <1>4, <1>6, <1>8 DEF IsHole, NodeAt
  <2>2. env[p].nodes[w.ref.id].type = "exit" => c.calls # << >>
    BY <1>3, <1>4, <1>6, <1>8, <2>1 DEF IsHole
  <2>3. w.calls = << >> => OpenOf(w.calls) = << >>
    BY DEF OpenOf
  <2>4. QED
    BY <1>1, <1>2, <1>3, <2>1, <2>2, <2>3, Wired
<1>9. QED
  BY <1>1, <1>2, <1>6, <1>7, <1>8 DEF c

LEMMA InsideNode ==
  ASSUME NEW env, NEW ts, Good(env, ts), NEW w, NEW root, NEW d, NEW v,
         Inside(w, env, root, d, v), w.ref.type = "node"
  PROVE  /\ w.ref.id \in DOMAIN w.at.graph.nodes
         /\ NodeAt(env, Here(w)) = w.at.graph.nodes[w.ref.id]
         /\ IsNode(w.at.graph.nodes[w.ref.id])
         /\ w.at.graph.nodes[w.ref.id].type = "exit" => w.calls # << >>
BY InsideIs

-----------------------------------------------------------------------------
(* The steps of a walk, from w to u.                                       *)

LEMMA WalkEnters ==
  ASSUME NEW env, NEW ts, Good(env, ts), NEW p \in DOMAIN env, ~HasHoles(p, env),
         NEW u, u.at = AtPipeline(p, env), u.ref = env[p].entry, u.calls = << >>
  PROVE  Inside(u, env, p, 0, 0)
<1>1. OpenOf(u.calls) = << >>
  BY DEF OpenOf
<1>2. Here(u) = Place(env[p].entry, p, << >>)
  BY <1>1 DEF Here, AtPipeline
<1>3. IsSearch(PlacesWithin(p, env), p, env, DOMAIN env)
  BY PlacesSpread DEF Good
<1>4. Here(u) \in PlacesWithin(p, env)[0]
  BY <1>2, <1>3 DEF IsSearch
<1>5. u.calls \in Seq(WalkCalls(env)) /\ Nested(u, env)
  BY EmptySeq DEF Nested
<1>6. /\ PipelineCount \in Nat /\ Cardinality(Below(p, env)) \in Nat
      /\ Cardinality(Below(p, env)) <= PipelineCount
  BY Counts DEF Good
<1>7. 0 + Cardinality(Below(u.at.id, env)) <= 0 * (PipelineCount + 1) + PipelineCount
  BY <1>6 DEF AtPipeline
<1>8. 0 \in 0..MaxVisitedNodes
  BY RoutesAssumption
<1>9. QED
  BY <1>4, <1>5, <1>7, <1>8 DEF Inside

(* A visit may lead to any pipeline, and a jump leads down.                *)
LEMMA WalkVisits ==
  ASSUME NEW env, NEW ts, Good(env, ts), NEW w, NEW root, NEW d, NEW v,
         Inside(w, env, root, d, v), v < MaxVisitedNodes,
         NEW u, u.at \in {AtPipeline(p, env) : p \in DOMAIN env},
         u.calls \in Seq(WalkCalls(env)), Nested(u, env),
         Here(u) \in NextPlaces(env, Here(w))
  PROVE  Inside(u, env, root, d + 1, v + 1)
<1> DEFINE N == PipelineCount
           B == Cardinality(Below(w.at.id, env))
           C == Cardinality(Below(u.at.id, env))
<1>1. w.at.id \in DOMAIN env /\ u.at.id \in DOMAIN env
  BY DEF Inside, AtPipeline
<1>2. N \in Nat /\ B \in Nat /\ C \in Nat /\ C <= N
  BY <1>1, Counts DEF Good
<1>3. d \in Nat /\ v \in 0..MaxVisitedNodes /\ d + B <= v * (N + 1) + N
  BY DEF Inside
<1>4. MaxVisitedNodes \in Nat
  BY RoutesAssumption
<1> HIDE DEF N, B, C
<1>5. (v + 1) * (N + 1) = v * (N + 1) + (N + 1) /\ v * (N + 1) \in Nat
  BY <1>2, <1>3, <1>4
<1>6. (d + 1) + C <= (v + 1) * (N + 1) + N
  BY <1>2, <1>3, <1>5
<1>7. d + 1 \in Nat /\ v + 1 \in 0..MaxVisitedNodes
  BY <1>3, <1>4
<1>8. Here(u) \in PlacesWithin(root, env)[d + 1]
  BY InsideIsSearched
<1>9. QED
  BY <1>6, <1>7, <1>8 DEF Inside, N, C

LEMMA WalkJumps ==
  ASSUME NEW env, NEW ts, Good(env, ts), NEW w, NEW root, NEW d, NEW v,
         Inside(w, env, root, d, v), w.ref.type = "pipeline",
         NEW u, u.at = AtPipeline(w.ref.id, env), u.ref = env[w.ref.id].entry,
         u.calls = w.calls
  PROVE  Inside(u, env, root, d + 1, v)
<1> DEFINE q == w.ref.id
           c == Here(w)
           B == Cardinality(Below(w.at.id, env))
           C == Cardinality(Below(q, env))
           Limit == v * (PipelineCount + 1) + PipelineCount
<1>1. w.at.id \in DOMAIN env /\ q \in PipelineRefs(env[w.at.id]) /\ w.ref # None
  BY InsideIs
<1>2. u.at.id = q /\ q \in DOMAIN env /\ u.at \in {AtPipeline(p, env) : p \in DOMAIN env}
  BY <1>1, Lower DEF Good, AtPipeline
<1>3. B \in Nat /\ C \in Nat /\ C + 1 <= B /\ PipelineCount \in Nat
  BY <1>1, <1>2, Counts, Lower DEF Good
<1>4. d \in Nat /\ d + B <= Limit /\ v \in Nat
  BY DEF Inside
<1>5. Limit \in Nat
  BY <1>3, <1>4
<1>6. (d + 1) + C <= Limit
  <2> HIDE DEF B, C, Limit
  <2>1. QED
    BY <1>3, <1>4, <1>5
<1>7. c.ref = w.ref /\ c.at = w.at.id /\ c.calls = OpenOf(w.calls)
  BY PlaceFields DEF Here
<1>8. Here(u) = Place(env[q].entry, q, OpenOf(w.calls))
  BY <1>2 DEF Here
<1>9. ~IsHole(env, c) /\ NextPlaces(env, c) \subseteq PlacesWithin(root, env)[d + 1]
  BY InsideIsSearched
<1> HIDE DEF c
<1>10. NextPlaces(env, c) = {Place(env[q].entry, q, OpenOf(w.calls))}
  BY <1>7, <1>9 DEF NextPlaces
<1>11. Here(u) \in PlacesWithin(root, env)[d + 1]
  BY <1>8, <1>9, <1>10
<1>12. Nested(u, env)
  <2>1. \A i \in DOMAIN w.calls : w.calls[i].callee \in DOMAIN env
    BY CallsTyped DEF Inside
  <2>2. \A i \in DOMAIN w.calls : q \in From(w.calls[i].callee, env)
    BY <1>1, <2>1, FromStep DEF Good, Inside, Nested, From
  <2>3. QED
    BY <1>2, <2>2 DEF Inside, Nested
<1>13. QED
  BY <1>2, <1>4, <1>6, <1>11, <1>12 DEF Inside

(* s with x at its end, for an s of length n.                              *)
Appends(t, s, x, n, S) ==
  /\ t \in Seq(S) /\ DOMAIN t = 1..(n + 1) /\ t = [i \in 1..(n + 1) |-> t[i]]
  /\ \A i \in 1..n : t[i] = s[i]
  /\ t[n + 1] = x

LEMMA Appended ==
  ASSUME NEW S, NEW s \in Seq(S), NEW x \in S, NEW n, n = Len(s), NEW t, t = Append(s, x)
  PROVE  Appends(t, s, x, n, S)
<1>1. /\ t \in Seq(S) /\ Len(t) = n + 1
      /\ \A i \in 1..n : t[i] = s[i]
      /\ t[n + 1] = x
  BY AppendProperties
<1>2. t \in [1..(n + 1) -> S]
  BY <1>1, LenProperties
<1>3. QED
  BY <1>1, <1>2 DEF Appends

(* A walk stays in its pipeline at all nodes but calls and exits.          *)
LEMMA WalkStays ==
  ASSUME NEW env, NEW ts, Good(env, ts), NEW w, NEW root, NEW d, NEW v,
         Inside(w, env, root, d, v), v < MaxVisitedNodes, w.ref.type = "node",
         NEW n, n = w.at.graph.nodes[w.ref.id],
         NEW port, \/ n.type \in {"edit", "cache"} /\ port = "next"
                   \/ n.type = "condition" /\ port \in {"true", "false"},
         NEW u, u.at = w.at, u.ref = Port(n, port), u.calls = w.calls
  PROVE  Inside(u, env, root, d + 1, v + 1)
<1> DEFINE c == Here(w)
<1>1. NodeAt(env, c) = n
  BY InsideIs
<1>2. c.ref = w.ref /\ c.at = w.at.id /\ c.calls = OpenOf(w.calls)
  BY PlaceFields DEF Here
<1>3. Here(u) = Place(Port(n, port), w.at.id, OpenOf(w.calls))
  BY DEF Here
<1>4. ~IsHole(env, c)
  BY InsideIsSearched
<1> HIDE DEF c
<1>5. Here(u) \in NextPlaces(env, c)
  <2>1. CASE n.type \in {"edit", "cache"} /\ port = "next"
    BY <1>1, <1>2, <1>3, <1>4, <2>1 DEF NextPlaces
  <2>2. CASE n.type = "condition" /\ port \in {"true", "false"}
    <3>1. NextPlaces(env, c)
            = {Place(Port(n, p), w.at.id, OpenOf(w.calls)) : p \in {"true", "false"}}
      BY <1>1, <1>2, <1>4, <2>2 DEF NextPlaces
    <3>2. QED
      BY <1>3, <2>2, <3>1
  <2>3. QED
    BY <2>1, <2>2
<1>6. Nested(u, env)
  BY DEF Inside, Nested
<1>7. u.at \in {AtPipeline(p, env) : p \in DOMAIN env} /\ u.calls \in Seq(WalkCalls(env))
  BY DEF Inside
<1>8. QED
  BY <1>5, <1>6, <1>7, WalkVisits DEF c

CallOf(w, n, q) == [at |-> w.at, node |-> n, callee |-> q]

(* u is w once it has entered q by the call n at which it is.              *)
CallsOn(u, w, n, q, env) ==
  /\ w.ref.type = "node" /\ n = w.at.graph.nodes[w.ref.id]
  /\ n.type = "call" /\ q = n.callee
  /\ u.at = AtPipeline(q, env) /\ u.ref = env[q].entry
  /\ u.calls = Append(w.calls, CallOf(w, n, q))

(* One more call, one more open call.                                      *)
LEMMA OpensMore ==
  ASSUME NEW C, NEW O, NEW cs \in Seq(C), NEW x \in C,
         OpenOf(cs) \in Seq(O), CallFrom(x.at.id, x.node) \in O
  PROVE  OpenOf(Append(cs, x)) = Append(OpenOf(cs), CallFrom(x.at.id, x.node))
<1> DEFINE t == Append(cs, x)
           e == CallFrom(x.at.id, x.node)
           last == Len(cs)
           s == OpenOf(cs)
           a == Append(s, e)
<1>1. last \in Nat /\ DOMAIN cs = 1..last
  BY LenProperties
<1>2. DOMAIN s = DOMAIN cs /\ \A i \in DOMAIN cs : s[i] = CallFrom(cs[i].at.id, cs[i].node)
  BY DEF OpenOf
<1>3. Len(s) = last
  <2>1. Len(s) \in Nat /\ DOMAIN s = 1..Len(s)
    BY LenProperties
  <2> HIDE DEF s, last
  <2>2. \A m, n \in Nat : 1..m = 1..n => m = n
    OBVIOUS
  <2>3. QED
    BY <1>1, <1>2, <2>1, <2>2
<1>4. Appends(t, cs, x, last, C)
  BY Appended
<1>5. Appends(a, s, e, last, O)
  BY <1>3, Appended
<1>6. OpenOf(t) = [i \in 1..(last + 1) |-> CallFrom(t[i].at.id, t[i].node)]
  BY <1>4 DEF OpenOf, Appends
<1> HIDE DEF s, a, last, t
<1>7. ASSUME NEW i \in 1..(last + 1) PROVE CallFrom(t[i].at.id, t[i].node) = a[i]
  <2>1. CASE i \in 1..last
    BY <1>1, <1>2, <1>4, <1>5, <2>1 DEF Appends
  <2>2. CASE i = last + 1
    BY <1>4, <1>5, <2>2 DEF Appends
  <2>3. QED
    BY <1>1, <2>1, <2>2
<1>8. a = [i \in 1..(last + 1) |-> a[i]]
  BY <1>5 DEF Appends
<1>9. QED
  BY <1>6, <1>7, <1>8 DEF a, s, t

LEMMA WalkCallsOn ==
  ASSUME NEW env, NEW ts, Good(env, ts), NEW w, NEW root, NEW d, NEW v,
         Inside(w, env, root, d, v), v < MaxVisitedNodes,
         NEW n, NEW q, NEW u, CallsOn(u, w, n, q, env)
  PROVE  Inside(u, env, root, d + 1, v + 1)
<1> DEFINE c == Here(w)
           call == CallOf(w, n, q)
           last == Len(w.calls)
           p == w.at.id
           s == OpenOf(w.calls)
           e == CallFrom(p, n)
           cs == w.calls
           C == WalkCalls(env)
           O == OpenCalls(env, DOMAIN env)
<1>1. /\ NodeAt(env, c) = n /\ q \in PipelineRefs(env[p])
      /\ p \in DOMAIN env /\ w.at = AtPipeline(p, env)
      /\ w.ref.id \in DOMAIN env[p].nodes /\ n = env[p].nodes[w.ref.id]
  <2>1. w.ref.type = "node" /\ n = w.at.graph.nodes[w.ref.id] /\ n.type = "call" /\ q = n.callee
    BY DEF CallsOn
  <2> HIDE DEF c
  <2>2. p \in DOMAIN env /\ w.at = AtPipeline(p, env) /\ w.at.graph = env[p]
    BY InsideIs
  <2>3. w.ref.id \in DOMAIN w.at.graph.nodes
    BY <2>1, InsideIs
  <2>4. NodeAt(env, c) = n /\ q \in PipelineRefs(env[p])
    BY <2>1, InsideIs DEF c
  <2>5. QED
    BY <2>1, <2>2, <2>3, <2>4
<1>2. c.ref = w.ref /\ c.at = p /\ c.calls = s
  BY PlaceFields DEF Here
<1>3. q \in DOMAIN env /\ u.at.id = q
  <2>1. q \in DOMAIN env
    BY <1>1 DEF Good, Whole
  <2>2. u.at = AtPipeline(q, env)
    BY DEF CallsOn
  <2>3. QED
    BY <2>1, <2>2 DEF AtPipeline
<1>4. cs \in Seq(C)
  BY DEF Inside
<1>5. n \in NodesOf(env)
  <2>1. n \in {env[p].nodes[i] : i \in DOMAIN env[p].nodes}
    BY <1>1
  <2>2. QED
    BY <1>1, <2>1 DEF NodesOf
<1>6. call \in C /\ call.at = w.at /\ call.node = n /\ call.callee = q
  BY <1>1, <1>3, <1>5 DEF CallOf, WalkCalls
<1>7. u.calls = Append(cs, call)
  BY DEF CallsOn
<1> HIDE DEF call, cs, C
<1>8. last \in Nat /\ DOMAIN cs = 1..last /\ \A i \in 1..(last + 1) : i \in 1..last \/ i = last + 1
  <2>1. last = Len(cs)
    BY DEF cs
  <2> HIDE DEF last
  <2>2. last \in Nat /\ DOMAIN cs = 1..last
    BY <1>4, <2>1, LenProperties
  <2>3. QED
    BY <2>2
<1> HIDE DEF last
<1>9. /\ u.calls \in Seq(C) /\ DOMAIN u.calls = 1..(last + 1)
      /\ \A i \in 1..last : u.calls[i] = cs[i]
      /\ u.calls[last + 1] = call
  <2>1. Len(cs) = last
    BY DEF cs, last
  <2>2. Appends(u.calls, cs, call, last, C)
    BY <1>4, <1>6, <1>7, <2>1, Appended
  <2>3. QED
    BY <2>2 DEF Appends
<1>10. OpenOf(u.calls) = Append(s, e)
  <2>1. c.calls \in Seq(O)
    BY InsideIsSearched, PlacesAre
  <2>2. e \in O
    BY <1>1, CallsAre
  <2>3. OpenOf(cs) \in Seq(O)
    BY <1>2, <2>1 DEF cs
  <2>4. e = CallFrom(call.at.id, call.node)
    BY <1>6
  <2> HIDE DEF e, O, s, c
  <2>5. CallFrom(call.at.id, call.node) \in O
    BY <2>2, <2>4
  <2>6. OpenOf(Append(cs, call)) = Append(OpenOf(cs), CallFrom(call.at.id, call.node))
    BY <1>4, <1>6, <2>3, <2>5, OpensMore
  <2>7. QED
    BY <1>7, <2>4, <2>6 DEF s, cs
<1> HIDE DEF s, e, O
<1>11. Here(u) = Place(env[q].entry, q, Append(s, e))
  BY <1>3, <1>10 DEF Here, CallsOn
<1>12. ~IsHole(env, c)
  BY InsideIsSearched
<1>13. Here(u) \in NextPlaces(env, c)
  <2> HIDE DEF c
  <2>1. QED
    BY <1>1, <1>2, <1>11, <1>12 DEF NextPlaces, e, CallsOn
<1>14. Nested(u, env)
  <2>1. ASSUME NEW i \in 1..last
        PROVE  cs[i].callee \in DOMAIN env /\ p \in From(cs[i].callee, env)
    BY <1>4, <1>8, CallsTyped DEF Inside, Nested, cs, C
  <2>2. \A i \in 1..last : q \in From(cs[i].callee, env)
    BY <1>1, <2>1, FromStep DEF Good, From
  <2>3. q \in From(q, env)
    BY DEF From
  <2>4. ASSUME NEW i \in 1..(last + 1) PROVE q \in From(u.calls[i].callee, env)
    <3>1. CASE i \in 1..last
      BY <1>9, <2>2, <3>1
    <3>2. CASE i = last + 1
      BY <1>6, <1>9, <2>3, <3>2
    <3>3. QED
      BY <1>8, <3>1, <3>2
  <2>5. ASSUME NEW i \in 1..(last + 1), NEW j \in 1..(last + 1), i < j
        PROVE  u.calls[j].at.id \in From(u.calls[i].callee, env)
    <3>1. i \in 1..last
      BY <1>8, <2>5
    <3>2. CASE j \in 1..last
      <4>1. cs[j].at.id \in From(cs[i].callee, env)
        BY <1>8, <2>5, <3>1, <3>2 DEF Inside, Nested, cs
      <4>2. QED
        BY <1>9, <3>1, <3>2, <4>1
    <3>3. CASE j = last + 1
      BY <1>6, <1>9, <2>1, <3>1, <3>3
    <3>4. QED
      BY <1>8, <3>2, <3>3
  <2>6. QED
    BY <1>3, <1>9, <2>4, <2>5 DEF Nested
<1>15. u.at \in {AtPipeline(x, env) : x \in DOMAIN env}
  BY <1>3 DEF CallsOn
<1>16. QED
  BY <1>9, <1>13, <1>14, <1>15, WalkVisits DEF C

(* A walk never finds a call to where it is or has come from.              *)
LEMMA NeverRecursive ==
  ASSUME NEW env, NEW ts, Good(env, ts), NEW w, NEW root, NEW d, NEW v,
         Inside(w, env, root, d, v), NEW q \in PipelineRefs(env[w.at.id])
  PROVE  q # w.at.id /\ \A i \in DOMAIN w.calls : w.calls[i].callee # q
<1>1. w.at.id \in DOMAIN env
  BY InsideIs
<1>2. q \in Below(w.at.id, env) /\ q \in DOMAIN env
  BY <1>1, BelowPipelines DEF Good
<1>3. ASSUME NEW i \in DOMAIN w.calls, w.calls[i].callee = q PROVE FALSE
  <2>1. w.at.id \in From(q, env)
    BY <1>3 DEF Inside, Nested
  <2>2. q \in Below(q, env)
    BY <1>2, <2>1, FromStep DEF Good
  <2>3. QED
    BY <1>2, <2>2 DEF Good, Acyclic
<1>4. QED
  BY <1>1, <1>2, <1>3 DEF Good, Acyclic

LEMMA WalkExits ==
  ASSUME NEW env, NEW ts, Good(env, ts), NEW w, NEW root, NEW d, NEW v,
         Inside(w, env, root, d, v), v < MaxVisitedNodes, w.ref.type = "node",
         NEW n, n = w.at.graph.nodes[w.ref.id], n.type = "exit",
         NEW last, last = Len(w.calls),
         NEW u, u.at = w.calls[last].at, u.ref = Port(w.calls[last].node, n.exitName),
         u.calls = SubSeq(w.calls, 1, last - 1)
  PROVE  Inside(u, env, root, d + 1, v + 1)
<1> DEFINE c == Here(w)
           s == OpenOf(w.calls)
<1>1. NodeAt(env, c) = n /\ w.calls # << >>
  <2>1. w.at.graph.nodes[w.ref.id].type = "exit"
    OBVIOUS
  <2>2. QED
    BY <2>1, InsideNode
<1>2. c.ref = w.ref /\ c.at = w.at.id /\ c.calls = s
  BY PlaceFields DEF Here
<1>3. w.calls \in Seq(WalkCalls(env))
  BY DEF Inside
<1>4. last \in Nat /\ last > 0 /\ DOMAIN w.calls = 1..last
  BY <1>1, <1>3, EmptySeq, LenProperties
<1>5. /\ u.calls \in Seq(WalkCalls(env)) /\ DOMAIN u.calls = 1..(last - 1)
      /\ \A i \in 1..(last - 1) : u.calls[i] = w.calls[i]
  BY <1>3, <1>4, SubSeqProperties, LenProperties
<1>6. s \in Seq(OpenCalls(env, DOMAIN env)) /\ Len(s) = last
  <2>1. s \in Seq(OpenCalls(env, DOMAIN env))
    BY <1>2, InsideIsSearched, PlacesAre
  <2>2. DOMAIN s = 1..last
    BY <1>4 DEF OpenOf
  <2> HIDE DEF s
  <2>3. QED
    BY <1>4, <2>1, <2>2, LenProperties
<1>7. \A i \in 1..last : s[i] = CallFrom(w.calls[i].at.id, w.calls[i].node)
  BY <1>4 DEF OpenOf
<1>8. OpenOf(u.calls) = SubSeq(s, 1, last - 1)
  <2>1. /\ DOMAIN SubSeq(s, 1, last - 1) = 1..(last - 1)
        /\ \A i \in 1..(last - 1) : SubSeq(s, 1, last - 1)[i] = s[i]
        /\ SubSeq(s, 1, last - 1) = [i \in 1..(last - 1) |-> SubSeq(s, 1, last - 1)[i]]
    <3> HIDE DEF s
    <3>1. QED
      BY <1>4, <1>6, SubSeqProperties, LenProperties
  <2>2. OpenOf(u.calls) = [i \in 1..(last - 1) |-> CallFrom(u.calls[i].at.id, u.calls[i].node)]
    BY <1>5 DEF OpenOf
  <2>3. \A i \in 1..(last - 1) :
          CallFrom(u.calls[i].at.id, u.calls[i].node) = SubSeq(s, 1, last - 1)[i]
    <3>1. \A i \in 1..(last - 1) : i \in 1..last
      BY <1>4
    <3> HIDE DEF s
    <3>2. QED
      BY <1>5, <1>7, <2>1, <3>1
  <2> HIDE DEF s
  <2>4. QED
    BY <2>1, <2>2, <2>3
<1>9. Here(u) = Place(Port(s[last].node, n.exitName), s[last].at, SubSeq(s, 1, last - 1))
  <2>1. s[last].node = w.calls[last].node /\ s[last].at = u.at.id
    BY <1>4, <1>7, PlaceFields
  <2>2. QED
    BY <1>8, <2>1 DEF Here
<1>10. ~IsHole(env, c)
  BY InsideIsSearched
<1>11. Here(u) \in NextPlaces(env, c)
  <2> HIDE DEF c, s
  <2>1. QED
    BY <1>1, <1>2, <1>6, <1>9, <1>10 DEF NextPlaces
<1>12. Nested(u, env)
  <2>1. ASSUME NEW i \in 1..(last - 1)
        PROVE  /\ u.at.id \in From(u.calls[i].callee, env)
               /\ \A j \in 1..(last - 1) :
                    i < j => u.calls[j].at.id \in From(u.calls[i].callee, env)
    <3>1. i \in 1..last /\ i < last /\ last \in 1..last /\ \A j \in 1..(last - 1) : j \in 1..last
      BY <1>4
    <3>2. \A j \in 1..last : i < j => w.calls[j].at.id \in From(w.calls[i].callee, env)
      BY <1>4, <3>1 DEF Inside, Nested
    <3>3. QED
      BY <1>5, <3>1, <3>2
  <2>2. QED
    BY <1>5, <2>1 DEF Nested
<1>13. u.at \in {AtPipeline(p, env) : p \in DOMAIN env}
  BY <1>3, <1>4, CallsTyped
<1>14. QED
  BY <1>5, <1>11, <1>12, <1>13, WalkVisits

-----------------------------------------------------------------------------
(* The walk that the route of a request is decided by.                     *)

IsWalk(w) ==
  w = [phase |-> w.phase, role |-> w.role, ref |-> w.ref, at |-> w.at, calls |-> w.calls,
       visited |-> w.visited, fusion |-> w.fusion, branches |-> w.branches,
       resolved |-> w.resolved, depth |-> w.depth, outcome |-> w.outcome, edited |-> w.edited]

Undisturbed(w) == w.role = "main" /\ ~w.edited

(* A walk sets out on the route of a model.                                *)
Starting(w, env, ts) ==
  /\ w.at = None /\ w.calls = << >> /\ w.visited = 0
  /\ \/ w.ref = None
     \/ w.ref # None /\ w.ref.type = "target" /\ w.ref.id \in ts
     \/ w.ref # None /\ w.ref.type = "pipeline" /\ ~HasHoles(w.ref.id, env)

InCache(w, env) ==
  \E root, d, v :
    /\ w.visited = v + 1 /\ v < MaxVisitedNodes /\ Inside(w, env, root, d, v)
    /\ w.ref.type = "node" /\ w.at.graph.nodes[w.ref.id].type = "cache"

OnTrack(w, env, ts) ==
  /\ w.phase = "walking" =>
       Starting(w, env, ts) \/ \E root, d : Inside(w, env, root, d, w.visited)
  /\ w.phase = "caching" => InCache(w, env)

Serves(outcome, ref, ts) ==
  /\ outcome \in {"target", "response", "direct", "unrouted", "disabled",
                  "overrun", "noPanel", "noQuorum", "noSynthesizer"}
  /\ outcome = "target" => ref.id \in ts

WalkInv(w, env, ts) ==
  /\ IsWalk(w)
  /\ w.phase \in {"idle", "walking", "caching", "generating", "ended"}
  /\ w.phase = "idle" => w = Idle
  /\ w.phase = "generating" => w.role # "main"
  /\ Undisturbed(w) => /\ OnTrack(w, env, ts)
                       /\ w.phase = "ended" => Serves(w.outcome, w.ref, ts)

RoutesInv == ServedInv /\ WalkInv(walk, Env, targets)

LEMMA StoresAreGood ==
  ASSUME ServedInv
  PROVE  /\ Good(Env, targets)
         /\ \A p \in DOMAIN pipelines : In(p) = AtPipeline(p, Env)
<1>1. \A p \in DOMAIN pipelines : AtPipeline(p, Env) # None
  BY RoutesAssumption, EnvIs DEF ServedInv, Offered, AtPipeline
<1>2. QED
  BY <1>1, EnvIs, EnvFits DEF ServedInv, Good, In, AtPipeline

(* A walk that goes on, and one that is no longer in the main role.        *)
LEMMA GoesOn ==
  ASSUME NEW w, NEW u, NEW env, NEW ts, IsWalk(u), u.phase \in {"walking", "caching"},
         u.role = w.role, u.edited = w.edited, Undisturbed(w) => OnTrack(u, env, ts)
  PROVE  WalkInv(u, env, ts)
BY DEF WalkInv, Undisturbed

LEMMA OtherRole ==
  ASSUME NEW u, NEW env, NEW ts, IsWalk(u), u.role # "main",
         u.phase \in {"walking", "caching", "generating", "ended"}
  PROVE  WalkInv(u, env, ts)
BY DEF WalkInv, Undisturbed

LEMMA NextBranchKeeps ==
  ASSUME NEW env, NEW ts, NEW w, IsWalk(w), NextBranch(w), w.role # "main" \/ w.branches # {}
  PROVE  WalkInv(walk', env, ts)
<1>1. CASE w.branches = {} /\ walk' = [w EXCEPT !.phase = "generating"]
  <2>1. IsWalk(walk') /\ walk'.role = w.role /\ walk'.phase = "generating"
    BY <1>1 DEF IsWalk
  <2>2. QED
    BY <1>1, <2>1, OtherRole
<1>2. CASE \E b \in w.branches :
             walk' = Starts([w EXCEPT !.branches = @ \ {b}], "panel", Port(w.fusion.node, b))
  <2>1. PICK b \in w.branches :
          walk' = Starts([w EXCEPT !.branches = @ \ {b}], "panel", Port(w.fusion.node, b))
    BY <1>2
  <2>2. IsWalk(walk') /\ walk'.role = "panel" /\ walk'.phase = "walking"
    BY <2>1 DEF IsWalk, Starts
  <2>3. QED
    BY <2>2, OtherRole
<1>3. QED
  BY <1>1, <1>2 DEF NextBranch, Walk

LEMMA EndKeeps ==
  ASSUME NEW env, NEW ts, IsWalk(walk), NEW outcome, End(outcome),
         Undisturbed(walk) => Serves(outcome, walk.ref, ts)
  PROVE  WalkInv(walk', env, ts)
<1>1. CASE walk.role = "panel"
  <2> DEFINE w == [walk EXCEPT !.resolved = IF outcome = "target" THEN @ + 1 ELSE @]
  <2>1. NextBranch(w)
    BY <1>1 DEF End
  <2>2. IsWalk(w) /\ w.role = "panel"
    BY <1>1 DEF IsWalk
  <2> HIDE DEF w
  <2>3. QED
    BY <2>1, <2>2, NextBranchKeeps
<1>2. CASE walk.role # "panel"
  <2>1. walk' = [walk EXCEPT !.phase = "ended", !.outcome = outcome]
    BY <1>2 DEF End, Walk
  <2>2. /\ IsWalk(walk') /\ walk'.phase = "ended" /\ walk'.outcome = outcome
        /\ walk'.ref = walk.ref /\ walk'.role = walk.role /\ walk'.edited = walk.edited
    BY <2>1 DEF IsWalk
  <2>3. QED
    BY <2>2 DEF WalkInv, Undisturbed, OnTrack
<1>3. QED
  BY <1>1, <1>2

-----------------------------------------------------------------------------
(* One lemma for each step of a walk.                                      *)

(* What the invariant says of a walk that is on its way.                   *)
LEMMA OnItsTrack ==
  ASSUME RoutesInv, Undisturbed(walk)
  PROVE  /\ Good(Env, targets)
         /\ walk.phase = "walking" => \/ Starting(walk, Env, targets)
                                      \/ \E root, d : Inside(walk, Env, root, d, walk.visited)
         /\ walk.phase = "caching" => InCache(walk, Env)
BY StoresAreGood DEF RoutesInv, WalkInv, OnTrack

LEMMA UnboundKeeps ==
  ASSUME RoutesInv, Unbound
  PROVE  WalkInv(walk', Env, targets)
<1> DEFINE outcome == IF walk.at = None THEN "unrouted" ELSE "unbound"
<1>1. walk.phase = "walking" /\ walk.ref = None /\ End(outcome)
  BY DEF Unbound
<1>2. ASSUME Undisturbed(walk) PROVE Serves(outcome, walk.ref, targets)
  <2>1. Starting(walk, Env, targets)
    BY <1>1, <1>2, OnItsTrack, InsideIs
  <2>2. QED
    BY <2>1 DEF Starting, Serves
<1>3. QED
  BY <1>1, <1>2, EndKeeps DEF RoutesInv, WalkInv

LEMMA ReachTargetKeeps ==
  ASSUME RoutesInv, ReachTarget
  PROVE  WalkInv(walk', Env, targets)
<1>1. walk.phase = "walking" /\ walk.ref # None /\ walk.ref.type = "target" /\ End("target")
  BY DEF ReachTarget, AtRef
<1>2. ASSUME Undisturbed(walk) PROVE Serves("target", walk.ref, targets)
  <2>1. walk.ref.id \in targets
    BY <1>1, <1>2, OnItsTrack, InsideIs DEF Starting
  <2>2. QED
    BY <2>1 DEF Serves
<1>3. QED
  BY <1>1, <1>2, EndKeeps DEF RoutesInv, WalkInv

LEMMA EnterPipelineKeeps ==
  ASSUME RoutesInv, EnterPipeline
  PROVE  WalkInv(walk', Env, targets)
<1> DEFINE p == walk.ref.id
           there == In(p)
           entry == pipelines[p].graph.entry
           u == walk'
<1>1. walk.phase = "walking" /\ walk.ref # None /\ walk.ref.type = "pipeline" /\ IsWalk(walk)
  BY DEF EnterPipeline, AtRef, RoutesInv, WalkInv
<1>2. ASSUME Undisturbed(walk) PROVE p \in DOMAIN Env
  <2>1. CASE Starting(walk, Env, targets)
    BY <1>1, <2>1 DEF Starting, HasHoles
  <2>2. CASE \E root, d : Inside(walk, Env, root, d, walk.visited)
    BY <1>1, <1>2, <2>2, OnItsTrack, InsideIs, Lower DEF Good
  <2>3. QED
    BY <1>1, <1>2, <2>1, <2>2, OnItsTrack
<1>3. CASE p \notin DOMAIN pipelines /\ End("notFound")
  BY <1>1, <1>2, <1>3, EnvIs, EndKeeps
<1>4. CASE End("disabled")
  BY <1>1, <1>4, EndKeeps DEF Serves
<1>5. CASE p \in DOMAIN pipelines /\ walk' = [walk EXCEPT !.at = there, !.ref = entry]
  <2>1. /\ IsWalk(u) /\ u.phase = "walking" /\ u.role = walk.role /\ u.edited = walk.edited
        /\ u.at = there /\ u.ref = entry /\ u.calls = walk.calls
        /\ u.visited = walk.visited
    <3> HIDE DEF there, entry
    <3>1. QED
      BY <1>1, <1>5 DEF IsWalk
  <2> HIDE DEF u
  <2>2. u.at = AtPipeline(p, Env) /\ u.ref = Env[p].entry /\ p \in DOMAIN Env
    BY <1>5, <2>1, StoresAreGood, EnvIs DEF RoutesInv
  <2>3. ASSUME Undisturbed(walk) PROVE \E root, d : Inside(u, Env, root, d, u.visited)
    <3>1. CASE Starting(walk, Env, targets)
      <4>1. ~HasHoles(p, Env) /\ u.calls = << >> /\ u.visited = 0
        BY <1>1, <2>1, <3>1 DEF Starting
      <4>2. QED
        BY <2>2, <2>3, <4>1, OnItsTrack, WalkEnters
    <3>2. CASE \E root, d : Inside(walk, Env, root, d, walk.visited)
      BY <1>1, <2>1, <2>2, <2>3, <3>2, OnItsTrack, WalkJumps
    <3>3. QED
      BY <1>1, <2>3, <3>1, <3>2, OnItsTrack
  <2>4. QED
    BY <1>5, <2>1, <2>3, GoesOn DEF OnTrack, u
<1>6. QED
  BY <1>3, <1>4, <1>5 DEF EnterPipeline, Walk

(* A walk that is at a node is in a pipeline, and the node is there.       *)
LEMMA WalkIsAtNode ==
  ASSUME RoutesInv, Undisturbed(walk), walk.phase = "walking", walk.ref # None,
         walk.ref.type = "node"
  PROVE  /\ HasNode
         /\ \E root, d : Inside(walk, Env, root, d, walk.visited)
         /\ IsNode(ThisNode)
<1>1. ~Starting(walk, Env, targets)
  BY DEF Starting
<1>2. PICK root, d : Inside(walk, Env, root, d, walk.visited)
  BY <1>1, OnItsTrack
<1>3. QED
  BY <1>2, OnItsTrack, InsideIs, InsideNode DEF HasNode, ThisNode

LEMMA NotVisitedKeeps ==
  ASSUME RoutesInv, NotVisited
  PROVE  WalkInv(walk', Env, targets)
<1> DEFINE outcome == IF HasNode THEN "overrun" ELSE "invalid"
<1>1. walk.phase = "walking" /\ walk.ref # None /\ walk.ref.type = "node" /\ End(outcome)
  BY DEF NotVisited, AtRef
<1>2. ASSUME Undisturbed(walk) PROVE Serves(outcome, walk.ref, targets)
  BY <1>1, <1>2, WalkIsAtNode DEF Serves
<1>3. QED
  BY <1>1, <1>2, EndKeeps DEF RoutesInv, WalkInv

LEMMA VisitIs ==
  ASSUME NEW types, Visit(types)
  PROVE  /\ walk.phase = "walking" /\ walk.ref # None /\ walk.ref.type = "node"
         /\ walk.visited < MaxVisitedNodes /\ ThisNode.type \in types
BY DEF Visit, AtRef

(* The next node of the same pipeline.                                     *)
LEMMA OnwardKeeps ==
  ASSUME RoutesInv, NEW types, Visit(types),
         NEW port, \/ ThisNode.type \in {"edit", "cache"} /\ port = "next"
                   \/ ThisNode.type = "condition" /\ port \in {"true", "false"},
         walk' = Onward(Port(ThisNode, port))
  PROVE  WalkInv(walk', Env, targets)
<1> DEFINE u == walk'
<1>1. IsWalk(walk) /\ walk.phase = "walking" /\ walk.visited < MaxVisitedNodes
      /\ walk.ref # None /\ walk.ref.type = "node"
  BY VisitIs DEF RoutesInv, WalkInv
<1>2. /\ IsWalk(u) /\ u.phase = "walking" /\ u.role = walk.role /\ u.edited = walk.edited
      /\ u.at = walk.at /\ u.ref = Port(ThisNode, port) /\ u.calls = walk.calls
      /\ u.visited = walk.visited + 1
  BY <1>1 DEF IsWalk, Onward
<1>3. ASSUME Undisturbed(walk) PROVE \E root, d : Inside(u, Env, root, d, u.visited)
  <2>1. PICK root, d : Inside(walk, Env, root, d, walk.visited)
    BY <1>1, <1>3, WalkIsAtNode
  <2>2. Good(Env, targets)
    BY <1>3, OnItsTrack
  <2> DEFINE n == ThisNode
  <2>3. n = walk.at.graph.nodes[walk.ref.id]
    BY DEF ThisNode
  <2>4. /\ \/ n.type \in {"edit", "cache"} /\ port = "next"
           \/ n.type = "condition" /\ port \in {"true", "false"}
        /\ u.at = walk.at /\ u.ref = Port(n, port) /\ u.calls = walk.calls
    BY <1>2
  <2> HIDE DEF n, u
  <2>5. Inside(u, Env, root, d + 1, walk.visited + 1)
    BY <1>1, <2>1, <2>2, <2>3, <2>4, WalkStays
  <2>6. QED
    BY <1>2, <2>5
<1>4. QED
  BY <1>2, <1>3, GoesOn DEF OnTrack

LEMMA CacheNodeKeeps ==
  ASSUME RoutesInv, CacheNode
  PROVE  WalkInv(walk', Env, targets)
<1>1. Visit({"cache"}) /\ ThisNode.type = "cache"
  BY VisitIs DEF CacheNode
<1>2. CASE walk.role # "main"
  <2>1. walk' = Onward(Port(ThisNode, "next"))
    BY <1>2 DEF CacheNode, Walk
  <2>2. QED
    BY <1>1, <2>1, OnwardKeeps
<1>3. CASE walk.role = "main"
  <2> DEFINE u == walk'
  <2>1. walk' = [Onward(walk.ref) EXCEPT !.phase = "caching"]
    BY <1>3 DEF CacheNode, Walk
  <2>2. IsWalk(walk) /\ walk.phase = "walking" /\ walk.visited < MaxVisitedNodes
        /\ walk.ref # None /\ walk.ref.type = "node"
    BY <1>1, VisitIs DEF RoutesInv, WalkInv
  <2>3. /\ IsWalk(u) /\ u.phase = "caching" /\ u.role = walk.role /\ u.edited = walk.edited
        /\ u.at = walk.at /\ u.ref = walk.ref /\ u.calls = walk.calls
        /\ u.visited = walk.visited + 1
    BY <2>1, <2>2 DEF IsWalk, Onward
  <2> HIDE DEF u
  <2>4. ASSUME Undisturbed(walk) PROVE InCache(u, Env)
    <3>1. PICK root, d : Inside(walk, Env, root, d, walk.visited)
      BY <2>2, <2>4, WalkIsAtNode
    <3>2. Inside(u, Env, root, d, walk.visited)
      BY <2>3, <3>1 DEF Inside, Nested, Here
    <3>3. u.at.graph.nodes[u.ref.id].type = "cache"
      BY <1>1, <2>3 DEF ThisNode
    <3>4. QED
      BY <2>2, <2>3, <3>2, <3>3 DEF InCache
  <2>5. QED
    BY <2>3, <2>4, GoesOn DEF OnTrack, u
<1>4. QED
  BY <1>2, <1>3

LEMMA CacheHitKeeps ==
  ASSUME RoutesInv, CacheHit
  PROVE  WalkInv(walk', Env, targets)
BY EndKeeps DEF CacheHit, RoutesInv, WalkInv, Serves

LEMMA CacheMissKeeps ==
  ASSUME RoutesInv, CacheMiss
  PROVE  WalkInv(walk', Env, targets)
<1> DEFINE u == walk'
           n == walk.at.graph.nodes[walk.ref.id]
<1>1. IsWalk(walk) /\ walk.phase = "caching"
      /\ walk' = [walk EXCEPT !.phase = "walking", !.ref = Port(n, "next")]
  BY DEF RoutesInv, WalkInv, CacheMiss, Walk, ThisNode
<1>2. /\ IsWalk(u) /\ u.phase = "walking" /\ u.role = walk.role /\ u.edited = walk.edited
      /\ u.at = walk.at /\ u.ref = Port(n, "next") /\ u.calls = walk.calls
      /\ u.visited = walk.visited
  BY <1>1 DEF IsWalk
<1> HIDE DEF u
<1>3. ASSUME Undisturbed(walk) PROVE \E root, d : Inside(u, Env, root, d, u.visited)
  <2>1. InCache(walk, Env) /\ Good(Env, targets)
    BY <1>1, <1>3, OnItsTrack
  <2>2. PICK root, d, v :
          /\ walk.visited = v + 1 /\ v < MaxVisitedNodes /\ Inside(walk, Env, root, d, v)
          /\ walk.ref.type = "node" /\ n.type = "cache"
    BY <2>1 DEF InCache
  <2>3. n = walk.at.graph.nodes[walk.ref.id]
    OBVIOUS
  <2> HIDE DEF n
  <2>4. Inside(u, Env, root, d + 1, v + 1)
    BY <1>2, <2>1, <2>2, <2>3, WalkStays
  <2>5. QED
    BY <1>2, <2>2, <2>4
<1>4. QED
  BY <1>2, <1>3, GoesOn DEF OnTrack, u

LEMMA ConditionNodeKeeps ==
  ASSUME RoutesInv, ConditionNode
  PROVE  WalkInv(walk', Env, targets)
<1>1. PICK port \in {"true", "false"} : walk' = Onward(Port(ThisNode, port))
  BY DEF ConditionNode, Walk
<1>2. Visit({"condition"}) /\ ThisNode.type = "condition"
  BY VisitIs DEF ConditionNode
<1>3. QED
  BY <1>1, <1>2, OnwardKeeps

LEMMA EditNodeKeeps ==
  ASSUME RoutesInv, EditNode
  PROVE  WalkInv(walk', Env, targets)
<1>1. Visit({"edit"}) /\ ThisNode.type = "edit" /\ walk' = Onward(Port(ThisNode, "next"))
  BY VisitIs DEF EditNode, Walk
<1>2. QED
  BY <1>1, OnwardKeeps

LEMMA CallNodeKeeps ==
  ASSUME RoutesInv, CallNode
  PROVE  WalkInv(walk', Env, targets)
<1> DEFINE p == ThisNode.callee
           there == In(p)
           entry == pipelines[p].graph.entry
           call == [at |-> walk.at, node |-> ThisNode, callee |-> p]
           u == walk'
<1>1. IsWalk(walk) /\ walk.phase = "walking" /\ walk.visited < MaxVisitedNodes
      /\ walk.ref # None /\ walk.ref.type = "node" /\ ThisNode.type = "call"
  BY VisitIs DEF CallNode, RoutesInv, WalkInv
<1>2. ASSUME Undisturbed(walk)
      PROVE  /\ p \in DOMAIN pipelines
             /\ p # walk.at.id /\ \A i \in DOMAIN walk.calls : walk.calls[i].callee # p
  <2>1. PICK root, d : Inside(walk, Env, root, d, walk.visited)
    BY <1>1, <1>2, WalkIsAtNode
  <2>2. Good(Env, targets)
    BY <1>2, OnItsTrack
  <2>3. walk.at.id \in DOMAIN Env /\ p \in PipelineRefs(Env[walk.at.id])
    BY <1>1, <2>1, <2>2, InsideIs DEF ThisNode
  <2> HIDE DEF p
  <2>4. p \in DOMAIN pipelines
    BY <2>2, <2>3, Lower, EnvIs DEF Good
  <2>5. QED
    BY <2>1, <2>2, <2>3, <2>4, NeverRecursive
<1>3. CASE p \notin DOMAIN pipelines /\ End("notFound")
  BY <1>1, <1>2, <1>3, EndKeeps
<1>4. CASE End("disabled") \/ End("overrun")
  BY <1>1, <1>4, EndKeeps DEF Serves
<1>5. CASE /\ p = walk.at.id \/ \E i \in DOMAIN walk.calls : walk.calls[i].callee = p
           /\ End("recursive")
  BY <1>1, <1>2, <1>5, EndKeeps
<1>6. CASE /\ p \in DOMAIN pipelines
           /\ walk' = [Onward(entry) EXCEPT !.at = there, !.calls = Append(@, call)]
  <2>1. /\ IsWalk(u) /\ u.phase = "walking" /\ u.role = walk.role /\ u.edited = walk.edited
        /\ u.at = there /\ u.ref = entry /\ u.calls = Append(walk.calls, call)
        /\ u.visited = walk.visited + 1
    <3> HIDE DEF there, entry, call
    <3>1. QED
      BY <1>1, <1>6 DEF IsWalk, Onward
  <2> HIDE DEF u
  <2>2. u.at = AtPipeline(p, Env) /\ u.ref = Env[p].entry
    BY <1>6, <2>1, StoresAreGood, EnvIs DEF RoutesInv
  <2>3. ASSUME Undisturbed(walk) PROVE \E root, d : Inside(u, Env, root, d, u.visited)
    <3>1. PICK root, d : Inside(walk, Env, root, d, walk.visited)
      BY <1>1, <2>3, WalkIsAtNode
    <3>2. Good(Env, targets)
      BY <2>3, OnItsTrack
    <3> DEFINE n == ThisNode
    <3>3. n = walk.at.graph.nodes[walk.ref.id] /\ n.type = "call" /\ p = n.callee
      BY <1>1 DEF ThisNode
    <3>4. CallsOn(u, walk, n, p, Env)
      BY <1>1, <2>1, <2>2, <3>3 DEF CallsOn, CallOf
    <3> HIDE DEF n, p, call
    <3>5. Inside(u, Env, root, d + 1, walk.visited + 1)
      BY <1>1, <3>1, <3>2, <3>4, WalkCallsOn
    <3>6. QED
      BY <2>1, <3>5
  <2>4. QED
    BY <2>1, <2>3, GoesOn DEF OnTrack, u
<1>7. QED
  BY <1>3, <1>4, <1>5, <1>6 DEF CallNode, Walk

LEMMA ExitNodeKeeps ==
  ASSUME RoutesInv, ExitNode
  PROVE  WalkInv(walk', Env, targets)
<1> DEFINE last == Len(walk.calls)
           there == walk.calls[last].at
           ref == Port(walk.calls[last].node, ThisNode.exitName)
           open == SubSeq(walk.calls, 1, last - 1)
           u == walk'
<1>1. IsWalk(walk) /\ walk.phase = "walking" /\ walk.visited < MaxVisitedNodes
      /\ walk.ref # None /\ walk.ref.type = "node" /\ ThisNode.type = "exit"
  BY VisitIs DEF ExitNode, RoutesInv, WalkInv
<1>2. CASE last = 0 /\ End("invalid")
  <2>1. ASSUME Undisturbed(walk) PROVE FALSE
    <3>1. PICK root, d : Inside(walk, Env, root, d, walk.visited)
      BY <1>1, <2>1, WalkIsAtNode
    <3>2. walk.calls # << >> /\ walk.calls \in Seq(WalkCalls(Env))
      BY <1>1, <2>1, <3>1, OnItsTrack, InsideNode DEF ThisNode, Inside
    <3>3. QED
      BY <1>2, <3>2, EmptySeq
  <2>2. QED
    BY <1>1, <1>2, <2>1, EndKeeps
<1>3. CASE walk' = [Onward(ref) EXCEPT !.at = there, !.calls = SubSeq(@, 1, last - 1)]
  <2>1. /\ IsWalk(u) /\ u.phase = "walking" /\ u.role = walk.role /\ u.edited = walk.edited
        /\ u.at = there /\ u.ref = ref /\ u.calls = open
        /\ u.visited = walk.visited + 1
    <3> HIDE DEF there, ref, last
    <3>1. QED
      BY <1>1, <1>3 DEF IsWalk, Onward
  <2> HIDE DEF u
  <2>2. ASSUME Undisturbed(walk) PROVE \E root, d : Inside(u, Env, root, d, u.visited)
    <3>1. PICK root, d : Inside(walk, Env, root, d, walk.visited)
      BY <1>1, <2>2, WalkIsAtNode
    <3>2. Good(Env, targets)
      BY <2>2, OnItsTrack
    <3> DEFINE n == ThisNode
    <3>3. n = walk.at.graph.nodes[walk.ref.id] /\ n.type = "exit" /\ last = Len(walk.calls)
      BY <1>1 DEF ThisNode
    <3>4. /\ u.at = walk.calls[last].at /\ u.ref = Port(walk.calls[last].node, n.exitName)
          /\ u.calls = SubSeq(walk.calls, 1, last - 1)
      BY <2>1
    <3> HIDE DEF n, last, there, ref, open
    <3>5. Inside(u, Env, root, d + 1, walk.visited + 1)
      BY <1>1, <3>1, <3>2, <3>3, <3>4, WalkExits
    <3>6. QED
      BY <2>1, <3>5
  <2>3. QED
    BY <2>1, <2>2, GoesOn DEF OnTrack, u
<1>4. QED
  BY <1>2, <1>3 DEF ExitNode, Walk

LEMMA FusionNodeKeeps ==
  ASSUME RoutesInv, FusionNode
  PROVE  WalkInv(walk', Env, targets)
<1> DEFINE branches == DOMAIN ThisNode.ports \cap Panel
           fusion == [node |-> ThisNode, at |-> walk.at]
           depth == IF walk.role = "synthesizer" THEN walk.depth + 1 ELSE walk.depth
           w == [walk EXCEPT !.fusion = fusion, !.branches = branches, !.resolved = 0,
                             !.depth = IF walk.role = "synthesizer" THEN @ + 1 ELSE @]
<1>1. IsWalk(walk)
  BY DEF RoutesInv, WalkInv
<1>2. CASE walk.role # "main" /\ (End("nested") \/ End("tooDeep"))
  BY <1>1, <1>2, EndKeeps DEF Undisturbed
<1>3. CASE End("noPanel")
  BY <1>1, <1>3, EndKeeps DEF Serves
<1>4. CASE branches # {} /\ NextBranch(w)
  <2>1. w = [walk EXCEPT !.fusion = fusion, !.branches = branches, !.resolved = 0,
                         !.depth = depth]
    BY <1>1 DEF IsWalk
  <2> HIDE DEF fusion, branches, depth, w
  <2>2. IsWalk(w) /\ w.branches = branches
    BY <1>1, <2>1 DEF IsWalk
  <2>3. QED
    BY <1>4, <2>2, NextBranchKeeps
<1>5. QED
  BY <1>2, <1>3, <1>4 DEF FusionNode

(* Only the walks of a panel generate.                                     *)
LEMMA PanelAnsweredKeeps ==
  ASSUME RoutesInv, PanelAnswered
  PROVE  WalkInv(walk', Env, targets)
<1>1. IsWalk(walk) /\ walk.phase = "generating" /\ walk.role # "main"
  BY DEF PanelAnswered, RoutesInv, WalkInv
<1>2. CASE \E o : walk' = [walk EXCEPT !.phase = "ended", !.outcome = o]
  <2>1. PICK o : walk' = [walk EXCEPT !.phase = "ended", !.outcome = o]
    BY <1>2
  <2>2. IsWalk(walk') /\ walk'.role = walk.role /\ walk'.phase = "ended"
    BY <1>1, <2>1 DEF IsWalk
  <2>3. QED
    BY <1>1, <2>2, OtherRole
<1>3. CASE \E ref : walk' = Starts(walk, "synthesizer", ref)
  <2>1. PICK ref : walk' = Starts(walk, "synthesizer", ref)
    BY <1>3
  <2>2. IsWalk(walk') /\ walk'.role = "synthesizer" /\ walk'.phase = "walking"
    BY <1>1, <2>1 DEF IsWalk, Starts
  <2>3. QED
    BY <2>2, OtherRole
<1>4. QED
  BY <1>2, <1>3 DEF PanelAnswered, Walk

LEMMA IdleIs ==
  ASSUME NEW env, NEW ts
  PROVE  WalkInv(Idle, env, ts)
BY DEF WalkInv, Idle, IsWalk, OnTrack

LEMMA ArriveKeeps ==
  ASSUME RoutesInv, NEW m \in DOMAIN models, Arrive(m)
  PROVE  WalkInv(walk', Env, targets)
<1> DEFINE r == models[m].routeTo
           t == models[m].targetId
           ref == IF r # None THEN r ELSE IF t # None THEN To("target", t) ELSE None
           u == walk'
<1>1. walk = Idle /\ walk' = [walk EXCEPT !.phase = "walking", !.ref = ref]
  BY DEF Arrive, Walk, RoutesInv, WalkInv
<1>2. /\ IsWalk(u) /\ u.phase = "walking" /\ u.at = None /\ u.calls = << >> /\ u.visited = 0
      /\ u.ref = ref /\ u.role = walk.role /\ u.edited = walk.edited
  <2> HIDE DEF ref
  <2>1. QED
    BY <1>1 DEF IsWalk, Idle
<1> HIDE DEF u
<1>3. /\ t \in targets \cup {None}
      /\ r # None => /\ r.type \in {"target", "pipeline"}
                     /\ r.type = "target" => r.id \in targets
                     /\ r.type = "pipeline" => ~HasHoles(r.id, Env)
  BY DEF RoutesInv, ServedInv, Served, IInv, Stores, Bound
<1>4. \/ ref = None
      \/ ref # None /\ ref.type = "target" /\ ref.id \in targets
      \/ ref # None /\ ref.type = "pipeline" /\ ~HasHoles(ref.id, Env)
  <2>1. CASE r # None
    BY <1>3, <2>1
  <2>2. CASE r = None /\ t # None
    <3>1. ref = To("target", t) /\ t \in targets
      BY <1>3, <2>2
    <3> HIDE DEF ref
    <3>2. QED
      BY <3>1, References
  <2>3. CASE r = None /\ t = None
    BY <2>3
  <2>4. QED
    BY <2>1, <2>2, <2>3
<1>5. Starting(u, Env, targets)
  BY <1>2, <1>4 DEF Starting
<1>6. QED
  BY <1>2, <1>5, GoesOn DEF OnTrack, u

LEMMA WalksStayOnTrack ==
  ASSUME RoutesInv, Walking
  PROVE  WalkInv(walk', Env, targets)
<1>1. CASE Unbound
  BY <1>1, UnboundKeeps
<1>2. CASE ReachTarget
  BY <1>2, ReachTargetKeeps
<1>3. CASE EnterPipeline
  BY <1>3, EnterPipelineKeeps
<1>4. CASE NotVisited
  BY <1>4, NotVisitedKeeps
<1>5. CASE EditNode
  BY <1>5, EditNodeKeeps
<1>6. CASE CacheNode
  BY <1>6, CacheNodeKeeps
<1>7. CASE CacheHit
  BY <1>7, CacheHitKeeps
<1>8. CASE CacheMiss
  BY <1>8, CacheMissKeeps
<1>9. CASE ConditionNode
  BY <1>9, ConditionNodeKeeps
<1>10. CASE CallNode
  BY <1>10, CallNodeKeeps
<1>11. CASE ExitNode
  BY <1>11, ExitNodeKeeps
<1>12. CASE FusionNode
  BY <1>12, FusionNodeKeeps
<1>13. CASE PanelAnswered
  BY <1>13, PanelAnsweredKeeps
<1>14. CASE Dispatch
  BY <1>14, IdleIs DEF Dispatch, Walk
<1>15. QED
  BY <1>1, <1>2, <1>3, <1>4, <1>5, <1>6, <1>7, <1>8, <1>9, <1>10, <1>11,
     <1>12, <1>13, <1>14 DEF Walking

(* An edit meets no walk, or one that it then has disturbed.               *)
LEMMA EditsLeaveNoTrack ==
  ASSUME RoutesInv, Edits, NEW env, NEW ts
  PROVE  WalkInv(walk', env, ts)
<1>1. Edit
  BY DEF Edits, CreatePipeline, UpdatePipeline, DeletePipeline, CreateTarget, DeleteTarget,
         CreateModel, UpdateModel, DeleteModel, QuickRoute
<1>2. walk' = [walk EXCEPT !.edited = walk.phase # "idle"] /\ IsWalk(walk)
      /\ walk.phase \in {"idle", "caching", "generating"}
  BY <1>1 DEF Edit, RoutesInv, WalkInv
<1>3. CASE walk.phase = "idle"
  <2>1. walk = Idle
    BY <1>3 DEF RoutesInv, WalkInv
  <2>2. walk' = Idle
    BY <1>2, <2>1 DEF Idle
  <2>3. QED
    BY <2>2, IdleIs
<1>4. CASE walk.phase # "idle"
  <2>1. IsWalk(walk') /\ walk'.phase = walk.phase /\ walk'.edited /\ walk'.role = walk.role
    BY <1>2, <1>4 DEF IsWalk
  <2>2. QED
    BY <1>2, <1>4, <2>1 DEF WalkInv, RoutesInv, Undisturbed
<1>5. QED
  BY <1>3, <1>4

LEMMA RoutesInvariantHolds == Spec => []RoutesInv
<1>1. Init => RoutesInv
  <2> SUFFICES ASSUME Init PROVE RoutesInv
    OBVIOUS
  <2>1. IInv
    BY DEF Init, IInv, Stores
  <2>2. Offered /\ Acyclic(Env) /\ Served(models, Env)
    BY DEF Init, Offered, Acyclic, Env, Served
  <2>3. QED
    BY <2>1, <2>2, IdleIs DEF Init, RoutesInv, ServedInv
<1>2. RoutesInv /\ [Next]_vars => RoutesInv'
  <2> SUFFICES ASSUME RoutesInv, [Next]_vars PROVE RoutesInv'
    OBVIOUS
  <2>1. CASE Edits
    <3>1. ServedInv'
      BY <2>1, EditsServe DEF RoutesInv
    <3>2. WalkInv(walk', Env', targets')
      BY <2>1, EditsLeaveNoTrack
    <3>3. QED
      BY <3>1, <3>2 DEF RoutesInv
  <2>2. ASSUME UNCHANGED <<targets, pipelines, models>>, WalkInv(walk', Env, targets)
        PROVE  RoutesInv'
    <3>1. Env' = Env /\ targets' = targets /\ models' = models
      BY <2>2 DEF Env
    <3>2. IInv' /\ Offered'
      BY <2>2, StoresUnchanged DEF RoutesInv, ServedInv, Offered
    <3>3. QED
      BY <2>2, <3>1, <3>2 DEF RoutesInv, ServedInv
  <2>3. CASE \E m \in DOMAIN models : Arrive(m)
    <3>1. UNCHANGED <<targets, pipelines, models>>
      BY <2>3 DEF Arrive, Walk
    <3>2. QED
      BY <2>2, <2>3, <3>1, ArriveKeeps
  <2>4. CASE Walking
    <3>1. UNCHANGED <<targets, pipelines, models>>
      BY <2>4, WalkingReads
    <3>2. QED
      BY <2>2, <2>4, <3>1, WalksStayOnTrack
  <2>5. CASE UNCHANGED vars
    <3>1. UNCHANGED <<targets, pipelines, models>> /\ walk' = walk
      BY <2>5 DEF vars
    <3>2. QED
      BY <2>2, <3>1 DEF RoutesInv
  <2>6. QED
    BY <2>1, <2>3, <2>4, <2>5 DEF Next
<1>3. QED
  BY <1>1, <1>2, PTL DEF Spec

(* However pipelines, targets and models were edited before, a walk that   *)
(* no edit disturbs finds a stored target or an answer, whichever way its  *)
(* conditions go, if the search for holes was deep enough to see every     *)
(* walk (RoutesAssumption): what an edit checks is enough                  *)
(* (pipeline-graph.ts:171, routes/proxy-targets.routes.ts).                *)
THEOREM ValidatedRoutesAlwaysServe == Spec => []ValidatedRoutesServe
<1>1. RoutesInv => ValidatedRoutesServe
  BY DEF RoutesInv, WalkInv, Undisturbed, Serves, ValidatedRoutesServe
<1>2. QED
  BY <1>1, RoutesInvariantHolds, PTL

-----------------------------------------------------------------------------
(* Shared answers.  The inductive invariant.                               *)

Places == {"lookup", "node", "following", "body", "recording", "reading", "over"}
Outcomes == Kinds \cup {"open", "body", "text", "unserved", "coalesced", "resumed"}

SharingShapes ==
  /\ stored \in [Keys -> Body \cup {Absent}]
  /\ broadcasts \in [Keys -> Chunks \cup {Absent}]
  /\ stream \in [Requests -> BOOLEAN]
  /\ pc \in [Requests -> Places]
  /\ at \in [Requests -> Nat \ {0}]
  /\ cached \in [Requests -> Body \cup {Absent}]
  /\ sink \in [Requests -> Kinds \cup {"nothing", "error"}]
  /\ sent \in [Requests -> Nat]
  /\ sub \in [Requests -> Subscription \cup {Absent}]
  /\ how \in [Requests -> Outcomes]

(* What a request on its way has been given.  Only single answers follow.  *)
OnItsWay(r) ==
  /\ at[r] - 1 <= Len(Route[r])
  /\ pc[r] = "node" => at[r] <= Len(Route[r])
  /\ pc[r] \in {"lookup", "node", "following"} => how[r] = "open" /\ sent[r] = 0
  /\ pc[r] = "following" => ~stream[r] /\ at[r] <= Len(Route[r])
  /\ pc[r] \in {"body", "recording"} => how[r] \in {"body", "text"} /\ at[r] > Len(Route[r])
  /\ pc[r] = "body" => stream[r] /\ how[r] = "body"
  /\ pc[r] = "recording" /\ how[r] = "body" => stream[r]
  /\ pc[r] = "recording" /\ stream[r] => sink[r] \in Kinds
  /\ pc[r] = "recording" => sink[r] # "nothing"
  /\ pc[r] = "reading" => how[r] = "coalesced"

(* The broadcast of k is fed by q, or was left behind by it.               *)
Owns(q, k) ==
  /\ k \in Writes(q) /\ stream[q]
  /\ pc[q] # "over" \/ LeavesBehind(q, k)

(* A broadcast has one owner, and holds what that one has sent.            *)
OwnerInv(k) ==
  OnlyStreams(k) =>
    /\ \A p, q \in Requests : Owns(p, k) /\ Owns(q, k) => p = q
    /\ \A q \in Requests : Owns(q, k) => broadcasts[k] = Sends(q, k)
    /\ broadcasts[k] # Absent => \E q \in Requests : Owns(q, k)

(* A subscription has what its broadcast has, or was closed by its owner.  *)
HasEnded(q, k) == k \in Writes(q) /\ pc[q] = "over" /\ ~LeavesBehind(q, k)

SubscriberInv(r) ==
  sub[r] # Absent =>
    /\ sub[r].open => broadcasts[sub[r].key] = sub[r].got
    /\ ~sub[r].open /\ OnlyStreams(sub[r].key) =>
         \E q \in Requests : HasEnded(q, sub[r].key) /\ sub[r].got = Sends(q, sub[r].key)

SharingIInv ==
  /\ SharingShapes
  /\ \A r \in Requests : OnItsWay(r) /\ SubscriberInv(r)
  /\ \A k \in Keys : OwnerInv(k)

-----------------------------------------------------------------------------
(* Sequences of chunks.                                                    *)

ChunksOf(q, n) == [i \in 1..n |-> <<q, i>>]

LEMMA NoChunks ==
  \A q : ChunksOf(q, 0) = << >>
BY DEF ChunksOf

LEMMA OneChunk ==
  \A q : ChunksOf(q, 1) = << <<q, 1>> >>
BY DEF ChunksOf

LEMMA ChunksTyped ==
  ASSUME NEW q \in Requests, NEW n \in Nat
  PROVE  ChunksOf(q, n) \in Chunks
BY DEF ChunksOf, Chunks

LEMMA NextChunk ==
  ASSUME NEW q, NEW n \in Nat
  PROVE  ChunksOf(q, n) \o << <<q, n + 1>> >> = ChunksOf(q, n + 1)
<1> DEFINE S == {q} \X Nat
           e == <<q, n + 1>>
<1>1. ChunksOf(q, n) \in Seq(S) /\ Len(ChunksOf(q, n)) = n
  BY DEF ChunksOf
<1>2. ChunksOf(q, n + 1) \in Seq(S) /\ Len(ChunksOf(q, n + 1)) = n + 1
  BY DEF ChunksOf
<1>3. /\ \A i \in 1..n : ChunksOf(q, n)[i] = <<q, i>>
      /\ \A i \in 1..(n + 1) : ChunksOf(q, n + 1)[i] = <<q, i>>
  BY DEF ChunksOf
<1>4. e \in S
  OBVIOUS
<1>5. ChunksOf(q, n) \o <<e>> = Append(ChunksOf(q, n), e)
  <2> HIDE DEF S, e
  <2> QED BY <1>1, <1>4, AppendIsConcat
<1>6. Append(ChunksOf(q, n), e) = ChunksOf(q, n + 1)
  <2> HIDE DEF S
  <2>1. /\ Append(ChunksOf(q, n), e) \in Seq(S)
        /\ Len(Append(ChunksOf(q, n), e)) = n + 1
    BY <1>1, <1>4, AppendProperties
  <2>2. \A i \in 1..(n + 1) : Append(ChunksOf(q, n), e)[i] = <<q, i>>
    BY <1>1, <1>3, <1>4, AppendProperties
  <2> QED BY <1>2, <1>3, <2>1, <2>2, SeqEqual
<1> QED BY <1>5, <1>6

LEMMA AddNothing ==
  \A c \in Chunks : c \o << >> = c
BY DEF Chunks

LEMMA SentSoFar ==
  ASSUME NEW q \in Requests, NEW k
  PROVE  Sends(q, k) =
           IF LeavesBehind(q, k) \/ how[q] = "text" THEN << >> ELSE ChunksOf(q, sent[q])
BY DEF Sends, ChunksOf

-----------------------------------------------------------------------------
(* A step of a request, seen from the broadcasts and their readers.        *)

Same(q) ==
  /\ pc'[q] = pc[q] /\ at'[q] = at[q] /\ how'[q] = how[q] /\ sent'[q] = sent[q]
  /\ stream'[q] = stream[q]

Moves(r) ==
  /\ pc[r] # "over" /\ stream' = stream
  /\ at'[r] \in {at[r], at[r] + 1}
  /\ \A q \in Requests \ {r} : Same(q)

(* r has to k the part in it that it had before.                           *)
KeepsPart(r, k) ==
  /\ Owns(r, k)' <=> Owns(r, k)
  /\ Owns(r, k) => Sends(r, k)' = Sends(r, k)

LEMMA SameRequest ==
  ASSUME NEW q, NEW k, Same(q)
  PROVE  /\ Writes(q)' = Writes(q)
         /\ LeavesBehind(q, k)' <=> LeavesBehind(q, k)
         /\ Sends(q, k)' = Sends(q, k)
         /\ Owns(q, k)' <=> Owns(q, k)
         /\ HasEnded(q, k)' <=> HasEnded(q, k)
<1>1. Writes(q)' = Writes(q)
  BY DEF Same, Writes
<1>2. LeavesBehind(q, k)' <=> LeavesBehind(q, k)
  BY DEF Same, LeavesBehind, First
<1>3. Sends(q, k)' = Sends(q, k)
  BY <1>2 DEF Same, Sends
<1> QED BY <1>1, <1>2, <1>3 DEF Same, Owns, HasEnded

LEMMA WritesKeys ==
  ASSUME SharingIInv, NEW r \in Requests
  PROVE  Writes(r) \subseteq Keys /\ First(r) \in Keys /\ Len(Route[r]) >= 1
<1>1. Route[r] \in Seq(Keys) /\ Route[r] # << >>
  BY SharingAssumption
<1>2. /\ Len(Route[r]) \in Nat /\ Len(Route[r]) >= 1
      /\ \A i \in 1..Len(Route[r]) : Route[r][i] \in Keys
  BY <1>1
<1>3. at[r] \in Nat /\ at[r] - 1 <= Len(Route[r])
  BY DEF SharingIInv, SharingShapes, OnItsWay
<1> QED BY <1>2, <1>3 DEF Writes, First

LEMMA StreamsRemain ==
  ASSUME SharingIInv, NEW r \in Requests, Moves(r), NEW k
  PROVE  /\ Writes(r) \subseteq Writes(r)'
         /\ OnlyStreams(k)' => OnlyStreams(k)
<1>1. at[r] \in Nat
  BY DEF SharingIInv, SharingShapes
<1>2. Writes(r) \subseteq Writes(r)'
  BY <1>1 DEF Moves, Writes
<1>3. \A q \in Requests : Writes(q) \subseteq Writes(q)'
  BY <1>2, SameRequest DEF Moves
<1> QED BY <1>2, <1>3 DEF OnlyStreams, Moves

LEMMA SendsChunks ==
  ASSUME SharingIInv, NEW q \in Requests, NEW k
  PROVE  Sends(q, k) \in Chunks
<1>1. sent[q] \in Nat
  BY DEF SharingIInv, SharingShapes
<1>2. << >> \in Chunks
  BY DEF Chunks
<1> QED BY <1>1, <1>2, SentSoFar, ChunksTyped

LEMMA OwnerStep ==
  ASSUME SharingIInv, NEW r \in Requests, Moves(r), NEW k \in Keys,
         OnlyStreams(k)' =>
           \/ KeepsPart(r, k) /\ broadcasts'[k] = broadcasts[k]
           \/ /\ broadcasts[k] = Absent /\ broadcasts'[k] = << >>
              /\ Owns(r, k)' /\ Sends(r, k)' = << >>
           \/ Owns(r, k) /\ Owns(r, k)' /\ broadcasts'[k] = Sends(r, k)'
           \/ Owns(r, k) /\ ~Owns(r, k)' /\ broadcasts'[k] = Absent
  PROVE  OwnerInv(k)'
<1> SUFFICES ASSUME OnlyStreams(k)'
             PROVE  /\ \A p, q \in Requests : Owns(p, k)' /\ Owns(q, k)' => p = q
                    /\ \A q \in Requests : Owns(q, k)' => broadcasts'[k] = Sends(q, k)'
                    /\ broadcasts'[k] # Absent => \E q \in Requests : Owns(q, k)'
  BY DEF OwnerInv
<1>1. OnlyStreams(k)
  BY StreamsRemain
<1>2. /\ \A p, q \in Requests : Owns(p, k) /\ Owns(q, k) => p = q
      /\ \A q \in Requests : Owns(q, k) => broadcasts[k] = Sends(q, k)
      /\ broadcasts[k] # Absent => \E q \in Requests : Owns(q, k)
  BY <1>1 DEF SharingIInv, OwnerInv
<1>3. \A q \in Requests \ {r} :
        (Owns(q, k)' <=> Owns(q, k)) /\ Sends(q, k)' = Sends(q, k)
  BY SameRequest DEF Moves
<1>4. \A q \in Requests : Sends(q, k) # Absent
  BY SendsChunks, SharingAssumption
<1>5. CASE KeepsPart(r, k) /\ broadcasts'[k] = broadcasts[k]
  BY <1>2, <1>3, <1>5 DEF KeepsPart
<1>6. CASE /\ broadcasts[k] = Absent /\ broadcasts'[k] = << >>
           /\ Owns(r, k)' /\ Sends(r, k)' = << >>
  BY <1>2, <1>3, <1>4, <1>6
<1>7. CASE Owns(r, k) /\ Owns(r, k)' /\ broadcasts'[k] = Sends(r, k)'
  BY <1>2, <1>3, <1>7
<1>8. CASE Owns(r, k) /\ ~Owns(r, k)' /\ broadcasts'[k] = Absent
  BY <1>2, <1>3, <1>8
<1> QED BY <1>5, <1>6, <1>7, <1>8

LEMMA SubscriberStep ==
  ASSUME SharingIInv, NEW r \in Requests, Moves(r), NEW q \in Requests,
         sub'[q] # Absent =>
           \/ /\ sub'[q] = sub[q]
              /\ sub[q].open => broadcasts'[sub[q].key] = broadcasts[sub[q].key]
           \/ sub'[q].open /\ broadcasts'[sub'[q].key] = sub'[q].got
           \/ /\ ~sub'[q].open
              /\ OnlyStreams(sub[q].key)' =>
                   HasEnded(r, sub[q].key)' /\ sub'[q].got = Sends(r, sub[q].key)'
  PROVE  SubscriberInv(q)'
<1> SUFFICES ASSUME sub'[q] # Absent
             PROVE  /\ sub'[q].open => broadcasts'[sub'[q].key] = sub'[q].got
                    /\ ~sub'[q].open /\ OnlyStreams(sub[q].key)' =>
                         \E p \in Requests :
                           HasEnded(p, sub[q].key)' /\ sub'[q].got = Sends(p, sub[q].key)'
  BY DEF SubscriberInv
<1>1. CASE /\ sub'[q] = sub[q]
           /\ sub[q].open => broadcasts'[sub[q].key] = broadcasts[sub[q].key]
  <2>1. SubscriberInv(q)
    BY DEF SharingIInv
  <2>2. CASE sub[q].open
    BY <1>1, <2>1, <2>2 DEF SubscriberInv
  <2>3. CASE ~sub[q].open /\ OnlyStreams(sub[q].key)'
    <3>1. OnlyStreams(sub[q].key)
      BY <1>1, <2>3, StreamsRemain
    <3>2. PICK p \in Requests : HasEnded(p, sub[q].key) /\ sub[q].got = Sends(p, sub[q].key)
      BY <1>1, <2>1, <2>3, <3>1 DEF SubscriberInv
    <3>3. p # r
      BY <3>2 DEF HasEnded, Moves
    <3>4. HasEnded(p, sub[q].key)' /\ Sends(p, sub[q].key)' = Sends(p, sub[q].key)
      BY <1>1, <3>2, <3>3, SameRequest DEF Moves, HasEnded, Same, Writes, LeavesBehind, Sends, First
    <3> QED BY <1>1, <2>3, <3>2, <3>4
  <2> QED BY <1>1, <2>2, <2>3
<1>2. CASE sub'[q].open /\ broadcasts'[sub'[q].key] = sub'[q].got
  BY <1>2
<1>3. CASE /\ ~sub'[q].open
           /\ OnlyStreams(sub[q].key)' =>
                HasEnded(r, sub[q].key)' /\ sub'[q].got = Sends(r, sub[q].key)'
  BY <1>3
<1> QED BY <1>1, <1>2, <1>3

(* What Broadcasts does to the broadcasts and to their readers.            *)
Reaches(ks, chunks, ends) ==
  /\ \A k \in Keys :
       broadcasts'[k] = IF k \notin ks \/ broadcasts[k] = Absent THEN broadcasts[k]
                        ELSE IF ends THEN Absent ELSE broadcasts[k] \o chunks
  /\ \A q \in Requests :
       IF sub[q] # Absent /\ sub[q].open /\ sub[q].key \in ks
       THEN /\ sub'[q] # Absent /\ sub'[q].key = sub[q].key
            /\ sub'[q].got = sub[q].got \o chunks
            /\ sub'[q].open = ~ends
       ELSE sub'[q] = sub[q]

LEMMA BroadcastFacts ==
  ASSUME SharingIInv, NEW ks \in SUBSET Keys, NEW chunks \in Chunks, NEW ends \in BOOLEAN,
         Broadcasts(ks, chunks, ends)
  PROVE  /\ broadcasts' \in [Keys -> Chunks \cup {Absent}]
         /\ sub' \in [Requests -> Subscription \cup {Absent}]
         /\ Reaches(ks, chunks, ends)
<1>1. broadcasts \in [Keys -> Chunks \cup {Absent}]
      /\ sub \in [Requests -> Subscription \cup {Absent}]
  BY DEF SharingIInv, SharingShapes
<1>2. \A c \in Chunks : c \o chunks \in Chunks
  BY DEF Chunks
<1>3. \A k \in Keys :
        broadcasts'[k] = IF k \notin ks \/ broadcasts[k] = Absent THEN broadcasts[k]
                         ELSE IF ends THEN Absent ELSE broadcasts[k] \o chunks
  BY DEF Broadcasts
<1>4. broadcasts' \in [Keys -> Chunks \cup {Absent}]
  <2>1. broadcasts' = [k \in Keys |-> broadcasts'[k]]
    BY DEF Broadcasts
  <2>2. \A k \in Keys : broadcasts'[k] \in Chunks \cup {Absent}
    BY <1>1, <1>2, <1>3
  <2> QED BY <2>1, <2>2
<1>5. \A q \in Requests : sub[q] # Absent =>
        sub[q] \in Subscription /\ sub[q].open \in BOOLEAN /\ sub[q].key \in Keys
          /\ sub[q].got \in Chunks
  BY <1>1 DEF Subscription
<1> DEFINE live == {k \in ks : broadcasts[k] # Absent}
           Touched(q) == \E k \in live : q \in On(k)
           Hears(q) == [sub[q] EXCEPT !.got = @ \o chunks, !.open = ~ends]
<1>6. \A q \in Requests :
        Touched(q) <=> sub[q] # Absent /\ sub[q].open /\ sub[q].key \in ks
  <2> SUFFICES ASSUME NEW q \in Requests, sub[q] # Absent, sub[q].open
               PROVE  sub[q].key \in ks => broadcasts[sub[q].key] # Absent
    BY <1>5 DEF On
  <2>1. broadcasts[sub[q].key] = sub[q].got
    BY DEF SharingIInv, SubscriberInv
  <2> QED BY <1>5, <2>1, SharingAssumption
<1>7. \A q \in Requests : sub'[q] = IF Touched(q) THEN Hears(q) ELSE sub[q]
  BY DEF Broadcasts
<1>8. \A q \in Requests : sub[q] # Absent =>
        /\ Hears(q) \in Subscription /\ Hears(q).key = sub[q].key
        /\ Hears(q).got = sub[q].got \o chunks /\ Hears(q).open = ~ends
  <2> SUFFICES ASSUME NEW q \in Requests, sub[q] # Absent
               PROVE  /\ Hears(q) \in Subscription /\ Hears(q).key = sub[q].key
                      /\ Hears(q).got = sub[q].got \o chunks /\ Hears(q).open = ~ends
    OBVIOUS
  <2>1. sub[q] \in Subscription /\ sub[q].got \o chunks \in Chunks
    BY <1>2, <1>5
  <2> QED BY <2>1 DEF Subscription
<1> HIDE DEF Hears, Touched
<1>9. \A q \in Requests : sub'[q] \in Subscription \cup {Absent}
  BY <1>1, <1>6, <1>7, <1>8
<1>10. sub' = [q \in Requests |-> sub'[q]]
  BY DEF Broadcasts
<1>11. sub' \in [Requests -> Subscription \cup {Absent}]
  BY <1>9, <1>10
<1>12. ASSUME NEW q \in Requests
       PROVE  IF sub[q] # Absent /\ sub[q].open /\ sub[q].key \in ks
              THEN /\ sub'[q] # Absent /\ sub'[q].key = sub[q].key
                   /\ sub'[q].got = sub[q].got \o chunks
                   /\ sub'[q].open = ~ends
              ELSE sub'[q] = sub[q]
  <2>1. CASE Touched(q)
    BY <1>6, <1>7, <1>8, <2>1, SharingAssumption
  <2>2. CASE ~Touched(q)
    BY <1>6, <1>7, <2>2
  <2> QED BY <2>1, <2>2
<1> QED BY <1>3, <1>4, <1>11, <1>12 DEF Reaches

(* A step that leaves the broadcasts alone: r may subscribe or leave.      *)
LEMMA QuietStep ==
  ASSUME SharingIInv, NEW r \in Requests, Moves(r), broadcasts' = broadcasts,
         \A q \in Requests \ {r} : sub'[q] = sub[q],
         \/ sub'[r] \in {sub[r], Absent}
         \/ \E k \in Keys : broadcasts[k] # Absent /\ sub'[r] = Subscribed(k),
         \A k \in Keys : OnlyStreams(k)' => KeepsPart(r, k)
  PROVE  (\A q \in Requests : SubscriberInv(q)') /\ (\A k \in Keys : OwnerInv(k)')
<1>1. ASSUME NEW k \in Keys PROVE OwnerInv(k)'
  BY OwnerStep
<1>2. ASSUME NEW q \in Requests PROVE SubscriberInv(q)'
  <2>1. CASE sub'[q] = sub[q]
    BY <2>1, SubscriberStep
  <2>2. CASE sub'[q] = Absent
    BY <2>2 DEF SubscriberInv
  <2>3. ASSUME NEW k \in Keys, q = r, sub'[r] = Subscribed(k) PROVE SubscriberInv(q)'
    <3>1. sub'[q].open /\ broadcasts'[sub'[q].key] = sub'[q].got
      BY <2>3 DEF Subscribed
    <3> QED BY <3>1, SubscriberStep
  <2> QED BY <2>1, <2>2, <2>3
<1> QED BY <1>1, <1>2

(* A step that feeds or ends the broadcasts under ks, which are r's own.   *)
LEMMA FeedStep ==
  ASSUME SharingIInv, NEW r \in Requests, Moves(r),
         NEW ks \in SUBSET Keys, NEW chunks \in Chunks, NEW ends \in BOOLEAN,
         Broadcasts(ks, chunks, ends),
         \A k \in Keys \ ks : OnlyStreams(k)' => KeepsPart(r, k),
         \A k \in ks : OnlyStreams(k)' =>
           /\ Owns(r, k) /\ Sends(r, k)' = Sends(r, k) \o chunks
           /\ IF ends THEN HasEnded(r, k)' ELSE Owns(r, k)'
  PROVE  (\A q \in Requests : SubscriberInv(q)') /\ (\A k \in Keys : OwnerInv(k)')
<1>1. /\ \A k \in Keys :
           broadcasts'[k] = IF k \notin ks \/ broadcasts[k] = Absent THEN broadcasts[k]
                            ELSE IF ends THEN Absent ELSE broadcasts[k] \o chunks
      /\ \A q \in Requests :
           IF sub[q] # Absent /\ sub[q].open /\ sub[q].key \in ks
           THEN /\ sub'[q] # Absent /\ sub'[q].key = sub[q].key
                /\ sub'[q].got = sub[q].got \o chunks
                /\ sub'[q].open = ~ends
           ELSE sub'[q] = sub[q]
  <2>1. Reaches(ks, chunks, ends)
    BY BroadcastFacts
  <2> QED BY <2>1 DEF Reaches
<1>2. ASSUME NEW k \in ks, OnlyStreams(k)'
      PROVE  broadcasts[k] = Sends(r, k) /\ broadcasts[k] # Absent
  <2>1. OnlyStreams(k)
    BY <1>2, StreamsRemain
  <2>2. broadcasts[k] = Sends(r, k)
    BY <1>2, <2>1 DEF SharingIInv, OwnerInv
  <2> QED BY <2>2, SendsChunks, SharingAssumption
<1>3. ASSUME NEW k \in Keys PROVE OwnerInv(k)'
  <2>1. CASE k \notin ks
    BY <1>1, <2>1, OwnerStep
  <2>2. CASE k \in ks /\ OnlyStreams(k)'
    <3>1. Owns(r, k) /\ Sends(r, k)' = Sends(r, k) \o chunks
      BY <2>2
    <3>2. CASE ends
      <4>1. broadcasts'[k] = Absent
        BY <1>1, <1>2, <2>2, <3>2
      <4>2. ~Owns(r, k)'
        BY <2>2, <3>2 DEF HasEnded, Owns
      <4> QED BY <3>1, <4>1, <4>2, OwnerStep
    <3>3. CASE ~ends
      <4>1. Owns(r, k)' /\ broadcasts'[k] = Sends(r, k)'
        BY <1>1, <1>2, <2>2, <3>1, <3>3
      <4> QED BY <3>1, <4>1, OwnerStep
    <3> QED BY <3>2, <3>3
  <2>3. CASE ~OnlyStreams(k)'
    BY <2>3 DEF OwnerInv
  <2> QED BY <2>1, <2>2, <2>3
<1>4. ASSUME NEW q \in Requests PROVE SubscriberInv(q)'
  <2>1. CASE sub[q] # Absent /\ sub[q].open /\ sub[q].key \in ks
    <3>1. /\ sub'[q] # Absent /\ sub'[q].key = sub[q].key
          /\ sub'[q].got = sub[q].got \o chunks /\ sub'[q].open = ~ends
      BY <1>1, <2>1
    <3>2. broadcasts[sub[q].key] = sub[q].got
      BY <2>1 DEF SharingIInv, SubscriberInv
    <3>3. sub[q].got # Absent
      BY <2>1, SharingAssumption DEF SharingIInv, SharingShapes, Subscription
    <3>4. CASE ~ends
      <4>1. broadcasts'[sub[q].key] = broadcasts[sub[q].key] \o chunks
        BY <1>1, <2>1, <3>2, <3>3, <3>4
      <4>2. broadcasts'[sub'[q].key] = sub'[q].got
        BY <3>1, <3>2, <4>1
      <4> QED BY <3>1, <3>4, <4>2, SubscriberStep
    <3>5. CASE ends
      <4>1. ASSUME OnlyStreams(sub[q].key)'
            PROVE  HasEnded(r, sub[q].key)' /\ sub'[q].got = Sends(r, sub[q].key)'
        <5> DEFINE k == sub[q].key
        <5>1. k \in ks /\ k' = k
          BY <2>1, <3>1
        <5>2. OnlyStreams(k)'
          BY <4>1
        <5>3. HasEnded(r, k)' /\ Sends(r, k)' = Sends(r, k) \o chunks
          BY <3>5, <5>1, <5>2
        <5> QED BY <1>2, <3>1, <3>2, <5>1, <5>2, <5>3
      <4> QED BY <3>1, <3>5, <4>1, SubscriberStep
    <3> QED BY <3>4, <3>5
  <2>2. CASE ~(sub[q] # Absent /\ sub[q].open /\ sub[q].key \in ks)
    <3>1. sub'[q] = sub[q]
      BY <1>1, <2>2
    <3>2. ASSUME sub[q] # Absent, sub[q].open
          PROVE  broadcasts'[sub[q].key] = broadcasts[sub[q].key]
      <4>1. sub[q].key \in Keys /\ sub[q].key \notin ks
        BY <2>2, <3>2 DEF SharingIInv, SharingShapes, Subscription
      <4> QED BY <1>1, <4>1
    <3> QED BY <3>1, <3>2, SubscriberStep
  <2> QED BY <2>1, <2>2
<1> QED BY <1>3, <1>4

LEMMA OthersOnTheirWay ==
  ASSUME NEW q, OnItsWay(q), Same(q), sink'[q] = sink[q]
  PROVE  OnItsWay(q)'
BY DEF OnItsWay, Same

LEMMA SingleAnswersOwnNothing ==
  ASSUME NEW r, NEW k, ~stream[r], stream' = stream
  PROVE  KeepsPart(r, k)
BY DEF KeepsPart, Owns

(* r goes on, or leaves behind what it had.                                *)
LEMMA StreamKeepsPart ==
  ASSUME SharingIInv, NEW r \in Requests, NEW k, Moves(r),
         at'[r] = at[r], sent'[r] = sent[r],
         pc'[r] # "over" \/ LeavesBehind(r, k)',
         sent[r] = 0 \/ (how'[r] = how[r] /\ (LeavesBehind(r, k)' <=> LeavesBehind(r, k)))
  PROVE  KeepsPart(r, k)
<1>1. Writes(r)' = Writes(r)
  BY DEF Writes
<1>2. Owns(r, k)' <=> Owns(r, k)
  BY <1>1 DEF Owns, Moves
<1>3. Sends(r, k)' = Sends(r, k)
  <2>1. Sends(r, k)' = IF LeavesBehind(r, k)' \/ how'[r] = "text" THEN << >>
                       ELSE ChunksOf(r, sent[r])
    BY DEF Sends, ChunksOf
  <2> QED BY <2>1, SentSoFar, NoChunks
<1> QED BY <1>2, <1>3 DEF KeepsPart

(* What is left to show of a quiet step.                                   *)
LEMMA QuietStepKeeps ==
  ASSUME SharingIInv, NEW r \in Requests, Moves(r), broadcasts' = broadcasts,
         \A q \in Requests \ {r} : sub'[q] = sub[q] /\ sink'[q] = sink[q],
         \/ sub'[r] \in {sub[r], Absent}
         \/ \E k \in Keys : broadcasts[k] # Absent /\ sub'[r] = Subscribed(k),
         \A k \in Keys : OnlyStreams(k)' => KeepsPart(r, k),
         SharingShapes', OnItsWay(r)'
  PROVE  SharingIInv'
<1>1. ASSUME NEW q \in Requests PROVE OnItsWay(q)'
  BY OthersOnTheirWay DEF Moves, SharingIInv
<1>2. (\A q \in Requests : SubscriberInv(q)') /\ (\A k \in Keys : OwnerInv(k)')
  BY QuietStep
<1> QED BY <1>1, <1>2 DEF SharingIInv

-----------------------------------------------------------------------------
(* The steps.                                                              *)

LEMMA LookupKeeps ==
  ASSUME SharingIInv, NEW r \in Requests, Lookup(r)
  PROVE  SharingIInv'
<1> USE DEF Lookup, Goes
<1>1. Moves(r)
  BY DEF Moves, Same, SharingIInv, SharingShapes
<1>2. SharingShapes'
  <2>1. Route[r] \in Seq(Keys) /\ at[r] \in Nat \ {0} /\ at[r] <= Len(Route[r])
    BY SharingAssumption DEF SharingIInv, SharingShapes
  <2>2. Key(r) \in Keys
    BY <2>1 DEF Key
  <2> QED BY <2>2 DEF SharingIInv, SharingShapes, Places
<1>3. OnItsWay(r)'
  BY DEF SharingIInv, OnItsWay, SharingShapes
<1>4. ASSUME NEW k \in Keys PROVE KeepsPart(r, k)
  <2>1. pc'[r] # "over" /\ how'[r] = how[r] /\ (LeavesBehind(r, k)' <=> LeavesBehind(r, k))
    BY DEF LeavesBehind, First, SharingIInv, SharingShapes
  <2> QED BY <1>1, <2>1, StreamKeepsPart
<1> QED BY <1>1, <1>2, <1>3, <1>4, QuietStepKeeps

LEMMA HitNodeKeeps ==
  ASSUME SharingIInv, NEW r \in Requests, HitNode(r)
  PROVE  SharingIInv'
<1> USE DEF HitNode, Goes, Hit
<1>1. Moves(r)
  BY DEF Moves, Same, SharingIInv, SharingShapes
<1>2. cached[r].kind \in Kinds
  BY DEF SharingIInv, SharingShapes, Body
<1>3. SharingShapes'
  BY <1>2 DEF SharingIInv, SharingShapes, Places, Outcomes
<1>4. OnItsWay(r)'
  BY DEF SharingIInv, OnItsWay, SharingShapes
<1>5. ASSUME NEW k \in Keys PROVE KeepsPart(r, k)
  <2>1. CASE stream[r]
    <3>1. sent[r] = 0 /\ LeavesBehind(r, k)'
      BY <1>2, <2>1 DEF LeavesBehind, SharingIInv, SharingShapes, OnItsWay
    <3> QED BY <1>1, <3>1, StreamKeepsPart
  <2>2. CASE ~stream[r]
    BY <2>2, SingleAnswersOwnNothing
  <2> QED BY <2>1, <2>2
<1> QED BY <1>1, <1>3, <1>4, <1>5, QuietStepKeeps

(* The key of the node that r comes to is its own from now on.             *)
LEMMA NextWrites ==
  ASSUME SharingIInv, NEW r \in Requests, at' = [at EXCEPT ![r] = @ + 1]
  PROVE  Writes(r)' = Writes(r) \cup {Key(r)}
<1>1. at[r] \in Nat \ {0} /\ at'[r] = at[r] + 1
  BY DEF SharingIInv, SharingShapes
<1> QED BY <1>1 DEF Writes, Key

LEMMA StreamNodeKeeps ==
  ASSUME SharingIInv, NEW r \in Requests, StreamNode(r)
  PROVE  SharingIInv'
<1>1. at[r] \in Nat /\ Key(r) \in Keys /\ sent[r] = 0 /\ how[r] = "open" /\ stream[r]
  <2>1. Route[r] \in Seq(Keys) /\ at[r] \in 1..Len(Route[r])
    BY SharingAssumption DEF SharingIInv, SharingShapes, OnItsWay, StreamNode
  <2> QED BY <2>1 DEF SharingIInv, SharingShapes, OnItsWay, StreamNode, Key
<1>2. CASE broadcasts[Key(r)] # Absent
  <2>1. /\ Goes(r, "node", "reading") /\ sub' = [sub EXCEPT ![r] = Subscribed(Key(r))]
        /\ how' = [how EXCEPT ![r] = "coalesced"]
        /\ UNCHANGED <<at, broadcasts, stored, stream, cached, sink, sent>>
    BY <1>2 DEF StreamNode, Hit
  <2>2. Moves(r)
    BY <2>1 DEF Moves, Same, SharingIInv, SharingShapes, Goes
  <2>3. Subscribed(Key(r)) \in Subscription
    BY <1>1, <1>2 DEF Subscribed, Subscription, SharingIInv, SharingShapes
  <2>4. SharingShapes'
    BY <2>1, <2>3 DEF SharingIInv, SharingShapes, Places, Outcomes, Goes
  <2>5. OnItsWay(r)'
    BY <2>1 DEF SharingIInv, OnItsWay, SharingShapes, Goes
  <2>6. ASSUME NEW k \in Keys PROVE KeepsPart(r, k)
    <3>1. pc'[r] # "over"
      BY <2>1 DEF Goes, SharingIInv, SharingShapes
    <3> QED BY <1>1, <2>1, <2>2, <3>1, StreamKeepsPart
  <2>7. sub'[r] = Subscribed(Key(r)) /\ \A q \in Requests \ {r} : sub'[q] = sub[q]
    BY <2>1 DEF SharingIInv, SharingShapes
  <2> QED BY <1>1, <1>2, <2>1, <2>2, <2>4, <2>5, <2>6, <2>7, QuietStepKeeps
<1>3. CASE broadcasts[Key(r)] = Absent
  <2>1. /\ Goes(r, "node", "lookup") /\ broadcasts' = [broadcasts EXCEPT ![Key(r)] = << >>]
        /\ at' = [at EXCEPT ![r] = @ + 1]
        /\ UNCHANGED <<sub, how, stored, stream, cached, sink, sent>>
    BY <1>3 DEF StreamNode, Miss
  <2>2. Moves(r)
    BY <2>1 DEF Moves, Same, SharingIInv, SharingShapes, Goes
  <2>3. << >> \in Chunks
    BY DEF Chunks
  <2>4. SharingShapes'
    BY <1>1, <2>1, <2>3 DEF SharingIInv, SharingShapes, Places, Goes
  <2>5. OnItsWay(r)'
    BY <1>1, <2>1 DEF StreamNode, SharingIInv, OnItsWay, SharingShapes, Goes
  <2>6. pc'[r] = "lookup"
    BY <2>1 DEF Goes, SharingIInv, SharingShapes
  <2>7. \A k : Sends(r, k) = << >> /\ Sends(r, k)' = << >>
    <3>1. \A k : Sends(r, k)' = IF LeavesBehind(r, k)' \/ how'[r] = "text" THEN << >>
                               ELSE ChunksOf(r, sent[r])
      BY <2>1 DEF Sends, ChunksOf
    <3> QED BY <1>1, <3>1, SentSoFar, NoChunks
  <2>8. Writes(r)' = Writes(r) \cup {Key(r)}
    BY <2>1, NextWrites
  <2>9. ASSUME NEW k \in Keys PROVE OwnerInv(k)'
    <3>1. CASE k = Key(r)
      <4>1. broadcasts'[k] = << >>
        BY <1>1, <2>1, <3>1 DEF SharingIInv, SharingShapes
      <4>2. Owns(r, k)'
        BY <1>1, <2>1, <2>6, <2>8, <3>1 DEF Owns
      <4> QED BY <1>3, <2>2, <2>7, <3>1, <4>1, <4>2, OwnerStep
    <3>2. CASE k # Key(r)
      <4>1. broadcasts'[k] = broadcasts[k]
        BY <2>1, <3>2 DEF SharingIInv, SharingShapes
      <4>2. Owns(r, k)' <=> Owns(r, k)
        BY <1>1, <2>1, <2>2, <2>6, <2>8, <3>2 DEF Owns, Moves
      <4> QED BY <2>2, <2>7, <4>1, <4>2, OwnerStep DEF KeepsPart
    <3> QED BY <3>1, <3>2
  <2>10. ASSUME NEW q \in Requests PROVE SubscriberInv(q)'
    <3>1. ASSUME sub[q] # Absent, sub[q].open
          PROVE  broadcasts'[sub[q].key] = broadcasts[sub[q].key]
      <4>1. sub[q].key \in Keys /\ sub[q].got \in Chunks
        BY <3>1 DEF SharingIInv, SharingShapes, Subscription
      <4>2. broadcasts[sub[q].key] = sub[q].got
        BY <3>1 DEF SharingIInv, SubscriberInv
      <4>3. sub[q].key # Key(r)
        BY <1>3, <4>1, <4>2, SharingAssumption
      <4> QED BY <2>1, <4>1, <4>3 DEF SharingIInv, SharingShapes
    <3> QED BY <2>1, <2>2, <3>1, SubscriberStep
  <2>11. ASSUME NEW q \in Requests PROVE OnItsWay(q)'
    BY <2>1, <2>2, <2>5, OthersOnTheirWay DEF Moves, SharingIInv
  <2> QED BY <2>4, <2>9, <2>10, <2>11 DEF SharingIInv
<1> QED BY <1>2, <1>3

(* A single answer neither owns a broadcast nor leaves one behind.         *)
LEMMA SingleMissKeeps ==
  ASSUME SharingIInv, NEW r \in Requests, ~stream[r], Moves(r),
         pc'[r] \in {"lookup", "following"}, how' = how, sent' = sent, stream' = stream,
         sink' = sink, UNCHANGED <<stored, broadcasts, cached, sub>>,
         pc' \in [Requests -> Places], pc[r] \in {"node", "following"},
         \/ at' = [at EXCEPT ![r] = @ + 1] /\ pc'[r] = "lookup"
         \/ at' = at
  PROVE  SharingIInv'
<1>1. SharingShapes'
  BY DEF SharingIInv, SharingShapes
<1>2. at[r] <= Len(Route[r]) /\ Len(Route[r]) \in Nat /\ at[r] \in Nat
  BY SharingAssumption DEF SharingIInv, SharingShapes, OnItsWay
<1>3. OnItsWay(r)'
  BY <1>2 DEF SharingIInv, OnItsWay, SharingShapes
<1>4. ASSUME NEW k \in Keys PROVE KeepsPart(r, k)
  BY SingleAnswersOwnNothing
<1> QED BY <1>1, <1>3, <1>4, QuietStepKeeps

LEMMA JsonNodeKeeps ==
  ASSUME SharingIInv, NEW r \in Requests, JsonNode(r)
  PROVE  SharingIInv'
<1>1. pc[r] = "node" /\ ~stream[r]
  BY DEF JsonNode, Follow, RegisterOwner, Goes
<1>2. UNCHANGED <<stored, broadcasts, stream, cached, sink, sent, sub, how>>
  BY DEF JsonNode, Follow, RegisterOwner, Miss
<1>3. CASE Follow(r)
  <2>1. Moves(r) /\ pc'[r] = "following" /\ at' = at /\ pc' \in [Requests -> Places]
    BY <1>2, <1>3 DEF Follow, Goes, Moves, Same, SharingIInv, SharingShapes, Places
  <2> QED BY <1>1, <1>2, <2>1, SingleMissKeeps
<1>4. CASE RegisterOwner(r)
  <2>1. /\ Moves(r) /\ pc'[r] = "lookup" /\ pc' \in [Requests -> Places]
        /\ at' = [at EXCEPT ![r] = @ + 1]
    BY <1>2, <1>4 DEF RegisterOwner, Miss, Goes, Moves, Same, SharingIInv, SharingShapes, Places
  <2> QED BY <1>1, <1>2, <2>1, SingleMissKeeps
<1> QED BY <1>3, <1>4 DEF JsonNode

LEMMA FollowerGoesOnKeeps ==
  ASSUME SharingIInv, NEW r \in Requests, FollowerGoesOn(r)
  PROVE  SharingIInv'
<1>1. UNCHANGED <<stored, broadcasts, stream, cached, sink, sent, sub>>
      /\ pc[r] = "following" /\ ~stream[r]
  BY DEF FollowerGoesOn, Goes, SharingIInv, OnItsWay
<1>2. CASE heard[r] \in Kinds
  <2>1. Goes(r, "following", "over") /\ at' = at /\ how' = [how EXCEPT ![r] = heard[r]]
    BY <1>2 DEF FollowerGoesOn, Hit
  <2>2. Moves(r)
    BY <1>1, <2>1 DEF Goes, Moves, Same, SharingIInv, SharingShapes
  <2>3. SharingShapes'
    BY <1>1, <1>2, <2>1 DEF Goes, SharingIInv, SharingShapes, Places, Outcomes
  <2>4. OnItsWay(r)'
    BY <1>1, <2>1 DEF SharingIInv, OnItsWay, SharingShapes, Goes
  <2>5. ASSUME NEW k \in Keys PROVE KeepsPart(r, k)
    BY <1>1, SingleAnswersOwnNothing
  <2> QED BY <1>1, <2>2, <2>3, <2>4, <2>5, QuietStepKeeps
<1>3. CASE heard[r] \notin Kinds
  <2>1. /\ Goes(r, "following", "lookup") /\ at' = [at EXCEPT ![r] = @ + 1] /\ how' = how
    BY <1>3 DEF FollowerGoesOn, Miss
  <2>2. Moves(r) /\ pc'[r] = "lookup" /\ pc' \in [Requests -> Places]
    BY <1>1, <2>1 DEF Goes, Moves, Same, SharingIInv, SharingShapes, Places
  <2> QED BY <1>1, <2>1, <2>2, SingleMissKeeps
<1> QED BY <1>2, <1>3

LEMMA UnservedKeeps ==
  ASSUME SharingIInv, NEW r \in Requests, Unserved(r)
  PROVE  SharingIInv'
<1> USE DEF Unserved, Goes, UnchangedByServing, AtTarget
<1>1. Moves(r)
  BY DEF Moves, Same, SharingIInv, SharingShapes
<1>2. SharingShapes'
  BY DEF SharingIInv, SharingShapes, Places, Outcomes
<1>3. OnItsWay(r)'
  BY DEF SharingIInv, OnItsWay, SharingShapes
<1>4. ASSUME NEW k \in Keys PROVE KeepsPart(r, k)
  <2>1. CASE stream[r]
    <3>1. sent[r] = 0 /\ LeavesBehind(r, k)'
      BY <2>1 DEF LeavesBehind, SharingIInv, SharingShapes, OnItsWay
    <3> QED BY <1>1, <3>1, StreamKeepsPart
  <2>2. CASE ~stream[r]
    BY <2>2, SingleAnswersOwnNothing
  <2> QED BY <2>1, <2>2
<1> QED BY <1>1, <1>2, <1>3, <1>4, QuietStepKeeps

LEMMA StreamStartsKeeps ==
  ASSUME SharingIInv, NEW r \in Requests, StreamStarts(r)
  PROVE  SharingIInv'
<1>1. /\ Goes(r, "lookup", "body") /\ AtTarget(r) /\ stream[r]
      /\ how' = [how EXCEPT ![r] = "body"]
      /\ UNCHANGED <<timers, stream, at, cached, stored, broadcasts, sink, sent>>
  BY DEF StreamStarts, UnchangedByServing
<1>2. First(r) \in Keys /\ Len(Route[r]) >= 1
  BY WritesKeys
<1>3. \/ sub' = sub
      \/ broadcasts[First(r)] # Absent /\ sub' = [sub EXCEPT ![r] = Subscribed(First(r))]
  BY DEF StreamStarts
<1>4. broadcasts[First(r)] # Absent => Subscribed(First(r)) \in Subscription
  BY <1>2 DEF Subscribed, Subscription, SharingIInv, SharingShapes
<1>5. sub' \in [Requests -> Subscription \cup {Absent}]
  BY <1>3, <1>4 DEF SharingIInv, SharingShapes
<1>6. Moves(r)
  BY <1>1 DEF Goes, Moves, Same, SharingIInv, SharingShapes
<1>7. SharingShapes'
  BY <1>1, <1>5 DEF SharingIInv, SharingShapes, Places, Outcomes, Goes
<1>8. OnItsWay(r)'
  BY <1>1 DEF SharingIInv, OnItsWay, SharingShapes, Goes, AtTarget
<1>9. ASSUME NEW k \in Keys PROVE KeepsPart(r, k)
  <2>1. sent[r] = 0 /\ pc'[r] # "over"
    BY <1>1 DEF Goes, SharingIInv, SharingShapes, OnItsWay
  <2> QED BY <1>1, <1>6, <2>1, StreamKeepsPart
<1>10. /\ \A q \in Requests \ {r} : sub'[q] = sub[q]
       /\ \/ sub'[r] = sub[r]
          \/ broadcasts[First(r)] # Absent /\ sub'[r] = Subscribed(First(r))
  BY <1>3 DEF SharingIInv, SharingShapes
<1> QED BY <1>1, <1>2, <1>6, <1>7, <1>8, <1>9, <1>10, QuietStepKeeps

LEMMA BodyEndsKeeps ==
  ASSUME SharingIInv, NEW r \in Requests, NEW kind \in Kinds, BodyEnds(r, kind)
  PROVE  SharingIInv'
<1> USE DEF BodyEnds, Goes, UnchangedByServing
<1>1. Moves(r)
  BY DEF Moves, Same, SharingIInv, SharingShapes
<1>2. SharingShapes'
  BY DEF SharingIInv, SharingShapes, Places
<1>3. OnItsWay(r)'
  BY DEF SharingIInv, OnItsWay, SharingShapes, Kinds
<1>4. ASSUME NEW k \in Keys PROVE KeepsPart(r, k)
  <2>1. pc'[r] # "over" /\ how'[r] = how[r] /\ (LeavesBehind(r, k)' <=> LeavesBehind(r, k))
    BY DEF LeavesBehind, First, SharingIInv, SharingShapes
  <2> QED BY <1>1, <2>1, StreamKeepsPart
<1>5. \A q \in Requests \ {r} : sink'[q] = sink[q]
  BY DEF SharingIInv, SharingShapes
<1> QED BY <1>1, <1>2, <1>3, <1>4, <1>5, QuietStepKeeps

LEMMA TextKeeps ==
  ASSUME SharingIInv, NEW r \in Requests, NEW kind \in Kinds \cup {"error"}, Text(r, kind)
  PROVE  SharingIInv'
<1> USE DEF Text, Goes, UnchangedByServing, AtTarget
<1>1. Moves(r)
  BY DEF Moves, Same, SharingIInv, SharingShapes
<1>2. SharingShapes'
  BY DEF SharingIInv, SharingShapes, Places, Outcomes
<1>3. OnItsWay(r)'
  BY DEF SharingIInv, OnItsWay, SharingShapes, Kinds
<1>4. ASSUME NEW k \in Keys PROVE KeepsPart(r, k)
  <2>1. ~LeavesBehind(r, k)' /\ ~LeavesBehind(r, k)
    BY DEF LeavesBehind, Kinds, SharingIInv, SharingShapes, OnItsWay
  <2>2. Sends(r, k) = << >>
    BY SentSoFar, NoChunks DEF SharingIInv, SharingShapes, OnItsWay
  <2>3. Sends(r, k)' = << >>
    BY DEF Sends, SharingIInv, SharingShapes
  <2>4. Owns(r, k)' <=> Owns(r, k)
    BY <2>1 DEF Owns, Writes, SharingIInv, SharingShapes
  <2> QED BY <2>2, <2>3, <2>4 DEF KeepsPart
<1>5. \A q \in Requests \ {r} : sink'[q] = sink[q]
  BY DEF SharingIInv, SharingShapes
<1> QED BY <1>1, <1>2, <1>3, <1>4, <1>5, QuietStepKeeps

LEMMA LeavesKeeps ==
  ASSUME SharingIInv, NEW r \in Requests, Leaves(r)
  PROVE  SharingIInv'
<1> USE DEF Leaves, Goes
<1>1. Moves(r)
  BY DEF Moves, Same, SharingIInv, SharingShapes
<1>2. SharingShapes'
  BY DEF SharingIInv, SharingShapes, Places
<1>3. OnItsWay(r)'
  BY DEF SharingIInv, OnItsWay, SharingShapes
<1>4. ASSUME NEW k \in Keys PROVE KeepsPart(r, k)
  <2>1. CASE stream[r]
    <3>1. LeavesBehind(r, k)' /\ LeavesBehind(r, k)
      BY <2>1 DEF LeavesBehind, SharingIInv, SharingShapes, OnItsWay
    <3> QED BY <1>1, <3>1, StreamKeepsPart
  <2>2. CASE ~stream[r]
    BY <2>2, SingleAnswersOwnNothing
  <2> QED BY <2>1, <2>2
<1>5. sub'[r] = Absent /\ \A q \in Requests \ {r} : sub'[q] = sub[q]
  BY DEF SharingIInv, SharingShapes
<1> QED BY <1>1, <1>2, <1>3, <1>4, <1>5, QuietStepKeeps

LEMMA NotWritten ==
  ASSUME NEW r, NEW k, k \notin Writes(r), at' = at
  PROVE  KeepsPart(r, k)
BY DEF KeepsPart, Owns, Writes

(* What is left to show of a step that feeds or ends broadcasts.           *)
LEMMA FeedStepKeeps ==
  ASSUME SharingIInv, NEW r \in Requests, Moves(r), sink' = sink,
         SharingShapes', OnItsWay(r)',
         (\A q \in Requests : SubscriberInv(q)') /\ (\A k \in Keys : OwnerInv(k)')
  PROVE  SharingIInv'
<1>1. ASSUME NEW q \in Requests PROVE OnItsWay(q)'
  BY OthersOnTheirWay DEF Moves, SharingIInv
<1> QED BY <1>1 DEF SharingIInv

LEMMA ChunkKeeps ==
  ASSUME SharingIInv, NEW r \in Requests, Chunk(r)
  PROVE  SharingIInv'
<1> DEFINE ks == Writes(r)
           next == << <<r, sent[r] + 1>> >>
<1>1. /\ pc[r] = "body" /\ stream[r] /\ how[r] = "body" /\ sent[r] \in Nat
      /\ sent' = [sent EXCEPT ![r] = @ + 1] /\ Broadcasts(ks, next, FALSE)
      /\ UNCHANGED <<timers, stream, at, cached, stored, pc, sink, how>>
  BY DEF Chunk, UnchangedByServing, SharingIInv, OnItsWay, SharingShapes
<1>2. ks \in SUBSET Keys /\ next \in Chunks
  BY <1>1, WritesKeys DEF Chunks
<1> HIDE DEF next
<1>3. Moves(r)
  BY <1>1 DEF Moves, Same, SharingIInv, SharingShapes
<1>4. /\ broadcasts' \in [Keys -> Chunks \cup {Absent}]
      /\ sub' \in [Requests -> Subscription \cup {Absent}]
  BY <1>1, <1>2, BroadcastFacts
<1>5. SharingShapes'
  <2>1. sent' \in [Requests -> Nat]
    BY <1>1 DEF SharingIInv, SharingShapes
  <2> QED BY <1>1, <1>4, <2>1 DEF SharingIInv, SharingShapes
<1>6. OnItsWay(r)'
  BY <1>1 DEF SharingIInv, OnItsWay
<1>7. ASSUME NEW k \in ks
      PROVE  /\ Owns(r, k) /\ Sends(r, k)' = Sends(r, k) \o next
             /\ Owns(r, k)'
  <2>1. ~LeavesBehind(r, k) /\ ~LeavesBehind(r, k)'
    BY <1>1 DEF LeavesBehind, Kinds
  <2>2. sent'[r] = sent[r] + 1
    BY <1>1 DEF SharingIInv, SharingShapes
  <2>3. Sends(r, k)' = ChunksOf(r, sent'[r])
    BY <1>1, <2>1 DEF Sends, ChunksOf
  <2>4. Sends(r, k)' = Sends(r, k) \o next
    BY <1>1, <2>1, <2>2, <2>3, SentSoFar, NextChunk DEF next
  <2> QED BY <1>1, <2>4 DEF Owns, Writes
<1>8. ASSUME NEW k \in Keys \ ks PROVE KeepsPart(r, k)
  BY <1>1, NotWritten
<1>9. (\A q \in Requests : SubscriberInv(q)') /\ (\A k \in Keys : OwnerInv(k)')
  <2> HIDE DEF ks
  <2> QED BY <1>1, <1>2, <1>3, <1>7, <1>8, FeedStep
<1> QED BY <1>1, <1>3, <1>5, <1>6, <1>9, FeedStepKeeps

LEMMA RecordKeeps ==
  ASSUME SharingIInv, NEW r \in Requests, Record(r)
  PROVE  SharingIInv'
<1> DEFINE ks == Writes(r)
<1>1. /\ Goes(r, "recording", "over") /\ Broadcasts(ks, << >>, TRUE)
      /\ how[r] \in {"body", "text"}
      /\ UNCHANGED <<timers, stream, at, cached, sink, sent, how>>
  BY DEF Record, RecordStream, RecordText, UnchangedByServing, SharingIInv, OnItsWay, Goes
<1>2. ks \in SUBSET Keys /\ << >> \in Chunks
  BY WritesKeys DEF Chunks
<1>3. Moves(r)
  BY <1>1 DEF Goes, Moves, Same, SharingIInv, SharingShapes
<1>4. /\ broadcasts' \in [Keys -> Chunks \cup {Absent}]
      /\ sub' \in [Requests -> Subscription \cup {Absent}]
  BY <1>1, <1>2, BroadcastFacts
<1>5. stored' \in [Keys -> Body \cup {Absent}]
  <2>1. ASSUME NEW b \in Body, StoresUnder(ks, b)
        PROVE  stored' \in [Keys -> Body \cup {Absent}]
    BY <2>1 DEF StoresUnder, SharingIInv, SharingShapes
  <2>2. sink[r] \in Kinds =>
          [sse |-> TRUE, kind |-> sink[r]] \in Body /\ [sse |-> FALSE, kind |-> sink[r]] \in Body
    BY DEF Body
  <2>3. sink[r] \in Kinds \/ (sink[r] = "error" /\ how[r] # "body")
    BY <1>1 DEF Goes, SharingIInv, SharingShapes, OnItsWay
  <2>4. stored \in [Keys -> Body \cup {Absent}] /\ "error" \notin Kinds
    BY DEF SharingIInv, SharingShapes, Kinds
  <2> QED BY <2>1, <2>2, <2>3, <2>4 DEF Record, RecordStream, RecordText
<1>6. SharingShapes'
  BY <1>1, <1>4, <1>5 DEF SharingIInv, SharingShapes, Goes, Places
<1>7. OnItsWay(r)'
  BY <1>1 DEF SharingIInv, SharingShapes, OnItsWay, Goes
<1>8. ASSUME NEW k \in ks, OnlyStreams(k)'
      PROVE  /\ Owns(r, k) /\ Sends(r, k)' = Sends(r, k) \o << >>
             /\ HasEnded(r, k)'
  <2>1. ~LeavesBehind(r, k) /\ ~LeavesBehind(r, k)'
    BY <1>1 DEF LeavesBehind, Kinds
  <2>2. stream[r]
    BY <1>1, <1>8 DEF OnlyStreams, Writes
  <2>3. Sends(r, k)' = Sends(r, k)
    BY <1>1, <2>1 DEF Sends
  <2>4. pc[r] # "over" /\ pc'[r] = "over"
    BY <1>1 DEF Goes, SharingIInv, SharingShapes
  <2>5. Sends(r, k)' = Sends(r, k) \o << >>
    BY <2>3, SendsChunks, AddNothing
  <2> QED BY <1>1, <2>1, <2>2, <2>4, <2>5 DEF Owns, HasEnded, Writes
<1>9. ASSUME NEW k \in Keys \ ks PROVE KeepsPart(r, k)
  BY <1>1, NotWritten
<1>10. (\A q \in Requests : SubscriberInv(q)') /\ (\A k \in Keys : OwnerInv(k)')
  <2> HIDE DEF ks
  <2> QED BY <1>1, <1>2, <1>3, <1>8, <1>9, FeedStep
<1> QED BY <1>1, <1>3, <1>6, <1>7, <1>10, FeedStepKeeps

LEMMA ResumedKeeps ==
  ASSUME SharingIInv, NEW r \in Requests, NEW kind \in Kinds, Resumed(r, kind)
  PROVE  SharingIInv'
<1> DEFINE k0 == First(r)
           n == IF kind = "answer" THEN 1 ELSE 0
           chunks == IF kind = "answer" THEN << <<r, 1>> >> ELSE << >>
<1>1. /\ Goes(r, "lookup", "over") /\ AtTarget(r) /\ stream[r]
      /\ how' = [how EXCEPT ![r] = "resumed"] /\ sent' = [sent EXCEPT ![r] = n]
      /\ Broadcasts({k0}, chunks, TRUE)
      /\ UNCHANGED <<timers, stream, at, cached, sink>>
  BY DEF Resumed, UnchangedByServing
<1>2. {k0} \in SUBSET Keys /\ chunks \in Chunks /\ n \in Nat /\ chunks = ChunksOf(r, n)
  BY WritesKeys, NoChunks, OneChunk, ChunksTyped
<1>3. Moves(r)
  BY <1>1 DEF Goes, Moves, Same, SharingIInv, SharingShapes
<1>4. sent[r] = 0 /\ sent'[r] = n /\ how'[r] = "resumed" /\ pc[r] = "lookup" /\ pc'[r] = "over"
  BY <1>1 DEF Goes, SharingIInv, SharingShapes, OnItsWay
<1>5. k0 \in Writes(r)
  <2>1. at[r] \in Nat /\ at[r] > Len(Route[r]) /\ Len(Route[r]) >= 1 /\ Len(Route[r]) \in Nat
    BY <1>1, WritesKeys, SharingAssumption DEF AtTarget, SharingIInv, SharingShapes
  <2> QED BY <2>1 DEF Writes, First
<1>6. stored' \in [Keys -> Body \cup {Absent}]
  <2>1. [sse |-> TRUE, kind |-> kind] \in Body
    BY DEF Body
  <2> QED BY <2>1 DEF Resumed, StoresUnder, SharingIInv, SharingShapes
<1> HIDE DEF n, chunks
<1>7. /\ broadcasts' \in [Keys -> Chunks \cup {Absent}]
      /\ sub' \in [Requests -> Subscription \cup {Absent}]
  BY <1>1, <1>2, BroadcastFacts
<1>8. SharingShapes'
  BY <1>1, <1>2, <1>6, <1>7 DEF SharingIInv, SharingShapes, Goes, Places, Outcomes
<1>9. OnItsWay(r)'
  BY <1>1, <1>4 DEF SharingIInv, SharingShapes, OnItsWay
<1>10. \A k : Sends(r, k) = << >>
  BY <1>4, SentSoFar, NoChunks
<1>11. \A k : LeavesBehind(r, k)' <=> k # k0
  BY <1>1, <1>4 DEF LeavesBehind, Kinds, First
<1>12. \A k : Sends(r, k)' = IF k # k0 THEN << >> ELSE ChunksOf(r, n)
  BY <1>4, <1>11 DEF Sends, ChunksOf
<1>13. ASSUME NEW k \in {k0}
       PROVE  /\ Owns(r, k) /\ Sends(r, k)' = Sends(r, k) \o chunks
              /\ HasEnded(r, k)'
  <2>1. << >> \o chunks = chunks
    BY <1>2, ConcatEmptySeq DEF Chunks
  <2>2. k \in Writes(r)'
    BY <1>1, <1>5 DEF Writes
  <2> QED BY <1>1, <1>2, <1>4, <1>5, <1>10, <1>11, <1>12, <2>1, <2>2 DEF Owns, HasEnded
<1>14. ASSUME NEW k \in Keys \ {k0} PROVE KeepsPart(r, k)
  BY <1>1, <1>4, <1>10, <1>11, <1>12 DEF KeepsPart, Owns, Writes
<1>15. (\A q \in Requests : SubscriberInv(q)') /\ (\A k \in Keys : OwnerInv(k)')
  <2> HIDE DEF k0
  <2> QED BY <1>1, <1>2, <1>3, <1>13, <1>14, FeedStep
<1> QED BY <1>1, <1>3, <1>8, <1>9, <1>15, FeedStepKeeps

(* Timers, expiry and eviction touch nothing the invariant speaks of but   *)
(* what is stored.                                                         *)
LEMMA UntouchedKeeps ==
  ASSUME SharingIInv, stored' \in [Keys -> Body \cup {Absent}],
         UNCHANGED <<broadcasts, stream, pc, at, cached, sink, sent, sub, how>>
  PROVE  SharingIInv'
<1>1. SharingShapes'
  BY DEF SharingIInv, SharingShapes
<1>2. ASSUME NEW q \in Requests PROVE Same(q) /\ OnItsWay(q)'
  BY OthersOnTheirWay DEF SharingIInv, Same
<1>3. \A k : OnlyStreams(k)' <=> OnlyStreams(k)
  BY <1>2, SameRequest DEF OnlyStreams
<1>4. ASSUME NEW k \in Keys PROVE OwnerInv(k)'
  BY <1>2, <1>3, SameRequest DEF SharingIInv, OwnerInv
<1>5. ASSUME NEW q \in Requests PROVE SubscriberInv(q)'
  BY <1>2, <1>3, SameRequest DEF SharingIInv, SubscriberInv
<1> QED BY <1>1, <1>2, <1>4, <1>5 DEF SharingIInv

LEMMA SharingInitIInv ==
  ASSUME SharingInit PROVE SharingIInv
<1>1. SharingShapes
  BY DEF SharingInit, SharingShapes, Places, Outcomes
<1>2. ASSUME NEW r \in Requests PROVE OnItsWay(r) /\ SubscriberInv(r) /\ Writes(r) = {}
  <2>1. Len(Route[r]) \in Nat /\ at[r] = 1
    BY SharingAssumption DEF SharingInit
  <2> QED BY <2>1 DEF SharingInit, OnItsWay, SubscriberInv, Writes
<1>3. ASSUME NEW k \in Keys PROVE OwnerInv(k)
  BY <1>2 DEF SharingInit, OwnerInv, Owns
<1> QED BY <1>1, <1>2, <1>3 DEF SharingIInv

LEMMA SharingNextIInv ==
  ASSUME SharingIInv, [SharingNext]_sharingVars PROVE SharingIInv'
<1>1. stored \in [Keys -> Body \cup {Absent}]
  BY DEF SharingIInv, SharingShapes
<1>2. ASSUME NEW r \in Requests, Lookup(r) PROVE SharingIInv'
  BY <1>2, LookupKeeps
<1>3. ASSUME NEW r \in Requests, AtNode(r) PROVE SharingIInv'
  BY <1>3, HitNodeKeeps, StreamNodeKeeps, JsonNodeKeeps DEF AtNode
<1>4. ASSUME NEW r \in Requests, FollowerGoesOn(r) PROVE SharingIInv'
  BY <1>4, FollowerGoesOnKeeps
<1>5. ASSUME NEW r \in Requests, Ends(r) PROVE SharingIInv'
  BY <1>5, UnservedKeeps, StreamStartsKeeps, BodyEndsKeeps, ResumedKeeps, TextKeeps DEF Ends
<1>6. ASSUME NEW r \in Requests, Chunk(r) PROVE SharingIInv'
  BY <1>6, ChunkKeeps
<1>7. ASSUME NEW r \in Requests, Record(r) PROVE SharingIInv'
  BY <1>7, RecordKeeps
<1>8. ASSUME NEW r \in Requests, Leaves(r) PROVE SharingIInv'
  BY <1>8, LeavesKeeps
<1>9. ASSUME NEW r \in Requests, NEW k \in Keys, TimerFires(r, k) PROVE SharingIInv'
  BY <1>1, <1>9, UntouchedKeeps DEF TimerFires
<1>10. ASSUME NEW k \in Keys, Forget(k) PROVE SharingIInv'
  <2>1. stored' \in [Keys -> Body \cup {Absent}]
    BY <1>1, <1>10 DEF Forget
  <2> QED BY <1>10, <2>1, UntouchedKeeps DEF Forget
<1>11. CASE UNCHANGED sharingVars
  BY <1>1, <1>11, UntouchedKeeps DEF sharingVars
<1> QED BY <1>2, <1>3, <1>4, <1>5, <1>6, <1>7, <1>8, <1>9, <1>10, <1>11 DEF SharingNext

LEMMA SharingInvariant == SharingSpec => []SharingIInv
BY SharingInitIInv, SharingNextIInv, PTL DEF SharingSpec

(* Whoever reads a broadcast that only streams feed reads one owner's      *)
(* stream from its first chunk, and to its last where it was closed: for   *)
(* any number of requests and keys, and any ways through the cache nodes.  *)
(* Where a fusion hands its owner a text there is nothing to read, and the *)
(* reader is closed with nothing (Sends).                                  *)
THEOREM SubscribersHearOneOwner == SharingSpec => []HearsOneOwner
<1>1. ASSUME SharingIInv PROVE HearsOneOwner
  <2> SUFFICES ASSUME NEW r \in Requests, sub[r] # Absent, OnlyStreams(sub[r].key)
               PROVE  \E q \in Requests :
                        /\ sub[r].key \in Writes(q)
                        /\ sub[r].got = Sends(q, sub[r].key)
                        /\ ~sub[r].open => pc[q] = "over" /\ ~LeavesBehind(q, sub[r].key)
    BY DEF HearsOneOwner
  <2>1. SubscriberInv(r) /\ sub[r] \in Subscription
    BY <1>1 DEF SharingIInv, SharingShapes
  <2>2. CASE sub[r].open
    <3>1. broadcasts[sub[r].key] = sub[r].got /\ sub[r].key \in Keys /\ sub[r].got # Absent
      BY <2>1, <2>2, SharingAssumption DEF SubscriberInv, Subscription
    <3>2. PICK q \in Requests : Owns(q, sub[r].key) /\ broadcasts[sub[r].key] = Sends(q, sub[r].key)
      BY <1>1, <3>1 DEF SharingIInv, OwnerInv
    <3> QED BY <2>2, <3>1, <3>2 DEF Owns
  <2>3. CASE ~sub[r].open
    BY <2>1, <2>3 DEF SubscriberInv, HasEnded
  <2> QED BY <2>2, <2>3
<1> QED BY <1>1, SharingInvariant, PTL
=============================================================================
