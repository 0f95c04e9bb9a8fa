-------------------------------- MODULE Routes --------------------------------
(***************************************************************************)
(* Routing: the stored pipelines, targets and models with the edits that   *)
(* routes/proxy-targets.routes.ts accepts (proxy/pipeline-validation.ts    *)
(* and the search for holes of proxy/pipeline-graph.ts), and the walk of a *)
(* request through them (proxy/pipeline.ts, proxy/fusion.ts).              *)
(*                                                                         *)
(* A handler of an edit validates and writes in one step.  A walk runs to  *)
(* its end without letting an edit in, but for the cache nodes, where it   *)
(* awaits, and for the generations of a fusion panel.  It keeps the        *)
(* pipelines it is in as they were when it entered them.                   *)
(*                                                                         *)
(* Bodies are left out: a node that edits the request passes it on, and a  *)
(* condition may go either way.  "cache" also stands for capture-request,  *)
(* which awaits too, and always passes on.                                 *)
(***************************************************************************)
EXTENDS Naturals, Sequences, FiniteSets

CONSTANTS
  Pipelines, Targets, Models, Nodes, Exits,
  Panel,            \* the names of the panel ports of a fusion node
  Drafts,           \* Drafts[p]: the graphs that edits offer for p
  MaxVisitedNodes, MaxCallDepth, MaxFusionDepth,
  MaxHoleDepth,     \* bound: how deep the search for holes goes; the code
                    \* bounds the places it visits, by 4096
  MaxDisabled,      \* bound: pipelines that are disabled at a time
  None

PortRef ==
  [type : {"node"}, id : Nodes] \cup [type : {"target"}, id : Targets]
    \cup [type : {"pipeline"}, id : Pipelines]

Ports == {"next", "true", "false", "synthesizer"} \cup Exits \cup Panel
NodeTypes == {"edit", "cache", "condition", "call", "exit", "fusion"}

(* ports has the wired ports only; the other fields of a node matter for a *)
(* call, an exit and a fusion.                                             *)
IsNode(n) ==
  /\ n = [type |-> n.type, ports |-> n.ports, callee |-> n.callee, exitName |-> n.exitName,
          minQuorum |-> n.minQuorum]
  /\ n.type \in NodeTypes
  /\ DOMAIN n.ports \subseteq Ports /\ n.ports \in [DOMAIN n.ports -> PortRef]
  /\ n.callee \in Pipelines \cup {None} /\ n.type = "call" => n.callee # None
  /\ n.exitName \in Exits \cup {None} /\ n.type = "exit" => n.exitName # None
  /\ n.minQuorum \in Nat

IsGraph(g) ==
  /\ g = [entry |-> g.entry, nodes |-> g.nodes]
  /\ g.entry \in PortRef \cup {None}
  /\ DOMAIN g.nodes \subseteq Nodes
  /\ \A i \in DOMAIN g.nodes : IsNode(g.nodes[i])

ASSUME RoutesAssumption ==
  /\ \A p \in Pipelines : \A g \in Drafts[p] : IsGraph(g) /\ [id |-> p, graph |-> g] # None
  /\ None \notin PortRef /\ None \notin Pipelines
  /\ IsFiniteSet(Pipelines)
  /\ {MaxVisitedNodes, MaxCallDepth, MaxFusionDepth, MaxHoleDepth, MaxDisabled}
       \subseteq Nat
  /\ MaxHoleDepth >= (MaxVisitedNodes + 1) * (Cardinality(Pipelines) + 1)

VARIABLES
  targets,    \* the stored targets
  pipelines,  \* the stored pipelines: graph and enabled
  models,     \* the stored models: routeTo and targetId
  walk        \* the walk of a request

vars == <<targets, pipelines, models, walk>>

Without(f, x) == [y \in DOMAIN f \ {x} |-> f[y]]
With(f, x, v) == [y \in DOMAIN f \cup {x} |-> IF y = x THEN v ELSE f[y]]

-----------------------------------------------------------------------------
(* Graphs.  g is a graph, env the graphs of the stored pipelines.          *)

To(type, id) == [type |-> type, id |-> id]
Port(n, p) == IF p \in DOMAIN n.ports THEN n.ports[p] ELSE None
NodePorts(n) == {n.ports[p] : p \in DOMAIN n.ports}

Refs(g) ==
  {r \in {g.entry} \cup UNION {NodePorts(g.nodes[i]) : i \in DOMAIN g.nodes} : r # None}
Callees(g) == {g.nodes[i].callee : i \in {j \in DOMAIN g.nodes : g.nodes[j].type = "call"}}
Jumps(g) == {r.id : r \in {s \in Refs(g) : s.type = "pipeline"}}
PipelineRefs(g) == Jumps(g) \cup Callees(g)
TargetRefs(g) == {r.id : r \in {s \in Refs(g) : s.type = "target"}}
ExitsOf(g) == {g.nodes[i].exitName : i \in {j \in DOMAIN g.nodes : g.nodes[j].type = "exit"}}

Env == [p \in DOMAIN pipelines |-> pipelines[p].graph]

(* What can be reached from the elements of S in up to n steps.            *)
Reached(S, Step(_), n) ==
  LET reach[k \in Nat] ==
        IF k = 0 THEN S
        ELSE LET r == reach[k - 1] IN r \cup UNION {Step(x) : x \in r}
  IN reach[n]

PipelinesReached(S, env) ==
  Reached(S, LAMBDA p : IF p \in DOMAIN env THEN PipelineRefs(env[p]) ELSE {},
          Cardinality(Pipelines))

ExitNames(p, env) ==
  UNION {ExitsOf(env[q]) : q \in DOMAIN env \cap
           Reached({p}, LAMBDA q : IF q \in DOMAIN env THEN Jumps(env[q]) ELSE {},
                   Cardinality(Pipelines))}

NodeSteps(g, i) ==
  {r.id : r \in {s \in IF i \in DOMAIN g.nodes THEN NodePorts(g.nodes[i]) ELSE {} :
                   s.type = "node"}}
NodesAcyclic(g) ==
  \A i \in DOMAIN g.nodes :
    i \notin Reached(NodeSteps(g, i), LAMBDA j : NodeSteps(g, j), Cardinality(Nodes))

RefsExist(g, env) ==
  \A r \in Refs(g) : CASE r.type = "node" -> r.id \in DOMAIN g.nodes
                       [] r.type = "target" -> r.id \in targets
                       [] r.type = "pipeline" -> r.id \in DOMAIN env

CallsFit(g, env) ==
  \A i \in DOMAIN g.nodes :
    LET n == g.nodes[i] IN
    n.type = "call" => /\ n.callee \in DOMAIN env
                       /\ DOMAIN n.ports \subseteq ExitNames(n.callee, env)

(* self is the pipeline that is updated, None when one is created.         *)
GraphValid(g, self) ==
  LET env == IF self = None THEN Env ELSE With(Env, self, g) IN
  /\ RefsExist(g, env)
  /\ NodesAcyclic(g)
  /\ self \notin PipelinesReached(PipelineRefs(g), Env)
  /\ CallsFit(g, env)

-----------------------------------------------------------------------------
(* The search for holes: a place is a reference, the pipeline it is read   *)
(* in, and the calls that are open there.                                  *)

Place(ref, at, calls) == [ref |-> ref, at |-> at, calls |-> calls]
CallFrom(at, node) == [at |-> at, node |-> node]
NodeAt(env, c) == env[c.at].nodes[c.ref.id]

IsHole(env, c) ==
  \/ c.ref = None
  \/ c.ref # None /\ c.ref.type = "pipeline" /\ c.ref.id \notin DOMAIN env
  \/ /\ c.ref # None /\ c.ref.type = "node"
     /\ \/ c.ref.id \notin DOMAIN env[c.at].nodes
        \/ NodeAt(env, c).type = "call" /\ NodeAt(env, c).callee \notin DOMAIN env
        \/ NodeAt(env, c).type = "exit" /\ c.calls = << >>

NextPlaces(env, c) ==
  IF IsHole(env, c) \/ c.ref.type = "target" THEN {}
  ELSE IF c.ref.type = "pipeline" THEN {Place(env[c.ref.id].entry, c.ref.id, c.calls)}
  ELSE LET n == NodeAt(env, c)
           last == Len(c.calls) IN
    CASE n.type \in {"edit", "cache"} -> {Place(Port(n, "next"), c.at, c.calls)}
      [] n.type = "condition" ->
           {Place(Port(n, p), c.at, c.calls) : p \in {"true", "false"}}
      [] n.type = "call" ->
           {Place(env[n.callee].entry, n.callee, Append(c.calls, CallFrom(c.at, n)))}
      [] n.type = "exit" ->
           {Place(Port(c.calls[last].node, n.exitName), c.calls[last].at,
                  SubSeq(c.calls, 1, last - 1))}
      [] n.type = "fusion" -> {}

HasHoles(p, env) ==
  \/ p \notin DOMAIN env
  \/ \E c \in Reached({Place(env[p].entry, p, << >>)}, LAMBDA c : NextPlaces(env, c),
                      MaxHoleDepth) : IsHole(env, c)

(* Seeded fault: only the models routed straight to p are looked at.     *)
RoutesCompleteHeads(p, env) ==
  \A m \in DOMAIN models :
    models[m].routeTo = To("pipeline", p) => ~HasHoles(p, env)

(* A pipeline may be saved if that leaves no model's route with a hole.    *)
RoutesComplete(p, env) ==
  \A m \in DOMAIN models :
    LET r == models[m].routeTo IN
    /\ r # None
    /\ r.type = "pipeline"
    /\ p \in PipelinesReached({r.id}, env)
    => ~HasHoles(r.id, env)

-----------------------------------------------------------------------------
(* Edits.                                                                  *)

(* Between two steps of a walk that awaits nothing no edit gets in.        *)
Edit ==
  /\ walk.phase \in {"idle", "caching", "generating"}
  /\ walk' = [walk EXCEPT !.edited = walk.phase # "idle"]

CreatePipeline(p, g) ==
  /\ Edit
  /\ p \notin DOMAIN pipelines
  /\ GraphValid(g, None)
  /\ pipelines' = With(pipelines, p, [graph |-> g, enabled |-> TRUE])
  /\ UNCHANGED <<targets, models>>

UpdatePipeline(p, g, enabled) ==
  /\ Edit
  /\ p \in DOMAIN pipelines
  /\ GraphValid(g, p)
  /\ RoutesComplete(p, With(Env, p, g))
  /\ pipelines' = [pipelines EXCEPT ![p] = [graph |-> g, enabled |-> enabled]]
  /\ UNCHANGED <<targets, models>>

(* Seeded fault: a call is not taken for a use.                          *)
DeletePipelineCalled(p) ==
  /\ Edit
  /\ p \in DOMAIN pipelines
  /\ \A m \in DOMAIN models : models[m].routeTo # To("pipeline", p)
  /\ \A q \in DOMAIN pipelines \ {p} : p \notin Jumps(pipelines[q].graph)
  /\ pipelines' = Without(pipelines, p)
  /\ UNCHANGED <<targets, models>>

DeletePipeline(p) ==
  /\ Edit
  /\ p \in DOMAIN pipelines
  /\ \A m \in DOMAIN models : models[m].routeTo # To("pipeline", p)
  /\ \A q \in DOMAIN pipelines \ {p} : p \notin PipelineRefs(pipelines[q].graph)
  /\ pipelines' = Without(pipelines, p)
  /\ UNCHANGED <<targets, models>>

CreateTarget(t) ==
  /\ Edit
  /\ t \notin targets
  /\ targets' = targets \cup {t}
  /\ UNCHANGED <<pipelines, models>>

DeleteTarget(t) ==
  /\ Edit
  /\ t \in targets
  /\ \A m \in DOMAIN models : models[m].targetId # t /\ models[m].routeTo # To("target", t)
  /\ \A p \in DOMAIN pipelines : t \notin TargetRefs(pipelines[p].graph)
  /\ targets' = targets \ {t}
  /\ UNCHANGED <<pipelines, models>>

RouteValid(r) ==
  \/ r = None
  \/ r # None /\ r.type = "target" /\ r.id \in targets
  \/ r # None /\ r.type = "pipeline" /\ r.id \in DOMAIN pipelines /\ ~HasHoles(r.id, Env)

CreateModel(m, r, t) ==
  /\ Edit
  /\ m \notin DOMAIN models
  /\ RouteValid(r) /\ t \in targets \cup {None}
  /\ models' = With(models, m, [routeTo |-> r, targetId |-> t])
  /\ UNCHANGED <<targets, pipelines>>

(* A field that the request leaves out is kept, and not validated.         *)
UpdateModel(m, r, t) ==
  /\ Edit
  /\ m \in DOMAIN models
  /\ r = models[m].routeTo \/ RouteValid(r)
  /\ t = models[m].targetId \/ t \in targets \cup {None}
  /\ models' = [models EXCEPT ![m] = [routeTo |-> r, targetId |-> t]]
  /\ UNCHANGED <<targets, pipelines>>

DeleteModel(m) ==
  /\ Edit
  /\ m \in DOMAIN models
  /\ models' = Without(models, m)
  /\ UNCHANGED <<targets, pipelines>>

QuickRoute(m, t) ==
  /\ Edit
  /\ m \notin DOMAIN models /\ t \notin targets
  /\ targets' = targets \cup {t}
  /\ models' = With(models, m, [routeTo |-> To("target", t), targetId |-> t])
  /\ UNCHANGED pipelines

-----------------------------------------------------------------------------
(* The walk.  In the main role it decides the route of the request; a      *)
(* fusion node then has one walk for each branch of its panel, and one for *)
(* its synthesizer.  at is the pipeline the walk is in, and a frame of     *)
(* calls keeps the pipeline of its call node.                              *)

In(p) == [id |-> p, graph |-> pipelines[p].graph]

Idle ==
  [phase |-> "idle", role |-> "main", ref |-> None, at |-> None, calls |-> << >>,
   visited |-> 0, fusion |-> None, branches |-> {}, resolved |-> 0, depth |-> 0,
   outcome |-> "none", edited |-> FALSE]

Init ==
  /\ targets = {} /\ pipelines = << >> /\ models = << >>
  /\ walk = Idle

Walk(w) == walk' = w /\ UNCHANGED <<targets, pipelines, models>>

Arrive(m) ==
  /\ walk.phase = "idle"
  /\ LET r == models[m].routeTo
         t == models[m].targetId IN
     Walk([walk EXCEPT !.phase = "walking",
                       !.ref = IF r # None THEN r
                               ELSE IF t # None THEN To("target", t) ELSE None])

Starts(w, role, ref) ==
  [w EXCEPT !.phase = "walking", !.role = role, !.ref = ref, !.at = w.fusion.at,
            !.calls = << >>, !.visited = 0]

(* The branches of a panel are walked one after the other, then their      *)
(* targets generate.                                                       *)
NextBranch(w) ==
  \/ /\ w.branches = {}
     /\ Walk([w EXCEPT !.phase = "generating"])
  \/ \E b \in w.branches :
       Walk(Starts([w EXCEPT !.branches = @ \ {b}], "panel", Port(w.fusion.node, b)))

End(outcome) ==
  IF walk.role = "panel"
  THEN NextBranch([walk EXCEPT !.resolved = IF outcome = "target" THEN @ + 1 ELSE @])
  ELSE Walk([walk EXCEPT !.phase = "ended", !.outcome = outcome])

AtRef(type) == walk.phase = "walking" /\ walk.ref # None /\ walk.ref.type = type

Unbound ==
  /\ walk.phase = "walking" /\ walk.ref = None
  /\ End(IF walk.at = None THEN "unrouted" ELSE "unbound")

ReachTarget == AtRef("target") /\ End("target")

(* A jump is no visit of a node, and leaves the calls as they are.         *)
EnterPipeline ==
  /\ AtRef("pipeline")
  /\ LET p == walk.ref.id IN
     IF p \notin DOMAIN pipelines THEN End("notFound")
     ELSE IF ~pipelines[p].enabled THEN End("disabled")
     ELSE Walk([walk EXCEPT !.at = In(p), !.ref = pipelines[p].graph.entry])

HasNode == walk.at # None /\ walk.ref.id \in DOMAIN walk.at.graph.nodes
ThisNode == walk.at.graph.nodes[walk.ref.id]

(* The node is missing, or one too many.                                   *)
NotVisited ==
  /\ AtRef("node")
  /\ ~(HasNode /\ walk.visited < MaxVisitedNodes)
  /\ End(IF HasNode THEN "overrun" ELSE "invalid")

Visit(types) ==
  /\ AtRef("node") /\ HasNode /\ walk.visited < MaxVisitedNodes
  /\ ThisNode.type \in types

(* Seeded fault: the visit is not counted.                               *)
OnwardUncounted(ref) == [walk EXCEPT !.ref = ref]

Onward(ref) == [walk EXCEPT !.visited = @ + 1, !.ref = ref]

EditNode == Visit({"edit"}) /\ Walk(Onward(Port(ThisNode, "next")))

(* The walks of a fusion have no cache to look into.                       *)
CacheNode ==
  /\ Visit({"cache"})
  /\ Walk(IF walk.role = "main" THEN [Onward(walk.ref) EXCEPT !.phase = "caching"]
          ELSE Onward(Port(ThisNode, "next")))

CacheHit ==
  /\ walk.phase = "caching"
  /\ End("response")

CacheMiss ==
  /\ walk.phase = "caching"
  /\ Walk([walk EXCEPT !.phase = "walking", !.ref = Port(ThisNode, "next")])

ConditionNode ==
  /\ Visit({"condition"})
  /\ \E p \in {"true", "false"} : Walk(Onward(Port(ThisNode, p)))

CallsFull == Len(walk.calls) >= MaxCallDepth

CallNode ==
  /\ Visit({"call"})
  /\ LET p == ThisNode.callee IN
     IF p \notin DOMAIN pipelines THEN End("notFound")
     ELSE IF ~pipelines[p].enabled THEN End("disabled")
     ELSE IF p = walk.at.id \/ \E i \in DOMAIN walk.calls : walk.calls[i].callee = p
          THEN End("recursive")
     ELSE IF CallsFull THEN End("overrun")
     ELSE Walk([Onward(pipelines[p].graph.entry) EXCEPT
                  !.at = In(p),
                  !.calls = Append(@, [at |-> walk.at, node |-> ThisNode, callee |-> p])])

ExitNode ==
  /\ Visit({"exit"})
  /\ LET last == Len(walk.calls) IN
     IF last = 0 THEN End("invalid")
     ELSE Walk([Onward(Port(walk.calls[last].node, ThisNode.exitName)) EXCEPT
                  !.at = walk.calls[last].at,
                  !.calls = SubSeq(@, 1, last - 1)])

FusionNode ==
  /\ Visit({"fusion"})
  /\ LET branches == DOMAIN ThisNode.ports \cap Panel IN
     IF walk.role = "panel" THEN End("nested")
     ELSE IF walk.role = "synthesizer" /\ walk.depth = MaxFusionDepth THEN End("tooDeep")
     ELSE IF branches = {} THEN End("noPanel")
     ELSE NextBranch([walk EXCEPT
            !.fusion = [node |-> ThisNode, at |-> walk.at],
            !.branches = branches, !.resolved = 0,
            !.depth = IF walk.role = "synthesizer" THEN @ + 1 ELSE @])

(* Some of the branches that found a target have answered.                 *)
PanelAnswered ==
  /\ walk.phase = "generating"
  /\ \E survivors \in 0..walk.resolved :
       LET n == walk.fusion.node
           synthesizer == Port(n, "synthesizer")
           Result(o) == Walk([walk EXCEPT !.phase = "ended", !.outcome = o]) IN
       IF survivors < n.minQuorum THEN Result("noQuorum")
       ELSE IF survivors = 1 THEN Result("direct")
       ELSE IF synthesizer = None THEN Result("noSynthesizer")
       ELSE Walk(Starts(walk, "synthesizer", synthesizer))

(* What follows of the request is served by Forwarding or refused.         *)
Dispatch == walk.phase = "ended" /\ Walk(Idle)

-----------------------------------------------------------------------------
Disabled == {p \in DOMAIN pipelines : ~pipelines[p].enabled}

Edits ==
  \/ \E p \in Pipelines : \E g \in Drafts[p] : CreatePipeline(p, g)
  \/ \E p \in DOMAIN pipelines :
       \/ \E g \in Drafts[p] : UpdatePipeline(p, g, pipelines[p].enabled)
       \/ \E enabled \in BOOLEAN :
            /\ enabled \/ Cardinality(Disabled \ {p}) < MaxDisabled
            /\ UpdatePipeline(p, pipelines[p].graph, enabled)
  \/ \E p \in Pipelines : DeletePipeline(p)
  \/ \E t \in Targets : CreateTarget(t) \/ DeleteTarget(t)
  \/ \E m \in Models, t \in Targets \cup {None},
        r \in {To("target", u) : u \in Targets} \cup {To("pipeline", p) : p \in Pipelines}
               \cup {None} :
       CreateModel(m, r, t) \/ UpdateModel(m, r, t)
  \/ \E m \in Models : DeleteModel(m)
  \/ \E m \in Models, t \in Targets : QuickRoute(m, t)

Walking ==
  \/ Unbound \/ ReachTarget \/ EnterPipeline \/ NotVisited
  \/ EditNode \/ CacheNode \/ CacheHit \/ CacheMiss \/ ConditionNode
  \/ CallNode \/ ExitNode \/ FusionNode \/ PanelAnswered \/ Dispatch

Next == Edits \/ (\E m \in DOMAIN models : Arrive(m)) \/ Walking

Spec == Init /\ [][Next]_vars

(* An awaited lookup is answered, and so are the branches of a panel.      *)
FairSpec == Spec /\ WF_vars(Walking)

-----------------------------------------------------------------------------
(* Whatever edits were accepted, every reference of a stored pipeline or   *)
(* model leads to something that is stored: what is in use cannot be       *)
(* deleted, and what is gone cannot be referred to                         *)
(* (routes/proxy-targets.routes.ts).                                       *)
NothingDangles ==
  /\ \A p \in DOMAIN pipelines :
       /\ PipelineRefs(pipelines[p].graph) \subseteq DOMAIN pipelines
       /\ TargetRefs(pipelines[p].graph) \subseteq targets
       /\ \A r \in Refs(pipelines[p].graph) :
            r.type = "node" => r.id \in DOMAIN pipelines[p].graph.nodes
  /\ \A m \in DOMAIN models :
       LET r == models[m].routeTo IN
       /\ models[m].targetId \in targets \cup {None}
       /\ r # None /\ r.type = "target" => r.id \in targets
       /\ r # None /\ r.type = "pipeline" => r.id \in DOMAIN pipelines

(* A walk through the pipelines as they were validated, that no edit cuts  *)
(* in two, finds a stored target or an answer, whichever way its           *)
(* conditions go and whatever edits, of whichever pipelines, were accepted *)
(* before.  It fails only where no check is made on saving: a model        *)
(* without a route, a pipeline that was disabled, the limits on nodes and  *)
(* calls, and the branches of a fusion (pipeline-graph.ts:171).            *)
ValidatedRoutesServe ==
  walk.phase = "ended" /\ ~walk.edited /\ walk.role = "main"
    => /\ walk.outcome \in {"target", "response", "direct", "unrouted", "disabled",
                            "overrun", "noPanel", "noQuorum", "noSynthesizer"}
       /\ walk.outcome = "target" => walk.ref.id \in targets

(* Every walk comes to an end, even one that meets edit after edit at its  *)
(* cache nodes: loops cannot be saved, and the limit on visited nodes ends *)
(* a walk that edits send round (docs/API_PROXY_PIPELINES.md, "No loops"). *)
WalksEnd == walk.phase # "idle" ~> walk.phase = "idle"
=============================================================================
