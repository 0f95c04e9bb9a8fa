------------------------------- MODULE MCRoutes -------------------------------
(* A small instance of Routes: the graphs that three pipelines are made of. *)
EXTENDS Routes, TLC

N1 == To("node", "n1")
N2 == To("node", "n2")
T == To("target", "t")
P(p) == To("pipeline", p)

Plain(type, ports) ==
  [type |-> type, ports |-> ports, callee |-> None, exitName |-> None, minQuorum |-> 0]
ExitBy(e) == [Plain("exit", << >>) EXCEPT !.exitName = e]
Call(p, ports) == [Plain("call", ports) EXCEPT !.callee = p]
Fuse(ports) == [Plain("fusion", ports) EXCEPT !.minQuorum = 1]

Alias(ref) == [entry |-> ref, nodes |-> << >>]
One(node) == [entry |-> N1, nodes |-> "n1" :> node]
Two(node1, node2) == [entry |-> N1, nodes |-> "n1" :> node1 @@ "n2" :> node2]

(* p is what the model is routed to, q is in the middle and r at the end;  *)
(* some of the drafts would close a loop or leave a hole.                  *)
MCDrafts ==
  "p" :> {One(Plain("cache", "next" :> P("q"))), One(Call("q", "done" :> T)),
          One(Fuse("panel1" :> T @@ "panel2" :> P("q") @@ "synthesizer" :> P("q")))}
  @@
  "q" :> {Two(Plain("condition", "true" :> T @@ "false" :> N2), ExitBy("done")),
          Two(Call("r", "done" :> N2), ExitBy("done")),
          One(Plain("cache", "next" :> P("r"))),
          One(Fuse("panel1" :> T @@ "panel2" :> T @@ "synthesizer" :> P("r")))}
  @@
  "r" :> {Alias(None), Two(Plain("edit", "next" :> N2), ExitBy("done")),
          One(Fuse("panel1" :> T @@ "panel2" :> T)),
          One(Plain("cache", "next" :> P("q"))), One(Call("q", "done" :> T))}
=============================================================================
