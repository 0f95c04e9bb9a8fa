--------------------------- MODULE MCMemoryPlanner ---------------------------
(***************************************************************************)
(* An instance of MemoryPlanner.  Router "iR" serves the models r1 and r2, *)
(* of which r2 is protected; x1 and x2 are two targets of the only model   *)
(* of "iX"; s is a small model and c the chat model, which outranks all.   *)
(***************************************************************************)
EXTENDS MemoryPlanner, TLC

MCTargets == {"r1", "r2", "x1", "x2", "s", "c"}
MCInstances == {"iR", "iX", "iS", "iC"}
MCPools == {"gpu", "ram"}
MCPosition ==
  "r1" :> 0 @@ "x1" :> 1 @@ "x2" :> 2 @@ "r2" :> 3 @@ "s" :> 4 @@ "c" :> 5
MCInstanceOf ==
  "r1" :> "iR" @@ "r2" :> "iR" @@ "x1" :> "iX" @@ "x2" :> "iX" @@
  "s" :> "iS" @@ "c" :> "iC"
MCHasModel == [m \in MCTargets |-> m \in {"r1", "r2"}]
MCDraw ==
  "iR" :> ("gpu" :> 1 @@ "ram" :> 2) @@ "iX" :> ("gpu" :> 2 @@ "ram" :> 1) @@
  "iS" :> ("gpu" :> 1 @@ "ram" :> 1) @@ "iC" :> ("gpu" :> 3 @@ "ram" :> 1)
MCAvail == "gpu" :> 4 @@ "ram" :> 3
MCPriority ==
  [m \in MCTargets |-> CASE m = "c" -> 2 [] m \in {"r2", "x2"} -> 0 [] OTHER -> 1]
MCPreemptible == [m \in MCTargets |-> m # "r2"]

View(state, busy) == [state |-> state, busy |-> busy, idleFor |-> 0]

MCViews == {View("unloaded", FALSE), View("ready", TRUE), View("ready", FALSE)}
==============================================================================
