---------------------------- MODULE MCReadiness ----------------------------
(***************************************************************************)
(* An instance of Readiness: one GPU pool that holds either the chat       *)
(* model, of a router instance, or the background model, a process of its  *)
(* own with one slot that is saved before it is stopped.                   *)
(***************************************************************************)
EXTENDS Readiness, TLC

MCPosition == "bg" :> 0 @@ "chat" :> 1
MCInstanceOf == "bg" :> "iBg" @@ "chat" :> "iChat"
MCHasModel == "bg" :> FALSE @@ "chat" :> TRUE
MCDraw == [i \in Instances |-> "gpu" :> 2]
MCAvail == "gpu" :> 3
MCPriority == "bg" :> 1 @@ "chat" :> 2
MCPreemptible == [t \in Targets |-> t = "bg"]
MCParallelLimit == [t \in Targets |-> 0]
MCSlotIds == "bg" :> {0} @@ "chat" :> {}
RequestSymmetry == Permutations(Requests)
=============================================================================
