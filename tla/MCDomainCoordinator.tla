------------------------- MODULE MCDomainCoordinator -------------------------
(***************************************************************************)
(* A small instance of DomainCoordinator.  One GPU pool of three units and *)
(* one host pool of one: "chat" needs the whole GPU; the background models *)
(* "bgA" and "bgB" fit side by side and are preemptible, and bgA draws     *)
(* host memory too.                                                        *)
(***************************************************************************)
EXTENDS DomainCoordinator, TLC

MCPools == {"gpu", "ram"}
MCPosition == Restrict("chat" :> 0 @@ "bgA" :> 1 @@ "bgB" :> 2, Targets)
MCInstanceOf ==
  Restrict("chat" :> "iChat" @@ "bgA" :> "iA" @@ "bgB" :> "iB", Targets)
MCHasModel == [m \in Targets |-> TRUE]
MCDraw ==
  Restrict("iChat" :> ("gpu" :> 3 @@ "ram" :> 0) @@
           "iA" :> ("gpu" :> 1 @@ "ram" :> 1) @@
           "iB" :> ("gpu" :> 1 @@ "ram" :> 0), Instances)
MCAvail == "gpu" :> 3 @@ "ram" :> 1
MCPriority == [m \in Targets |-> IF m = "chat" THEN 2 ELSE 1]
MCPreemptible == [m \in Targets |-> TRUE]
MCParallelLimit == [m \in Targets |-> IF m = "chat" THEN 0 ELSE 1]

(* S is loaded, and nothing generates.                                     *)
Resident(S) ==
  [m \in Targets |->
     [state |-> IF m \in S THEN "ready" ELSE "unloaded",
      busy |-> FALSE, idleFor |-> 0]]

(* chat has to evict bgA, bgA is served as it is and bgB has to be loaded.  *)
MCSnapshots == {Resident({"bgA"})}
==============================================================================
