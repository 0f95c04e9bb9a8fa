----------------------------- MODULE MCSupervisor -----------------------------
(* Small instances of Supervisor.                                          *)
EXTENDS Supervisor

MCWorkers == [i \in Instances |-> IF i = "worker" THEN {} ELSE Instances \cap {"worker"}]
===============================================================================
