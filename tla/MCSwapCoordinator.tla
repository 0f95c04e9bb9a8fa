-------------------------- MODULE MCSwapCoordinator --------------------------
(* Small instances of SwapCoordinator.                                     *)
EXTENDS SwapCoordinator

MCDomains == {"cpu", "gpu0", "gpu1"}
MCRank == [k \in MCDomains |-> CASE k = "cpu" -> 1 [] k = "gpu0" -> 2 [] k = "gpu1" -> 3]
MCDomainLists ==
  {<<"gpu0">>, <<"cpu", "gpu0">>, <<"gpu0", "cpu">>, <<"gpu1", "gpu0">>,
   <<"cpu", "cpu", "gpu1">>}
==============================================================================
