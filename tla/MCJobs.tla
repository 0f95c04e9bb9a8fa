-------------------------------- MODULE MCJobs --------------------------------
(* A small instance of Jobs.   The build has every kind of step: a step of   *)
(* two commands, one without a command, a companion.                       *)
EXTENDS Jobs

MCBuildPlans ==
  {<<"ui-install", "clean-build-dir", "build", "build-fit-params">>}
=============================================================================
