--------------------------------- MODULE Jobs ---------------------------------
(***************************************************************************)
(* The two job runners: LlamaBuildRunner of build/runner.ts, which builds  *)
(* llama.cpp, and UpdateRunner of update/runner.ts, which updates the      *)
(* manager and restarts it.  Each of them keeps one running record; the    *)
(* jobs live in memory (build/repository.ts, update/repository.ts).        *)
(*                                                                         *)
(* run() of a job is an asynchronous function that awaits one command at a *)
(* time.  cancel() signals the command and returns: what the command makes *)
(* of the signal, and when it ends, is open, as it is for every command.   *)
(* start() looks at the status of the job, not at its run().               *)
(*                                                                         *)
(* What the commands make of the checkout and of the build directory is    *)
(* data of theirs: a step is told by its name and by how it ends.          *)
(***************************************************************************)
EXTENDS Integers, Sequences, FiniteSets

CONSTANTS
  Kinds,        \* which runners the runs look at
  BuildPlans,   \* the lists of steps a build is asked for
  MaxJobs,      \* bound: jobs that are started
  MaxCrashes,   \* bound: times the manager is killed
  HistoryLimit, \* BUILD_JOB_HISTORY_LIMIT, UPDATE_JOB_HISTORY_LIMIT
  None

Sync == {"snapshot", "clean-build-dir"}              \* awaits nothing
Optional == {"build-fit-params", "build-rpc-server"} \* may be missing, or fail
BuildSteps ==
  Sync \cup Optional \cup
  {"git-checkout", "git-pull", "ui-install", "configure", "build"}
StepNames == BuildSteps \cup {"install", "restart"}

Jobs == 1..MaxJobs

ASSUME JobsAssumption ==
  /\ Kinds \subseteq {"build", "update"}
  /\ BuildPlans \subseteq Seq(BuildSteps) \ {<< >>}
  /\ MaxJobs \in Nat /\ MaxCrashes \in Nat /\ HistoryLimit \in Nat

VARIABLES
  kind,      \* which runner this is
  jobs,      \* the jobs kept in memory
  running,   \* the running record: its job, and whether it was cancelled
  run,       \* where run() of each job stands
  nextJob,   \* the next id
  crashes

vars == <<kind, jobs, running, run, nextJob, crashes>>

JobRecords ==
  [status : {"running", "succeeded", "failed", "canceled"},
   steps : Seq([name : StepNames,
                status : {"pending", "running", "succeeded", "failed", "skipped"}])]

RunningRecords == [job : Jobs, canceled : BOOLEAN]

ASSUME NoneAssumption == None \notin JobRecords \cup RunningRecords

Runs ==
  [at : {"none", "command", "rollback", "restart", "over"},
   step : Nat,            \* the step it is at
   command : StepNames \cup {"git-reset", "npm-ci"}]

NoRun == [at |-> "none", step |-> 0, command |-> "snapshot"]
Over == [NoRun EXCEPT !.at = "over"]

Init ==
  /\ kind \in Kinds
  /\ jobs = [j \in Jobs |-> None]
  /\ running = None
  /\ run = [j \in Jobs |-> NoRun]
  /\ nextJob = 1
  /\ crashes = 0

-----------------------------------------------------------------------------
(* The repositories.                                                       *)

Kept(J) == {j \in Jobs : J[j] # None}
Has(J, j, status) == J[j] # None /\ J[j].status = status

(* trimBuildJobHistory and trimHistory: the oldest jobs that do not run.   *)
Trimmed(J) ==
  LET removable == {j \in Kept(J) : J[j].status # "running"}
  IN  [j \in Jobs |->
         IF /\ j \in removable
            /\ Cardinality({k \in removable : k < j}) < Cardinality(Kept(J)) - HistoryLimit
         THEN None ELSE J[j]]

(* Seeded fault: the patch is stored although the job is gone.             *)
PatchedBlindly(J, j, status) ==
  [J EXCEPT ![j] = IF @ = None THEN [status |-> status] ELSE [@ EXCEPT !.status = status]]

(* A patch of a job that was dropped from the history does nothing.        *)
Patched(J, j, status) ==
  IF J[j] = None THEN J ELSE [J EXCEPT ![j].status = status]

Marked(J, j, steps, status) ==
  [J EXCEPT ![j].steps =
     [n \in DOMAIN @ |-> IF n \in steps THEN [@[n] EXCEPT !.status = status] ELSE @[n]]]

UpdatePlans ==
  {<<"snapshot", "git-pull", "install", "build">>,
   <<"snapshot", "git-pull", "install", "build", "restart">>}

Plans == IF kind = "build" THEN BuildPlans ELSE UpdatePlans

NewJob(plan) ==
  [status |-> "running",
   steps |-> [n \in DOMAIN plan |-> [name |-> plan[n], status |-> "pending"]]]

-----------------------------------------------------------------------------
(* run(): what a continuation does up to its next await.                   *)

IsCanceled(j) == running # None /\ running.job = j /\ running.canceled

(* Seeded fault: the record is cleared whoever owns it by now.             *)
ClearedAnyway(j, R) == None

(* clearRunning: only the record of the job that ends.                     *)
Cleared(j, R) == IF R # None /\ R.job = j THEN None ELSE R

Ends(j, status, J, R) ==
  /\ jobs' = Patched(J, j, status)
  /\ running' = Cleared(j, R)
  /\ run' = [run EXCEPT ![j] = Over]

Spawns(j, at, n, command) ==
  run' = [run EXCEPT ![j] = [at |-> at, step |-> n, command |-> command]]

FirstCommand(name) == IF name = "ui-install" THEN "npm-ci" ELSE name

(* Seeded fault: the error is logged, the job is left as it is.            *)
FailsSilently(j, J, R) ==
  /\ jobs' = J /\ running' = R
  /\ IF kind = "build" THEN run' = [run EXCEPT ![j] = Over]
     ELSE Spawns(j, "rollback", run[j].step, "git-reset")

(* A build fails at once, an update goes back to fromCommit before.        *)
Fails(j, J, R) ==
  IF kind = "build" THEN Ends(j, "failed", J, R)
  ELSE /\ jobs' = J /\ running' = R
       /\ Spawns(j, "rollback", run[j].step, "git-reset")

(* The loop goes on with step n: it does what awaits nothing, skips        *)
(* companions that the sources do not have, and spawns the next command.   *)
GoesOn(j, J, R, n) ==
  \/ \E k \in n..Len(J[j].steps) + 1 :
       LET steps == J[j].steps
           done == {m \in n..k - 1 : steps[m].name \in Sync}
           skipped == {m \in n..k - 1 : steps[m].name \in Optional}
           J1 == Marked(Marked(J, j, done, "succeeded"), j, skipped, "skipped")
       IN  /\ done \cup skipped = n..k - 1
           /\ IF k > Len(steps) THEN Ends(j, "succeeded", J1, R)
              ELSE /\ steps[k].name \notin Sync
                   /\ jobs' = Marked(J1, j, {k}, "running") /\ running' = R
                   /\ Spawns(j, IF steps[k].name = "restart" THEN "restart" ELSE "command",
                             k, FirstCommand(steps[k].name))
  \/ /\ n <= Len(J[j].steps) /\ J[j].steps[n].name = "clean-build-dir"
     /\ Ends(j, "failed", Marked(J, j, {n}, "running"), R)

Frame == UNCHANGED <<kind, nextJob, crashes>>

-----------------------------------------------------------------------------
(* isRunning: what start() looks at.                                       *)
IsRunning == running # None /\ Has(jobs, running.job, "running")

(* start: a job that runs is answered with itself, which changes nothing.  *)
Start(plan) ==
  /\ ~IsRunning /\ nextJob \in Jobs
  /\ UNCHANGED <<kind, crashes>>
  /\ nextJob' = nextJob + 1
  /\ GoesOn(nextJob, Trimmed([jobs EXCEPT ![nextJob] = NewJob(plan)]),
            [job |-> nextJob, canceled |-> FALSE], 1)

(* A start that is refused, for its ref, its settings or a dirty tree, has *)
(* dropped the record of the last job by then.                             *)
StartRefused ==
  /\ ~IsRunning /\ running # None
  /\ running' = None
  /\ UNCHANGED <<jobs, run>> /\ Frame

(* cancel: the command is told to end, and the job is over at once.        *)
Cancel ==
  /\ running # None
  /\ running' = [running EXCEPT !.canceled = TRUE]
  /\ jobs' = Patched(jobs, running.job, "canceled")
  /\ UNCHANGED run /\ Frame

(* The command could not be spawned: the await throws.                     *)
SpawnError(j) ==
  /\ run[j].at = "command"
  /\ Fails(j, jobs, running) /\ Frame

(* npm ci succeeded: npm run build follows, whatever came meanwhile.       *)
UiInstalled(j) ==
  /\ run[j].at = "command" /\ run[j].command = "npm-ci"
  /\ Spawns(j, "command", run[j].step, "ui-install")
  /\ UNCHANGED <<jobs, running>> /\ Frame

(* The commands of the step are over.                                      *)
Exits(j, ok) ==
  /\ run[j].at = "command" /\ ~(run[j].command = "npm-ci" /\ ok)

StepCanceled(j, ok) ==
  /\ Exits(j, ok) /\ IsCanceled(j)
  /\ Ends(j, "canceled", Marked(jobs, j, {run[j].step}, "failed"), running)
  /\ Frame

(* Seeded fault: the check after the await is missing.                     *)
StepSucceedsAnyway(j) ==
  /\ Exits(j, TRUE) /\ jobs[j] # None
  /\ GoesOn(j, Marked(jobs, j, {run[j].step}, "succeeded"), running,
            run[j].step + 1)
  /\ Frame

StepSucceeds(j) ==
  /\ Exits(j, TRUE) /\ ~IsCanceled(j) /\ jobs[j] # None
  /\ GoesOn(j, Marked(jobs, j, {run[j].step}, "succeeded"), running,
            run[j].step + 1)
  /\ Frame

StepFails(j) ==
  /\ Exits(j, FALSE) /\ ~IsCanceled(j) /\ jobs[j] # None
  /\ LET n == run[j].step
     IN  IF jobs[j].steps[n].name \in Optional
         THEN GoesOn(j, Marked(jobs, j, {n}, "skipped"), running, n + 1)
         ELSE Fails(j, Marked(jobs, j, {n}, "failed"), running)
  /\ Frame

(* The job was dropped from the history while its run() went on: markStep  *)
(* throws.                                                                 *)
JobDropped(j, ok) ==
  /\ Exits(j, ok) /\ jobs[j] = None
  /\ Fails(j, jobs, running) /\ Frame

(* An update is back at fromCommit, or git reset failed: either way it     *)
(* ends as failed.                                                         *)
RollbackEnds(j) ==
  /\ run[j].at = "rollback"
  /\ Ends(j, "failed", jobs, running) /\ Frame

(* The manager starts anew.  It knows nothing of the commands under way,   *)
(* which go on without it and change no state of the new one.              *)
Boot ==
  /\ jobs' = [j \in Jobs |-> None] /\ running' = None
  /\ run' = [j \in Jobs |-> IF run[j].at = "none" THEN NoRun ELSE Over]
  /\ UNCHANGED <<kind, nextJob>>

(* scheduleRestart: 800 ms later the manager ends itself.                  *)
Restarts(j) == run[j].at = "restart" /\ Boot /\ UNCHANGED crashes

Crash == crashes < MaxCrashes /\ crashes' = crashes + 1 /\ Boot

CommandOver(j) ==
  \/ SpawnError(j) \/ UiInstalled(j) \/ StepSucceeds(j) \/ StepFails(j)
  \/ \E ok \in BOOLEAN : StepCanceled(j, ok) \/ JobDropped(j, ok)

Next ==
  \/ \E plan \in Plans : Start(plan)
  \/ StartRefused \/ Cancel \/ Crash
  \/ \E j \in Jobs : \/ CommandOver(j) \/ RollbackEnds(j) \/ Restarts(j)

Spec == Init /\ [][Next]_vars

(* Commands end, and the timer of the restart fires.                       *)
Fairness ==
  \A j \in Jobs : WF_vars(CommandOver(j)) /\ WF_vars(RollbackEnds(j)) /\ WF_vars(Restarts(j))

FairSpec == Spec /\ Fairness

-----------------------------------------------------------------------------
(* Properties.                                                             *)

(* Every variable holds a value of its type.                               *)
TypeOK ==
  /\ kind \in Kinds
  /\ jobs \in [Jobs -> JobRecords \cup {None}]
  /\ running \in RunningRecords \cup {None}
  /\ run \in [Jobs -> Runs]
  /\ nextJob \in 1..MaxJobs + 1
  /\ crashes \in 0..MaxCrashes

(* A job that is shown as running is the one that cancel() reaches, and    *)
(* its run() is under way.  So no two jobs are shown as running, although  *)
(* the run() of a job that was cancelled may go on beside the next one.    *)
RunningIsFollowed ==
  \A j \in Jobs : Has(jobs, j, "running") =>
    /\ running # None /\ running.job = j /\ ~running.canceled
    /\ run[j].at \in {"command", "rollback", "restart"}

(* As long as its record is there, a job that was cancelled starts no      *)
(* further step: neither a step of its plan nor the restart.               *)
CanceledStartsNothing ==
  [][\A j \in Jobs :
       /\ running # None /\ running.job = j /\ running.canceled
       /\ run'[j].at \in {"command", "restart"}
       => run'[j].step = run[j].step]_vars

(* Whatever fails, a job does not stay "running" for ever.                 *)
JobsEnd ==
  \A j \in Jobs : Has(jobs, j, "running") ~> ~Has(jobs, j, "running")
=============================================================================
