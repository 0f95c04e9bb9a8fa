------------------------------ MODULE JobsProofs ------------------------------
(***************************************************************************)
(* What the job runners keep to whatever fails, is cancelled or killed,    *)
(* for every number of jobs and crashes and every list of steps.           *)
(***************************************************************************)
EXTENDS Jobs, SequenceTheorems, TLAPS

Statuses == {"running", "succeeded", "failed", "canceled"}
StepStatuses == {"pending", "running", "succeeded", "failed", "skipped"}
StepRecords == [name : StepNames, status : StepStatuses]
JobMaps == [Jobs -> JobRecords \cup {None}]
Records == RunningRecords \cup {None}

(* The running record names a job that was started and is kept.            *)
RecordOfStarted ==
  running # None => running.job < nextJob /\ jobs[running.job] # None

IInv == TypeOK /\ RunningIsFollowed /\ RecordOfStarted

-----------------------------------------------------------------------------
(* The records and their updates.                                          *)
LEMMA JobFields ==
  ASSUME NEW job \in JobRecords
  PROVE  /\ job.status \in Statuses /\ job.steps \in Seq(StepRecords)
         /\ job # None
         /\ \A s \in Statuses : [job EXCEPT !.status = s] \in JobRecords
         /\ \A q \in Seq(StepRecords) : [job EXCEPT !.steps = q] \in JobRecords
  BY NoneAssumption DEF JobRecords, Statuses, StepStatuses, StepRecords

LEMMA NewRecords ==
  ASSUME NEW s \in Statuses, NEW q \in Seq(StepRecords)
  PROVE  [status |-> s, steps |-> q] \in JobRecords
  BY DEF JobRecords, Statuses, StepStatuses, StepRecords

Remarked(q, steps, status) ==
  [n \in DOMAIN q |-> IF n \in steps THEN [q[n] EXCEPT !.status = status] ELSE q[n]]

(* A sequence of steps stays one when some of them change their status.    *)
LEMMA MarkedSteps ==
  ASSUME NEW q \in Seq(StepRecords), NEW steps, NEW status \in StepStatuses
  PROVE  /\ Remarked(q, steps, status) \in Seq(StepRecords)
         /\ Len(Remarked(q, steps, status)) = Len(q)
         /\ \A n \in 1..Len(q) : Remarked(q, steps, status)[n].name = q[n].name
<1> DEFINE r == Remarked(q, steps, status)
<1>1. Len(q) \in Nat /\ DOMAIN q = 1..Len(q)
  BY LenProperties
<1>2. ASSUME NEW n \in 1..Len(q) PROVE r[n] \in StepRecords /\ r[n].name = q[n].name
  <2>1. q[n] \in StepRecords
    BY <1>1, ElementOfSeq
  <2>2. [q[n] EXCEPT !.status = status] \in StepRecords
    BY <2>1 DEF StepRecords
  <2>3. [q[n] EXCEPT !.status = status].name = q[n].name
    BY <2>1 DEF StepRecords
  <2>4. r[n] = IF n \in steps THEN [q[n] EXCEPT !.status = status] ELSE q[n]
    BY <1>1 DEF Remarked
  <2> QED BY <2>1, <2>2, <2>3, <2>4
<1>3. r = [n \in 1..Len(q) |-> r[n]]
  BY <1>1 DEF Remarked
<1> HIDE DEF r
<1>4. r \in [1..Len(q) -> StepRecords]
  BY <1>2, <1>3
<1>5. r \in Seq(StepRecords) /\ Len(r) = Len(q)
  BY <1>1, <1>4
<1> QED BY <1>2, <1>5 DEF r

LEMMA PatchedJobs ==
  ASSUME NEW J \in JobMaps, NEW j \in Jobs, NEW status \in Statuses
  PROVE  /\ Patched(J, j, status) \in JobMaps
         /\ \A k \in Jobs \ {j} : Patched(J, j, status)[k] = J[k]
         /\ J[j] # None => Patched(J, j, status)[j] # None
         /\ status # "running" => ~Has(Patched(J, j, status), j, "running")
<1>1. CASE J[j] = None
  BY <1>1 DEF Patched, Has
<1>2. CASE J[j] # None
  <2>1. J[j] \in JobRecords
    BY <1>2 DEF JobMaps
  <2>2. /\ [J[j] EXCEPT !.status = status] \in JobRecords
        /\ [J[j] EXCEPT !.status = status].status = status
        /\ [J[j] EXCEPT !.status = status] # None
    BY <2>1, JobFields DEF JobRecords
  <2>3. Patched(J, j, status) = [J EXCEPT ![j] = [J[j] EXCEPT !.status = status]]
    BY <1>2, Zenon DEF Patched
  <2> QED BY <2>2, <2>3 DEF JobMaps, Has
<1> QED BY <1>1, <1>2

LEMMA MarkedJobs ==
  ASSUME NEW J \in JobMaps, NEW j \in Jobs, J[j] # None,
         NEW steps, NEW status \in StepStatuses
  PROVE  LET M == Marked(J, j, steps, status)
         IN  /\ M \in JobMaps /\ M[j] # None
             /\ M[j].status = J[j].status
             /\ Len(M[j].steps) = Len(J[j].steps)
             /\ \A n \in 1..Len(J[j].steps) : M[j].steps[n].name = J[j].steps[n].name
             /\ \A k \in Jobs \ {j} : M[k] = J[k]
<1> DEFINE q == J[j].steps
           r == Remarked(q, steps, status)
<1>1. J[j] \in JobRecords
  BY DEF JobMaps
<1>2. q \in Seq(StepRecords)
  BY <1>1, JobFields
<1>3. r \in Seq(StepRecords) /\ Len(r) = Len(q) /\ \A n \in 1..Len(q) : r[n].name = q[n].name
  BY <1>2, MarkedSteps
<1>4. Marked(J, j, steps, status) = [J EXCEPT ![j] = [J[j] EXCEPT !.steps = r]]
  BY Zenon DEF Marked, Remarked, JobMaps
<1> HIDE DEF r
<1>5. /\ [J[j] EXCEPT !.steps = r] \in JobRecords
      /\ [J[j] EXCEPT !.steps = r].steps = r
      /\ [J[j] EXCEPT !.steps = r].status = J[j].status
  BY <1>1, <1>3, JobFields DEF JobRecords
<1>6. [J[j] EXCEPT !.steps = r] # None
  BY <1>5, JobFields
<1> QED BY <1>3, <1>4, <1>5, <1>6 DEF JobMaps

LEMMA TrimmedJobs ==
  ASSUME NEW J \in JobMaps
  PROVE  /\ Trimmed(J) \in JobMaps
         /\ \A j \in Jobs : Trimmed(J)[j] \in {J[j], None}
         /\ \A j \in Jobs : Has(J, j, "running") => Trimmed(J)[j] = J[j]
  BY DEF Trimmed, JobMaps, Has, Kept

-----------------------------------------------------------------------------
(* How far run() of job j gets, when it goes on with the jobs J and the    *)
(* running record R: it ends, or waits for its next command.               *)
Advances(j, J, R) ==
  /\ jobs' \in JobMaps /\ running' \in Records /\ run' \in [Jobs -> Runs]
  /\ \A k \in Jobs \ {j} : jobs'[k] = J[k] /\ run'[k] = run[k]
  /\ J[j] # None => jobs'[j] # None
  /\ \/ ~Has(jobs', j, "running") /\ running' = Cleared(j, R) /\ run'[j].at = "over"
     \/ /\ Has(jobs', j, "running") => Has(J, j, "running")
        /\ running' = R
        /\ run'[j].at \in {"command", "rollback", "restart"}

LEMMA RunsOver ==
  ASSUME run \in [Jobs -> Runs], NEW j \in Jobs, run' = [run EXCEPT ![j] = Over]
  PROVE  /\ run' \in [Jobs -> Runs] /\ run'[j].at = "over"
         /\ \A k \in Jobs \ {j} : run'[k] = run[k]
<1>1. Over \in Runs /\ Over.at = "over"
  BY DEF Over, NoRun, Runs, StepNames, BuildSteps, Sync
<1> QED BY <1>1

LEMMA RunsOn ==
  ASSUME run \in [Jobs -> Runs], NEW j \in Jobs, NEW n \in Nat,
         NEW at \in {"command", "rollback", "restart"},
         NEW command \in StepNames \cup {"git-reset", "npm-ci"},
         Spawns(j, at, n, command)
  PROVE  /\ run' \in [Jobs -> Runs] /\ run'[j].at = at /\ run'[j].step = n
         /\ \A k \in Jobs \ {j} : run'[k] = run[k]
<1> DEFINE r == [at |-> at, step |-> n, command |-> command]
<1>1. r \in Runs /\ r.at = at /\ r.step = n
  BY DEF Runs
<1>2. run' = [run EXCEPT ![j] = r]
  BY Zenon DEF Spawns
<1> HIDE DEF r
<1> QED BY <1>1, <1>2

LEMMA EndsAdvances ==
  ASSUME run \in [Jobs -> Runs], NEW j \in Jobs, NEW J \in JobMaps, NEW R \in Records,
         NEW status \in Statuses \ {"running"}, Ends(j, status, J, R)
  PROVE  Advances(j, J, R)
<1>1. jobs' = Patched(J, j, status) /\ running' = Cleared(j, R)
  BY Zenon DEF Ends
<1>2. run' = [run EXCEPT ![j] = Over]
  BY Zenon DEF Ends
<1>3. /\ jobs' \in JobMaps /\ ~Has(jobs', j, "running")
      /\ J[j] # None => jobs'[j] # None
      /\ \A k \in Jobs \ {j} : jobs'[k] = J[k]
  BY <1>1, PatchedJobs
<1>4. running' \in Records
  BY <1>1 DEF Cleared, Records
<1> QED BY <1>1, <1>2, <1>3, <1>4, RunsOver DEF Advances

LEMMA FailsAdvances ==
  ASSUME run \in [Jobs -> Runs], NEW j \in Jobs, NEW J \in JobMaps, NEW R \in Records,
         Fails(j, J, R)
  PROVE  /\ Advances(j, J, R)
         /\ run'[j].at \in {"over", "rollback"}
<1>1. CASE kind = "build"
  <2>1. Ends(j, "failed", J, R)
    BY <1>1 DEF Fails
  <2>2. run'[j].at = "over"
    BY <2>1, RunsOver DEF Ends
  <2> QED BY <2>1, <2>2, EndsAdvances DEF Statuses
<1>2. CASE kind # "build"
  <2>1. /\ jobs' = J /\ running' = R
        /\ Spawns(j, "rollback", run[j].step, "git-reset")
    BY <1>2 DEF Fails
  <2>2. run[j].step \in Nat
    BY DEF Runs
  <2>3. /\ run' \in [Jobs -> Runs] /\ run'[j].at = "rollback"
        /\ \A k \in Jobs \ {j} : run'[k] = run[k]
    BY <2>1, <2>2, RunsOn
  <2> QED BY <2>1, <2>3 DEF Advances
<1> QED BY <1>1, <1>2

LEMMA GoesOnAdvances ==
  ASSUME run \in [Jobs -> Runs], NEW j \in Jobs, NEW J \in JobMaps, NEW R \in Records,
         NEW n \in Nat \ {0}, J[j] # None, GoesOn(j, J, R, n)
  PROVE  Advances(j, J, R)
<1> DEFINE steps == J[j].steps
<1>1. steps \in Seq(StepRecords) /\ Len(steps) \in Nat
  BY JobFields, LenProperties DEF JobMaps
<1>2. ASSUME NEW k \in n..Len(steps) + 1,
             LET done == {m \in n..k - 1 : steps[m].name \in Sync}
                 skipped == {m \in n..k - 1 : steps[m].name \in Optional}
                 J1 == Marked(Marked(J, j, done, "succeeded"), j, skipped, "skipped")
             IN  /\ done \cup skipped = n..k - 1
                 /\ IF k > Len(steps) THEN Ends(j, "succeeded", J1, R)
                    ELSE /\ steps[k].name \notin Sync
                         /\ jobs' = Marked(J1, j, {k}, "running") /\ running' = R
                         /\ Spawns(j, IF steps[k].name = "restart" THEN "restart" ELSE "command",
                                   k, FirstCommand(steps[k].name))
      PROVE  Advances(j, J, R)
  <2> DEFINE done == {m \in n..k - 1 : steps[m].name \in Sync}
             skipped == {m \in n..k - 1 : steps[m].name \in Optional}
             J0 == Marked(J, j, done, "succeeded")
             J1 == Marked(J0, j, skipped, "skipped")
  <2>1. IF k > Len(steps) THEN Ends(j, "succeeded", J1, R)
        ELSE /\ jobs' = Marked(J1, j, {k}, "running") /\ running' = R
             /\ Spawns(j, IF steps[k].name = "restart" THEN "restart" ELSE "command",
                       k, FirstCommand(steps[k].name))
    BY <1>2, Zenon
  <2> HIDE DEF done, skipped
  <2>2. /\ J0 \in JobMaps /\ J0[j] # None /\ J0[j].status = J[j].status
        /\ \A i \in Jobs \ {j} : J0[i] = J[i]
    BY MarkedJobs DEF StepStatuses
  <2> HIDE DEF J0
  <2>3. /\ J1 \in JobMaps /\ J1[j] # None /\ J1[j].status = J0[j].status
        /\ \A i \in Jobs \ {j} : J1[i] = J0[i]
    BY <2>2, MarkedJobs DEF StepStatuses
  <2> HIDE DEF J1
  <2>4. CASE k > Len(steps)
    <3>1. Advances(j, J1, R)
      BY <2>1, <2>3, <2>4, EndsAdvances DEF Statuses
    <3> QED BY <2>2, <2>3, <3>1 DEF Advances, Has
  <2>5. CASE ~(k > Len(steps))
    <3> DEFINE J2 == Marked(J1, j, {k}, "running")
               at == IF steps[k].name = "restart" THEN "restart" ELSE "command"
               command == FirstCommand(steps[k].name)
    <3>1. /\ J2 \in JobMaps /\ J2[j] # None /\ J2[j].status = J1[j].status
          /\ \A i \in Jobs \ {j} : J2[i] = J1[i]
      BY <2>3, MarkedJobs DEF StepStatuses
    <3>2. jobs' = J2 /\ running' = R /\ Spawns(j, at, k, command)
      BY <2>1, <2>5, Zenon
    <3> HIDE DEF J2
    <3>3. k \in 1..Len(steps)
      BY <1>1, <2>5
    <3>4. steps[k] \in StepRecords
      BY <1>1, <3>3, ElementOfSeq
    <3>5. command \in StepNames \cup {"git-reset", "npm-ci"}
      BY <3>4 DEF FirstCommand, StepRecords
    <3>6. at \in {"command", "rollback", "restart"} /\ k \in Nat
      BY <1>1
    <3>7. /\ run' \in [Jobs -> Runs] /\ run'[j].at = at
          /\ \A i \in Jobs \ {j} : run'[i] = run[i]
      BY <3>2, <3>5, <3>6, RunsOn
    <3> QED BY <2>2, <2>3, <3>1, <3>2, <3>6, <3>7 DEF Advances, Has
  <2> QED BY <2>4, <2>5
<1>3. ASSUME n <= Len(steps),
             Ends(j, "failed", Marked(J, j, {n}, "running"), R)
      PROVE  Advances(j, J, R)
  <2> DEFINE J1 == Marked(J, j, {n}, "running")
  <2>1. J1 \in JobMaps /\ \A i \in Jobs \ {j} : J1[i] = J[i]
    BY MarkedJobs DEF StepStatuses
  <2>2. Ends(j, "failed", J1, R)
    BY <1>3
  <2>3. J1[j] # None /\ J1[j].status = J[j].status
    BY MarkedJobs DEF StepStatuses
  <2> HIDE DEF J1
  <2>4. Advances(j, J1, R)
    BY <2>1, <2>2, EndsAdvances DEF Statuses
  <2> QED BY <2>1, <2>3, <2>4 DEF Advances, Has
<1> QED BY <1>2, <1>3, Zenon DEF GoesOn

-----------------------------------------------------------------------------
LEMMA InitIInv == Init => IInv
<1> SUFFICES ASSUME Init PROVE IInv
  OBVIOUS
<1>1. NoRun \in Runs
  BY DEF NoRun, Runs, StepNames, BuildSteps, Sync
<1>2. TypeOK
  BY <1>1, JobsAssumption DEF Init, TypeOK
<1>3. RunningIsFollowed /\ RecordOfStarted
  BY DEF Init, RunningIsFollowed, RecordOfStarted, Has
<1> QED BY <1>2, <1>3 DEF IInv

(* What a step of run(), or a start, has to show.                          *)
LEMMA AdvancesKeepsIInv ==
  ASSUME IInv, NEW j \in Jobs, NEW J \in JobMaps, NEW R \in Records, Advances(j, J, R),
         kind' = kind, crashes' = crashes, nextJob' \in 1..MaxJobs + 1,
         R # None => R.job < nextJob' /\ J[R.job] # None,
         \A k \in Jobs : Has(J, k, "running") => R # None /\ R.job = k /\ ~R.canceled,
         \A k \in Jobs \ {j} : Has(J, k, "running") =>
           run[k].at \in {"command", "rollback", "restart"}
  PROVE  IInv'
<1>1. TypeOK'
  BY DEF IInv, TypeOK, Advances, JobMaps, Records
<1>2. RunningIsFollowed'
  <2> SUFFICES ASSUME NEW k \in Jobs, Has(jobs', k, "running")
               PROVE  /\ running' # None /\ running'.job = k /\ ~running'.canceled
                      /\ run'[k].at \in {"command", "rollback", "restart"}
    BY Zenon DEF RunningIsFollowed, Has
  <2>1. CASE k = j
    BY <2>1 DEF Advances
  <2>2. CASE k # j
    <3>1. Has(J, k, "running") /\ run'[k] = run[k]
      BY <2>2 DEF Advances, Has
    <3>2. R # None /\ R.job = k /\ ~R.canceled
      BY <3>1
    <3>3. running' = R
      BY <2>2, <3>2 DEF Advances, Cleared
    <3> QED BY <2>2, <3>1, <3>2, <3>3
  <2> QED BY <2>1, <2>2
<1>3. RecordOfStarted'
  <2>1. R # None => R.job \in Jobs
    BY DEF Records, RunningRecords
  <2> QED BY <2>1 DEF Advances, Cleared, RecordOfStarted
<1> QED BY <1>1, <1>2, <1>3 DEF IInv

(* The plan of a new job is a sequence of steps.                           *)
LEMMA NewJobTyped ==
  ASSUME kind \in Kinds, NEW plan \in Plans
  PROVE  NewJob(plan) \in JobRecords /\ NewJob(plan).status = "running"
<1>1. plan \in Seq(StepNames)
  <2>1. CASE kind = "build"
    <3>1. plan \in Seq(BuildSteps)
      BY <2>1, JobsAssumption DEF Plans
    <3>2. BuildSteps \subseteq StepNames
      BY DEF StepNames
    <3> QED BY <3>1, <3>2
  <2>2. CASE kind # "build"
    <3>1. plan \in UpdatePlans
      BY <2>2 DEF Plans
    <3>2. /\ "snapshot" \in StepNames /\ "git-pull" \in StepNames /\ "install" \in StepNames
          /\ "build" \in StepNames /\ "restart" \in StepNames
      BY DEF StepNames, BuildSteps, Sync
    <3>3. /\ <<"snapshot", "git-pull", "install", "build">> \in Seq(StepNames)
          /\ <<"snapshot", "git-pull", "install", "build", "restart">> \in Seq(StepNames)
      BY <3>2
    <3> QED BY <3>1, <3>3 DEF UpdatePlans
  <2> QED BY <2>1, <2>2
<1> DEFINE q == [n \in DOMAIN plan |-> [name |-> plan[n], status |-> "pending"]]
<1>2. q \in Seq(StepRecords)
  <2>1. Len(plan) \in Nat /\ DOMAIN plan = 1..Len(plan)
    BY <1>1, LenProperties
  <2>2. ASSUME NEW n \in 1..Len(plan)
        PROVE  [name |-> plan[n], status |-> "pending"] \in StepRecords
    BY <1>1, ElementOfSeq DEF StepRecords, StepStatuses
  <2>3. q \in [1..Len(plan) -> StepRecords]
    BY <2>1, <2>2
  <2> QED BY <2>1, <2>3
<1>3. NewJob(plan) = [status |-> "running", steps |-> q]
  BY Zenon DEF NewJob
<1> HIDE DEF q
<1> QED BY <1>2, <1>3, NewRecords DEF Statuses

-----------------------------------------------------------------------------
(* One lemma per group of actions.                                         *)
LEMMA StartKeepsIInv ==
  ASSUME IInv, NEW plan \in Plans, Start(plan)
  PROVE  IInv'
<1> DEFINE j == nextJob
           J0 == [jobs EXCEPT ![j] = NewJob(plan)]
           J == Trimmed(J0)
           R == [job |-> j, canceled |-> FALSE]
<1>1. j \in Jobs /\ j \in Nat /\ nextJob' = j + 1
  BY DEF Start, Jobs
<1>2. NewJob(plan) \in JobRecords /\ NewJob(plan).status = "running"
  BY NewJobTyped DEF IInv, TypeOK
<1>3. jobs \in JobMaps /\ run \in [Jobs -> Runs]
  BY DEF IInv, TypeOK, JobMaps
<1>4. J0 \in JobMaps /\ J0[j] # None /\ Has(J0, j, "running")
  BY <1>1, <1>2, <1>3, JobFields DEF JobMaps, Has
<1>5. \A k \in Jobs \ {j} : ~Has(jobs, k, "running") /\ J0[k] = jobs[k]
  BY <1>3 DEF Start, IsRunning, IInv, RunningIsFollowed, JobMaps
<1>6. GoesOn(j, J, R, 1)
  BY DEF Start
<1> HIDE DEF J0
<1>7. /\ J \in JobMaps /\ J[j] # None
      /\ \A k \in Jobs \ {j} : ~Has(J, k, "running")
  BY <1>1, <1>4, <1>5, TrimmedJobs DEF Has
<1> HIDE DEF J
<1>8. R \in Records /\ R # None /\ R.job = j /\ R.canceled = FALSE
  <2>1. R \in RunningRecords
    BY <1>1 DEF RunningRecords
  <2> QED BY <2>1, NoneAssumption DEF Records
<1> HIDE DEF R
<1>9. kind' = kind /\ crashes' = crashes
  BY DEF Start
<1>10. Advances(j, J, R)
  BY <1>1, <1>3, <1>6, <1>7, <1>8, <1>9, GoesOnAdvances
<1>11. nextJob' \in 1..MaxJobs + 1 /\ R.job < nextJob' /\ J[R.job] # None
  BY <1>1, <1>7, <1>8, JobsAssumption DEF Jobs
<1>12. \A k \in Jobs : Has(J, k, "running") => R # None /\ R.job = k /\ ~R.canceled
  BY <1>7, <1>8
<1> HIDE DEF j
<1> QED BY <1>1, <1>7, <1>8, <1>9, <1>10, <1>11, <1>12, AdvancesKeepsIInv

(* What run() of j goes on with: the jobs, in which its own has changed.   *)
LEMMA RunKeepsIInv ==
  ASSUME IInv, NEW j \in Jobs, NEW J \in JobMaps, Advances(j, J, running), Frame,
         \A k \in Jobs : Has(J, k, "running") => Has(jobs, k, "running"),
         \A k \in Jobs : jobs[k] # None => J[k] # None
  PROVE  IInv'
<1>1. /\ kind' = kind /\ crashes' = crashes /\ nextJob' = nextJob
      /\ nextJob \in 1..MaxJobs + 1 /\ running \in Records
  BY DEF Frame, IInv, TypeOK, Records
<1>2. running # None => running.job < nextJob' /\ J[running.job] # None
  BY <1>1 DEF IInv, RecordOfStarted, Records, RunningRecords
<1>3. /\ \A k \in Jobs : Has(J, k, "running") =>
           running # None /\ running.job = k /\ ~running.canceled
      /\ \A k \in Jobs \ {j} : Has(J, k, "running") =>
           run[k].at \in {"command", "rollback", "restart"}
  BY DEF IInv, RunningIsFollowed
<1> QED BY <1>1, <1>2, <1>3, AdvancesKeepsIInv

LEMMA CommandKeepsIInv ==
  ASSUME IInv, NEW j \in Jobs, CommandOver(j)
  PROVE  IInv'
<1>1. jobs \in JobMaps /\ run \in [Jobs -> Runs] /\ running \in Records
  BY DEF IInv, TypeOK, JobMaps, Records
<1>2. run[j].step \in Nat
  BY <1>1 DEF Runs
<1>3. ASSUME NEW n, NEW s \in StepStatuses, jobs[j] # None
      PROVE  /\ Marked(jobs, j, {n}, s) \in JobMaps /\ Marked(jobs, j, {n}, s)[j] # None
             /\ \A k \in Jobs : Has(Marked(jobs, j, {n}, s), k, "running")
                                  => Has(jobs, k, "running")
             /\ \A k \in Jobs : jobs[k] # None => Marked(jobs, j, {n}, s)[k] # None
  BY <1>1, <1>3, MarkedJobs DEF Has
<1>4. ASSUME SpawnError(j) PROVE IInv'
  <2>1. Fails(j, jobs, running) /\ Frame
    BY <1>4 DEF SpawnError
  <2>2. Advances(j, jobs, running)
    BY <1>1, <1>2, <2>1, FailsAdvances
  <2> QED BY <1>1, <1>2, <2>1, <2>2, RunKeepsIInv
<1>5. ASSUME UiInstalled(j) PROVE IInv'
  <2>1. /\ jobs' = jobs /\ running' = running /\ Frame /\ run[j].at = "command"
        /\ Spawns(j, "command", run[j].step, "ui-install")
    BY <1>5 DEF UiInstalled
  <2>2. /\ run' \in [Jobs -> Runs] /\ run'[j].at = "command"
        /\ \A k \in Jobs \ {j} : run'[k] = run[k]
    BY <1>1, <1>2, <2>1, RunsOn DEF StepNames, BuildSteps
  <2>3. Advances(j, jobs, running)
    BY <1>1, <2>1, <2>2 DEF Advances
  <2> QED BY <1>1, <1>2, <2>1, <2>3, RunKeepsIInv
<1>6. ASSUME StepSucceeds(j) PROVE IInv'
  <2> DEFINE J == Marked(jobs, j, {run[j].step}, "succeeded")
  <2>1. /\ Frame /\ jobs[j] # None
        /\ GoesOn(j, J, running, run[j].step + 1)
    BY <1>6 DEF StepSucceeds
  <2>2. /\ J \in JobMaps /\ J[j] # None
        /\ \A k \in Jobs : Has(J, k, "running") => Has(jobs, k, "running")
        /\ \A k \in Jobs : jobs[k] # None => J[k] # None
    BY <1>3, <2>1 DEF StepStatuses
  <2> HIDE DEF J
  <2>3. run[j].step + 1 \in Nat \ {0}
    BY <1>2
  <2>4. Advances(j, J, running)
    BY <1>1, <1>2, <2>1, <2>2, <2>3, GoesOnAdvances
  <2> QED BY <2>1, <2>2, <2>4, RunKeepsIInv
<1>7. ASSUME StepFails(j) PROVE IInv'
  <2>1. Frame /\ jobs[j] # None
    BY <1>7 DEF StepFails
  <2> DEFINE J(s) == Marked(jobs, j, {run[j].step}, s)
  <2>2. \/ GoesOn(j, J("skipped"), running, run[j].step + 1)
        \/ Fails(j, J("failed"), running)
    BY <1>7 DEF StepFails
  <2>3. ASSUME NEW s \in {"skipped", "failed"}
        PROVE  /\ J(s) \in JobMaps /\ J(s)[j] # None
               /\ \A k \in Jobs : Has(J(s), k, "running") => Has(jobs, k, "running")
               /\ \A k \in Jobs : jobs[k] # None => J(s)[k] # None
    BY <1>3, <2>1, <2>3 DEF StepStatuses
  <2> HIDE DEF J
  <2>4. run[j].step + 1 \in Nat \ {0}
    BY <1>2
  <2>5. Advances(j, J("skipped"), running) \/ Advances(j, J("failed"), running)
    BY <1>1, <1>2, <2>2, <2>3, <2>4, GoesOnAdvances, FailsAdvances
  <2> QED BY <2>1, <2>3, <2>5, RunKeepsIInv
<1>8. ASSUME NEW ok \in BOOLEAN, StepCanceled(j, ok) PROVE IInv'
  <2>1. /\ Frame
        /\ Ends(j, "canceled", Marked(jobs, j, {run[j].step}, "failed"), running)
    BY <1>8 DEF StepCanceled
  <2> DEFINE J == Marked(jobs, j, {run[j].step}, "failed")
  <2>2. jobs[j] # None
    BY <1>8 DEF StepCanceled, IsCanceled, IInv, RecordOfStarted
  <2>3. /\ J \in JobMaps
        /\ \A k \in Jobs : Has(J, k, "running") => Has(jobs, k, "running")
        /\ \A k \in Jobs : jobs[k] # None => J[k] # None
    BY <1>3, <2>2 DEF StepStatuses
  <2>4. Ends(j, "canceled", J, running)
    BY <2>1
  <2> HIDE DEF J
  <2>5. Advances(j, J, running)
    BY <1>1, <2>3, <2>4, EndsAdvances DEF Statuses
  <2> QED BY <2>1, <2>3, <2>5, RunKeepsIInv
<1>9. ASSUME NEW ok \in BOOLEAN, JobDropped(j, ok) PROVE IInv'
  <2>1. Frame /\ Fails(j, jobs, running)
    BY <1>9 DEF JobDropped
  <2>2. Advances(j, jobs, running)
    BY <1>1, <2>1, FailsAdvances
  <2> QED BY <1>1, <2>1, <2>2, RunKeepsIInv
<1> QED BY <1>4, <1>5, <1>6, <1>7, <1>8, <1>9, Zenon DEF CommandOver

LEMMA CancelKeepsIInv ==
  ASSUME IInv, Cancel
  PROVE  IInv'
<1>1. jobs \in JobMaps /\ running \in RunningRecords
  BY DEF Cancel, IInv, TypeOK, JobMaps
<1> DEFINE j == running.job
<1>2. j \in Jobs /\ running' \in RunningRecords /\ running'.job = j
  BY <1>1 DEF Cancel, RunningRecords
<1>3. /\ jobs' = Patched(jobs, j, "canceled") /\ run' = run
      /\ kind' = kind /\ nextJob' = nextJob /\ crashes' = crashes
  BY DEF Cancel, Frame
<1>4. /\ jobs' \in JobMaps /\ ~Has(jobs', j, "running")
      /\ jobs[j] # None => jobs'[j] # None
      /\ \A k \in Jobs \ {j} : jobs'[k] = jobs[k]
  BY <1>1, <1>2, <1>3, PatchedJobs, ZenonT(60) DEF Statuses
<1>5. TypeOK'
  BY <1>2, <1>3, <1>4 DEF IInv, TypeOK, JobMaps
<1>6. \A k \in Jobs : ~Has(jobs', k, "running")
  BY <1>1, <1>4 DEF IInv, RunningIsFollowed, Has
<1>7. RunningIsFollowed'
  BY <1>6 DEF RunningIsFollowed, Has
<1>8. RecordOfStarted'
  BY <1>1, <1>2, <1>3, <1>4, NoneAssumption DEF IInv, RecordOfStarted
<1> QED BY <1>5, <1>7, <1>8 DEF IInv

LEMMA RollbackKeepsIInv ==
  ASSUME IInv, NEW j \in Jobs, RollbackEnds(j)
  PROVE  IInv'
<1>1. jobs \in JobMaps /\ run \in [Jobs -> Runs] /\ running \in Records
  BY DEF IInv, TypeOK, JobMaps, Records
<1>2. Ends(j, "failed", jobs, running) /\ Frame
  BY DEF RollbackEnds
<1>3. Advances(j, jobs, running)
  BY <1>1, <1>2, EndsAdvances DEF Statuses
<1> QED BY <1>1, <1>2, <1>3, RunKeepsIInv

LEMMA BootKeepsIInv ==
  ASSUME IInv, Boot, crashes' \in 0..MaxCrashes
  PROVE  IInv'
<1>1. /\ jobs' = [j \in Jobs |-> None] /\ running' = None /\ kind' = kind
      /\ nextJob' = nextJob
  BY DEF Boot
<1>2. run' \in [Jobs -> Runs]
  <2>1. NoRun \in Runs /\ Over \in Runs
    BY DEF Over, NoRun, Runs, StepNames, BuildSteps, Sync
  <2> QED BY <2>1 DEF Boot
<1>3. TypeOK'
  BY <1>1, <1>2 DEF IInv, TypeOK
<1>4. RunningIsFollowed' /\ RecordOfStarted'
  BY <1>1 DEF RunningIsFollowed, RecordOfStarted, Has
<1> QED BY <1>3, <1>4 DEF IInv

LEMMA RefusedKeepsIInv ==
  ASSUME IInv, StartRefused
  PROVE  IInv'
<1>1. \A k \in Jobs : ~Has(jobs, k, "running")
  BY DEF StartRefused, IsRunning, IInv, RunningIsFollowed
<1>2. /\ running' = None /\ jobs' = jobs /\ run' = run /\ kind' = kind
      /\ nextJob' = nextJob /\ crashes' = crashes
  BY DEF StartRefused, Frame
<1> QED BY <1>1, <1>2 DEF IInv, TypeOK, RunningIsFollowed, RecordOfStarted, Has

LEMMA StepIInv == IInv /\ [Next]_vars => IInv'
<1> SUFFICES ASSUME IInv, [Next]_vars PROVE IInv'
  OBVIOUS
<1>1. CASE UNCHANGED vars
  BY <1>1 DEF vars, IInv, TypeOK, RunningIsFollowed, RecordOfStarted, Has
<1>2. CASE Crash
  BY <1>2, BootKeepsIInv, JobsAssumption DEF Crash, IInv, TypeOK
<1>3. ASSUME NEW j \in Jobs, Restarts(j) PROVE IInv'
  BY <1>3, BootKeepsIInv DEF Restarts, IInv, TypeOK
<1>4. ASSUME NEW j \in Jobs, RollbackEnds(j) PROVE IInv'
  BY <1>4, RollbackKeepsIInv
<1> QED BY <1>1, <1>2, <1>3, <1>4, StartKeepsIInv, CommandKeepsIInv, CancelKeepsIInv,
           RefusedKeepsIInv, Zenon DEF Next

(* The inductive invariant of the job runners.                             *)
THEOREM JobsInvariant == Spec => []IInv
<1>1. Init => IInv
  BY InitIInv
<1>2. IInv /\ [Next]_vars => IInv'
  BY StepIInv
<1> QED BY <1>1, <1>2, PTL DEF Spec

(* Every variable of the runners keeps its type.                           *)
THEOREM TypeCorrect == Spec => []TypeOK
<1>1. IInv => TypeOK
  BY DEF IInv
<1> QED BY <1>1, JobsInvariant, PTL

(* Whatever overtakes whatever: a job that is shown as running is the one  *)
(* the running record names, was not cancelled, and its run() is under way. *)
THEOREM RunningJobIsFollowed == Spec => []RunningIsFollowed
<1>1. IInv => RunningIsFollowed
  BY DEF IInv
<1> QED BY <1>1, JobsInvariant, PTL

-----------------------------------------------------------------------------
(* A step of one run() leaves the others where they are.                   *)
LEMMA OwnRunOnly ==
  ASSUME run \in [Jobs -> Runs], NEW j, NEW J, NEW R, NEW n, NEW status,
         Ends(j, status, J, R) \/ Fails(j, J, R) \/ GoesOn(j, J, R, n)
  PROVE  \A k \in Jobs \ {j} : run'[k] = run[k]
BY Zenon DEF Ends, Fails, GoesOn, Spawns

LEMMA CanceledStep ==
  ASSUME IInv, [Next]_vars, NEW j \in Jobs, running # None, running.job = j,
         running.canceled, run'[j].at \in {"command", "restart"}
  PROVE  run'[j].step = run[j].step
<1>1. run \in [Jobs -> Runs] /\ run[j] \in Runs
  BY DEF IInv, TypeOK
<1>2. CASE run'[j] = run[j]
  BY <1>2
<1>3. ASSUME NEW plan \in Plans, Start(plan) PROVE run'[j] = run[j]
  <2>1. j # nextJob
    BY DEF IInv, RecordOfStarted, Jobs
  <2>2. GoesOn(nextJob, Trimmed([jobs EXCEPT ![nextJob] = NewJob(plan)]),
               [job |-> nextJob, canceled |-> FALSE], 1)
    BY <1>3 DEF Start
  <2> QED BY <1>1, <2>1, <2>2, OwnRunOnly
<1>4. ASSUME StartRefused \/ Cancel \/ UNCHANGED vars
      PROVE  run'[j] = run[j]
  BY <1>4 DEF StartRefused, Cancel, vars
<1>5. ASSUME Boot PROVE FALSE
  BY <1>1, <1>5 DEF Boot, Over, NoRun
<1>6. ASSUME NEW i \in Jobs, RollbackEnds(i) PROVE run'[j] = run[j]
  <2>1. run' = [run EXCEPT ![i] = Over]
    BY <1>6 DEF RollbackEnds, Ends
  <2> QED BY <1>1, <2>1, RunsOver
<1>7. ASSUME NEW i \in Jobs, CommandOver(i) PROVE run'[j].step = run[j].step
  <2>1. CASE i # j
    BY <1>1, <1>7, <2>1, OwnRunOnly, Zenon
      DEF CommandOver, SpawnError, UiInstalled, Spawns, StepSucceeds, StepFails,
          StepCanceled, JobDropped
  <2>2. CASE i = j
    <3>1. IsCanceled(j)
      BY DEF IsCanceled
    <3>2. \/ Fails(j, jobs, running) \/ UiInstalled(j)
          \/ Ends(j, "canceled", Marked(jobs, j, {run[j].step}, "failed"), running)
      BY <1>7, <2>2, <3>1, Zenon
        DEF CommandOver, SpawnError, StepSucceeds, StepFails, StepCanceled, JobDropped
    <3>3. ASSUME UiInstalled(j) PROVE run'[j].step = run[j].step
      BY <1>1, <3>3 DEF UiInstalled, Spawns
    <3>4. ASSUME NEW J, NEW status, Ends(j, status, J, running) PROVE FALSE
      BY <1>1, <3>4, RunsOver DEF Ends
    <3>5. ASSUME Fails(j, jobs, running) PROVE FALSE
      <4>1. Spawns(j, "rollback", run[j].step, "git-reset")
        BY <3>4, <3>5 DEF Fails
      <4> QED BY <1>1, <4>1 DEF Spawns
    <3> QED BY <3>2, <3>3, <3>4, <3>5
  <2> QED BY <2>1, <2>2
<1> QED BY <1>2, <1>3, <1>4, <1>5, <1>6, <1>7, Zenon DEF Next, Crash, Restarts

(* A job that was cancelled starts no further step.                        *)
THEOREM CanceledJobsStartNothing == Spec => CanceledStartsNothing
<1>1. IInv /\ [Next]_vars =>
        [\A j \in Jobs :
           /\ running # None /\ running.job = j /\ running.canceled
           /\ run'[j].at \in {"command", "restart"}
           => run'[j].step = run[j].step]_vars
  BY CanceledStep
<1> QED BY <1>1, JobsInvariant, PTL DEF Spec, CanceledStartsNothing
===============================================================================
