------------------------------ MODULE Supervisor ------------------------------
(***************************************************************************)
(* The ProcessSupervisor of process/supervisor.ts and what drives it: the  *)
(* operator's calls (process/managed-lifecycle.ts, stale.ts), the start of *)
(* the manager (reconcile.ts), its shutdown (index.ts) and its crash.      *)
(*                                                                         *)
(* A child and the row of its run in the database are named by one number, *)
(* in the order of startedAt, but the child is spawned first and its row   *)
(* written next: a crash may fall between.  Children are detached: they    *)
(* survive the manager, and so do the rows.  The runtimes (status,         *)
(* forceKillTimer, exitWaiters) and the calls do not.                      *)
(*                                                                         *)
(* Node runs the "spawn" and "error" events of a new child, and the        *)
(* continuations of awaited exits, before any other event: every action    *)
(* that starts from an event of its own has the guard Quiet.               *)
(***************************************************************************)
EXTENDS Integers, FiniteSets, FiniteSetsExt

CONSTANTS
  Instances,
  Workers,   \* Workers[i]: the rpc workers of i on this node
  Calls,     \* lifecycle calls of operators and of the proxy
  MaxRuns,   \* bound: children spawned
  MaxBoots,  \* bound: starts of the manager
  None

Runs == 1..MaxRuns

ASSUME SupervisorAssumption ==
  /\ IsFiniteSet(Instances)
  /\ Workers \in [Instances -> SUBSET Instances]
  /\ MaxRuns \in Nat \ {0} /\ MaxBoots \in Nat \ {0}
  /\ None \notin Instances /\ None \notin Runs

VARIABLES
  manager,    \* "up", "closing" (its server), "stopping" (the children), "down"
  boots,
  instance,   \* the instance a run belongs to
  process,    \* what the operating system knows of the child
  familiar,   \* the command line of the child shows the binary it was started as
  row,        \* the status column; "none" never written, "deleted" gone
  recording,  \* the run that start() has spawned and not recorded yet
  runtime,    \* the status of the supervisor's RuntimeProcess, "none" without
  processes,  \* the supervisor's map: the run it holds for an instance
  killTimer,  \* forceKillTimer: unset, waiting, or fired and still set
  call,       \* the calls: operation, instance, where it stands, run it stops
  known,      \* the configured instances
  victims     \* the runs shutdownAll waits for

vars == <<manager, boots, instance, process, familiar, row, recording, runtime,
          processes, killTimer, call, known, victims>>

Idle == [op |-> "none", inst |-> None, at |-> "idle", run |-> None]

Terminal == {"exited", "error"}
OpenStatuses == {"starting", "running", "stopping", "stale"}

IsAlive(p) == process[p] \in {"alive", "killed"}
IsOpen(p) == row[p] \in OpenStatuses
HasRow(p) == row[p] \notin {"none", "deleted"}

(* Seeded fault: start() forgets that a run may be stopping.               *)
SupervisedUnlessStopping(i) ==
  processes[i] # None /\ runtime[processes[i]] \notin Terminal \cup {"stopping"}

(* The run of i that the supervisor holds and that has not ended.          *)
Supervised(i) == processes[i] # None /\ runtime[processes[i]] \notin Terminal

(* The status of an instance as toInstance() gives it to its peers: that   *)
(* of its runtime, else that of its latest row.                            *)
RowsOf(i) == {p \in Runs : instance[p] = i /\ HasRow(p)}

StatusOf(i) ==
  IF processes[i] # None THEN runtime[processes[i]]
  ELSE IF RowsOf(i) = {} THEN "stopped"
  ELSE row[Max(RowsOf(i))]

Orchestrators(w) ==
  {o \in Instances : w \in Workers[o] /\ StatusOf(o) \in {"starting", "running"}}

(* No start() is under way, no continuation due and no new child's first   *)
(* event.                                                                  *)
NoContinuation == recording = None /\ \A c \in Calls : call[c].at # "resumed"
Quiet ==
  /\ manager # "down"
  /\ NoContinuation
  /\ \A p \in Runs : runtime[p] # "starting"

-----------------------------------------------------------------------------
Init ==
  /\ manager = "up"
  /\ boots = 1
  /\ instance = [p \in Runs |-> None]
  /\ process = [p \in Runs |-> "none"]
  /\ familiar = [p \in Runs |-> FALSE]
  /\ row = [p \in Runs |-> "none"]
  /\ recording = None
  /\ runtime = [p \in Runs |-> "none"]
  /\ processes = [i \in Instances |-> None]
  /\ killTimer = [p \in Runs |-> "unset"]
  /\ call = [c \in Calls |-> Idle]
  /\ known = Instances
  /\ victims = {}

-----------------------------------------------------------------------------
(* What the supervisor's methods do to the runtimes and the rows.          *)

(* requestStop on the runs of S: the first request signals the child and   *)
(* says so in the row; a timer is set unless one was.                      *)
RuntimesStopping(S) == [p \in Runs |-> IF p \in S THEN "stopping" ELSE runtime[p]]
RowsStopping(S) ==
  [p \in Runs |-> IF p \in S /\ HasRow(p) THEN "stopping" ELSE row[p]]
TimersSet(S) ==
  [p \in Runs |-> IF p \in S /\ killTimer[p] = "unset" THEN "set" ELSE killTimer[p]]

RequestStop(S) ==
  /\ runtime' = RuntimesStopping(S)
  /\ row' = RowsStopping(S)
  /\ killTimer' = TimersSet(S)

(* The run supervisor.stop(i) stops, if any.                               *)
ToStop(i) == IF Supervised(i) THEN {processes[i]} ELSE {}

(* Seeded fault: all earlier rows of the instance are deleted.             *)
RowsWithOnlyNew(p, i) ==
  [q \in Runs |->
     IF q = p THEN "starting"
     ELSE IF instance[q] = i /\ HasRow(q) THEN "deleted" ELSE row[q]]

(* createProcessRun also deletes the closed rows of the instance.          *)
RowsWithNew(p, i) ==
  [q \in Runs |->
     IF q = p THEN "starting"
     ELSE IF instance[q] = i /\ row[q] \in Terminal THEN "deleted" ELSE row[q]]

NewRun == CHOOSE p \in Runs : instance[p] = None /\ \A q \in 1..(p - 1) : instance[q] # None

WorkersRun(i) ==
  \A w \in Workers[i] : processes[w] # None /\ runtime[processes[w]] = "running"

(* start: an instance that is starting, running or stopping is left alone, *)
(* one whose preflight fails or whose workers do not run is refused.  The  *)
(* operating system may fail to spawn the child.                           *)
Spawn(i) ==
  /\ ~Supervised(i) /\ WorkersRun(i)
  /\ instance[MaxRuns] = None
  /\ instance' = [instance EXCEPT ![NewRun] = i]
  /\ \E spawned \in {"alive", "failed"} : process' = [process EXCEPT ![NewRun] = spawned]
  /\ \E f \in BOOLEAN : familiar' = [familiar EXCEPT ![NewRun] = f]
  /\ recording' = NewRun

StartNow(i) ==
  /\ Spawn(i) \/ UNCHANGED <<instance, process, familiar, recording>>
  /\ UNCHANGED <<row, runtime, processes, killTimer>>

(* The rest of start: createProcessRun writes the row, and the supervisor  *)
(* holds the run.                                                          *)
Recorded ==
  /\ recording # None
  /\ row' = RowsWithNew(recording, instance[recording])
  /\ runtime' = [runtime EXCEPT ![recording] = "starting"]
  /\ processes' = [processes EXCEPT ![instance[recording]] = recording]
  /\ recording' = None
  /\ UNCHANGED <<manager, boots, instance, process, familiar, killTimer, call, known,
                 victims>>

(* The insert throws: the call is refused and the child left to itself.    *)
NotRecorded ==
  /\ recording # None
  /\ recording' = None
  /\ UNCHANGED <<manager, boots, instance, process, familiar, row, runtime, processes,
                 killTimer, call, known, victims>>

(* finalizeExit: the row is closed, the timer cleared, and the calls that  *)
(* await the exit go on.                                                   *)
FinalizeExit(p, status) ==
  /\ runtime' = [runtime EXCEPT ![p] = status]
  /\ row' = [row EXCEPT ![p] = IF HasRow(p) THEN status ELSE @]
  /\ killTimer' = [killTimer EXCEPT ![p] = "unset"]
  /\ call' = [c \in Calls |->
       IF call[c].at = "waiting" /\ call[c].run = p THEN [call[c] EXCEPT !.at = "resumed"]
       ELSE call[c]]

-----------------------------------------------------------------------------
(* Events of the children.                                                 *)

Spawned(p) ==
  /\ manager # "down" /\ NoContinuation
  /\ runtime[p] = "starting" /\ process[p] # "failed"
  /\ runtime' = [runtime EXCEPT ![p] = "running"]
  /\ row' = [row EXCEPT ![p] = "running"]
  /\ UNCHANGED <<manager, boots, instance, process, familiar, recording, processes,
                 killTimer, call, known, victims>>

SpawnError(p) ==
  /\ manager # "down" /\ NoContinuation
  /\ runtime[p] = "starting" /\ process[p] = "failed"
  /\ FinalizeExit(p, "error")
  /\ UNCHANGED <<manager, boots, instance, process, familiar, recording, processes,
                 known, victims>>

(* A child ends: of itself, because of SIGTERM, or surely of SIGKILL.      *)
Die(p) ==
  /\ IsAlive(p)
  /\ process' = [process EXCEPT ![p] = "dead"]
  /\ UNCHANGED <<manager, boots, instance, familiar, row, recording, runtime, processes,
                 killTimer, call, known, victims>>

(* Seeded fault: the run is closed with a status no run has.              *)
ExitSeenStopped(p) ==
  /\ Quiet
  /\ process[p] = "dead" /\ runtime[p] \in {"running", "stopping"}
  /\ FinalizeExit(p, "stopped")
  /\ UNCHANGED <<manager, boots, instance, process, familiar, recording, processes,
                 known, victims>>

(* The "exit" event, or the poll that finds an adopted child gone.         *)
ExitSeen(p) ==
  /\ Quiet
  /\ process[p] = "dead" /\ runtime[p] \in {"running", "stopping"}
  /\ FinalizeExit(p, IF runtime[p] = "stopping" THEN "exited" ELSE "error")
  /\ UNCHANGED <<manager, boots, instance, process, familiar, recording, processes,
                 known, victims>>

(* A SIGKILL; the process is gone when it is scheduled again.              *)
Killed(p) == [process EXCEPT ![p] = IF @ = "alive" THEN "killed" ELSE @]

(* Seeded fault: the timer does nothing once the run is stopping.          *)
ForceKillUnlessStopping(p) ==
  /\ Quiet
  /\ killTimer[p] = "set"
  /\ killTimer' = [killTimer EXCEPT ![p] = "fired"]
  /\ process' = IF runtime[p] # "stopping" THEN Killed(p) ELSE process
  /\ UNCHANGED <<manager, boots, instance, familiar, row, recording, runtime, processes,
                 call, known, victims>>

ForceKill(p) ==
  /\ Quiet
  /\ killTimer[p] = "set"
  /\ killTimer' = [killTimer EXCEPT ![p] = "fired"]
  /\ process' = IF runtime[p] = "stopping" THEN Killed(p) ELSE process
  /\ UNCHANGED <<manager, boots, instance, familiar, row, recording, runtime, processes,
                 call, known, victims>>

-----------------------------------------------------------------------------
(* The lifecycle calls.                                                    *)

Ends(c) == call' = [call EXCEPT ![c] = Idle]

Goes(c, op, i, at, p) ==
  call' = [call EXCEPT ![c] = [op |-> op, inst |-> i, at |-> at, run |-> p]]

CanCall(c) == manager = "up" /\ Quiet /\ call[c].at = "idle"

(* liveStaleProcessRun: the latest of the stale runs that still live.      *)
LiveStale(i) == {p \in Runs : instance[p] = i /\ row[p] = "stale" /\ IsAlive(p)}

(* stopStaleProcess signals the process and marks its row.                 *)
StaleRow(rows, i) == [rows EXCEPT ![Max(LiveStale(i))] = "stopping"]

(* assertWorkerNotReferenced                                               *)
MayStop(i, force) == force \/ Orchestrators(i) = {}

(* The start preflight looks at the peers as they are now, then awaits a   *)
(* look at the port.                                                       *)
WorkersReady(i) ==
  \A w \in Workers[i] : StatusOf(w) = "running" /\ Orchestrators(w) \subseteq {i}

StartCall(c, i) ==
  /\ CanCall(c) /\ i \in known
  /\ LiveStale(i) = {} /\ WorkersReady(i)
  /\ Goes(c, "start", i, "checking", None)
  /\ UNCHANGED <<manager, boots, instance, process, familiar, row, recording, runtime,
                 processes, killTimer, known, victims>>

(* The port was found free, or taken, which refuses the start as well.     *)
StartChecked(c) ==
  /\ Quiet /\ call[c].at = "checking"
  /\ StartNow(call[c].inst)
  /\ Ends(c)
  /\ UNCHANGED <<manager, boots, known, victims>>

(* stopManagedInstance: the supervisor's run, else a stale process.        *)
StopCall(c, i, force) ==
  /\ CanCall(c) /\ MayStop(i, force)
  /\ \/ /\ processes[i] # None
        /\ RequestStop(ToStop(i))
        /\ UNCHANGED call
     \/ /\ processes[i] = None /\ LiveStale(i) # {}
        /\ row' = StaleRow(row, i)
        /\ Goes(c, "stop", i, "staleTerm", Max(LiveStale(i)))
        /\ UNCHANGED <<runtime, killTimer>>
  /\ UNCHANGED <<manager, boots, instance, process, familiar, recording, processes,
                 known, victims>>

(* restartManagedInstance: a stale process is stopped first, else the      *)
(* supervisor stops its run and waits for its exit.                        *)
RestartCall(c, i, force) ==
  /\ CanCall(c) /\ i \in known /\ MayStop(i, force)
  /\ IF LiveStale(i) # {}
     THEN /\ row' = StaleRow(row, i)
          /\ Goes(c, "restart", i, "staleTerm", Max(LiveStale(i)))
          /\ UNCHANGED <<instance, process, familiar, recording, runtime, processes,
                         killTimer>>
     ELSE IF Supervised(i)
     THEN /\ RequestStop({processes[i]})
          /\ Goes(c, "restart", i, "waiting", processes[i])
          /\ UNCHANGED <<instance, process, familiar, recording, processes>>
     ELSE StartNow(i) /\ UNCHANGED call
  /\ UNCHANGED <<manager, boots, known, victims>>

(* waitForExit is resolved by the exit, or after its time limit.           *)
RestartGoesOn(c) ==
  /\ manager # "down" /\ recording = None
  /\ call[c].at = "resumed" \/ (call[c].at = "waiting" /\ Quiet)
  /\ StartNow(call[c].inst)
  /\ Ends(c)
  /\ UNCHANGED <<manager, boots, known, victims>>

(* DELETE /api/instances/:id: the run is stopped but not awaited, a stale  *)
(* process is; then the instance goes, and with it its rows.               *)
RowsWithout(rows, i) ==
  [p \in Runs |-> IF instance[p] = i /\ HasRow(p) THEN "deleted" ELSE rows[p]]

DeleteCall(c, i) ==
  /\ CanCall(c) /\ i \in known
  /\ runtime' = RuntimesStopping(ToStop(i))
  /\ killTimer' = TimersSet(ToStop(i))
  /\ IF LiveStale(i) # {}
     THEN /\ row' = StaleRow(RowsStopping(ToStop(i)), i)
          /\ Goes(c, "delete", i, "staleTerm", Max(LiveStale(i)))
          /\ UNCHANGED known
     ELSE /\ row' = RowsWithout(row, i)
          /\ known' = known \ {i}
          /\ UNCHANGED call
  /\ UNCHANGED <<manager, boots, instance, process, familiar, recording, processes,
                 victims>>

(* stopStaleProcess finds the process gone.                                *)
StaleGone(c) ==
  /\ Quiet
  /\ call[c].at \in {"staleTerm", "staleKill"} /\ process[call[c].run] = "dead"
  /\ LET closed == [row EXCEPT ![call[c].run] = IF HasRow(call[c].run) THEN "exited" ELSE @]
     IN IF call[c].op = "delete"
        THEN row' = RowsWithout(closed, call[c].inst) /\ known' = known \ {call[c].inst}
        ELSE row' = closed /\ UNCHANGED known
  /\ IF call[c].op = "restart" /\ WorkersReady(call[c].inst)
     THEN Goes(c, "restart", call[c].inst, "checking", None)
     ELSE Ends(c)
  /\ UNCHANGED <<manager, boots, instance, process, familiar, recording, runtime,
                 processes, killTimer, victims>>

(* Its first wait is over: SIGKILL; its second: the row is stale again.    *)
StaleKill(c) ==
  /\ Quiet
  /\ call[c].at = "staleTerm"
  /\ process' = Killed(call[c].run)
  /\ call' = [call EXCEPT ![c].at = "staleKill"]
  /\ UNCHANGED <<manager, boots, instance, familiar, row, recording, runtime, processes,
                 killTimer, known, victims>>

StaleGivesUp(c) ==
  /\ Quiet
  /\ call[c].at = "staleKill" /\ IsAlive(call[c].run)
  /\ row' = [row EXCEPT ![call[c].run] = IF HasRow(call[c].run) THEN "stale" ELSE @]
  /\ Ends(c)
  /\ UNCHANGED <<manager, boots, instance, process, familiar, recording, runtime,
                 processes, killTimer, known, victims>>

-----------------------------------------------------------------------------
(* The manager itself.                                                     *)

(* SIGINT or SIGTERM: the server is closed first, calls that run go on.    *)
ShutdownBegins ==
  /\ manager = "up" /\ Quiet
  /\ manager' = "closing"
  /\ UNCHANGED <<boots, instance, process, familiar, row, recording, runtime, processes,
                 killTimer, call, known, victims>>

(* shutdownAll takes the runs there are now.                               *)
ShutdownAll ==
  /\ manager = "closing" /\ Quiet
  /\ manager' = "stopping"
  /\ victims' = UNION {ToStop(i) : i \in Instances}
  /\ RequestStop(victims')
  /\ UNCHANGED <<boots, instance, process, familiar, recording, processes, call, known>>

(* The wait for one of them ran into its limit, and then into its second.  *)
ShutdownKill(p) ==
  /\ manager = "stopping" /\ Quiet
  /\ p \in victims /\ runtime[p] = "stopping" /\ process[p] = "alive"
  /\ process' = Killed(p)
  /\ UNCHANGED <<manager, boots, instance, familiar, row, recording, runtime, processes,
                 killTimer, call, known, victims>>

ShutdownGivesUp(p) ==
  /\ manager = "stopping" /\ Quiet
  /\ p \in victims /\ runtime[p] = "stopping" /\ process[p] # "alive"
  /\ victims' = victims \ {p}
  /\ UNCHANGED <<manager, boots, instance, process, familiar, row, recording, runtime,
                 processes, killTimer, call, known>>

(* What the manager keeps in memory is lost.                               *)
Forgets ==
  /\ manager' = "down"
  /\ runtime' = [p \in Runs |-> "none"]
  /\ processes' = [i \in Instances |-> None]
  /\ killTimer' = [p \in Runs |-> "unset"]
  /\ call' = [c \in Calls |-> Idle]
  /\ victims' = {}
  /\ recording' = None
  /\ UNCHANGED <<boots, instance, process, familiar, row, known>>

ShutdownEnds ==
  /\ manager = "stopping" /\ NoContinuation
  /\ \A p \in victims : runtime[p] \in Terminal
  /\ Forgets

(* A crash at any moment, or an exit with stopManagedOnExit unset.         *)
Crash == manager # "down" /\ Forgets

(* reconcileProcessRuns, before the manager serves: an open run whose      *)
(* process is gone is closed; one whose command line shows its binary is   *)
(* adopted, the latest first; any other is stale.                          *)
Adoptable(p) == IsOpen(p) /\ IsAlive(p) /\ familiar[p] /\ instance[p] \in known

Adopted(i) ==
  LET runs == {p \in Runs : instance[p] = i /\ Adoptable(p)}
  IN IF runs = {} THEN None ELSE Max(runs)

Boot ==
  /\ manager = "down" /\ boots < MaxBoots
  /\ manager' = "up"
  /\ boots' = boots + 1
  /\ processes' = [i \in Instances |-> Adopted(i)]
  /\ runtime' = [p \in Runs |->
       IF \E i \in Instances : Adopted(i) = p THEN "running" ELSE "none"]
  /\ row' = [p \in Runs |->
       IF ~IsOpen(p) THEN row[p]
       ELSE IF ~IsAlive(p) THEN "exited"
       ELSE IF ~Adoptable(p) THEN "stale"
       ELSE IF Adopted(instance[p]) = p THEN "running" ELSE row[p]]
  /\ UNCHANGED <<instance, process, familiar, recording, killTimer, call, known,
                 victims>>

-----------------------------------------------------------------------------
Next ==
  \/ \E p \in Runs :
       \/ Spawned(p) \/ SpawnError(p) \/ Die(p) \/ ExitSeen(p) \/ ForceKill(p)
       \/ ShutdownKill(p) \/ ShutdownGivesUp(p)
  \/ \E c \in Calls, i \in Instances :
       \/ StartCall(c, i) \/ DeleteCall(c, i)
       \/ \E force \in BOOLEAN : StopCall(c, i, force) \/ RestartCall(c, i, force)
  \/ \E c \in Calls :
       \/ StartChecked(c) \/ RestartGoesOn(c)
       \/ StaleGone(c) \/ StaleKill(c) \/ StaleGivesUp(c)
  \/ Recorded \/ NotRecorded
  \/ ShutdownBegins \/ ShutdownAll \/ ShutdownEnds \/ Crash \/ Boot

Spec == Init /\ [][Next]_vars

(* Timers fire, continuations and events are run, calls go on, and a child *)
(* that was sent SIGKILL dies: the weak fairness of each, stated on the    *)
(* states, for each of these steps ends what enables it.  Nothing is       *)
(* assumed of SIGTERM, of the operator or of crashes.                      *)
Fairness ==
  /\ []<>(recording = None)
  /\ \A p \in Runs :
       /\ []<>(runtime[p] # "starting")
       /\ []<>(process[p] # "killed")
       /\ []<>~(Quiet /\ process[p] = "dead" /\ runtime[p] \in {"running", "stopping"})
       /\ []<>~(Quiet /\ killTimer[p] = "set")
  /\ \A c \in Calls : []<>(call[c].at = "idle" \/ ~(Quiet \/ call[c].at = "resumed"))

FairSpec == Spec /\ Fairness

-----------------------------------------------------------------------------
(* Properties.                                                             *)

(* Every variable holds a value of its type: a run is closed as exited or  *)
(* as an error, whatever ends it.                                          *)
TypeOK ==
  /\ manager \in {"up", "closing", "stopping", "down"}
  /\ boots \in 1..MaxBoots
  /\ instance \in [Runs -> Instances \cup {None}]
  /\ process \in [Runs -> {"none", "failed", "alive", "killed", "dead"}]
  /\ familiar \in [Runs -> BOOLEAN]
  /\ row \in [Runs -> OpenStatuses \cup Terminal \cup {"none", "deleted"}]
  /\ recording \in Runs \cup {None}
  /\ runtime \in [Runs -> {"none", "starting", "running", "stopping"} \cup Terminal]
  /\ processes \in [Instances -> Runs \cup {None}]
  /\ killTimer \in [Runs -> {"unset", "set", "fired"}]
  /\ call \in [Calls ->
       [op : {"none", "start", "stop", "restart", "delete"},
        inst : Instances \cup {None}, run : Runs \cup {None},
        at : {"idle", "checking", "waiting", "resumed", "staleTerm", "staleKill"}]]
  /\ known \subseteq Instances
  /\ victims \subseteq Runs

(* docs/SELF_UPDATE.md: detached children survive a restart of the manager *)
(* "and are re-adopted".  The code keeps that for the children it has      *)
(* recorded: until its instance is deleted, the row of such a live child   *)
(* is open, and the child is what the supervisor holds for its instance,   *)
(* or stale, or being stopped as stale, whatever the order of calls,       *)
(* exits, crashes and starts of the manager.  A child without a row is one *)
(* whose start() crashed, or failed, after the spawn and before the        *)
(* insert: nobody finds it again.                                          *)
InHand(p) ==
  \/ processes[instance[p]] = p /\ runtime[p] \notin Terminal
  \/ row[p] = "stale"
  \/ \E c \in Calls : call[c].run = p /\ call[c].at \in {"staleTerm", "staleKill"}

NoRecordedChildIsLost ==
  \A p \in Runs : IsAlive(p) /\ row[p] # "none" =>
    \/ instance[p] \notin known
    \/ IsOpen(p) /\ (manager # "down" => InHand(p))

(* Two live children of one instance: at most one of them was spawned or   *)
(* adopted in this life of the manager; the other is stale, or unrecorded. *)
OneSupervisedChild ==
  manager # "down" =>
    \A p, q \in Runs : p < q /\ IsAlive(p) /\ IsAlive(q) /\ instance[p] = instance[q] =>
      runtime[p] = "none" \/ runtime[q] = "none"

(* A requested stop ends: with the exit of the child, or the manager's.    *)
StopsEnd == \A p \in Runs : runtime[p] = "stopping" ~> runtime[p] # "stopping"
=============================================================================
