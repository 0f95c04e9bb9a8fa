--------------------------- MODULE SupervisorProofs ---------------------------
(***************************************************************************)
(* No child is lost and none is supervised twice, for every number of      *)
(* instances, calls, children and starts of the manager.                   *)
(***************************************************************************)
EXTENDS Supervisor, WellFoundedInduction, TLAPS

Followed == {"starting", "running", "stopping"}
StaleSteps == {"staleTerm", "staleKill"}

CallRecords ==
  [op : {"none", "start", "stop", "restart", "delete"},
   inst : Instances \cup {None}, run : Runs \cup {None},
   at : {"idle", "checking", "waiting", "resumed", "staleTerm", "staleKill"}]

(* A number without a child has no row and no runtime.                     *)
UnspawnedIsBlank ==
  \A p \in Runs : instance[p] = None =>
    process[p] = "none" /\ row[p] = "none" /\ runtime[p] = "none"

(* The map holds a run under its own instance.                             *)
HeldIsOwn == \A i \in Instances : processes[i] # None => instance[processes[i]] = i

(* A runtime that has not ended is the one the map holds.                  *)
FollowedIsHeld ==
  \A p \in Runs : runtime[p] \in Followed => processes[instance[p]] = p

(* A runtime ends with its child.                                          *)
EndedIsGone == \A p \in Runs : runtime[p] \in Terminal => ~IsAlive(p)

(* Without a manager, nothing is held and nobody calls.                    *)
DownIsEmpty ==
  manager = "down" =>
    /\ \A p \in Runs : runtime[p] = "none"
    /\ \A i \in Instances : processes[i] = None
    /\ \A c \in Calls : call[c] = Idle

CallsHaveInstances ==
  \A c \in Calls : call[c].at # "idle" => call[c].inst \in Instances

(* Unless its instance is gone, what is or is being stopped as stale does  *)
(* not show its binary, and will not be adopted.                           *)
StaleCallsOfStrangers ==
  \A c \in Calls : call[c].at \in StaleSteps =>
    /\ call[c].run \in Runs /\ instance[call[c].run] = call[c].inst
    /\ call[c].inst \notin known \/ ~familiar[call[c].run]

StaleRowsOfStrangers ==
  \A p \in Runs : row[p] = "stale" => instance[p] \notin known \/ ~familiar[p]

(* A manager that starts again finds one child to adopt at most.           *)
OneFamiliar ==
  \A p, q \in Runs :
    p # q /\ IsAlive(p) /\ IsAlive(q) /\ row[p] # "none" /\ row[q] # "none"
    /\ instance[p] = instance[q] /\ instance[p] \in known
      => ~(familiar[p] /\ familiar[q])

(* A child that was never recorded is unknown to the supervisor.           *)
UnrecordedIsUnheld ==
  \A p \in Runs : row[p] = "none" =>
    runtime[p] = "none" /\ \A i \in Instances : processes[i] # p

(* Between the spawn and the record nothing else is started.               *)
RecordingIsAlone ==
  recording # None =>
    /\ manager # "down" /\ row[recording] = "none"
    /\ instance[recording] \in Instances /\ ~Supervised(instance[recording])

Runtimes == UnspawnedIsBlank /\ HeldIsOwn /\ FollowedIsHeld /\ EndedIsGone /\ DownIsEmpty
Strangers == CallsHaveInstances /\ StaleCallsOfStrangers /\ StaleRowsOfStrangers

Recordings == UnrecordedIsUnheld /\ RecordingIsAlone

IInv ==
  TypeOK /\ Runtimes /\ Strangers /\ OneFamiliar /\ NoRecordedChildIsLost /\ Recordings

-----------------------------------------------------------------------------
(* A nonempty set of natural numbers has a least element.                  *)
LEMMA LeastNat ==
  ASSUME NEW T \in SUBSET Nat, T # {}
  PROVE  \E x \in T : \A y \in T : x <= y
<1> DEFINE less == OpToRel(<, Nat)
<1>1. \A x, y \in Nat : <<y, x>> \in less <=> y < x
  BY DEF OpToRel
<1>2. IsWellFoundedOn(less, Nat)
  BY NatLessThanWellFounded
<1> HIDE DEF less
<1>3. PICK x \in T : \A y \in T : <<y, x>> \notin less
  BY <1>2, WFMin
<1>4. \A y \in T : ~(y < x)
  BY <1>1, <1>3
<1> QED BY <1>4

(* The latest of some runs, and the number of the next one.                *)
LEMMA LatestRun ==
  ASSUME NEW S \in SUBSET Runs, S # {}
  PROVE  Max(S) \in S /\ \A p \in S : Max(S) >= p
<1> DEFINE T == {MaxRuns - p : p \in S}
<1>1. MaxRuns \in Nat
  BY SupervisorAssumption
<1>2. \A p \in S : MaxRuns - p \in Nat
  BY <1>1 DEF Runs
<1>3. T \in SUBSET Nat /\ T # {}
  BY <1>2
<1> HIDE DEF T
<1>4. PICK x \in T : \A y \in T : x <= y
  BY <1>3, LeastNat
<1>5. PICK p \in S : x = MaxRuns - p
  BY <1>4 DEF T
<1>6. \A q \in S : p >= q
  <2> SUFFICES ASSUME NEW q \in S PROVE p >= q
    OBVIOUS
  <2>1. x <= MaxRuns - q
    BY <1>4 DEF T
  <2> QED BY <2>1, <1>1, <1>5 DEF Runs
<1> QED BY <1>6 DEF Max

LEMMA NewRunIsFree ==
  ASSUME TypeOK, instance[MaxRuns] = None
  PROVE  NewRun \in Runs /\ instance[NewRun] = None
<1> DEFINE T == {p \in Runs : instance[p] = None}
<1>1. MaxRuns \in T /\ T \in SUBSET Nat
  BY SupervisorAssumption DEF Runs
<1> HIDE DEF T
<1>2. PICK p \in T : \A q \in T : p <= q
  BY <1>1, LeastNat
<1>3. p \in Runs /\ instance[p] = None
  BY <1>2 DEF T
<1>4. \A q \in 1..(p - 1) : instance[q] # None
  <2> SUFFICES ASSUME NEW q \in 1..(p - 1), instance[q] = None PROVE FALSE
    OBVIOUS
  <2>1. q \in Runs /\ q < p
    BY <1>3, SupervisorAssumption DEF Runs
  <2> QED BY <1>2, <2>1, <1>3 DEF T, Runs
<1> QED BY <1>3, <1>4 DEF NewRun

LEMMA LiveStaleRuns ==
  ASSUME NEW i \in Instances, LiveStale(i) # {}
  PROVE  /\ Max(LiveStale(i)) \in Runs
         /\ instance[Max(LiveStale(i))] = i
         /\ row[Max(LiveStale(i))] = "stale"
         /\ IsAlive(Max(LiveStale(i)))
  BY LatestRun DEF LiveStale

LEMMA AdoptedRuns ==
  ASSUME NEW i \in Instances
  PROVE  /\ Adopted(i) \in Runs \cup {None}
         /\ Adopted(i) # None => instance[Adopted(i)] = i /\ Adoptable(Adopted(i))
         /\ \A p \in Runs : instance[p] = i /\ Adoptable(p) => Adopted(i) # None
<1> DEFINE runs == {p \in Runs : instance[p] = i /\ Adoptable(p)}
<1>1. CASE runs = {}
  BY <1>1 DEF Adopted
<1>2. CASE runs # {}
  <2>1. Adopted(i) = Max(runs)
    BY <1>2 DEF Adopted
  <2>2. Max(runs) \in runs
    BY <1>2, LatestRun
  <2> QED BY <2>1, <2>2, SupervisorAssumption
<1> QED BY <1>1, <1>2

-----------------------------------------------------------------------------
(* Calls that end, or go on without a stale process.                       *)
CallsGoOn ==
  /\ call' \in [Calls -> CallRecords]
  /\ \A c \in Calls :
       \/ call'[c] = call[c]
       \/ /\ call[c].at \notin StaleSteps /\ call'[c].at \notin StaleSteps
          /\ call'[c].at # "idle" => call'[c].inst \in Instances

LEMMA EndsGoesOn ==
  ASSUME TypeOK, NEW c \in Calls, call[c].at \notin StaleSteps, Ends(c)
  PROVE  CallsGoOn
<1>1. Idle \in CallRecords /\ Idle.at = "idle"
  BY DEF Idle, CallRecords
<1>2. call \in [Calls -> CallRecords]
  BY DEF TypeOK, CallRecords
<1> QED BY <1>1, <1>2 DEF Ends, CallsGoOn, StaleSteps

LEMMA GoesGoesOn ==
  ASSUME TypeOK, NEW c \in Calls, call[c].at \notin StaleSteps,
         NEW op \in {"start", "restart"}, NEW i \in Instances,
         NEW at \in {"checking", "waiting"}, NEW p \in Runs \cup {None},
         Goes(c, op, i, at, p)
  PROVE  CallsGoOn
<1> DEFINE r == [op |-> op, inst |-> i, at |-> at, run |-> p]
<1>1. r \in CallRecords /\ r.at \notin StaleSteps /\ r.inst = i
  BY DEF CallRecords, StaleSteps
<1>2. call \in [Calls -> CallRecords]
  BY DEF TypeOK, CallRecords
<1>3. call' = [call EXCEPT ![c] = r]
  BY Zenon DEF Goes
<1> HIDE DEF r
<1> QED BY <1>1, <1>2, <1>3 DEF CallsGoOn

LEMMA SameCallsGoOn ==
  ASSUME TypeOK, UNCHANGED call
  PROVE  CallsGoOn
  BY DEF TypeOK, CallRecords, CallsGoOn

-----------------------------------------------------------------------------
(* Most steps write no first row and start no child.                       *)
LEMMA RecordingsKept ==
  ASSUME IInv, recording' = None, processes' = processes,
         \A p \in Runs : row'[p] = "none" => row[p] = "none",
         \A p \in Runs : row[p] = "none" => runtime'[p] = runtime[p]
  PROVE  Recordings'
  BY DEF IInv, Recordings, UnrecordedIsUnheld, RecordingIsAlone

-----------------------------------------------------------------------------
(* A child is spawned, or the start comes to nothing.                      *)
LEMMA SpawnKeepsIInv ==
  ASSUME IInv, NEW i \in Instances, Spawn(i), CallsGoOn, manager # "down",
         UNCHANGED <<manager, boots, row, runtime, processes, killTimer, known, victims>>
  PROVE  IInv'
<1> DEFINE n == NewRun
<1> USE SupervisorAssumption
<1>1. n \in Runs /\ instance[n] = None
  BY NewRunIsFree DEF IInv, Spawn
<1>2. PICK s \in {"alive", "failed"} : process' = [process EXCEPT ![n] = s]
  BY DEF Spawn
<1>3. PICK f \in BOOLEAN : familiar' = [familiar EXCEPT ![n] = f]
  BY DEF Spawn
<1>4. instance' = [instance EXCEPT ![n] = i] /\ recording' = n /\ ~Supervised(i)
  BY DEF Spawn
<1> HIDE DEF n
<1>5. TypeOK'
  BY <1>1, <1>2, <1>3, <1>4 DEF IInv, TypeOK, CallsGoOn, CallRecords
<1>6. \A p \in Runs \ {n} : /\ instance'[p] = instance[p] /\ process'[p] = process[p]
                            /\ familiar'[p] = familiar[p]
  BY <1>1, <1>2, <1>3, <1>4 DEF IInv, TypeOK
<1>7. row[n] = "none" /\ runtime[n] = "none" /\ instance'[n] = i
  BY <1>1, <1>4 DEF IInv, Runtimes, UnspawnedIsBlank, TypeOK
<1>8. Runtimes'
  <2>1. UnspawnedIsBlank'
    BY <1>6, <1>7 DEF IInv, Runtimes, UnspawnedIsBlank
  <2>2. HeldIsOwn'
    BY <1>1, <1>6, <1>7 DEF IInv, Runtimes, HeldIsOwn, TypeOK
  <2>3. FollowedIsHeld'
    BY <1>6, <1>7 DEF IInv, Runtimes, FollowedIsHeld, Followed
  <2>4. EndedIsGone'
    BY <1>6, <1>7 DEF IInv, Runtimes, EndedIsGone, IsAlive, Terminal
  <2>5. DownIsEmpty'
    BY DEF DownIsEmpty
  <2> QED BY <2>1, <2>2, <2>3, <2>4, <2>5 DEF Runtimes
<1>9. Strangers'
  <2>1. CallsHaveInstances'
    BY DEF CallsGoOn, IInv, Strangers, CallsHaveInstances
  <2>2. StaleCallsOfStrangers'
    <3> SUFFICES ASSUME NEW c \in Calls, call'[c].at \in StaleSteps
                 PROVE  /\ call'[c].run \in Runs /\ instance'[call'[c].run] = call'[c].inst
                        /\ call'[c].inst \notin known' \/ ~familiar'[call'[c].run]
      BY DEF StaleCallsOfStrangers
    <3>1. call'[c] = call[c]
      BY DEF CallsGoOn
    <3>2. /\ call[c].run \in Runs /\ instance[call[c].run] = call[c].inst
          /\ call[c].inst \notin known \/ ~familiar[call[c].run]
      BY <3>1 DEF IInv, Strangers, StaleCallsOfStrangers
    <3>3. call[c].inst \in Instances
      BY <3>1 DEF IInv, Strangers, CallsHaveInstances, StaleSteps
    <3>4. call[c].run # n
      BY <1>1, <3>2, <3>3
    <3> QED BY <3>1, <3>2, <3>4, <1>6
  <2>3. StaleRowsOfStrangers'
    BY <1>6, <1>7 DEF IInv, Strangers, StaleRowsOfStrangers
  <2> QED BY <2>1, <2>2, <2>3 DEF Strangers
<1>10. OneFamiliar'
  BY <1>6, <1>7 DEF IInv, OneFamiliar, IsAlive
<1>11. NoRecordedChildIsLost'
  <2> SUFFICES ASSUME NEW p \in Runs, IsAlive(p)', row[p] # "none", instance'[p] \in known
               PROVE  IsOpen(p) /\ InHand(p)'
    BY DEF NoRecordedChildIsLost, IsOpen
  <2>1. p # n
    BY <1>7
  <2>2. IsAlive(p) /\ instance'[p] = instance[p]
    BY <2>1, <1>6 DEF IsAlive
  <2>3. IsOpen(p) /\ InHand(p)
    BY <2>2 DEF IInv, NoRecordedChildIsLost
  <2> QED BY <2>2, <2>3 DEF InHand, CallsGoOn, StaleSteps
<1>12. Recordings'
  <2>1. UnrecordedIsUnheld'
    BY DEF IInv, Recordings, UnrecordedIsUnheld
  <2>2. ~Supervised(i)'
    BY <1>4 DEF Supervised
  <2>3. RecordingIsAlone'
    BY <1>4, <1>7, <2>2 DEF RecordingIsAlone
  <2> QED BY <2>1, <2>3 DEF Recordings
<1> QED BY <1>5, <1>8, <1>9, <1>10, <1>11, <1>12 DEF IInv

(* The spawned child is recorded, and its instance's closed rows go.       *)
LEMMA RecordedKeepsIInv ==
  ASSUME IInv, Recorded
  PROVE  IInv'
<1> DEFINE n == recording
           i == instance[recording]
<1> USE SupervisorAssumption
<1>1. n \in Runs /\ i \in Instances /\ row[n] = "none" /\ manager # "down" /\ instance[n] = i
  BY DEF Recorded, IInv, TypeOK, Recordings, RecordingIsAlone
<1>2. runtime[n] = "none" /\ \A j \in Instances : processes[j] # n
  BY <1>1 DEF IInv, Recordings, UnrecordedIsUnheld
<1>3. /\ row' = RowsWithNew(n, i)
      /\ runtime' = [runtime EXCEPT ![n] = "starting"]
      /\ processes' = [processes EXCEPT ![i] = n]
      /\ recording' = None
      /\ UNCHANGED <<manager, boots, instance, process, familiar, killTimer, call, known,
                     victims>>
  BY DEF Recorded
<1>4. ~Supervised(i)
  BY <1>1 DEF IInv, Recordings, RecordingIsAlone, Recorded
<1> HIDE DEF n, i
<1>5. TypeOK'
  <2>1. row' \in [Runs -> OpenStatuses \cup Terminal \cup {"none", "deleted"}]
    BY <1>3 DEF RowsWithNew, IInv, TypeOK, OpenStatuses
  <2> QED BY <1>1, <1>3, <2>1 DEF IInv, TypeOK
<1>6. \A p \in Runs \ {n} :
        /\ runtime'[p] = runtime[p]
        /\ row'[p] = IF instance[p] = i /\ row[p] \in Terminal THEN "deleted" ELSE row[p]
  BY <1>1, <1>3 DEF RowsWithNew, IInv, TypeOK
<1>7. /\ runtime'[n] = "starting" /\ row'[n] = "starting"
      /\ processes'[i] = n /\ \A j \in Instances \ {i} : processes'[j] = processes[j]
  BY <1>1, <1>3 DEF RowsWithNew, IInv, TypeOK
<1>8. \A p \in Runs : instance[p] = i /\ runtime[p] # "none" => runtime[p] \in Terminal
  BY <1>1, <1>4 DEF IInv, Runtimes, FollowedIsHeld, Followed, Supervised, TypeOK
<1>9. Runtimes'
  <2>1. UnspawnedIsBlank'
    BY <1>1, <1>3, <1>6 DEF IInv, Runtimes, UnspawnedIsBlank, Terminal
  <2>2. HeldIsOwn'
    BY <1>1, <1>3, <1>7 DEF IInv, Runtimes, HeldIsOwn
  <2>3. FollowedIsHeld'
    BY <1>1, <1>3, <1>6, <1>7, <1>8
    DEF IInv, Runtimes, FollowedIsHeld, UnspawnedIsBlank, Followed, Terminal, TypeOK
  <2>4. EndedIsGone'
    BY <1>3, <1>6, <1>7 DEF IInv, Runtimes, EndedIsGone, IsAlive, Terminal
  <2>5. DownIsEmpty'
    BY <1>1, <1>3 DEF DownIsEmpty
  <2> QED BY <2>1, <2>2, <2>3, <2>4, <2>5 DEF Runtimes
<1>10. Strangers'
  <2>1. CallsHaveInstances' /\ StaleCallsOfStrangers'
    BY <1>3 DEF IInv, Strangers, CallsHaveInstances, StaleCallsOfStrangers
  <2>2. StaleRowsOfStrangers'
    BY <1>3, <1>6, <1>7 DEF IInv, Strangers, StaleRowsOfStrangers
  <2> QED BY <2>1, <2>2 DEF Strangers
<1>11. \A p \in Runs : IsAlive(p) /\ row[p] # "none" /\ instance[p] = i /\ i \in known
                      => ~familiar[p]
  <2> SUFFICES ASSUME NEW p \in Runs, IsAlive(p), row[p] # "none", instance[p] = i, i \in known
               PROVE  ~familiar[p]
    OBVIOUS
  <2>1. runtime[p] \notin Terminal
    BY DEF IInv, Runtimes, EndedIsGone
  <2>2. InHand(p)
    BY <1>1 DEF IInv, NoRecordedChildIsLost
  <2>3. processes[i] # p
    BY <2>1, <1>1, <1>4, SupervisorAssumption DEF Supervised
  <2>4. CASE row[p] = "stale"
    BY <2>4 DEF IInv, Strangers, StaleRowsOfStrangers
  <2>5. CASE \E c \in Calls : call[c].run = p /\ call[c].at \in StaleSteps
    BY <2>5 DEF IInv, Strangers, StaleCallsOfStrangers
  <2> QED BY <2>2, <2>3, <2>4, <2>5 DEF InHand, StaleSteps
<1>12. OneFamiliar'
  <2>1. \A p \in Runs : IsAlive(p)' <=> IsAlive(p)
    BY <1>3 DEF IsAlive
  <2>2. \A p \in Runs \ {n} : row'[p] # "none" => row[p] # "none"
    BY <1>6 DEF Terminal
  <2> QED BY <1>1, <1>3, <1>11, <2>1, <2>2 DEF IInv, OneFamiliar
<1>13. NoRecordedChildIsLost'
  <2> SUFFICES ASSUME NEW p \in Runs, IsAlive(p), row'[p] # "none", instance[p] \in known
               PROVE  IsOpen(p)' /\ InHand(p)'
    BY <1>3 DEF NoRecordedChildIsLost, IsAlive
  <2>1. CASE p = n
    BY <2>1, <1>1, <1>3, <1>7 DEF IsOpen, OpenStatuses, InHand, Terminal
  <2>2. CASE p # n
    <3>1. row[p] # "none"
      BY <2>2, <1>6 DEF Terminal
    <3>2. IsOpen(p) /\ InHand(p)
      BY <1>1, <3>1 DEF IInv, NoRecordedChildIsLost
    <3>3. row'[p] = row[p] /\ runtime'[p] = runtime[p]
      BY <2>2, <3>2, <1>6 DEF IsOpen, OpenStatuses, Terminal
    <3>4. runtime[p] \notin Terminal
      BY DEF IInv, Runtimes, EndedIsGone
    <3>5. CASE processes[instance[p]] = p
      <4>1. instance[p] # i
        BY <1>1, <1>4, <3>4, <3>5, SupervisorAssumption DEF Supervised
      <4>2. processes'[instance[p]] = p
        BY <1>7, <3>5, <4>1 DEF IInv, TypeOK
      <4> QED BY <1>3, <3>2, <3>3, <3>4, <4>2 DEF InHand, IsOpen
    <3>6. CASE row[p] = "stale"
      BY <3>2, <3>3, <3>6 DEF InHand, IsOpen
    <3>7. CASE \E c \in Calls : call[c].run = p /\ call[c].at \in StaleSteps
      BY <1>3, <3>2, <3>3, <3>7 DEF InHand, IsOpen, StaleSteps
    <3> QED BY <3>2, <3>5, <3>6, <3>7 DEF InHand, StaleSteps
  <2> QED BY <2>1, <2>2
<1>14. Recordings'
  <2>1. UnrecordedIsUnheld'
    BY <1>1, <1>3, <1>6, <1>7 DEF IInv, Recordings, UnrecordedIsUnheld
  <2>2. RecordingIsAlone'
    BY <1>3 DEF RecordingIsAlone
  <2> QED BY <2>1, <2>2 DEF Recordings
<1> QED BY <1>5, <1>9, <1>10, <1>12, <1>13, <1>14 DEF IInv

(* The record fails, and nothing but the child is left.                    *)
LEMMA NotRecordedKeepsIInv ==
  ASSUME IInv, NotRecorded
  PROVE  IInv'
<1>1. /\ recording' = None
      /\ UNCHANGED <<manager, boots, instance, process, familiar, row, runtime, processes,
                     killTimer, call, known, victims>>
  BY DEF NotRecorded
<1>2. TypeOK'
  BY <1>1 DEF IInv, TypeOK
<1>3. Runtimes'
  BY <1>1 DEF IInv, Runtimes, UnspawnedIsBlank, HeldIsOwn, FollowedIsHeld, EndedIsGone,
              IsAlive, DownIsEmpty
<1>4. Strangers' /\ OneFamiliar'
  BY <1>1 DEF IInv, Strangers, CallsHaveInstances, StaleCallsOfStrangers,
              StaleRowsOfStrangers, OneFamiliar, IsAlive
<1>5. NoRecordedChildIsLost'
  BY <1>1 DEF IInv, NoRecordedChildIsLost, IsAlive, IsOpen, InHand
<1>6. Recordings'
  BY <1>1, RecordingsKept
<1> QED BY <1>2, <1>3, <1>4, <1>5, <1>6 DEF IInv

LEMMA StartKeepsIInv ==
  ASSUME IInv, NEW i \in Instances, StartNow(i), CallsGoOn, manager # "down",
         recording = None, UNCHANGED <<manager, boots, known, victims>>
  PROVE  IInv'
<1>1. UNCHANGED <<row, runtime, processes, killTimer>>
  BY DEF StartNow
<1>2. CASE Spawn(i)
  BY <1>1, <1>2, SpawnKeepsIInv
<1>3. CASE UNCHANGED <<instance, process, familiar, recording>>
  <2>1. TypeOK'
    BY <1>1, <1>3 DEF IInv, TypeOK, CallsGoOn, CallRecords
  <2>2. Runtimes'
    BY <1>1, <1>3 DEF IInv, Runtimes, UnspawnedIsBlank, HeldIsOwn, FollowedIsHeld,
                EndedIsGone, IsAlive, DownIsEmpty
  <2>3. Strangers'
    <3>1. CallsHaveInstances'
      BY DEF CallsGoOn, IInv, Strangers, CallsHaveInstances
    <3>2. StaleCallsOfStrangers'
      BY <1>3 DEF CallsGoOn, IInv, Strangers, StaleCallsOfStrangers
    <3>3. StaleRowsOfStrangers'
      BY <1>1, <1>3 DEF IInv, Strangers, StaleRowsOfStrangers
    <3> QED BY <3>1, <3>2, <3>3 DEF Strangers
  <2>4. OneFamiliar'
    BY <1>1, <1>3 DEF IInv, OneFamiliar, IsAlive
  <2>5. NoRecordedChildIsLost'
    BY <1>1, <1>3
    DEF CallsGoOn, IInv, NoRecordedChildIsLost, IsAlive, IsOpen, InHand, StaleSteps
  <2>6. Recordings'
    BY <1>1, <1>3, RecordingsKept
  <2> QED BY <2>1, <2>2, <2>3, <2>4, <2>5, <2>6 DEF IInv
<1> QED BY <1>2, <1>3 DEF StartNow

(* A child ends that has already gone: its row, its timer and those who    *)
(* wait for it learn of it.                                                *)
LEMMA FinalizeKeepsIInv ==
  ASSUME IInv, NEW p \in Runs, ~IsAlive(p), runtime[p] \in Followed,
         NEW status \in Terminal, FinalizeExit(p, status), manager # "down",
         recording = None,
         UNCHANGED <<manager, boots, instance, process, familiar, recording, processes, known,
                     victims>>
  PROVE  IInv'
<1>1. /\ runtime' = [runtime EXCEPT ![p] = status]
      /\ row' = [row EXCEPT ![p] = IF HasRow(p) THEN status ELSE @]
      /\ killTimer' = [killTimer EXCEPT ![p] = "unset"]
  BY DEF FinalizeExit
<1>2. \A c \in Calls :
        /\ call'[c] \in CallRecords /\ call'[c].inst = call[c].inst
        /\ call'[c].run = call[c].run
        /\ call'[c].at = call[c].at \/ (call[c].at = "waiting" /\ call'[c].at = "resumed")
  <2> SUFFICES ASSUME NEW c \in Calls
               PROVE  /\ call'[c] \in CallRecords /\ call'[c].inst = call[c].inst
                      /\ call'[c].run = call[c].run
                      /\ \/ call'[c].at = call[c].at
                         \/ call[c].at = "waiting" /\ call'[c].at = "resumed"
    OBVIOUS
  <2>1. call[c] \in CallRecords
    BY DEF IInv, TypeOK, CallRecords
  <2>2. call'[c] = IF call[c].at = "waiting" /\ call[c].run = p
                   THEN [call[c] EXCEPT !.at = "resumed"] ELSE call[c]
    BY DEF FinalizeExit
  <2> QED BY <2>1, <2>2 DEF CallRecords
<1>3. call' \in [Calls -> CallRecords]
  BY <1>2 DEF FinalizeExit
<1>4. TypeOK'
  BY <1>1, <1>3 DEF IInv, TypeOK, CallRecords, Terminal
<1>5. Runtimes'
  <2>1. instance[p] # None
    BY DEF IInv, Runtimes, UnspawnedIsBlank, Followed
  <2>2. UnspawnedIsBlank'
    BY <1>1, <2>1 DEF IInv, Runtimes, UnspawnedIsBlank, TypeOK
  <2>3. HeldIsOwn' /\ DownIsEmpty'
    BY DEF IInv, Runtimes, HeldIsOwn, DownIsEmpty
  <2>4. FollowedIsHeld'
    BY <1>1 DEF IInv, Runtimes, FollowedIsHeld, Followed, Terminal, TypeOK
  <2>5. EndedIsGone'
    BY <1>1 DEF IInv, Runtimes, EndedIsGone, IsAlive, TypeOK
  <2> QED BY <2>2, <2>3, <2>4, <2>5 DEF Runtimes
<1>6. Strangers'
  <2>1. CallsHaveInstances'
    BY <1>2 DEF IInv, Strangers, CallsHaveInstances
  <2>2. StaleCallsOfStrangers'
    BY <1>2 DEF IInv, Strangers, StaleCallsOfStrangers, StaleSteps
  <2>3. StaleRowsOfStrangers'
    BY <1>1 DEF IInv, Strangers, StaleRowsOfStrangers, TypeOK, Terminal
  <2> QED BY <2>1, <2>2, <2>3 DEF Strangers
<1>7. \A q \in Runs : /\ row'[q] = "none" <=> row[q] = "none"
                      /\ q # p => row'[q] = row[q]
  BY <1>1 DEF IInv, TypeOK, HasRow, Terminal
<1>8. OneFamiliar'
  <2>1. \A q \in Runs : (IsAlive(q)' <=> IsAlive(q)) /\ (row'[q] = "none" <=> row[q] = "none")
    BY <1>7 DEF IsAlive
  <2> QED BY <2>1 DEF IInv, OneFamiliar
<1>9. NoRecordedChildIsLost'
  BY <1>1, <1>2, <1>7 DEF IInv, NoRecordedChildIsLost, IsAlive, IsOpen, InHand, TypeOK
<1>10. Recordings'
  <2>1. row[p] # "none"
    BY DEF IInv, Recordings, UnrecordedIsUnheld, Followed
  <2>2. \A q \in Runs \ {p} : runtime'[q] = runtime[q]
    BY <1>1 DEF IInv, TypeOK
  <2>3. /\ recording' = None /\ processes' = processes
        /\ \A q \in Runs : row'[q] = "none" => row[q] = "none"
        /\ \A q \in Runs : row[q] = "none" => runtime'[q] = runtime[q]
    BY <1>7, <2>1, <2>2
  <2> QED BY <2>3, RecordingsKept
<1> QED BY <1>4, <1>5, <1>6, <1>8, <1>9, <1>10 DEF IInv

(* A stop is requested of runs that the supervisor holds.                  *)
LEMMA RequestKeepsIInv ==
  ASSUME IInv, NEW S \in SUBSET Runs, RequestStop(S), CallsGoOn, manager # "down",
         \A p \in S : \E i \in Instances : p \in ToStop(i),
         manager' \in {"up", "stopping"}, victims' \subseteq Runs, recording = None,
         UNCHANGED <<boots, instance, process, familiar, recording, processes, known>>
  PROVE  IInv'
<1>1. \A p \in Runs :
        /\ runtime'[p] = IF p \in S THEN "stopping" ELSE runtime[p]
        /\ row'[p] = IF p \in S /\ HasRow(p) THEN "stopping" ELSE row[p]
  BY DEF RequestStop, RuntimesStopping, RowsStopping
<1>2. \A p \in S : instance[p] # None /\ processes[instance[p]] = p
  BY SupervisorAssumption DEF ToStop, Supervised, IInv, Runtimes, HeldIsOwn
<1>3. TypeOK'
  <2>1. row' \in [Runs -> OpenStatuses \cup Terminal \cup {"none", "deleted"}]
    BY DEF RequestStop, RowsStopping, IInv, TypeOK, OpenStatuses
  <2>2. runtime' \in [Runs -> {"none", "starting", "running", "stopping"} \cup Terminal]
    BY DEF RequestStop, RuntimesStopping, IInv, TypeOK
  <2>3. killTimer' \in [Runs -> {"unset", "set", "fired"}]
    BY DEF RequestStop, TimersSet, IInv, TypeOK
  <2> QED BY <2>1, <2>2, <2>3 DEF IInv, TypeOK, CallsGoOn, CallRecords
<1>4. Runtimes'
  <2>1. UnspawnedIsBlank'
    BY <1>1, <1>2 DEF IInv, Runtimes, UnspawnedIsBlank
  <2>2. HeldIsOwn' /\ DownIsEmpty'
    BY DEF IInv, Runtimes, HeldIsOwn, DownIsEmpty
  <2>3. FollowedIsHeld'
    BY <1>1, <1>2 DEF IInv, Runtimes, FollowedIsHeld
  <2>4. EndedIsGone'
    BY <1>1 DEF IInv, Runtimes, EndedIsGone, IsAlive, Terminal
  <2> QED BY <2>1, <2>2, <2>3, <2>4 DEF Runtimes
<1>5. Strangers'
  <2>1. CallsHaveInstances'
    BY DEF CallsGoOn, IInv, Strangers, CallsHaveInstances
  <2>2. StaleCallsOfStrangers'
    BY DEF CallsGoOn, IInv, Strangers, StaleCallsOfStrangers
  <2>3. StaleRowsOfStrangers'
    BY <1>1 DEF IInv, Strangers, StaleRowsOfStrangers
  <2> QED BY <2>1, <2>2, <2>3 DEF Strangers
<1>6. \A p \in Runs : row'[p] = "none" <=> row[p] = "none"
  BY <1>1 DEF HasRow
<1>7. OneFamiliar'
  BY <1>6 DEF IInv, OneFamiliar, IsAlive
<1>8. NoRecordedChildIsLost'
  <2> SUFFICES ASSUME NEW p \in Runs, IsAlive(p), row[p] # "none", instance[p] \in known
               PROVE  IsOpen(p)' /\ InHand(p)'
    BY <1>6 DEF NoRecordedChildIsLost, IsAlive
  <2>1. IsOpen(p) /\ InHand(p)
    BY DEF IInv, NoRecordedChildIsLost
  <2>2. CASE p \in S
    BY <1>1, <1>2, <2>1, <2>2 DEF IsOpen, InHand, OpenStatuses, Terminal, HasRow
  <2>3. CASE p \notin S
    BY <1>1, <2>1, <2>3 DEF IsOpen, InHand, CallsGoOn, StaleSteps
  <2> QED BY <2>2, <2>3
<1>9. Recordings'
  <2>1. \A p \in S : row[p] # "none"
    BY SupervisorAssumption
    DEF ToStop, Supervised, IInv, Recordings, UnrecordedIsUnheld
  <2> QED BY <1>1, <1>6, <2>1, RecordingsKept
<1> QED BY <1>3, <1>4, <1>5, <1>7, <1>8, <1>9 DEF IInv

(* A stop finds a stale process to wait for; the runs of S are stopped too. *)
LEMMA StaleStopKeepsIInv ==
  ASSUME IInv, NEW i \in Instances, LiveStale(i) # {}, manager # "down",
         NEW c \in Calls, call[c].at = "idle", NEW op \in {"stop", "restart", "delete"},
         Goes(c, op, i, "staleTerm", Max(LiveStale(i))),
         NEW S \in SUBSET Runs, \A p \in S : \E j \in Instances : p \in ToStop(j),
         row' = StaleRow(RowsStopping(S), i),
         runtime' = RuntimesStopping(S), killTimer' = TimersSet(S), recording = None,
         UNCHANGED <<manager, boots, instance, process, familiar, recording, processes, known,
                     victims>>
  PROVE  IInv'
<1> DEFINE m == Max(LiveStale(i))
           r == [op |-> op, inst |-> i, at |-> "staleTerm", run |-> m]
<1>1. m \in Runs /\ instance[m] = i /\ row[m] = "stale"
  BY LiveStaleRuns
<1>2. row' = [RowsStopping(S) EXCEPT ![m] = "stopping"]
  BY DEF StaleRow
<1>3. call' = [call EXCEPT ![c] = r]
  BY Zenon DEF Goes
<1> HIDE DEF m
<1>4. r \in CallRecords /\ r.at = "staleTerm" /\ r.inst = i /\ r.run = m
  BY <1>1 DEF CallRecords
<1> HIDE DEF r
<1>5. /\ call'[c] = r /\ \A d \in Calls \ {c} : call'[d] = call[d]
      /\ call' \in [Calls -> CallRecords]
  BY <1>3, <1>4 DEF IInv, TypeOK, CallRecords
<1>6. \A p \in Runs :
        /\ runtime'[p] = IF p \in S THEN "stopping" ELSE runtime[p]
        /\ row'[p] = IF p = m \/ (p \in S /\ HasRow(p)) THEN "stopping" ELSE row[p]
  BY <1>1, <1>2 DEF RuntimesStopping, RowsStopping
<1>7. \A p \in S : instance[p] # None /\ processes[instance[p]] = p
  BY SupervisorAssumption DEF ToStop, Supervised, IInv, Runtimes, HeldIsOwn
<1>8. TypeOK'
  <2>1. row' \in [Runs -> OpenStatuses \cup Terminal \cup {"none", "deleted"}]
    BY <1>2 DEF RowsStopping, IInv, TypeOK, OpenStatuses
  <2>2. runtime' \in [Runs -> {"none", "starting", "running", "stopping"} \cup Terminal]
    BY DEF RuntimesStopping, IInv, TypeOK
  <2>3. killTimer' \in [Runs -> {"unset", "set", "fired"}]
    BY DEF TimersSet, IInv, TypeOK
  <2> QED BY <2>1, <2>2, <2>3, <1>5 DEF IInv, TypeOK, CallRecords
<1>9. Runtimes'
  <2>1. UnspawnedIsBlank'
    BY <1>1, <1>6, <1>7 DEF IInv, Runtimes, UnspawnedIsBlank
  <2>2. HeldIsOwn' /\ DownIsEmpty'
    BY DEF IInv, Runtimes, HeldIsOwn, DownIsEmpty
  <2>3. FollowedIsHeld'
    BY <1>6, <1>7 DEF IInv, Runtimes, FollowedIsHeld
  <2>4. EndedIsGone'
    BY <1>6 DEF IInv, Runtimes, EndedIsGone, IsAlive, Terminal
  <2> QED BY <2>1, <2>2, <2>3, <2>4 DEF Runtimes
<1>10. Strangers'
  <2>1. CallsHaveInstances'
    BY <1>4, <1>5 DEF IInv, Strangers, CallsHaveInstances
  <2>2. i \notin known \/ ~familiar[m]
    BY <1>1 DEF IInv, Strangers, StaleRowsOfStrangers
  <2>3. StaleCallsOfStrangers'
    BY <1>1, <1>4, <1>5, <2>2 DEF IInv, Strangers, StaleCallsOfStrangers
  <2>4. StaleRowsOfStrangers'
    BY <1>6 DEF IInv, Strangers, StaleRowsOfStrangers
  <2> QED BY <2>1, <2>3, <2>4 DEF Strangers
<1>11. \A p \in Runs : row'[p] = "none" <=> row[p] = "none"
  BY <1>1, <1>6 DEF HasRow
<1>12. OneFamiliar'
  BY <1>11 DEF IInv, OneFamiliar, IsAlive
<1>13. NoRecordedChildIsLost'
  <2> SUFFICES ASSUME NEW p \in Runs, IsAlive(p), row[p] # "none", instance[p] \in known
               PROVE  IsOpen(p)' /\ InHand(p)'
    BY <1>11 DEF NoRecordedChildIsLost, IsAlive
  <2>1. IsOpen(p) /\ InHand(p)
    BY DEF IInv, NoRecordedChildIsLost
  <2>2. IsOpen(p)'
    BY <1>6, <2>1 DEF IsOpen, OpenStatuses
  <2>3. CASE p = m
    BY <1>4, <1>5, <2>2, <2>3 DEF InHand
  <2>4. CASE p \in S
    BY <1>6, <1>7, <2>2, <2>4 DEF InHand, Terminal
  <2>5. CASE p # m /\ p \notin S
    BY <1>5, <1>6, <2>1, <2>2, <2>5 DEF InHand
  <2> QED BY <2>2, <2>3, <2>4, <2>5
<1>14. Recordings'
  <2>1. \A p \in S : row[p] # "none"
    BY SupervisorAssumption
    DEF ToStop, Supervised, IInv, Recordings, UnrecordedIsUnheld
  <2> QED BY <1>6, <1>11, <2>1, RecordingsKept
<1> QED BY <1>8, <1>9, <1>10, <1>12, <1>13, <1>14 DEF IInv

(* An instance and its rows are forgotten, whatever else became of them.   *)
LEMMA RowsWithoutThem ==
  ASSUME IInv, NEW i \in Instances, NEW rows, row' = RowsWithout(rows, i),
         rows \in [Runs -> OpenStatuses \cup Terminal \cup {"none", "deleted"}],
         known' = known \ {i}, instance' = instance
  PROVE  /\ row' \in [Runs -> OpenStatuses \cup Terminal \cup {"none", "deleted"}]
         /\ \A p \in Runs :
              row'[p] = IF instance[p] = i /\ HasRow(p) THEN "deleted" ELSE rows[p]
         /\ \A p \in Runs : instance[p] \in known' => row'[p] = rows[p]
  BY DEF RowsWithout

LEMMA DeleteKeepsIInv ==
  ASSUME IInv, NEW i \in Instances, NEW S \in SUBSET Runs, manager # "down",
         \A p \in S : \E j \in Instances : p \in ToStop(j),
         runtime' = RuntimesStopping(S), killTimer' = TimersSet(S),
         row' = RowsWithout(row, i), known' = known \ {i}, recording = None,
         UNCHANGED <<manager, boots, instance, process, familiar, recording, processes, call,
                     victims>>
  PROVE  IInv'
<1>1. /\ row' \in [Runs -> OpenStatuses \cup Terminal \cup {"none", "deleted"}]
      /\ \A p \in Runs :
           row'[p] = IF instance[p] = i /\ HasRow(p) THEN "deleted" ELSE row[p]
  BY RowsWithoutThem DEF IInv, TypeOK
<1>2. \A p \in Runs : runtime'[p] = IF p \in S THEN "stopping" ELSE runtime[p]
  BY DEF RuntimesStopping
<1>3. \A p \in S : instance[p] # None /\ processes[instance[p]] = p
  BY SupervisorAssumption DEF ToStop, Supervised, IInv, Runtimes, HeldIsOwn
<1>4. TypeOK'
  <2>1. runtime' \in [Runs -> {"none", "starting", "running", "stopping"} \cup Terminal]
    BY DEF RuntimesStopping, IInv, TypeOK
  <2>2. killTimer' \in [Runs -> {"unset", "set", "fired"}]
    BY DEF TimersSet, IInv, TypeOK
  <2> QED BY <1>1, <2>1, <2>2 DEF IInv, TypeOK
<1>5. Runtimes'
  <2>1. UnspawnedIsBlank'
    BY <1>1, <1>2, <1>3 DEF IInv, Runtimes, UnspawnedIsBlank, HasRow
  <2>2. HeldIsOwn' /\ DownIsEmpty'
    BY DEF IInv, Runtimes, HeldIsOwn, DownIsEmpty
  <2>3. FollowedIsHeld'
    BY <1>2, <1>3 DEF IInv, Runtimes, FollowedIsHeld
  <2>4. EndedIsGone'
    BY <1>2 DEF IInv, Runtimes, EndedIsGone, IsAlive, Terminal
  <2> QED BY <2>1, <2>2, <2>3, <2>4 DEF Runtimes
<1>6. Strangers'
  BY <1>1 DEF IInv, Strangers, CallsHaveInstances, StaleCallsOfStrangers, StaleRowsOfStrangers
<1>7. \A p \in Runs : row'[p] = "none" <=> row[p] = "none"
  BY <1>1 DEF HasRow
<1>8. OneFamiliar'
  BY <1>7 DEF IInv, OneFamiliar, IsAlive
<1>9. NoRecordedChildIsLost'
  BY <1>1, <1>2, <1>3, <1>7
  DEF IInv, NoRecordedChildIsLost, IsAlive, IsOpen, InHand, Terminal
<1>10. Recordings'
  <2>1. \A p \in S : row[p] # "none"
    BY SupervisorAssumption
    DEF ToStop, Supervised, IInv, Recordings, UnrecordedIsUnheld
  <2> QED BY <1>2, <1>7, <2>1, RecordingsKept
<1> QED BY <1>4, <1>5, <1>6, <1>8, <1>9, <1>10 DEF IInv

(* The end of a stale process, and of what its call came for.              *)
LEMMA StaleGoneKeepsIInv ==
  ASSUME IInv, NEW c \in Calls, StaleGone(c)
  PROVE  IInv'
<1> DEFINE m == call[c].run
           i == call[c].inst
           closed == [row EXCEPT ![m] = IF HasRow(m) THEN "exited" ELSE @]
<1>1. /\ call[c].at \in StaleSteps /\ process[m] = "dead" /\ manager # "down"
      /\ recording = None
      /\ UNCHANGED <<manager, boots, instance, process, familiar, recording, runtime,
                     processes, killTimer, victims>>
  BY DEF StaleGone, StaleSteps, Quiet, NoContinuation
<1>2. \/ row' = RowsWithout(closed, i) /\ known' = known \ {i}
      \/ row' = closed /\ known' = known
  BY DEF StaleGone
<1>3. i \in Instances /\ m \in Runs /\ instance[m] = i
  BY <1>1 DEF IInv, Strangers, CallsHaveInstances, StaleCallsOfStrangers, StaleSteps
<1>4. closed \in [Runs -> OpenStatuses \cup Terminal \cup {"none", "deleted"}]
  BY DEF IInv, TypeOK, Terminal
<1>5. \A p \in Runs : closed[p] =
        IF p = m /\ HasRow(p) THEN "exited" ELSE row[p]
  BY <1>3 DEF IInv, TypeOK
<1>6. \/ Goes(c, "restart", i, "checking", None)
      \/ Ends(c)
  BY DEF StaleGone
<1> HIDE DEF closed
<1>7. /\ row' \in [Runs -> OpenStatuses \cup Terminal \cup {"none", "deleted"}]
      /\ known' \subseteq known
      /\ \A p \in Runs :
           /\ row'[p] \in {"deleted", "exited", row[p]}
           /\ instance[p] \in known' /\ p # m => row'[p] = row[p]
           /\ row'[p] = "none" <=> row[p] = "none"
  <2>1. CASE row' = closed /\ known' = known
    BY <2>1, <1>4, <1>5 DEF HasRow
  <2>2. CASE row' = RowsWithout(closed, i) /\ known' = known \ {i}
    BY <2>2, <1>1, <1>3, <1>4, <1>5, RowsWithoutThem DEF HasRow
  <2> QED BY <2>1, <2>2, <1>2
<1>8. /\ call' \in [Calls -> CallRecords]
      /\ \A d \in Calls \ {c} : call'[d] = call[d]
      /\ call'[c].at \notin StaleSteps
      /\ call'[c].at # "idle" => call'[c].inst \in Instances
  <2> DEFINE r == [op |-> "restart", inst |-> i, at |-> "checking", run |-> None]
  <2>1. /\ Idle \in CallRecords /\ Idle.at = "idle"
        /\ r \in CallRecords /\ r.at = "checking" /\ r.inst = i
    BY <1>3 DEF Idle, CallRecords
  <2>2. call' = [call EXCEPT ![c] = r] \/ call' = [call EXCEPT ![c] = Idle]
    BY <1>6 DEF Goes, Ends
  <2> HIDE DEF r, i
  <2> QED BY <2>1, <2>2, <1>3 DEF IInv, TypeOK, CallRecords, StaleSteps
<1> HIDE DEF i
<1>9. TypeOK'
  BY <1>1, <1>7, <1>8 DEF IInv, TypeOK, CallRecords
<1>10. Runtimes'
  BY <1>1, <1>7 DEF IInv, Runtimes, UnspawnedIsBlank, HeldIsOwn, FollowedIsHeld,
                    EndedIsGone, IsAlive, DownIsEmpty
<1>11. Strangers'
  <2>1. CallsHaveInstances'
    BY <1>8 DEF IInv, Strangers, CallsHaveInstances
  <2>2. StaleCallsOfStrangers'
    BY <1>1, <1>7, <1>8 DEF IInv, Strangers, StaleCallsOfStrangers
  <2>3. StaleRowsOfStrangers'
    BY <1>1, <1>7 DEF IInv, Strangers, StaleRowsOfStrangers
  <2> QED BY <2>1, <2>2, <2>3 DEF Strangers
<1>12. OneFamiliar'
  BY <1>1, <1>7 DEF IInv, OneFamiliar, IsAlive
<1>13. NoRecordedChildIsLost'
  <2> SUFFICES ASSUME NEW p \in Runs, IsAlive(p), row[p] # "none", instance[p] \in known'
               PROVE  IsOpen(p)' /\ InHand(p)'
    BY <1>1, <1>7 DEF NoRecordedChildIsLost, IsAlive
  <2>1. p # m
    BY <1>1 DEF IsAlive
  <2>2. IsOpen(p) /\ InHand(p)
    BY <1>1, <1>7 DEF IInv, NoRecordedChildIsLost
  <2>3. row'[p] = row[p]
    BY <1>7, <2>1
  <2> QED BY <1>1, <1>8, <2>1, <2>2, <2>3 DEF IsOpen, InHand
<1>14. Recordings'
  BY <1>1, <1>7, RecordingsKept
<1> QED BY <1>9, <1>10, <1>11, <1>12, <1>13, <1>14 DEF IInv

(* Children die or are killed; the calls stand where they stood, or wait   *)
(* for the second time.                                                    *)
LEMMA DeathsKeepIInv ==
  ASSUME IInv,
         process' \in [Runs -> {"none", "failed", "alive", "killed", "dead"}],
         \A p \in Runs : process'[p] = process[p]
                        \/ (IsAlive(p) /\ process'[p] \in {"killed", "dead"}),
         killTimer' \in [Runs -> {"unset", "set", "fired"}], victims' \subseteq Runs,
         call' \in [Calls -> CallRecords],
         \A c \in Calls :
           \/ call'[c] = call[c]
           \/ /\ manager # "down" /\ call[c].at \in StaleSteps
              /\ call'[c].at \in StaleSteps
              /\ call'[c].inst = call[c].inst /\ call'[c].run = call[c].run,
         manager' \in {"up", "closing", "stopping", "down"},
         manager' = "down" <=> manager = "down",
         UNCHANGED <<boots, instance, familiar, row, recording, runtime, processes, known>>
  PROVE  IInv'
<1>1. TypeOK'
  BY DEF IInv, TypeOK, CallRecords
<1>2. \A p \in Runs : IsAlive(p)' => IsAlive(p)
  BY DEF IsAlive
<1>3. Runtimes'
  <2>1. UnspawnedIsBlank'
    BY DEF IInv, Runtimes, UnspawnedIsBlank, IsAlive
  <2>2. HeldIsOwn' /\ FollowedIsHeld' /\ DownIsEmpty'
    BY DEF IInv, Runtimes, HeldIsOwn, FollowedIsHeld, DownIsEmpty
  <2>3. EndedIsGone'
    BY <1>2 DEF IInv, Runtimes, EndedIsGone
  <2> QED BY <2>1, <2>2, <2>3 DEF Runtimes
<1>4. Strangers'
  BY DEF IInv, Strangers, CallsHaveInstances, StaleCallsOfStrangers,
         StaleRowsOfStrangers, StaleSteps
<1>5. OneFamiliar'
  BY <1>2 DEF IInv, OneFamiliar
<1>6. NoRecordedChildIsLost'
  BY <1>2 DEF IInv, NoRecordedChildIsLost, IsOpen, InHand, StaleSteps
<1>7. Recordings'
  BY DEF IInv, Recordings, UnrecordedIsUnheld, RecordingIsAlone, Supervised
<1> QED BY <1>1, <1>3, <1>4, <1>5, <1>6, <1>7 DEF IInv

LEMMA KilledRuns ==
  ASSUME TypeOK, NEW p \in Runs, process' = Killed(p)
  PROVE  /\ process' \in [Runs -> {"none", "failed", "alive", "killed", "dead"}]
         /\ \A q \in Runs : process'[q] = process[q]
                          \/ (IsAlive(q) /\ process'[q] \in {"killed", "dead"})
  BY DEF TypeOK, Killed, IsAlive

LEMMA DieKeepsIInv ==
  ASSUME IInv, NEW p \in Runs, Die(p)
  PROVE  IInv'
<1>1. /\ process' \in [Runs -> {"none", "failed", "alive", "killed", "dead"}]
      /\ \A q \in Runs : process'[q] = process[q]
                       \/ (IsAlive(q) /\ process'[q] \in {"killed", "dead"})
  BY DEF Die, IInv, TypeOK
<1> QED BY <1>1, DeathsKeepIInv DEF Die, IInv, TypeOK, CallRecords

LEMMA ForceKillKeepsIInv ==
  ASSUME IInv, NEW p \in Runs, ForceKill(p)
  PROVE  IInv'
<1>1. /\ process' \in [Runs -> {"none", "failed", "alive", "killed", "dead"}]
      /\ \A q \in Runs : process'[q] = process[q]
                       \/ (IsAlive(q) /\ process'[q] \in {"killed", "dead"})
  BY KilledRuns DEF ForceKill, IInv, TypeOK
<1>2. killTimer' \in [Runs -> {"unset", "set", "fired"}]
  BY DEF ForceKill, IInv, TypeOK
<1> QED BY <1>1, <1>2, DeathsKeepIInv DEF ForceKill, IInv, TypeOK, CallRecords

LEMMA ShutdownKillKeepsIInv ==
  ASSUME IInv, NEW p \in Runs, ShutdownKill(p)
  PROVE  IInv'
<1>1. /\ process' \in [Runs -> {"none", "failed", "alive", "killed", "dead"}]
      /\ \A q \in Runs : process'[q] = process[q]
                       \/ (IsAlive(q) /\ process'[q] \in {"killed", "dead"})
  BY KilledRuns DEF ShutdownKill, IInv
<1> QED BY <1>1, DeathsKeepIInv DEF ShutdownKill, IInv, TypeOK, CallRecords

LEMMA StaleKillKeepsIInv ==
  ASSUME IInv, NEW c \in Calls, StaleKill(c)
  PROVE  IInv'
<1>1. call[c].run \in Runs
  BY DEF StaleKill, IInv, Strangers, StaleCallsOfStrangers, StaleSteps
<1>2. /\ process' \in [Runs -> {"none", "failed", "alive", "killed", "dead"}]
      /\ \A q \in Runs : process'[q] = process[q]
                       \/ (IsAlive(q) /\ process'[q] \in {"killed", "dead"})
  BY <1>1, KilledRuns DEF StaleKill, IInv
<1>3. /\ call' \in [Calls -> CallRecords]
      /\ \A d \in Calls \ {c} : call'[d] = call[d]
      /\ call'[c].at = "staleKill"
      /\ call'[c].inst = call[c].inst /\ call'[c].run = call[c].run
  BY DEF StaleKill, IInv, TypeOK, CallRecords
<1>4. manager # "down" /\ call[c].at = "staleTerm"
  BY DEF StaleKill, Quiet
<1> QED BY <1>2, <1>3, <1>4, DeathsKeepIInv DEF StaleKill, IInv, TypeOK, StaleSteps

LEMMA StaleGivesUpKeepsIInv ==
  ASSUME IInv, NEW c \in Calls, StaleGivesUp(c)
  PROVE  IInv'
<1> DEFINE m == call[c].run
<1>1. /\ m \in Runs /\ instance[m] = call[c].inst /\ IsAlive(m)
      /\ instance[m] \notin known \/ ~familiar[m]
  BY DEF StaleGivesUp, IInv, Strangers, StaleCallsOfStrangers, StaleSteps
<1>2. /\ manager # "down" /\ recording = None
      /\ UNCHANGED <<manager, boots, instance, process, familiar, recording, runtime,
                     processes, killTimer, known, victims>>
  BY DEF StaleGivesUp, Quiet, NoContinuation
<1>3. row' = [row EXCEPT ![m] = IF HasRow(m) THEN "stale" ELSE @]
  BY DEF StaleGivesUp
<1>4. \A p \in Runs : row'[p] = IF p = m /\ HasRow(p) THEN "stale" ELSE row[p]
  BY <1>1, <1>3 DEF IInv, TypeOK
<1>5. /\ call' \in [Calls -> CallRecords] /\ call'[c].at = "idle"
      /\ \A d \in Calls \ {c} : call'[d] = call[d]
  <2>1. Idle \in CallRecords /\ Idle.at = "idle"
    BY DEF Idle, CallRecords
  <2> QED BY <2>1 DEF StaleGivesUp, Ends, IInv, TypeOK, CallRecords
<1> HIDE DEF m
<1>6. TypeOK'
  BY <1>2, <1>3, <1>5 DEF IInv, TypeOK, CallRecords, OpenStatuses
<1>7. Runtimes'
  BY <1>2, <1>4 DEF IInv, Runtimes, UnspawnedIsBlank, HeldIsOwn, FollowedIsHeld,
                    EndedIsGone, IsAlive, DownIsEmpty, HasRow
<1>8. Strangers'
  BY <1>1, <1>2, <1>4, <1>5 DEF IInv, Strangers, CallsHaveInstances,
     StaleCallsOfStrangers, StaleRowsOfStrangers, StaleSteps
<1>9. \A p \in Runs : row'[p] = "none" <=> row[p] = "none"
  BY <1>4 DEF HasRow
<1>10. OneFamiliar'
  BY <1>2, <1>9 DEF IInv, OneFamiliar, IsAlive
<1>11. NoRecordedChildIsLost'
  <2> SUFFICES ASSUME NEW p \in Runs, IsAlive(p), row[p] # "none", instance[p] \in known
               PROVE  IsOpen(p)' /\ InHand(p)'
    BY <1>2, <1>9 DEF NoRecordedChildIsLost, IsAlive
  <2>1. IsOpen(p) /\ InHand(p)
    BY <1>2 DEF IInv, NoRecordedChildIsLost
  <2>2. CASE p = m
    BY <1>4, <2>1, <2>2 DEF IsOpen, InHand, OpenStatuses, HasRow
  <2>3. CASE p # m
    <3>1. row'[p] = row[p]
      BY <1>4, <2>3
    <3>2. \A d \in Calls : call[d].run = p /\ call[d].at \in StaleSteps => d # c
      BY <2>3 DEF m
    <3> QED BY <1>2, <1>5, <2>1, <3>1, <3>2 DEF IsOpen, InHand, StaleSteps
  <2> QED BY <2>2, <2>3
<1>12. Recordings'
  BY <1>2, <1>9, RecordingsKept
<1> QED BY <1>6, <1>7, <1>8, <1>10, <1>11, <1>12 DEF IInv

LEMMA SpawnedKeepsIInv ==
  ASSUME IInv, NEW p \in Runs, Spawned(p)
  PROVE  IInv'
<1>1. /\ manager # "down" /\ runtime[p] = "starting"
      /\ runtime' = [runtime EXCEPT ![p] = "running"]
      /\ row' = [row EXCEPT ![p] = "running"]
      /\ recording = None
      /\ UNCHANGED <<manager, boots, instance, process, familiar, recording, processes,
                     killTimer, call, known, victims>>
  BY DEF Spawned, NoContinuation
<1>2. instance[p] # None /\ processes[instance[p]] = p /\ row[p] # "none"
  BY <1>1 DEF IInv, Runtimes, UnspawnedIsBlank, FollowedIsHeld, Followed, Recordings,
              UnrecordedIsUnheld
<1>3. TypeOK'
  BY <1>1 DEF IInv, TypeOK, OpenStatuses
<1>4. Runtimes'
  BY <1>1, <1>2 DEF IInv, TypeOK, Runtimes, UnspawnedIsBlank, HeldIsOwn, FollowedIsHeld,
                    EndedIsGone, IsAlive, DownIsEmpty, Followed, Terminal
<1>5. Strangers'
  BY <1>1 DEF IInv, TypeOK, Strangers, CallsHaveInstances, StaleCallsOfStrangers,
              StaleRowsOfStrangers
<1>6. \A q \in Runs : /\ row'[q] = "none" <=> row[q] = "none"
                      /\ q # p => row'[q] = row[q] /\ runtime'[q] = runtime[q]
  BY <1>1, <1>2 DEF IInv, TypeOK
<1>7. OneFamiliar'
  <2>1. \A q \in Runs : (IsAlive(q)' <=> IsAlive(q)) /\ (row'[q] = "none" <=> row[q] = "none")
    BY <1>1, <1>6 DEF IsAlive
  <2> QED BY <1>1, <2>1 DEF IInv, OneFamiliar
<1>8. NoRecordedChildIsLost'
  BY <1>1, <1>2, <1>6
  DEF IInv, TypeOK, NoRecordedChildIsLost, IsAlive, IsOpen, InHand, OpenStatuses, Terminal
<1>9. Recordings'
  BY <1>1, <1>2, <1>6, RecordingsKept
<1> QED BY <1>3, <1>4, <1>5, <1>7, <1>8, <1>9 DEF IInv

-----------------------------------------------------------------------------
(* The manager forgets, and starts again.                                  *)
LEMMA ForgetsKeepsIInv ==
  ASSUME IInv, Forgets
  PROVE  IInv'
<1>1. Idle \in CallRecords /\ Idle.at = "idle"
  BY DEF Idle, CallRecords
<1>2. TypeOK'
  BY <1>1 DEF Forgets, IInv, TypeOK, CallRecords
<1>3. Runtimes'
  BY DEF Forgets, IInv, Runtimes, UnspawnedIsBlank, HeldIsOwn, FollowedIsHeld,
         EndedIsGone, DownIsEmpty, Followed, Terminal
<1>4. Strangers'
  BY <1>1 DEF Forgets, IInv, Strangers, CallsHaveInstances, StaleCallsOfStrangers,
              StaleRowsOfStrangers, StaleSteps
<1>5. OneFamiliar'
  BY DEF Forgets, IInv, OneFamiliar, IsAlive
<1>6. NoRecordedChildIsLost'
  BY DEF Forgets, IInv, NoRecordedChildIsLost, IsAlive, IsOpen
<1>7. Recordings'
  BY SupervisorAssumption DEF Forgets, Recordings, UnrecordedIsUnheld, RecordingIsAlone
<1> QED BY <1>2, <1>3, <1>4, <1>5, <1>6, <1>7 DEF IInv

LEMMA BootKeepsIInv ==
  ASSUME IInv, Boot
  PROVE  IInv'
<1>1. /\ manager = "down" /\ manager' = "up" /\ boots < MaxBoots /\ boots' = boots + 1
      /\ UNCHANGED <<instance, process, familiar, recording, killTimer, call, known, victims>>
  BY DEF Boot
<1>2. \A c \in Calls : call[c].at = "idle"
  BY <1>1 DEF IInv, Runtimes, DownIsEmpty, Idle
<1>3. \A i \in Instances : processes'[i] = Adopted(i)
  BY DEF Boot
<1>4. \A p \in Runs :
        /\ runtime'[p] = IF \E i \in Instances : Adopted(i) = p THEN "running" ELSE "none"
        /\ row'[p] = IF ~IsOpen(p) THEN row[p]
                     ELSE IF ~IsAlive(p) THEN "exited"
                     ELSE IF ~Adoptable(p) THEN "stale"
                     ELSE IF Adopted(instance[p]) = p THEN "running" ELSE row[p]
  BY DEF Boot
<1>5. \A p \in Runs : Adoptable(p) => instance[p] \in Instances /\ Adopted(instance[p]) = p
  <2> SUFFICES ASSUME NEW p \in Runs, Adoptable(p)
               PROVE  instance[p] \in Instances /\ Adopted(instance[p]) = p
    OBVIOUS
  <2>1. /\ instance[p] \in Instances /\ instance[p] \in known /\ IsAlive(p) /\ familiar[p]
        /\ row[p] # "none"
    BY DEF Adoptable, IInv, TypeOK, IsOpen, OpenStatuses
  <2> DEFINE q == Adopted(instance[p])
  <2>2. /\ q \in Runs /\ instance[q] = instance[p] /\ IsAlive(q) /\ familiar[q]
        /\ row[q] # "none"
    BY <2>1, AdoptedRuns DEF Adoptable, IsOpen, OpenStatuses
  <2> HIDE DEF q
  <2>3. q = p
    BY <2>1, <2>2 DEF IInv, OneFamiliar
  <2> QED BY <2>1, <2>3 DEF q
<1>6. TypeOK'
  <2>1. boots' \in 1..MaxBoots
    BY <1>1, SupervisorAssumption DEF IInv, TypeOK
  <2>2. row' \in [Runs -> OpenStatuses \cup Terminal \cup {"none", "deleted"}]
    <3>1. \A p \in Runs : row'[p] \in OpenStatuses \cup Terminal \cup {"none", "deleted"}
      BY <1>4 DEF IInv, TypeOK, OpenStatuses, Terminal
    <3> HIDE DEF Runs
    <3> QED BY <3>1 DEF Boot
  <2>3. processes' \in [Instances -> Runs \cup {None}]
    BY AdoptedRuns DEF Boot
  <2>4. runtime' \in [Runs -> {"none", "starting", "running", "stopping"} \cup Terminal]
    BY DEF Boot
  <2> QED BY <2>1, <2>2, <2>3, <2>4, <1>1 DEF IInv, TypeOK
<1>7. \A i \in Instances : Adopted(i) # None => instance[Adopted(i)] = i
  BY AdoptedRuns
<1>8. Runtimes'
  <2>1. UnspawnedIsBlank'
    <3> SUFFICES ASSUME NEW p \in Runs, instance[p] = None
                 PROVE  process[p] = "none" /\ row'[p] = "none" /\ runtime'[p] = "none"
      BY <1>1 DEF UnspawnedIsBlank
    <3>1. process[p] = "none" /\ row[p] = "none"
      BY DEF IInv, Runtimes, UnspawnedIsBlank
    <3>2. \A i \in Instances : Adopted(i) # p
      BY <1>7, SupervisorAssumption
    <3> QED BY <1>4, <3>1, <3>2 DEF IsOpen, OpenStatuses
  <2>2. HeldIsOwn'
    BY <1>1, <1>3, <1>7 DEF HeldIsOwn
  <2>3. FollowedIsHeld'
    BY <1>1, <1>3, <1>4, <1>7, SupervisorAssumption DEF FollowedIsHeld, Followed
  <2>4. EndedIsGone'
    BY <1>4 DEF EndedIsGone, Terminal
  <2>5. DownIsEmpty'
    BY <1>1 DEF DownIsEmpty
  <2> QED BY <2>1, <2>2, <2>3, <2>4, <2>5 DEF Runtimes
<1>9. Strangers'
  <2>1. CallsHaveInstances' /\ StaleCallsOfStrangers'
    BY <1>1, <1>2 DEF CallsHaveInstances, StaleCallsOfStrangers, StaleSteps
  <2>2. StaleRowsOfStrangers'
    BY <1>1, <1>4 DEF IInv, Strangers, StaleRowsOfStrangers, Adoptable
  <2> QED BY <2>1, <2>2 DEF Strangers
<1>10. \A p \in Runs : row'[p] = "none" <=> row[p] = "none"
  BY <1>4 DEF IsOpen, OpenStatuses
<1>11. OneFamiliar'
  BY <1>1, <1>10 DEF IInv, OneFamiliar, IsAlive
<1>12. NoRecordedChildIsLost'
  <2> SUFFICES ASSUME NEW p \in Runs, IsAlive(p), row[p] # "none", instance[p] \in known
               PROVE  IsOpen(p)' /\ InHand(p)'
    BY <1>1, <1>10 DEF NoRecordedChildIsLost, IsAlive
  <2>1. IsOpen(p)
    BY DEF IInv, NoRecordedChildIsLost
  <2>2. CASE Adoptable(p)
    <3>1. row'[p] = "running" /\ runtime'[p] = "running" /\ processes'[instance[p]] = p
      BY <1>3, <1>4, <1>5, <2>1, <2>2
    <3> QED BY <1>1, <3>1 DEF IsOpen, InHand, OpenStatuses, Terminal
  <2>3. CASE ~Adoptable(p)
    BY <1>4, <2>1, <2>3 DEF IsOpen, InHand, OpenStatuses
  <2> QED BY <2>2, <2>3
<1>13. Recordings'
  <2>1. \A i \in Instances : Adopted(i) # None => IsOpen(Adopted(i))
    BY AdoptedRuns DEF Adoptable
  <2>2. UnrecordedIsUnheld'
    BY <1>3, <1>4, <1>10, <2>1, SupervisorAssumption DEF UnrecordedIsUnheld, IsOpen, OpenStatuses
  <2>3. RecordingIsAlone'
    BY <1>1 DEF IInv, Recordings, RecordingIsAlone
  <2> QED BY <2>2, <2>3 DEF Recordings
<1> QED BY <1>6, <1>8, <1>9, <1>11, <1>12, <1>13 DEF IInv

-----------------------------------------------------------------------------
LEMMA InitIInv == Init => IInv
<1> SUFFICES ASSUME Init PROVE IInv
  OBVIOUS
<1>1. Idle \in CallRecords /\ Idle.at = "idle"
  BY DEF Idle, CallRecords
<1>2. TypeOK
  BY <1>1, SupervisorAssumption DEF Init, TypeOK, CallRecords
<1>3. Recordings
  BY SupervisorAssumption DEF Init, Recordings, UnrecordedIsUnheld, RecordingIsAlone
<1> QED BY <1>1, <1>2, <1>3 DEF Init, IInv, Runtimes, UnspawnedIsBlank, HeldIsOwn,
  FollowedIsHeld, Followed, EndedIsGone, Terminal, DownIsEmpty, Strangers,
  CallsHaveInstances, StaleCallsOfStrangers, StaleSteps, StaleRowsOfStrangers,
  OneFamiliar, NoRecordedChildIsLost, IsAlive

LEMMA StartCallKeepsIInv ==
  ASSUME IInv, NEW c \in Calls, NEW i \in Instances, StartCall(c, i)
  PROVE  IInv'
<1>1. /\ manager # "down" /\ call[c].at = "idle" /\ recording = None
      /\ Goes(c, "start", i, "checking", None)
      /\ UNCHANGED <<manager, boots, known, victims>> /\ StartNow(i)
  BY DEF StartCall, CanCall, Quiet, NoContinuation, StartNow
<1>2. CallsGoOn
  BY <1>1, GoesGoesOn DEF IInv, StaleSteps
<1> QED BY <1>1, <1>2, StartKeepsIInv

LEMMA StartCheckedKeepsIInv ==
  ASSUME IInv, NEW c \in Calls, StartChecked(c) \/ RestartGoesOn(c)
  PROVE  IInv'
<1>1. /\ manager # "down" /\ call[c].at \in {"checking", "resumed", "waiting"}
      /\ recording = None
      /\ StartNow(call[c].inst) /\ Ends(c)
      /\ UNCHANGED <<manager, boots, known, victims>>
  BY DEF StartChecked, RestartGoesOn, Quiet, NoContinuation
<1>2. CallsGoOn
  BY <1>1, EndsGoesOn DEF IInv, StaleSteps
<1>3. call[c].inst \in Instances
  BY <1>1 DEF IInv, Strangers, CallsHaveInstances
<1> QED BY <1>1, <1>2, <1>3, StartKeepsIInv

LEMMA RunsToStop ==
  ASSUME IInv, NEW i \in Instances
  PROVE  ToStop(i) \in SUBSET Runs
  BY DEF ToStop, Supervised, IInv, TypeOK

(* Without a run to stop, nothing is marked.                               *)
LEMMA NothingMarked ==
  ASSUME TypeOK
  PROVE  RowsStopping({}) = row /\ RuntimesStopping({}) = runtime /\ TimersSet({}) = killTimer
  BY DEF TypeOK, RowsStopping, RuntimesStopping, TimersSet

LEMMA StopCallKeepsIInv ==
  ASSUME IInv, NEW c \in Calls, NEW i \in Instances, NEW force, StopCall(c, i, force)
  PROVE  IInv'
<1>1. /\ manager = "up" /\ call[c].at = "idle" /\ recording = None
      /\ UNCHANGED <<manager, boots, instance, process, familiar, recording, processes, known,
                     victims>>
  BY DEF StopCall, CanCall, Quiet, NoContinuation
<1>2. CASE RequestStop(ToStop(i)) /\ UNCHANGED call
  <2>1. CallsGoOn
    BY <1>2, SameCallsGoOn DEF IInv
  <2>2. victims' \subseteq Runs
    BY <1>1 DEF IInv, TypeOK
  <2> QED BY <1>1, <1>2, <2>1, <2>2, RunsToStop, RequestKeepsIInv
<1>3. CASE /\ LiveStale(i) # {} /\ row' = StaleRow(row, i)
           /\ Goes(c, "stop", i, "staleTerm", Max(LiveStale(i)))
           /\ UNCHANGED <<runtime, killTimer>>
  <2>1. /\ row' = StaleRow(RowsStopping({}), i)
        /\ runtime' = RuntimesStopping({}) /\ killTimer' = TimersSet({})
    BY <1>3, NothingMarked DEF IInv
  <2> QED BY <1>1, <1>3, <2>1, StaleStopKeepsIInv
<1> QED BY <1>2, <1>3 DEF StopCall

LEMMA RestartCallKeepsIInv ==
  ASSUME IInv, NEW c \in Calls, NEW i \in Instances, NEW force, RestartCall(c, i, force)
  PROVE  IInv'
<1>1. /\ manager = "up" /\ call[c].at = "idle" /\ recording = None
      /\ UNCHANGED <<manager, boots, known, victims>>
  BY DEF RestartCall, CanCall, Quiet, NoContinuation
<1>2. CASE LiveStale(i) # {}
  <2>1. /\ row' = StaleRow(row, i)
        /\ Goes(c, "restart", i, "staleTerm", Max(LiveStale(i)))
        /\ UNCHANGED <<instance, process, familiar, recording, runtime, processes, killTimer>>
    BY <1>2 DEF RestartCall
  <2>2. /\ row' = StaleRow(RowsStopping({}), i)
        /\ runtime' = RuntimesStopping({}) /\ killTimer' = TimersSet({})
    BY <2>1, NothingMarked DEF IInv
  <2> QED BY <1>1, <1>2, <2>1, <2>2, StaleStopKeepsIInv
<1>3. CASE LiveStale(i) = {} /\ Supervised(i)
  <2>1. /\ RequestStop({processes[i]})
        /\ Goes(c, "restart", i, "waiting", processes[i])
        /\ UNCHANGED <<instance, process, familiar, recording, processes>>
    BY <1>3 DEF RestartCall
  <2>2. processes[i] \in Runs /\ ToStop(i) = {processes[i]}
    BY <1>3 DEF Supervised, ToStop, IInv, TypeOK
  <2>3. CallsGoOn
    BY <1>1, <2>1, <2>2, GoesGoesOn DEF IInv, StaleSteps
  <2>4. victims' \subseteq Runs
    BY <1>1 DEF IInv, TypeOK
  <2> QED BY <1>1, <2>1, <2>2, <2>3, <2>4, RequestKeepsIInv
<1>4. CASE LiveStale(i) = {} /\ ~Supervised(i)
  <2>1. StartNow(i) /\ UNCHANGED call
    BY <1>4 DEF RestartCall
  <2> QED BY <1>1, <2>1, SameCallsGoOn, StartKeepsIInv DEF IInv
<1> QED BY <1>2, <1>3, <1>4

LEMMA DeleteCallKeepsIInv ==
  ASSUME IInv, NEW c \in Calls, NEW i \in Instances, DeleteCall(c, i)
  PROVE  IInv'
<1>1. /\ manager = "up" /\ call[c].at = "idle" /\ recording = None
      /\ runtime' = RuntimesStopping(ToStop(i)) /\ killTimer' = TimersSet(ToStop(i))
      /\ UNCHANGED <<manager, boots, instance, process, familiar, recording, processes, victims>>
  BY DEF DeleteCall, CanCall, Quiet, NoContinuation
<1>2. CASE LiveStale(i) # {}
  <2>1. /\ row' = StaleRow(RowsStopping(ToStop(i)), i)
        /\ Goes(c, "delete", i, "staleTerm", Max(LiveStale(i)))
        /\ UNCHANGED known
    BY <1>2 DEF DeleteCall
  <2> QED BY <1>1, <1>2, <2>1, RunsToStop, StaleStopKeepsIInv
<1>3. CASE LiveStale(i) = {}
  <2>1. row' = RowsWithout(row, i) /\ known' = known \ {i} /\ UNCHANGED call
    BY <1>3 DEF DeleteCall
  <2> QED BY <1>1, <2>1, RunsToStop, DeleteKeepsIInv
<1> QED BY <1>2, <1>3

LEMMA EndsOfRunsKeepIInv ==
  ASSUME IInv, NEW p \in Runs, SpawnError(p) \/ ExitSeen(p)
  PROVE  IInv'
<1>1. CASE SpawnError(p)
  <2>1. ~IsAlive(p) /\ runtime[p] \in Followed /\ manager # "down" /\ recording = None
    BY <1>1 DEF SpawnError, IsAlive, Followed, NoContinuation
  <2> QED BY <1>1, <2>1, FinalizeKeepsIInv DEF SpawnError, Terminal
<1>2. CASE ExitSeen(p)
  <2> DEFINE status == IF runtime[p] = "stopping" THEN "exited" ELSE "error"
  <2>1. ~IsAlive(p) /\ runtime[p] \in Followed /\ manager # "down" /\ recording = None
    BY <1>2 DEF ExitSeen, IsAlive, Followed, Quiet, NoContinuation
  <2>2. status \in Terminal
    BY DEF Terminal
  <2>3. /\ FinalizeExit(p, status)
        /\ UNCHANGED <<manager, boots, instance, process, familiar, recording, processes,
                       known, victims>>
    BY <1>2 DEF ExitSeen
  <2> HIDE DEF status
  <2> QED BY <2>1, <2>2, <2>3, FinalizeKeepsIInv
<1> QED BY <1>1, <1>2

LEMMA ShutdownKeepsIInv ==
  ASSUME IInv, ShutdownBegins \/ ShutdownAll \/ (\E p \in Runs : ShutdownGivesUp(p))
  PROVE  IInv'
<1>1. CASE ShutdownBegins \/ (\E p \in Runs : ShutdownGivesUp(p))
  <2>1. /\ manager' \in {"closing", "stopping"} /\ manager # "down"
        /\ victims' \subseteq victims
        /\ UNCHANGED <<boots, instance, process, familiar, row, recording, runtime,
                       processes, killTimer, call, known>>
    BY <1>1 DEF ShutdownBegins, ShutdownGivesUp
  <2> QED BY <2>1, DeathsKeepIInv DEF IInv, TypeOK, CallRecords
<1>2. CASE ShutdownAll
  <2>1. /\ manager = "closing" /\ manager' = "stopping" /\ recording = None
        /\ victims' = UNION {ToStop(i) : i \in Instances}
        /\ RequestStop(victims')
        /\ UNCHANGED <<boots, instance, process, familiar, recording, processes, call, known>>
    BY <1>2 DEF ShutdownAll, Quiet, NoContinuation
  <2>2. victims' \in SUBSET Runs /\ \A p \in victims' : \E i \in Instances : p \in ToStop(i)
    BY <2>1, RunsToStop
  <2>3. CallsGoOn
    BY <2>1, SameCallsGoOn DEF IInv
  <2> QED BY <2>1, <2>2, <2>3, RequestKeepsIInv
<1> QED BY <1>1, <1>2

LEMMA StutterKeepsIInv ==
  ASSUME IInv, UNCHANGED vars
  PROVE  IInv'
<1>1. UNCHANGED <<manager, boots, instance, process, familiar, row, recording, runtime,
                  processes, killTimer, call, known, victims>>
  BY DEF vars
<1> QED BY <1>1, DeathsKeepIInv DEF IInv, TypeOK, CallRecords

LEMMA StepIInv == IInv /\ [Next]_vars => IInv'
<1> SUFFICES ASSUME IInv, [Next]_vars PROVE IInv'
  OBVIOUS
<1>1. CASE \E p \in Runs :
             \/ Spawned(p) \/ SpawnError(p) \/ Die(p) \/ ExitSeen(p) \/ ForceKill(p)
             \/ ShutdownKill(p) \/ ShutdownGivesUp(p)
  BY <1>1, SpawnedKeepsIInv, EndsOfRunsKeepIInv, DieKeepsIInv, ForceKillKeepsIInv,
     ShutdownKillKeepsIInv, ShutdownKeepsIInv
<1>2. CASE \E c \in Calls, i \in Instances :
             \/ StartCall(c, i) \/ DeleteCall(c, i)
             \/ \E force \in BOOLEAN : StopCall(c, i, force) \/ RestartCall(c, i, force)
  BY <1>2, StartCallKeepsIInv, DeleteCallKeepsIInv, StopCallKeepsIInv, RestartCallKeepsIInv
<1>3. CASE \E c \in Calls :
             \/ StartChecked(c) \/ RestartGoesOn(c)
             \/ StaleGone(c) \/ StaleKill(c) \/ StaleGivesUp(c)
  BY <1>3, StartCheckedKeepsIInv, StaleGoneKeepsIInv, StaleKillKeepsIInv,
     StaleGivesUpKeepsIInv
<1>4. CASE ShutdownBegins \/ ShutdownAll
  BY <1>4, ShutdownKeepsIInv
<1>5. CASE ShutdownEnds \/ Crash
  BY <1>5, ForgetsKeepsIInv DEF ShutdownEnds, Crash
<1>6. CASE Boot
  BY <1>6, BootKeepsIInv
<1>7. CASE Recorded \/ NotRecorded
  BY <1>7, RecordedKeepsIInv, NotRecordedKeepsIInv
<1>8. CASE UNCHANGED vars
  BY <1>8, StutterKeepsIInv
<1> QED BY <1>1, <1>2, <1>3, <1>4, <1>5, <1>6, <1>7, <1>8 DEF Next

LEMMA SpecIInv == Spec => []IInv
  BY InitIInv, StepIInv, PTL DEF Spec

-----------------------------------------------------------------------------
(* Every variable keeps its type, and every run is closed as exited or as  *)
(* an error, whatever ends it (supervisor.ts, finalizeExit; reconcile.ts). *)
THEOREM TypeCorrect == Spec => []TypeOK
<1>1. IInv => TypeOK
  BY DEF IInv
<1> QED BY <1>1, SpecIInv, PTL

(* Whatever the order of calls, exits, crashes and starts of the manager,  *)
(* a live child of a configured instance whose row was ever written has an *)
(* open row, and while the manager runs it is held, stale, or being        *)
(* stopped as stale.  Only a start() that crashes or throws between        *)
(* spawn() and createProcessRun() leaves a child that nobody finds.        *)
THEOREM OnlyUnrecordedAreLost == Spec => []NoRecordedChildIsLost
<1>1. IInv => NoRecordedChildIsLost
  BY DEF IInv
<1> QED BY <1>1, SpecIInv, PTL

(* The supervisor follows one live child of an instance at most: start()   *)
(* looks at the map and spawns in one step, and reconcileProcessRuns()     *)
(* adopts no second child.                                                 *)
THEOREM AtMostOneSupervised == Spec => []OneSupervisedChild
<1>1. ASSUME IInv PROVE OneSupervisedChild
  <2>1. \A p \in Runs : IsAlive(p) /\ runtime[p] # "none" => processes[instance[p]] = p
    BY <1>1 DEF IInv, TypeOK, Runtimes, FollowedIsHeld, EndedIsGone, Followed
  <2> QED BY <2>1 DEF OneSupervisedChild, Runs
<1> QED BY <1>1, SpecIInv, PTL

(* Whatever happened before a crash, reconcileProcessRuns() finds at most  *)
(* one child of an instance that it would adopt: "the latest first" never  *)
(* leaves a second one behind that nobody follows.                         *)
THEOREM AtMostOneAdoptable ==
  Spec => [](\A p, q \in Runs : Adoptable(p) /\ Adoptable(q) /\ instance[p] = instance[q]
             => p = q)
<1>1. IInv => \A p, q \in Runs :
                Adoptable(p) /\ Adoptable(q) /\ instance[p] = instance[q] => p = q
  BY DEF IInv, OneFamiliar, Adoptable, IsOpen, OpenStatuses
<1> QED BY <1>1, SpecIInv, PTL
=============================================================================
