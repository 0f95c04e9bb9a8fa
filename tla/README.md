# Formal models of llama-manager

llama-manager is a local control plane for `llama-server`: one Node process that
supervises model servers, and an API proxy that shares one or more memory pools
(GPUs and hosts) between models that do not fit side by side. These modules model
its moving parts: which model may run and when, how a request is routed, made
ready, forwarded, interrupted and resumed, how its answer is translated, how
requests share answers, and what becomes of child processes and of build and
update jobs. TLC checks the modules
on small instances; TLAPS proves the main properties for every instance.

Paths below are relative to `apps/api/src/` unless they begin with `docs/` or
`packages/`.

## Inventory

Everything runs on one event loop. A handler is atomic up to its first `await`;
what can interleave are the handlers of different requests, timers, child
processes and the other ends of HTTP connections.

| Component | State | Operations | Interacts with | What makes it hard |
|---|---|---|---|---|
| Memory planner `proxy/scheduler.ts` | none; a function of a plan request | `planApiProxyRequest`, `planApiProxyIdleMaintenance` | gateway, admission policy, executor, maintenance | greedy choice over several pools, targets that share an instance, boundaries |
| Admission policy `proxy/domain-admission.ts` | the plan request captured before queueing | `decide` | planner, coordinator | decides on an old view |
| Coordinator `proxy/domain-coordinator.ts` | holders, waiters, leases with status and preempt signal | `acquire`, `yield`, `release`, abort, `tryAcquireMaintenance` | every request; maintenance | preemption, priority against affinity against age, aborts at any time, lost wakeups |
| Swap lock `proxy/domain-swap-coordinator.ts` | one promise chain per domain | `run` | executor | several domains per call, given in any order |
| Readiness `proxy/public-executor.ts`, `target-lifecycle.ts`, `gateway.ts` | the actions of one plan, pass counter | start, stop, load, unload, save and restore slots, wait | planner, swap lock, supervisor | 16 passes, three timeouts, waits that hold a lease and the lock |
| Idle maintenance `proxy/idle-maintenance.ts`, runtime view `runtime.ts` | a running flag; idle times, saved slots, probe caches | one pass per interval; snapshots | planner, coordinator, executor's actions | plan first, lease later; caches of different age |
| Request path `proxy/protocol-endpoint.ts`, `resumable-forward.ts` | one lease, one in-flight entry, a resume buffer per request | plan, refuse, queue, make ready, forward, yield and resume | all of the above | what was read before an `await` and is used after it; client aborts |
| In-flight registry `proxy/inflight.ts` | entries with phase and three abort controllers | begin, progress, force answer, finish, cancel, sweep | request path, runtime view | races between an operator and the stream |
| Response sharing `proxy/response-*.ts` | in-flight keys, broadcasts, cache rows | register, settle, subscribe, time out | pipelines | followers of an owner that fails or is late |
| Pipelines `proxy/pipeline.ts`, `pipeline-validation.ts`, `fusion.ts`, `packages/core/src/proxy/pipeline-graph.ts`, `routes/proxy-targets.routes.ts` | stored pipelines, targets, models; one walk per request | create, update, delete; walk, call, exit, fuse | request path, response sharing | one edit can break the route of a model far away; edits while a walk waits |
| Process supervisor `process/*.ts` | one runtime per instance, rows of runs | start, stop, restart, adopt, reconcile, shutdown | executor, routes, the OS | exit, spawn and stop events in any order; restart of the manager |
| Jobs `build/`, `update/`, `llama/source-*.ts` | the running record and the list of jobs of each runner | start, cancel, run, roll back, restart | routes, the OS | a cancelled run goes on until its command ends |
| Resource ledger `resources/`, `packages/core` | pools and draws | sums | planner | none |
| Translation `packages/anthropic-openai-bridge`, `proxy/translation.ts` | the emitter of one stream: open block, next index, counts | push a payload, finish | request path, the client's reader | payloads in any order; a stream that ends or fails anywhere |
| Configuration, statistics, routes, UI, NUMA, nodes, auth | rows and files | CRUD, parsing, HTTP | | no concurrency of their own |

What makes each of them correct: the planner never exceeds a pool, never evicts
outside its mandate and never gives up too early; the coordinator never starts
work beside a higher priority, never swaps under a running generation, never
forgets a waiter or a preemption; the swap lock is exclusive, fair and free of
deadlock; readiness evicts nothing that is being served and ends; an answer has
no gap however often it is interrupted, and whoever stops it is heard; who shares
an answer gets a whole one and does not wait for ever; a route that was accepted
leads to a target; a translated stream is one the client's reader accepts and says
all that the upstream said; the supervisor loses no child it has recorded
and supervises none twice; a job ends, and a cancelled one starts nothing.

`PROJECT.json` lists the components with their status, the lines every
definition models, and the hazards with the line where each bites.

## Modules

```
                       Scheduler
                      /         \
           MemoryPlanner    DomainAdmission
                 |             /        \
                 |   DomainCoordinator   Readiness
                 |
                 |        SwapCoordinator --(implements)--> ExclusiveSwaps

PlannerProofs       of MemoryPlanner
CoordinatorProofs   of DomainCoordinator and SwapCoordinator; uses PlannerProofs
ReadinessProofs     of Readiness; uses PlannerProofs

PipelineProofs      of Routes and Sharing

Forwarding -- ForwardingProofs      AnthropicStream -- AnthropicStreamProofs
Jobs       -- JobsProofs            Supervisor      -- SupervisorProofs
```

Each component has an `MC` module with the values of its constants. The modules
meet at interfaces that one side promises and the other assumes: `Readiness`
composes the admission policy, the planner, the lock as `ExclusiveSwaps` promises
it, the executor and maintenance; `Forwarding` assumes that a queued lease is
granted (`EventuallyServed`) and that readiness ends (`RequestsEnd`); `Sharing`
takes a served request as one step that succeeds or fails; `Routes` ends where
`Forwarding` begins. A composition of all of them in one state space is out of
TLC's reach.

Some definitions have a variant under the heading *seeded fault*: a plausible
bug in the same place. Each property is checked to fail when a variant is
substituted, so that none of them holds vacuously.

### Planner, admission and coordinator

**Scheduler** models `scheduler.ts` in request mode as operators. A plan request
is `[rt, prot]`: the runtime view of every target, and the protected targets.
`MemoryPeers` is the table `collectMemoryPeerInstances` builds, one entry per
instance; `EvictUntilFits` is the eviction loop, a recursive function on the set
of kept instances; `PlanRequest` returns whether the plan is `ok`, the evicted
instances and `preemptTargetIds`. The list of actions is reduced to the
instances it unloads. Every target is managed: for an external one the planner
decides nothing. A target that has a draw of zero bytes counts as having none.

**MemoryPlanner** wraps one call of the planner in a behaviour, so that TLC
enumerates requests, and states what a plan promises in terms of *targets* and of
*all* sets of evictions, not of the planner's own table. Targets of one process
that name no model are ready together (`Consistent`).

**DomainAdmission** models `domain-admission.ts`: the parallel limit, the
priority gate, the overlay of the holders on the captured view, the plan with
busy eviction, and the decision (admit, preempt, wait).

**DomainCoordinator** models `ComputeDomainCoordinator` and its callers. One
lease object per request; `lease` is what `createLease` fixes, `status`, `holders`
and `waiters` are the code's, `fired` are the leases whose present preempt signal
is aborted, `aged` those past `swapFairnessMs`; `caller` is where the request's
own code stands. The actions:

| Action | Code |
|---|---|
| `PlanRequestFor` | `serveResolvedTarget` up to the gateway's answer: planned on any of `Snapshots` with the wanted targets of the moment, or refused |
| `Acquire` | `acquire`, with `createLease` and `scheduleAdmission` |
| `TryAcquireMaintenance` | `tryAcquireMaintenance` on the draws of an instance |
| `Yield` | the resume loop calling `yieldLease`, at most `MaxYields` times |
| `Release` | `releaseLease` by the owner: the response completed, failed or was cancelled |
| `AbortLease` | `abortLease`: the client went away |
| `GrowOld` | the clock passing `enqueuedAt + swapFairnessMs` |

`ScheduleAdmission(data, H, W, st, cl, F)` is the loop of `scheduleAdmission` in
one step, on the lists the handler leaves. A run of the loop is an injective
sequence of the waiters it promotes; in each pass the candidates are sorted by
`CandidateKey`, the first one that may be admitted is promoted, and the ones
before it ask holders to yield. The sort key ends in the sequence number, so the
sequence is unique. `holders` and `waiters` are sets: the code never depends on
the order of either list except through that key.

**ExclusiveSwaps** states what the readiness executor expects of the swap lock,
and **SwapCoordinator** is `DomainSwapCoordinator.run`: a promise is a number on
its domain's chain, `tails` the last one, `ticket` the ones a call has put there.
`Proceed` is the continuation after `await prior`, `Finish` the `finally` block.

### Readiness

**Readiness** follows a request from its plan to its answer. `status` is what
the model or the process of a target is doing, `seen` what the last probe saw:
`Preview` decides on `seen` where the code uses the cached view and on `status`
where it probes afresh. `phase` is where the request stands: waiting for its
lease, `locking`, `holding` with a preview to look at, `acting` on an awaited
action, waiting for a plan that is blocked or for a loading model, `serving`, or
ended. `ActOn` takes the first readiness action of the plan; `Acted` is its
answer, which may fail; `TimeOut` are the executor's timers; `Yield`, `Abort` and
`Finish` end a holding stint. `PlanPass`, `NextTarget`, `SaveInPass` and
`UnloadInPass` are a maintenance pass. Processes die by themselves up to
`MaxFailures` times and, once stopped, take their time to exit.

### Forwarding

**Forwarding** is one request from its lease to its answer, in the four ways of
answering: `resumable` (the resume loop, streamed or buffered for the client),
`buffered`, `streamed` and `plain`. A generation is a run of thoughts, then of
tokens, then of pieces of a tool call, which are named by their positions, so that
a repeated or lost piece shows in the buffer `state`. `InTool` is `inToolPhase`:
set by the first piece of a call and never reset. `NextTail` is the tail the next attempt sends, and `Behind`
how the upstream goes on after it. `Preempt` is the listener on the preempt
signal, `ForceAnswer` and `Stop` the operator's calls, `ClientLeaves` the abort
of the client's signal, `Sweep` the removal of entries without progress. Aborting
a fetch and seeing it fail are two steps (`AttemptAborted`, `FetchAborted`).
`UpstreamFails` is what fails by itself, with both answers of `classifyAbort`: an
error, or, where the preempt signal is aborted and only the call in the buffer has
kept the fetch open, a preemption that is resumed. `torn` is a history variable
that remembers the latter; no guard reads it.

### Sharing

**Sharing** models what the cache nodes share between requests: the `stored`
response of a key, the entries `inFlight` that followers wait for with their 120 s
`timers`, and the `broadcasts` of running streams. `StreamNode` and `JsonNode` are
what a cache node does after its awaited lookup, `Record` is the flush of the
capture sink with everything it settles and finishes: `RecordStream` of a sink that
was tapped, `RecordText` of one with a text. `Text` sets one, for a single answer
and for a stream that a fusion answers with its only branch. A body is what its request
came to, so that an answer and what a failed request left behind can be told
apart.

### Routes

**Routes** has the stores and the walk. `CreatePipeline` to `QuickRoute` are the
handlers of `routes/proxy-targets.routes.ts`: they validate and write in one step.
`GraphValid` is `validateApiProxyPipelineGraph`, `RoutesComplete` the check that a
save leaves no model's route with a hole; a hole is searched for over *places*,
that is references with the calls that are open there, as
`collectApiProxyRouteHoles` does. A walk (`walk`) keeps the pipelines it is in as
they were when it entered them; edits get in at cache nodes and while a fusion
panel generates (`Edit`). In the role `main` it decides the route of the request;
a fusion node has one walk for each branch and one for the synthesizer. Node types
that only edit the body are one type, `cache` also stands for `capture-request`, a
condition may go either way, and a target of an endpoint is a target.

### AnthropicStream

**AnthropicStream** is one answer of an OpenAI upstream on its way to an Anthropic
client. `emitter` is the state of `createAnthropicSseEmitter`; its functions are
operators that take and return it together with `reader`, the client that reads
what they emit: the client keeps the blocks it was told of and is lost at the
first event that does not fit. `Push` is a payload with a choice, usage or
progress, `PushError`, `PushDone` and `PushLate` the early returns of `push`,
`Flush` and `Break` the ends of the body. A payload is reduced to what the emitter
looks at; what it says is named by its number, so that pieces that are lost,
repeated, moved or put in the wrong block show in `reader.got` against `sent`.
Both name a block by its position in the message: `sent` gives every turn of the
upstream, thoughts, text or the call of one index, a block of its own.

### Supervisor

**Supervisor** names children by numbers in the order they were spawned.
`process` is what the operating system knows of a child, `row` its run in the
database, `runtime` the supervisor's record, `processes` the supervisor's map from
instances to runs. Children and rows survive the manager; runtimes, timers and
calls do not. A start is two steps: `StartNow` spawns the child and leaves it in
`recording`, then `Recorded` writes its row and its runtime. In between the manager
may crash (`Crash`) or the insert may throw (`NotRecorded`). `StartCall`, `StopCall`, `RestartCall` and `DeleteCall` are the
lifecycle calls with the steps they await; `Spawned`, `SpawnError`, `ExitSeen` the
child's events; `ForceKill` the timer of a stop; `StaleGone`, `StaleKill`,
`StaleGivesUp` the handling of stale processes; `ShutdownBegins` to `ShutdownEnds`
the shutdown; `Boot` is `reconcileProcessRuns`, which adopts, closes or marks
every open run. `Quiet` says that Node runs the continuations of an event before
the next event.

### Jobs

**Jobs** models both runners. `running` is the running record, `jobs` the list
kept in memory, `run` where the asynchronous `run()` of each job stands. `Start`
and `Cancel` are the calls of an operator. A command ends when it likes, with
success or failure, also after it was signalled (`Exits`, then `StepCanceled`,
`StepSucceeds` or `StepFails`), or cannot be spawned (`SpawnError`); a run whose job
was dropped from the list throws where it patches it (`JobDropped`). `RollbackEnds`
is the reset of the tree after a failed update, and `Restarts` the timer of the
restart, which ends the manager as a `Crash` does. The source tree itself is not
modelled.

## Runs

| Run | States | Bounds |
|---|---|---|
| `coordinator` | 759 478 | 3 leases; `chat` fills the GPU and outranks `bgA`, `bgB`, which fit together; 2 pools; `bgA` resident; 1 yield per lease; parallel limit 1 for the background |
| `planner` | 622 080 | 4 instances, one a router with two models, one shared by two targets, one protected; 2 pools; every view and every protected set |
| `swap_lock` | 8 224 | 3 calls, 3 domains, lists in both orders and with duplicates |
| `readiness` | 582 031 | 2 requests for `chat` and `bg`, which exclude each other; slots; 1 yield, 1 process that dies; maintenance |
| `over_subscription` | violation | as `readiness` |
| `forwarding` | 82 004 | 3 attempts, 2 thoughts, 3 tokens, a tool call of 2 pieces, all ways of answering |
| `sharing` | 1 331 902 | 3 requests on the nodes a-b, a-b and b; 2 chunks |
| `failed_owner_poisons` | violation | as `sharing` |
| `routes` | 224 369 | 3 pipelines with 3, 4 and 5 drafts, 1 target, 1 model; 4 visited nodes, 1 open call, 1 nested fusion, 1 disabled pipeline; a search for holes of 20 steps, (4 + 1) * (3 + 1) |
| `anthropic_stream` | 512 122 | 5 payloads of 12 kinds, among them several kinds of content in one; 2 tool calls |
| `supervisor` | 777 788 | an orchestrator and its rpc worker, 2 children, 2 calls at a time, 3 starts of the manager |
| `jobs` | 56 685 | 3 jobs of either kind, a history of 2, 1 crash |

The properties, by what could go wrong:

- *Swaps under a running generation.* `SwapBarrier`: a request that was not
  resident when it was planned is admitted only if it fits beside every holder
  that goes on running, however old its view. (Not beside one that yields and is
  admitted again in the same step: by then it counts as a new holder that was
  resident on its own view, and what fits beside it is not promised.) `VictimsMayBeEvicted`: the planner
  interrupts and unloads only what it has a mandate for. `EvictsNoForwarded`: no
  executor and no maintenance pass unloads a model that is being forwarded to,
  also where the executor has lost its lease.
- *Priority.* `PriorityHeld`, `ResumesFirst` (of two requests that differ in their
  age alone; that a request may be admitted again before the one it yielded to is
  among the divergences below).
- *Forgotten requests.* `NobodyForgotten` (no waiter that could be admitted, no
  holder in the way that was not told), `EventuallyServed`, `EveryCallRuns`,
  `TurnsAreTaken` (order, and no deadlock of calls on several domains),
  `RequestsEnd`, `WaitersEnd`, `StopsAreHeard`.
- *Bookkeeping under aborts.* `QueuesAgree`, `LeasesCompatible` (maintenance is
  alone, the parallel limit holds), `GeneratesUnderLease`.
- *The lock of swaps.* `ExclusiveSpec`, `SwapsAreSerialized` (a run without the
  lock was resumed after a preemption; beside maintenance only the run of a
  client that has left goes on).
- *The greedy loop against all alternatives.* `LoadsWhatFits`, `LeastHarmFirst`.
- *Interrupted answers.* `AnswerIsSeamless`, `ToolCallsAreWhole` (no preemption
  aborts an attempt whose buffer has begun a call, and the call is what one upstream
  sent of it; but for an answer that is `torn`, see the divergences).
- *Translated answers.* `ReaderFollows`, `AnswerIsComplete` (every turn of the
  upstream in a content block of its own, compared by position. A call that is come
  back to after another block is a second turn, and gets a second block; see the
  divergences).
- *Shared answers.* `HearsOneOwner` (the whole of one owner's chunks, which are none
  where a fusion set the owner's answer as a text; see the divergences).
- *Routes.* `NothingDangles`, `ValidatedRoutesServe`, `WalksEnd`.
- *Children.* `NoRecordedChildIsLost`, `OneSupervisedChild`, `StopsEnd`.
- *Jobs.* `RunningIsFollowed`, `CanceledStartsNothing`, `JobsEnd`.

Why the bounds are enough. Three leases are the fewest with two holders and one
preemptor, and with a holder, a suspended and a new request of the same target;
`chat` against `bgA` and `bgB` gives every answer of `Decide`; `bgA` draws on a
second pool, so domains overlap without being equal. Two instances would not show
a choice of victims; four give idle, busy, wanted and protected ones at once. Two
requests, a maintenance pass and a client that leaves are the actors that can meet
at one lock; a third request adds only a queue, which `coordinator` has. Three
attempts allow a preemption before, in and after a forced answer; two pieces of a
tool call are a half and the rest. Three requests
are an owner, a follower and the next owner of the key. Two children are the old
and the new one of an instance, or an orchestrator and its worker. Three jobs are
a cancelled one whose run goes on, its successor, and one that drops the first from
the history. Three pipelines are a head, a middle and an end: loops of length two
and three, a call over a jump, a hole two pipelines away; the four visited nodes
and the one open call let both limits be reached. Five payloads are two changes of
block, usage or progress, a finish and what may come behind it. Numbers that only grow
(sequence numbers, ids of runs and jobs) are bounded by the number of leases,
children and jobs.

Deadlock is checked for `routes` alone. In the other modules the system may
really stop: all requests over, all jobs done, all children spawned and gone; what
must not stop is said by properties.

### Divergences

Two runs show a disagreement between the code and its documents; the findings
in `PROJECT.json` quote both.

- `BudgetKept`: a stop is a signal. The executor starts the next model while the
  process it stopped still holds its memory, which
  `docs/RESOURCE_MANAGEMENT.md:141-143` rules out.
- `FailedOwnersPoisonNobody`: what a failed single answer left behind is stored
  and answers the next request.

Others met while modelling, which the models follow the code in:

- `domain-coordinator.ts:292`: a request that yields may be admitted again before
  the one it yielded to, if another preempted holder has not yielded yet
  (`docs/API_PROXY_PREEMPTION.md:7`). Each such round aborts and resumes a
  generation, at most `maxAttempts` times. No property forbids it; `NobodyForgotten`
  has the request that came back told again.
- `proxy/resumable-forward.ts:289`: a body that breaks while a preemption waits for
  its tool call counts as preempted and is resumed. The upstream is sent the text
  alone and begins its call anew, and the buffer puts the new call behind the half
  that is there. `docs/API_PROXY_PREEMPTION.md:64` has tool calls accumulated
  structurally and deferred while they run.
- `proxy/protocol-endpoint.ts:426`: the answer of a fusion with one branch left is
  set as a text for a stream too. The flush stores it as a single answer and
  finishes the broadcast without a chunk, so its subscribers get an empty stream,
  where those of a buffered stream get the whole result
  (`docs/API_PROXY_RESPONSE_CACHE.md:262`).
- `process/supervisor.ts:178`: a manager that dies between the spawn (`:169`) and the
  insert of the run, or an insert that throws, leaves a child that no later manager
  finds, while `docs/SELF_UPDATE.md:66` has the children survive and be re-adopted.
- `proxy/gateway.ts:65`: the refusal before the queue happens also when the
  resident model is idle but outranks the request
  (`docs/RESOURCE_MANAGEMENT.md:92`).
- `proxy/idle-maintenance.ts:164`: a slot is recorded as saved without looking at
  the response of the save.
- `proxy/inflight.ts:398`: a force-answer that is accepted between two attempts is
  lost. `inflight.ts:319`: the sweep drops entries that are only queued.
- `proxy/response-capture.ts:67`: a stream that fails before its body leaves its
  broadcast behind, and later streams of its key subscribe to it
  (`docs/API_PROXY_RESPONSE_CACHE.md:267`). A stream whose client leaves is stored
  although it is truncated (`:256`). The flush of a single answer finishes the
  broadcast of a running stream of the same key.
- `proxy/pipeline.ts:381`: entering a pipeline by a jump counts as no node. A ring
  of pipelines that only jump, which validation keeps out but a file edit does
  not, is walked for ever, while `docs/API_PROXY_PIPELINES.md:235` lists the limit
  of 256 nodes as the backstop against file edits. Routes that are too long or
  call too deep are accepted and fail as `pipeline_cycle` when they are used;
  fusion branches are not searched for holes; a pipeline in use may be disabled.
- `packages/anthropic-openai-bridge/src/stream.ts:242`: only the open block is
  remembered. A tool call that is continued after another block was opened becomes
  two calls, the second with the id `toolu_N` and an empty name
  (`docs/ANTHROPIC_OPENAI_BRIDGE.md:124`). `stream.ts:139`: without
  `cached_tokens` in the usage, the cached tokens of the progress are reported
  beside input tokens that still contain them (`:108`).
- `packages/anthropic-openai-bridge/src/stream.ts:177`: an error does not finish the
  emitter; what the upstream sends behind it is translated, with a `message_stop`.
- `build/runner.ts`, `update/runner.ts:308`: the child of the run that goes on
  replaces `running.child` of the next one, so that a cancel signals the wrong
  command; a checkout is allowed while the command of a cancelled build lives;
  a cancelled update leaves the pulled tree (`docs/SELF_UPDATE.md:19`), and its run
  goes on beside the next update and may move the checkout under it, which then
  restarts on what was built from another revision.
- `index.ts:141`: a start that is in flight when the manager shuts down may spawn
  a child that nobody stops; the next start adopts it.

## Fairness

What the code's scheduling justifies, module by module:

- `DomainCoordinator`: a running owner does not run for ever (`OwnersFinish`): its
  response ends, by completion, error, cancellation or a timeout, or it reacts to
  the preempt signal. Nothing is assumed of clients, new requests, maintenance or
  the clock. Admission needs no fairness: it is part of the handlers.
- `SwapCoordinator`: the continuation of a resolved promise runs, and a running
  function ends; the executor's waits have time limits.
- `Readiness`: awaited actions end by their own timeouts, responses end, the
  executor's timers fire, a free lock and an admissible lease are granted.
- `Forwarding`: nothing is assumed of the upstream, which may generate for ever;
  leases are granted, readiness ends, an aborted fetch fails.
- `Sharing`: continuations run, timers fire, and a served request ends, for an
  upstream generates no more than its context holds.
- `Routes`: an awaited lookup and the generations of a panel are answered.
- `Supervisor`: a start() that has spawned goes on to its insert, timers fire, events
  are delivered, a child that was sent SIGKILL
  dies. Nothing is assumed of SIGTERM, of the operator or of crashes.
- `Jobs`: commands end, and the timer of the restart fires.

Where a module states fairness as `[]<>` of states (`DomainCoordinator`,
`Readiness`, `Sharing`, `Supervisor`), it is weak fairness of the steps that leave
those states, which TLC checks faster.

## Proofs

`tlapm` checks every leaf; nothing is assumed but the named assumptions on the
constants, which TLC evaluates on the instances.

**PlannerProofs.** The eviction loop and the sums of draws are recursive
functions. That such a function exists, with a value for every argument, is
proved by taking the smallest set of peers for which it would not (`SmallestSet`,
`DescentExists`, from the least number principle), and in the same way what the
loop returns (`EvictionFacts`): every victim was taken by `NextVictim` from some
larger set of kept peers that left a pool short, and the loop stops only where
no pool is short or nobody is left to take. `NextVictimFacts` says of whom
`NextVictim` takes that no other would have been less harmful. The properties
speak of targets and of all sets of evictions, the loop of its own table of
peers; `PeersAndOthers` and `EligibleMayBeEvicted` translate. Then three
arguments remain: nothing is short without the victims (`NothingShort`); where
the loop leaves a pool short, unloading what draws on no short pool does not
help (`StillShort`); and sums grow with what they sum over (`SumMonotone`). The
theorems are about any targets, instances, pools, budgets, draws and priorities,
provided these sets are finite and no two targets have the same position in the
configuration.

**CoordinatorProofs**, the leases. Every handler ends with `scheduleAdmission`, so
the invariant is stated on lists: `Sound(data, H, W, st, cl, F)` says that statuses
and lists agree, that each lease is in a shape its owner can have brought about
(`LeaseShape`), that maintenance is apart and that the limits hold; it can be said of
the intermediate state a handler passes to the admission as well as of a state.
`IInv` is `Sound` of the state with `NoLostWakeup` and `PreemptionAsked`, the two
halves of `NobodyForgotten`. The argument has two halves. The handlers lead from
`IInv` to a sound intermediate state (`AcquireSound`, `YieldSound`, `SettleSound`).
The loop leads from a sound intermediate state to `IInv` (`AdmissionSound`): of any
set of leases promoted in one run, the last one was admitted beside all the others
(`LastOf`, by the least number principle on the positions of the run), which gives
the limit (`AdmissionKeepsLimits`) and the separation from maintenance
(`AdmissionKeepsApart`); the last pass found nobody to admit and has told every
holder that is needed (`PassFacts`). `LeaseShape` is needed because none of the
properties is inductive alone: a preempted lease must be that of a target for
`yield` to queue a request again, and leases of one target must share its domains
for the parallel limit to be counted on overlapping holders. For all this the
planner is an unknown function: the theorems hold whatever it answers.

What a step may not do is proved of the run of the loop in it (`NextMovesQueue`
says which list every handler leaves to the loop). `PriorityIsHeld`: whoever is
promoted was examined beside all who held before (`AdmissionRespectsPriority`).
`PreemptedResumeFirst`: of two twins, which differ in their age alone, the older
comes first in every pass, and what is admitted of the younger would have been
admitted of it (`FirstOfTwins`); the sequence numbers are compared by
`LexLessOfThree`. `BarrierHolds` is where the planner is opened: the overlay marks
the instance of every holder as resident and busy (`OverlayFacts`), so that it is a
busy peer of the plan (`HeldIsBusyPeer`), which an admission without a preemption
keeps; what the loop keeps leaves room in every pool (`PlanLeavesRoom`,
`AdmittedFits`); and the last one promoted was examined beside all the others.

**CoordinatorProofs**, the swap lock. The invariant says that the tickets of a
domain are distinct and not above its tail, that a call has joined its keys in the
order of their ranks, and that promises are resolved only by finished calls. No
deadlock: among the queueing calls take the greatest key awaited, and on it the
least ticket; its predecessor runs or is finished. Refinement: the claims of two
running calls would share a domain on which both have got past the other.

**ReadinessProofs.** `RequestInv` says of a request what its phase tells: a request
under way has a target and a plan; only a run under way has the swap lock, and it
goes without only where no domain is drawn on or after a yield; a run on which maintenance works
belongs to a client that has left, and is not serving. `LocksExclude` says that
the lock is exclusive. `SwapsAreSerialized` follows, and for two requests
`FirstRunsAreExclusive`. One lemma for each step of the request path and of the
pass; `IsFirstAction` is all they need of the plan. `NoForwardedIsEvicted` needs
two facts from elsewhere: an executor unloads only what its plan does not count as
busy, and `ActOn` counts every request in flight as busy; and a maintenance pass
unloads on domains without a lease, while a request that is forwarded to has one.

**SupervisorProofs.** `NoRecordedChildIsLost` and `OneSupervisedChild` need the agreement
of the runtimes with the map and with the children (`Runtimes`: a runtime that has
not ended is the one the map holds, one that has ended has no child). Restarts of the
manager need more, for `reconcileProcessRuns` would adopt two living children of
one instance: `OneFamiliar` says that at most one of them still shows the binary
of its instance, and `Strangers` that what a call stops as stale, or a row calls
stale, is not that one. `AtMostOneAdoptable` states it as a theorem.
`RecordingIsAlone` and `UnrecordedIsUnheld` carry a start over the gap between its
spawn and its insert: nothing else is started, and nobody holds the child. At least one
child and one start are assumed (`MaxRuns`, `MaxBoots`).

**ForwardingProofs.** The invariant adds to the properties what goes together:
the handler, its lease, its entry and its fetch (`Handler`); that only a resumable
request without text is interrupted (`Interrupts`); that the phase of the entry
tells what the client has been sent (`Phases`); and where the upstream stands
(`Positions`, and `Calls` for the tool call): behind exactly what the buffer holds. `AnswerIsSeamless` is not
inductive without `Positions`, and that needs `Interrupts`, for a forced answer
closes the thoughts of the attempt it was meant for. `ToolCallsAreWhole` needs that
no attempt begins with a call in the buffer unless the answer is `torn`.

**AnthropicStreamProofs.** `Mirrors` says of an emitter and a reader what the
functions of the emitter rely on: as long as no error was read, the reader is in the
message exactly while the emitter is, its open block is the emitter's, it has as
many blocks as indexes were given, and it has read what was sent. The block of
the emitter is the turn of the upstream (`Writing`): both begin with the first piece
of another kind or another tool call. One lemma for each function (`CloseBlockMirrors` to `FinalizeMirrors`), composed in the order
the pieces of a payload are emitted. All three properties follow, for every set of
payloads and streams of any length.

**JobsProofs.** The invariant adds to `RunningIsFollowed` that the running record
names a job that was started and is kept (`RecordOfStarted`). Then a start finds no
job shown as running, and what the run of a cancelled job writes is written to a
job that is not the followed one. That record is
what `CanceledStartsNothing` needs too: a start opens a job of its own, and no
continuation of a cancelled job finds it without its record.

**PipelineProofs**, the routes. A stored graph is closed under what is stored
(`Closed`), a model is bound to it (`Bound`), and the routes of models are
references, which is what makes the comparison in the handlers of a delete
complete. One lemma for each edit; walks only read. That gives `NothingDangles`.

`ValidatedRoutesServe` relates a check at the time of a save to all walks at all
later times. Its invariant has two halves. `ServedInv`: no pipeline is reachable
from itself (`Acyclic`; an update that passes `GraphValid` closes no loop), and no
model's route has a hole (`Served`). The step that needs an argument is the save of
a pipeline: the handler searches only the routes from which the pipeline is
reached, and `SameHoles` says that the others cannot have changed, for a search
never leaves the set of pipelines reached from its root. That set is what the
iteration of `PipelinesReached` ends in (`ReachedPipelines`): the sets grow with
each step, and no more often than there are pipelines. `WalkInv`: an undisturbed
walk is `Inside`, that is, the place where it is, with its open calls, is among
those that the search for holes of its root has reached in step `d`; hence it is no
hole, and the next place is reached in step `d + 1`. The search is cut off, and a
walk may jump without counting a node, so it has to be shown that no walk gets
further than the search: between two counted nodes a walk only jumps to pipelines
below, so that `d`, with the number of pipelines below, is bounded by the nodes
counted (`DeepEnough`). The open calls are `Nested`, the pipeline of a walk below
that of every open call, which rules out that a walk calls what it is in
(`NeverRecursive`). One lemma for each way of going on (`WalkEnters` to
`WalkExits`). Induction over the depth is done on sets of naturals (`Induct`), from
the theorems on well-founded relations.

The theorem has two hypotheses on the constants: there are finitely many pipelines,
and `MaxHoleDepth` is at least `(MaxVisitedNodes + 1) * (number of pipelines + 1)`,
that is, the search is not cut short. The code's search is not bounded in depth; it
stops after 4096 visits (`packages/core/src/proxy/pipeline-graph.ts:169`). Pipelines
whose conditions and calls multiply to more places than that are outside the
theorem, and the code may accept them with a hole it did not see.

**PipelineProofs**, the shared answers. A broadcast that only streams feed has one
owner (`OwnerInv`): the request that passed its node when there was no broadcast,
and as long as there is one nobody else passes, for whoever comes subscribes. It holds
what the owner has sent, an open subscription what the broadcast holds, a
closed one what its owner, then over, had sent (`SubscriberInv`). `OnItsWay` tells
what a request has been given where it stands, which is needed to see that a
request that leaves a broadcast behind has sent nothing. The steps are of two
kinds, those that leave the broadcasts alone (`QuietStep`) and those that feed or
end the broadcasts of one request (`FeedStep`); `OnlyStreams` can only become
false. An owner whose answer was set as a text has given its broadcast nothing
(`Sends`). `Absent` is assumed to be no body, no chunks and no subscription.

Every invariant and every action property of the passing runs, and the refinement of
`ExclusiveSwaps`, is stated by a theorem. Only model-checked is liveness, which is
out of the prover's reach: `EventuallyServed`, `EveryCallRuns`, `RequestsEnd`,
`StopsAreHeard`, `WaitersEnd`, `WalksEnd`, `StopsEnd`, `JobsEnd`.

## Not modelled

- *Bodies.* Translation of requests and of single answers, edits of requests, the predicates of
  conditions, token counts, usage, traces: data without a state of their own. The
  models leave open what depends on them.
- *Fusion's sub-requests.* A panel branch takes its own lease and readiness run as
  any request does; `Routes` has only whether it answered. Delegates, pinned and
  external targets take no lease. The dry run of a route is the walk without
  effects.
- *Source trees.* What git and the compiler do to the checkout is not followed; a step
  of a job is a command that ends well or badly.
- *Failing writes.* The database throws at one place only, the insert of a new run.
- *Configuration.* Endpoints, instances, presets, settings and their migrations:
  rows that are read and written in one step. The targets, models and pipelines,
  which refer to each other, are in `Routes`.
- *Launching.* Arguments, preflight checks, parsing of logs and metadata, file
  scanning, NUMA, the ledger of resources: pure functions and I/O. They appear as
  whether a start succeeds and as the draws of an instance.
- *Nodes, authentication, the web UI.* Clients of HTTP APIs; the rate limit is one
  counter read and written in one step.
- *Time.* Clocks appear only as the moments that matter: `GrowOld`, timeouts, and
  timers that fire.
