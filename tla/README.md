# ARIES: models, checks and proofs

ARIES (`src/`) runs agent benchmarks: it prepares a profile, starts a model
runtime if it manages one, and for every task starts a sandbox, a bridge and a
harness, lets the agent work, takes the agent's access away, evaluates the
sandbox and removes everything. What makes it hard is not what it computes but
what it owns: containers, networks, processes, credentials and evidence, each of
which must be released exactly once, in the right order, whatever fails, while
calls are cancelled, time out, are retried, join each other or are answered late.

The specifications here are written from the Go source. `PROJECT.json` maps every
definition to the lines it models, lists the runs, the mutants that show that each
property can fail, the hazards the properties aim at, and the theorems.

## 1. Inventory

State and operations of each part; how parts interact; what is hard; what makes
the part correct. "Model" names the module, or says why there is none yet.

| Part (source) | State | Operations | Hard | Correct when | Model |
|---|---|---|---|---|---|
| Runner (`pkg/runner`) | active flags of harness, bridge, sandbox; evaluation sandboxes; result | `Run`, `runTask`, `finish`, `evaluationSandboxes.Start/stop` | a start that fails after allocating; cancellation between run and gates; one stop of several failing | no evaluation while the agent has access; nothing that exists is forgotten; reports are honest | `TaskRunner` |
| Bridge sessions (`pkg/bridge/session.go`, `admission.go`) | started, exposed, released, collected, evidence error | `Start`, `Stop`, reconciliation of an uncertain registration | lost, late and overtaken calls; the bridge process dying | nil from `Stop` means closed for good, with intact evidence | `BridgeControl`, `BridgeService` |
| Bridge control server (`pkg/bridge/control`, `serve.go`) | entries with state, operation, manifest; closing | `RegisterSandbox`, `GetSandbox`, `ReleaseSandbox`, `Close` | release during registration; late registration after release | closed IDs stay closed; a release is carried out | `BridgeControl` |
| Native bridges (`pkg/bridge/grpc`, `ssh`) | session, revoked, handlers, stop attempt | `StartTarget`, handlers, `Stop` | handlers past the revoked flag; stop deadlines and retries | a confirmed `Stop` leaves no access and complete evidence | `NativeBridge` |
| Audit writer (`pkg/bridge/internal/bridgekit`) | queue, sealed, latched error, files | `Enqueue`, `run`, `SealAndWait` | lost wake-up; limit reached; one file failing | no record lost in silence | `AuditWriter` |
| Sandbox manager (`pkg/sandbox`) | owned parts, stop in progress, pending rollbacks | `Start`, `Stop`, `Close` | failed rollback of a failed start; joined stops | nothing forgotten; nil means gone | `SandboxManager` |
| Harness runtime and managers (`pkg/harness`, `openclaw`, `hermes`) | owned occurrence, ready, admitted, stop attempt, credentials, hermes run, evidence | `Start`, `Run` (written and spoken), collection, `Stop` | create that fails with an identity; stop joining a failing attempt; stop between the answer and the collection; cancel before the run's ID is known | always reachable until gone; a success has its evidence; failed runs are cancelled | `HarnessRuntime` |
| Resource recorder (`pkg/monitor`) | starting/started/completed, sampler, files, indexes, source, counter baselines | `Start`, sampler, `Stop`/`finishStop` | stop timeout while sampling; finalisation retried after a partial failure | indexes exact; source released; rates from true counters | `Recorder`, `Telemetry` |
| Managed model runtime (`internal/modelruntime/sglang`) | process group, exit observed, stop attempt, confirmation | `Start`, `wait`, `Stop` | group number reused after reaping; residual members; exit racing `Stop` | no foreign signal; confirmed means gone | `SglangRuntime` |
| Profile execution (`internal/app/execution.go`) | pool, slots, index, deadline, arrivals | `runProfile`, `runObserved` | admission blocked on the pool while the run is cancelled; goroutines ending in any order; a constructor failing after others succeeded | every occurrence reported and its clients closed; the run ends | `ProfileScheduler` |
| Run lifecycle (`internal/app`) | runtime, infrastructure, recorder ownership, result on disk | `Run`, `runWithInfrastructure`, `executeAndRecord`, `awaitRuntimeCompletion` | runtime exiting at the moment of completion; failing at any step of start or cleanup | returns only when settled; nil means complete, with no early exit | `RunLifecycle` |
| Bridge service (`pkg/bridge/service.go`, `artifacts.go`) | new/starting/running/closing/closed, container, sessions, sticky errors | `Start`, `NewSession`, `Stop`, `collectArtifact` | failed `Start`; sessions started while closing; a damaged copy | nil means no container, no access, all evidence | `BridgeService` |
| Deployments (`pkg/deployment/docker`, `kubernetes`) | containers, networks, policies, services, pods, port-forwards | `Create`, `Start`, `Stop`, environments, `WriteFile`/`OpenFile`, resource samples | create or delete whose answer is lost; a name taken by someone else; a runtime that goes between two calls of a sample | identity, proof of absence or `ErrAllocationUnconfirmed`; no known runtime without isolation; writes land whole or not | `Deployment`, `DockerDeployment`, `KubernetesDeployment`, `Telemetry`, `FileCalls` |
| OpenClaw gateway client and realtime runner (`pkg/harness/openclaw`) | connection and generation, pending calls, event queue, readers, agent runs | `Connect`, `Call`, `RecvEvent`, `Agent`, `Run` | answers late, repeated or lost; a queue at its limit; a reader that outlives its connection; a call that times out while its run goes on | the verdict claims no more than is known; events in sequence; nothing left behind | `GatewayClient`, `RealtimeRunner`, `OpenClawRun` |
| Benchmarks (`pkg/benchmark/*`) | services, judges, artifacts per task | `PrepareSandbox`, `Evaluate` | retries of judges, services left behind | evaluation sandboxes released | calls only, in `TaskRunner` |
| Configuration, model clients, audio, core helpers, wiring, generated code | none across calls | | | | not modelled: pure functions, single requests or generated |

Interactions: `RunLifecycle` starts the runtime (`SglangRuntime`), then in a
goroutine the run's network, bridge service and recorder (`Recorder`), then
`ProfileScheduler`, whose goroutines each run a `TaskRunner` between the start and
the stop of a `Recorder`. `TaskRunner` calls the sandbox manager
(`SandboxManager`), a bridge session (`BridgeControl`), and a harness manager
(`HarnessRuntime`) over the role interfaces of `pkg/runner`. The session talks over
gRPC to the control server in the run's bridge container (`BridgeService`), which
owns one native bridge (`NativeBridge` with `AuditWriter`) per sandbox; its file
procedures (`FileCalls`) end in the deployment. Sandbox manager, harness manager and
bridge service all own runtimes of a deployment, by the contract of `Deployment`.
The OpenClaw manager runs an agent through `OpenClawRun`.

## 2. Modules and how they correspond to the code

Every role call, RPC handler and lock-protected section is one action, with all it
changes; code between two lock acquisitions or two blocking calls is split there,
because that is where other goroutines run. Data that no property tells apart
(names, payloads, wording, durations) is left out; an error is a Boolean or a
small set. Variables marked *history* are not in the code.

* `AgentAccess`: the abstract promise. A task's agent may be given access, access
  may be revoked, a task may be evaluated only without access and gets none
  afterwards. `TaskRunner` implements it (access = a harness or bridge exists) and
  so does `BridgeControl` (a confirmed `Stop` in the place of the evaluation it
  permits): the two ends of the same promise.
* `TaskRunner`: one action per role call of `runTask` and `finish`. `active` are the
  code's flags, `up` what really exists; the difference is where leaks hide. A call
  can fail before or after it took effect. A harness or an evaluation that returns no
  error keeps the status it chose itself, which may be failed or not_enabled
  (`OwnStatus`); only an empty one becomes succeeded.
* `BridgeControl`: sessions and the control server, with an in-flight call per
  session and `stray` calls that their session gave up on and that may arrive at any
  later time. `RegisterEnd` and `ReleaseEnd` are the server's operation goroutines;
  `Exit` is the end of the process at any moment.
* `BridgeService`: the service around `BridgeControl`, which it EXTENDS: a service
  step leaves the protocol alone or ends the process, a protocol step leaves the
  service alone but for what a session collects. Evidence is a length and a digest;
  a copy may be damaged or cut short. `up` holds until the process has ended, also
  before it was started. One `Service.Stop` runs at a time, as in `internal/app`.
* `AuditWriter`, `NativeBridge`: the writer goroutine with its one-token wake
  channel, and the handlers and `Stop` calls of both transports. `transport` chooses
  in `Init` where SSH and gRPC differ.
* `SandboxManager`: `Start`, `stop`, `stopOnce`, `rollbackStart`, `Close`; callers
  and `Close` are threads with a program counter.
* `FileCalls`: reads and writes of one path through the gRPC bridge, the borrowed
  target and either deployment. A file's content is the write it came from. A call's
  client, the session's revocation and the runtime's removal interleave with the
  upload, the check of the context and the rename, which runs on its own context.
* `Deployment`: the abstract contract of one runtime. `DeploymentBackend` holds what
  both platforms share: the objects a backend holds, calls that fail before or after
  they took effect, deletions that take effect late, and the order in which the run
  and the sandbox manager call. The run's environment is stopped whatever became of
  the sandboxes, as in `infrastructure.go`. `DockerDeployment` and `KubernetesDeployment` are the
  two platforms, `Deployments` runs either under the same properties and shows that
  it implements `Deployment`.
* `Telemetry`: the two resource sources and the recorder's baselines, sampling the
  runtime of `Deployments` while it is created, stopped and removed. A reading above
  the rate limit is rejected, and a pod without a memory value is passed over.
* `HarnessRuntime`: `harness.Runtime` and `StopState` under the two managers, from
  staging and readiness over the written or spoken run to the collected evidence,
  with the hermes gateway's asynchronous run and its cancellation. `native` and
  `voice` are chosen in `Init`.
* `GatewayClient`: the websocket client: one record per connection with its wire and
  its reader, calls correlated by id, the bounded event queue. `RealtimeRunner`: the
  two goroutines of a talk session. `OpenClawRun`: the manager's three modes over
  both, with the Gateway as an environment that may answer late, twice, wrongly or
  not at all.
* `Recorder`: the recorder, its sampler, the shared stop attempt and the artifacts on
  disk, every file operation of which may fail.
* `SglangRuntime`: the wait goroutine, stop attempts, and a process group with a
  leader, other members and a number that the kernel may give away after reaping.
* `ProfileScheduler`: the dispatcher, pool, goroutines and clock of `runProfile`. An
  occurrence opens its clients one constructor after the other and closes what it
  opened on every way out; `left` holds the clients that an ended occurrence did not
  close.
* `RunLifecycle`: composes `ProfileScheduler` (by `INSTANCE`, same variables) with
  `Run`, the preflight goroutine, the infrastructure goroutine, the runtime and the
  output directory. The API key is taken from the environment or from a file, which
  is looked at before and after it is opened. The preflight of an official endpoint
  is tried again after a wait, which the end of the context cuts short.
* `MC*`: model values and instances for TLC. `*_proofs`: theorems for TLAPS. Three
  hold those of a second component: `FileCalls` in `SandboxManager_proofs`, `Recorder`
  in `BridgeService_proofs`, `SglangRuntime` in `RunLifecycle_proofs`. A proof module
  extends the components it is about, so these three name their state and
  specification after themselves (`FileSpec`, `RecorderSpec`, `ServerSpec`).

Operators marked *Mutant* are alternative bodies of the definition that follows
them: a bug that code could plausibly have. They are not part of any
specification; substituting one must break the property it is listed with.

## 3. Runs

All runs finish within five minutes with two workers, most of them within a minute;
`openclaw_run` is the longest.

| Run | Instance | Checks |
|---|---|---|
| `task_runner` | 2 tasks, 1 evaluation sandbox each | `EvaluationIsolated`, `NothingForgotten`, `CancellationLeaksNothing`, `ReportsHonest`, refinement of `AgentAccess` |
| `bridge_control` | 1 sandbox, service and process | `ConfirmedClosed`, `EvidenceIntact`, `ServiceNilMeansClean`, `ReleaseIsCarriedOut`, refinement of `AgentAccess` |
| `sandbox_manager` | 2 sandboxes, 2 callers and `Close` | `NothingForgotten`, `NilMeansGone` |
| `deployments` | both platforms, 1 run with 1 task and its runtime, 3 points of time | `EnvironmentConfirmed`, `NeverUnisolated`, `ForeignSurvives`, `TelemetrySurvives`, `ReadingsBracketed`, refinement of `Deployment` (`Contract`) |
| `file_calls` | 2 writes and 1 read of a path, both platforms | `WholeOrNothing`, `LandedAsRecorded`, `RevokedCallsEnd` |
| `harness_runtime` | 2 callers, 2 occurrences, both managers, written and spoken | `AlwaysReachable`, `NilMeansGone`, `SuccessIsEvidenced`, `FailedRunIsCancelled`, `CallsReturn` |
| `openclaw_run` | three modes, 2 connections, queue and wire of 1, 1 agent run, up to 2 events and 1 repeated response | `VerdictMatchesGateway`, `InSequence`, `WindsDown` |
| `native_bridge` | 2 handlers, 2 stops, room for 1 audit record, both transports | `ConfirmedIsAudited`, `NoSilentLoss`, `StopReturns` without the help of the stop deadline |
| `recorder` | 2 callers, 2 tasks, 2 samples | `IndexExact`, `SourceReleased` |
| `sglang_runtime` | 2 callers | `NoForeignSignal`, `ConfirmedGone`, `StopReturns` |
| `run_lifecycle` | 3 tasks, 2 slots, index limit 3, three modes, managed or not | `SettledOnReturn`, `NilMeansComplete`, `RunReturns` |
| `harness_allocation` | 2 callers, 1 occurrence | violated: the finding below |

Bounds and why they are enough. Two tasks of the Runner, since tasks run one after
the other and only the carry-over from one to the next can go wrong. One bridge
sandbox in `bridge_control`, since entries of different sandboxes share only
`closing`, `up` and the list `Close` works through, and the theorems hold for any
set; two stop callers everywhere, because a joined call and the attempt it joined
need two, and a retry is the same caller again; two occurrences of the harness,
because the second start follows the removal of the first. Two writes of a path, so
that one may replace the other's file, and a read between them. Three points of time
for the telemetry: a baseline, a reading, and a scrape between two queries. Two
connections of a gateway client, so that the reader of the first may outlive it; a
wire and a queue of one message, so that both limits are reached; the number of
events, dials and repeated responses differs by mode (`MCOpenClawRun`), because
a talk session needs two events and the agent call none. `MaxRecords`, `MaxSamples`
and `MaxIndex` stand for the audit's byte limit, the recorder's sample limit and
`math.MaxUint64`: small, so that the limit is reached inside the run. No run of the
program reaches the last one; the branch is there because the code has it. Three tasks
over two slots, so that an admission blocks on the pool. No run uses symmetry.
`CHECK_DEADLOCK FALSE` appears where a system may come to rest: sessions, managers,
runtimes and files nobody calls any more, and a run that returned.

Abstractions to know when reading the results:

* Time is a choice: a deadline may pass at any moment at which the code would notice
  it. In `openclaw_run` the whole run's context and the listening window end so; a
  call that the code bounds only by the run's context is bounded only by it. A
  context that ends during `Send` closes the shared websocket; one that was done
  before may leave it open, since `Send` looks at the context first.
* A task without an error is not a task that succeeded: the runner reports no error
  for an evaluation that ended with the status failed or not_enabled, as several
  benchmarks do. `ReportsHonest` says what a missing error does mean: isolated,
  evaluated, cleaned up, not cancelled, and the statuses are the harness's and the
  evaluation's own.
* A creation whose answer is lost has happened by the time `Create` looks for it, or
  never happens; a lost deletion may take effect at any later time.
* Docker's observation time is taken to be later than the previous one. Prometheus
  serves counter and scrape time by separate queries, so a recorded counter is only
  bracketed by the true ones, and `ReadingsBracketed` claims no more.
* A rename of a file runs on its own bounded context. When that one ends, the call
  is recorded as an error although the rename may still land: `LandedAsRecorded`
  does not exclude it, the code cannot. On Kubernetes the size announced by a read may
  belong to an earlier version of the file than its content; only Docker compares.
* `NeverUnisolated` speaks of what isolates a sandbox: on Docker the run's network, on
  Kubernetes the task's policy, since the run's policy selects bridge pods only. It
  holds also when a sandbox could not be stopped and the run's environment is stopped
  under it: the daemon does not remove a network in use, and the task's environment is
  kept. It excludes runtimes whose `Create` was unconfirmed: the sandbox manager then
  stops the task's environment although a pod may exist (section 4).
* `SettledOnReturn` allows one client to stay open: a resource source whose recorder
  could not be stopped, which the sampler may still be using. It is then an error.
* A failing collector makes a harness `Run` fail. Hermes returns before it collects
  anything when the result of a spoken instruction cannot be written.
* No liveness is stated for `Service.Stop`: the one-minute context of `Start`, whose
  lock it waits for, is abstracted.

Fairness. Weak fairness only, on steps the Go scheduler or a deadline guarantees:
the goroutine of the Runner and of `Run`; the operation goroutines and RPCs of the
bridge; deployment calls, which all carry context deadlines; the audit writer; a
handler once its session is revoked, because revocation cancels its context and
closes its connection; a revocation that has begun; the readers and the two
goroutines of an OpenClaw run and the end of contexts that have a deadline; the
recorder's `finishStop`, which has a timer. Nothing is assumed about the agent, the
Gateway, the clients of a bridge, the model server, the sampler's source (it may
never answer again), the caller's cancellation or message delivery: a registration
may stay lost.

## 4. Findings

`harness_allocation`. `pkg/deployment/deployment.go:14` says that callers must not
report successful cleanup when `Create` returns `ErrAllocationUnconfirmed` without an
identity. `harness.Runtime.Start` keeps only the identity, so rollback has nothing to
remove and a later `Stop` returns nil. `pkg/sandbox/sandbox.go:216` has the same
pattern (`SandboxManager` excludes such sandboxes from its properties, by the history
variable `unconfirmed`); `pkg/bridge/service.go` keeps the error, and
`ServiceNilMeansClean` holds without an exception.

Two comments say more than the code does; no run is kept for them:

* `pkg/runner/runner.go:235` says of `bridge.Start` that "every Start attempt must be
  followed by a positive revocation confirmation before sandbox cleanup". `finish`
  (line 181) stops the sandbox also when `bridge.Stop` returned an error.
* `pkg/deployment/kubernetes/environment.go:223` says that the sandbox removes its pod
  before the policy is deleted, "so the pod is never left running without it". After
  an unconfirmed `Create` there is no identity to remove a pod by, and
  `pkg/sandbox/sandbox.go:515-526` goes on to stop the environment.

## 5. What is proved

For every value of the constants, by TLAPS:

* `TaskRunner_proofs`, assuming only that `NumTasks` and `MaxEval` are natural
  numbers. `TypeCorrect`; `Isolation` (`EvaluationIsolated`); `ImplementsAccess` (the
  Runner implements `AgentAccess`); `Remembered` (`NothingForgotten`); `Cancellation`
  (`CancellationLeaksNothing`); `Honesty` (the action property `ReportsHonest`).
  `EvaluationIsolated` is not inductive: that the two stops succeeded is known only
  from the result record, and a later task could reuse an earlier one. Its invariant
  adds `GatesConfirm` (a recorded confirmed stop means the object is gone, through the
  gates and evaluation) and `EvaluatedInOrder` (only tasks up to the current one are
  evaluated, and the current one only once its evaluation has begun). The refinement
  maps harness and bridge starts to `Grant`, stops to `Revoke`, `evaluate` to
  `Evaluate`. The other three need to know, phase by phase, which objects of the
  current task exist, which stops were tried and with what outcome, and what the
  result record says of it; a report is then compared with that at the one step that
  appends it. That a missing error leaves only own statuses follows from the phases
  in which the result gets any other one, each of which also adds an error.
* `BridgeService_proofs`, with no assumption on the set of sandboxes. Of the protocol
  alone: `TypeCorrect`; `Confirmation` (`ConfirmedClosed`); `ImplementsAccess`. The
  invariant `BInv` is `TypeOK` and, for every sandbox, `SInv`: a finally released entry
  is shut and its goroutine ended, a dead process has nothing open, a reply or a
  session's `released` flag that says so is true, a session that never registered has
  nothing open, and a session known to be closed has left a tombstone, so that a stray
  registration finds it. That last part, `ClosingKnown`, is the one the code's comment
  on preserving closed IDs is about; without it the invariant is not inductive.
  With the service: `ServiceConfirmation` and `ServiceImplementsAccess`, by refinement
  (`ServiceStep`: every step of the service is a step of `BridgeControl` or leaves its
  variables alone, so `BInv` and the lemma for one protocol step carry over); `Evidence`
  (`EvidenceIntact`) and `CleanStop` (`ServiceNilMeansClean`) from `VInv`, which adds to
  `BInv` the order of a session's flags, the phase of the service against the state of
  its container, that a session that registered is one the service knows, and that a
  copy taken over is the finalized file.
  Of the recorder, which a run starts and stops beside the bridge service, for any
  callers, tasks and bound on the samples: `IndicesExact` (`IndexExact`) and
  `SourcesReleased` (`SourceReleased`) of `Recorder`: one Start works at a time and
  nothing of a sampler exists before it has succeeded (`Starter`); files are closed and
  indices written only after the sampler has ended (`Written`); a completed stop is the
  last one, and what every joined call returned is on disk (`Completed`).
* `SandboxManager_proofs`, assuming that there is a sandbox and that `Close` is no
  caller: `Remembered` (`NothingForgotten`), `NilConfirms` (`NilMeansGone`). The
  invariant says who may act on a sandbox: one thread at a time holds its lock or its
  stop attempt (`Exclusive`), `Close` works on exactly what it took over
  (`CloseExact`), and what each thread has yet to remove is what still exists
  (`Parts`, `Ownership`).
  Of the file calls that reach a sandbox (`FileCalls`), assuming that writes, reads and
  the three other contents of a path are distinct (`CallAssumption`): `Wholeness`
  (`WholeOrNothing`), `Landing` (`LandedAsRecorded`). A temporary file comes from a body
  received to its end and Docker's is never cut short (`Received`); no rename takes
  effect before one was asked for (`Renamed`); a write that was cancelled before is past
  the decision for a rename (`Doomed`).
* `Deployments_proofs`, with no assumption but, for the telemetry, that its three
  bounds are natural numbers: `Confirmation` (`EnvironmentConfirmed`),
  `Isolation` (`NeverUnisolated`), `ForeignKept` (the action property
  `ForeignSurvives`), `ImplementsContract` (the refinement of `Deployment`), and of the
  telemetry `TelemetryOnlyReads` (`TelemetrySpec => Spec`), `TelemetrySafe`
  (`TelemetrySurvives`), `ReadingsTrue` (the action property `ReadingsBracketed`). The
  argument is about phases: where a call stands tells which environment may be created
  or deleted (`Phase`), `ready` which objects nobody has asked to delete (`Ready`), and
  a runtime of known
  identity that is not confirmed gone keeps the task's environment ready, and with it
  what isolates it (`Runtime`); nothing is assumed of when the run's environment ends. For the
  telemetry: the counter rises with time, and both the last scrape and the last
  recorded reading are values it once had.
* `HarnessRuntime_proofs`, assuming that `None` is no caller or occurrence:
  `Reachability` (`AlwaysReachable`), `NilConfirms` (`NilMeansGone`), `Evidenced`
  (`SuccessIsEvidenced`), `Cancelled` (`FailedRunIsCancelled`). The invariant: one
  start, one run and one stop attempt at a time, a start and a stop exclude each other,
  what a stop attempt that reported success left behind, and that an occurrence is
  started once.
* `NativeBridge_proofs`, assuming a positive `MaxRecords`: `Recording` (`NoSilentLoss`)
  and `Auditing` (`ConfirmedIsAudited`). The invariant follows the record of a
  call from the handler through the queue and the writer to the logs (`Kept`), and says
  what one Stop call has done by where it is (`Stages`): the audit is sealed only when
  nothing is served and no handler is left, and the session has ended only with
  complete logs (`Settled`).
* `RunLifecycle_proofs`, assuming positive `NumTasks` and `Concurrency` and a natural
  `MaxIndex`: `Settling` (`SettledOnReturn`), `Completeness` (`NilMeansComplete`). The
  invariant of `runProfile` (`PInv`): without a deadline the slots are the tasks passed
  so far, and the dispatcher stops early only on a cancellation or an overflow, each of
  which is an error. That of `Run`: each goroutine works only while `Run` waits for it;
  what is taken is given back on the way out or the error says so; an early exit of the
  model server is still visible at the last look; nobody leaves without an error but
  from the end of the work. `NilMeansComplete` is far from inductive: it speaks of the
  return, and everything it promises is decided many steps before.
  Of the model server that a run owns, with no assumption: `SignalsOwn` (`NoForeignSignal`) and `ServerGone` (`ConfirmedGone`) of
  `SglangRuntime`, for any set of Stop calls. Where the wait goroutine is tells what
  became of the leader, and until its exit was observed it holds the number of the group
  (`Leader`); a killed group is empty for good (`Killed`); a stop attempt without an
  error has found the group gone (`Attempts`).
* `OpenClawRun_proofs`, assuming only that `Proc` holds the two goroutines of a run, so
  for every capacity of the event queue and the wire, and any number of connections,
  agent runs, events and repeated answers. `EventsInOrder` (`InSequence`): behind what
  was handled come the queue and then the wire of the current connection, numbered
  without a gap (`Stream`), as long as the client has not failed for good; while the
  socket is open nothing that was sent is missing. It needs to know that a challenge
  never is in the queue of a session (`Challenges`) and that events are handled only
  while a session is streamed to or joined (`Control`). `VerdictsTrue`
  (`VerdictMatchesGateway`): the invariant `VerdictInv` adds what every frame on its way
  says of an agent run, which is so and stays so (`Frames`); that there is one agent
  request with one run (`Requests`); that an answer with the id of a call belongs to the
  request of that call, since ids in use are never given out again (`Correlated`); and
  that as long as nothing has failed the runner knows of every agent run a tool call
  started, but for the one it is being told of (`Consults`), and every run it knows of is
  active or its fate is known (`Accounted`). None of this is visible in the property,
  which speaks of the return alone.

TLC has checked each of these invariants on the instance of its run, too. All
theorems are about safety: the fairness in a specification is not used.

Only model-checked: the liveness properties (`StopReturns`, `CallsReturn`,
`RunReturns`, `WindsDown`, `RevokedCallsEnd`, `ReleaseIsCarriedOut`), since TLAPS does
not reason about fairness or `ENABLED`. Every other property of a passing run, invariant,
action property or refinement, is a theorem.

## 6. What is not modelled

`PROJECT.json` lists every part with its reason. In short: pure functions over
strings and files (configuration, SSH dialects, line windows, rendered manifests and
harness configurations, redaction, audio), single requests without state (model
clients, NVIDIA queries, health), image builds, generated code and scripts. They
decide whether a step is refused or fails, which the modules allow at any time. The
insides of the benchmarks keep little state of their own; `TaskRunner` allows every
outcome of their calls and any number of evaluation sandboxes.

## 7. Plan

Done, in this order: `AgentAccess`, `TaskRunner`, `BridgeControl` with proofs;
`SandboxManager`, `SglangRuntime`, `Recorder`, `AuditWriter` and `NativeBridge`,
`HarnessRuntime`; `ProfileScheduler` and `RunLifecycle`; `Deployment` and the two
deployments with `Telemetry`; `FileCalls`; `GatewayClient`, `RealtimeRunner` and
`OpenClawRun`; `BridgeService` with proofs; the staging, spoken runs and evidence of
`HarnessRuntime`.

Then proofs of `SandboxManager`, `Deployments` with `Telemetry`, `FileCalls`,
`HarnessRuntime`, `NativeBridge`, `RunLifecycle`, and the rest of `TaskRunner` and
`BridgeService`; of `SglangRuntime`, `Recorder` and, at last, `OpenClawRun`. No
safety property of a passing run is left to prove.

Next, modelling: evaluations that keep state (Toolathlon's services, the judges of
Deep Research Bench and SWE-Atlas with their retries) under `TaskRunner`'s `evaluate`;
file windows and arrival scaling as operators against a reference definition.
