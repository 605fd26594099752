# Runner: specification and verification

The runner is a program that a customer runs next to the builds of a Harness
account. It registers with the Harness manager ("the server" below), polls it
for tasks, executes them in a pool of goroutines, keeps long-lived helper
processes ("daemon sets") as the server wants them, and ends in an orderly way
when it gets a signal. This directory holds TLA+ modules of its core, TLC
configurations that check them on small instances, and proofs that TLAPS checks.

The Go code has no tests of its own. Its comments are the only statements of
intent, and where the code does otherwise there is a finding below.

## 1. Inventory

Paths are relative to `src/`.

### Poller: `delegateshell/poller/poller.go`

* State: the `events` channel (capacity = number of workers), the poll timer,
  `stopChannel`, `doneChannel`, the map `m` of task ids in process, the running
  gauge, one producer and *n* worker goroutines.
* Operations: `PollRunnerEvents` (producer loop, worker loops, the wait),
  `process`, `Shutdown`.
* Interacts with: the server (`GetRunnerEvents`, `GetExecutionPayload`,
  `SendStatus`), the router and through it every task handler, the metrics;
  `DelegateShell.Shutdown` calls `Shutdown`.
* Hard: the same task id handed out twice; a batch that does not fit the
  channel; stop, tick, cancel and close in any order; five ways out of `process`.
* Correct when: a task is never processed twice at a time, no event is lost, a
  stop waits for all work that has been accepted, and always ends.

### Daemon set manager: `delegateshell/daemonset/{daemon_manager,keylock}.go`, `drivers/local.go`, `client/`

* State: the map from types to `*DaemonSet`, a mutex per type and the mutex of
  the map of mutexes, `nextPort`, and the operating system's processes.
* Operations: `UpsertDaemonSet`, `SyncDaemonSet`, `RemoveDaemonSet`,
  `RemoveAllDaemonSets`, `AssignDaemonTasks`, `RemoveDaemonTasks`, `Get`,
  `GetAllTypes`; start, kill and HTTP requests of the driver.
* Interacts with: the reconciler and the task handlers (callers, at the same
  time), the daemon set processes (HTTP on localhost).
* Hard: operations that last minutes under a lock, operations without a lock,
  every step can fail, processes die, ports are given out without a lock.
* Correct when: operations on a type exclude each other, no process is ever
  forgotten, the map tells the truth, and operations return.

### Daemon set reconciler: `delegateshell/daemonset/daemon_reconciler.go`; handlers: `tasks/daemontask/daemon_task.go`

* State: its context and `doneChannel`; within a round the snapshot of the
  types, the server's answer, the tasks to remove and to assign.
* Operations: `Start` (the loop), `reconcile` and what it calls, `Stop`;
  `HandleUpsert`, `HandleTaskAssign`.
* Hard: snapshot and answer are old when they are used; handlers work on the
  same daemon sets; a stop in the middle of a round.
* Correct when: the daemon sets end up as the server wants them, nothing is
  started or removed without a reason, a stop leaves nothing behind.

### Server command: `cli/server/{server_command,server}.go`, `delegateshell/delegate_shell.go`, `delegateshell/heartbeat/keepalive.go`

* State: the context of the program, the channel `s`, the deferred calls, the
  error groups, the registration at the server, the VM pool.
* Operations: `run`, `Register`, `StartRunnerProcesses`, `Shutdown`,
  `Unregister`, the heartbeat loop, `Server.Start`.
* Hard: one signal arrives on two ways; set-up may fail at each step; main and
  the goroutine that shuts down do not wait for each other.
* Correct when: a signal ends the program, the runner leaves no pool and no
  task behind, and begins nothing more that could undo its goodbye.

### Manager client: `delegateshell/client/http.go`, `utils/http_client.go`, `delegateshell/delegate/token_cache.go`

* State: the cached token, which all goroutines share; per request its attempts, the
  time since its back-off began, its context.
* Operations: `retry`, `doJson`, `Do` behind `Register`, `Unregister`,
  `AcquireDaemonTasks` (retried) and all other requests (not retried); `TokenCache.Get`.
* Hard: several goroutines miss the cache at once; the server may have executed what it
  did not answer; a context is cancelled at any point of the loop; three ways of
  reading a status code.
* Correct when: no request carries an expired token, attempts end in time and are not
  given up early, and a caller is told what happened.

### Runner configuration: `delegateshell/delegate/config.go`; router: `router/router.go`

* State: the `Config` read from the environment, the `TaskContext` of the handlers
  (with a pointer into it), what the client and `KeepAlive` are given, the pool.
* Operations: `FromEnviron`, `CheckInstallationConfig`, the getters with their old
  and new variables, `UpsertDelegateID`, `NewRouter`; the wiring; `run` up to the
  registration.
* Hard: everybody copies what he needs, at different times and through different
  getters; a malformed value ends the reading with an error that is only logged.
* Correct when: the handlers, the client and the pool agree on who the runner is.

### Remote logging: `logger/remotelogger/`

* State: whether it is on, the cached token of the logging library, per goroutine its
  attempt.
* Operations: `Start`, `Initialize`, `NewTokenManager`, `Token`, `setToken`.
* Hard: the library asks for a token from its own goroutines; the clock is read three
  times on the way of a token into the cache, which gives durations of zero and below a
  meaning of its own.
* Correct when: a token in the cache is valid, and no call of `Token` hangs.

### Local tasks: `tasks/local/`

* State: what Docker and the file system have (network, directory, containers),
  per task its place in the handler.
* Operations: `local_init`, `local_execute`, `local_cleanup`, of which any number are
  in progress in workers of the poller.
* Hard: a cleanup beside steps of its stage; calls that fail half-way.
* Correct when: a cleanup that succeeds has left nothing, ends what it must end, and
  touches nothing of others.

### Forwarded tasks: `tasks/vm/`, `tasks/delegatetask/`

* State: the machines of stages, what has become of a submission, who has told the
  server about a task.
* Operations: `vm_init` with its services, `vm_execute`, `vm_cleanup`, `delegate_task`.
* Hard: the runner submits and somebody else answers; an answer to the submission
  can be lost; services fail one by one.
* Correct when: every task is answered, by nobody who contradicts another without a reason,
  and the status is true.

### Secret tasks: `tasks/secrets/`

* State: the secrets in Vault, per task its client.
* Operations: `secret/vault/edit` (connect, upsert, delete, validate),
  `secret/vault/fetch`, `secret/static`.
* Hard: two versions of the engine, with other paths and other forms; an
  authentication that is passed over; requests that are executed and not answered.
* Correct when: what is deleted is gone, and what is written is what is fetched.

### Service installation: `cli/install/`

* State: the configuration files, the plist, the job in launchd and its process.
* Operations: `install`, `start`, `stop`, each a process of its own.
* Hard: launchd is asked first and told later; a job is not a process.
* Correct when: the plist describes what runs, and a stop ends.

### Not modelled, or in part

| part | why |
| --- | --- |
| logger (`logger/`), entries of the remote hook | wording and nesting; nothing the runner does depends on labels |
| VM pool wiring (`delegateshell/vm/`) | constructors of library objects, without a choice |
| sample tasks (`tasks/sample/`) | examples |
| metrics (`metrics/`) | the running gauge is in `Poller`; the rest counts and reads the load |
| heartbeat | registration and loop are in `ServerCommand`; contents and timer are left out |
| manager client | the paths, certificates and encodings |
| wiring, packaging | what the wiring hands to whom is in `RunnerConfig`; the rest is generated code and deployment files |
| Docker, the engine, pools, Vault, launchd, the cache, envconfig | libraries and services: what the code relies on is marked external in the map |

## 2. Modules

| module | what it is | code |
| --- | --- | --- |
| `TaskExecution` | abstract: what the poller promises | - |
| `Poller` | producer, channel, workers, map, `Shutdown` | `poller.go` |
| `Poller_proofs` | proofs about `Poller` | |
| `DaemonSetManager` | manager, locks, driver, processes | `daemon_manager.go`, `keylock.go`, `local.go`, `client/` |
| `DaemonSetManager_proofs` | proofs about it | |
| `DaemonSetReconciler` | the manager composed with reconciler, handlers, server and `Shutdown` | `daemon_reconciler.go`, `daemon_task.go`, `delegate_shell.go` |
| `DaemonSetReconciler_proofs` | proofs about it, on top of those about the manager | |
| `ServerCommand` | the life of the program | `server_command.go`, `server.go`, `delegate_shell.go`, `keepalive.go` |
| `ServerCommand_proofs` | proofs about it | |
| `ManagerClient` | requests to the server: token, attempt, retry | `http.go`, `http_client.go`, `token_cache.go` |
| `ManagerClient_proofs` | proofs about it | |
| `LocalTasks` | stages on the host: set-up, steps, cleanup | `tasks/local/` |
| `ForwardedTasks` | what others execute and answer | `tasks/vm/`, `tasks/delegatetask/` |
| `SecretTasks` | secrets in two versions of Vault's engine | `tasks/secrets/` |
| `TaskHandlers_proofs` | proofs about the three of them | |
| `LoggingToken` | the start of remote logging and its token | `token_manager.go`, `gcp_logger.go`, `remote_logger.go` |
| `RunnerConfig` | configuration and start, with `LoggingToken` | `config.go`, `server_command.go`, `router.go`, `wire_gen.go` |
| `ServiceCommands` | `install`, `start`, `stop` | `cli/install/` |
| `ProgramStart_proofs` | proofs about remote logging, the start and the commands | |
| `TaskRouter`, `TaskRouter_proofs` | the handlers, the start and the commands side by side; that the parts behave in it as they do alone | `router.go` |
| `MCManagerScenarios` | the manager's two instances in one run | |
| `MC...` | the modules TLC runs, with the symmetry of their sets | |

`DaemonSetReconciler` extends `DaemonSetManager`: its steps are the manager's
actions conjoined with what the caller does. `ServerCommand` takes poller and
reconciler as goroutines with work in progress; the details are in their modules.
`RunnerConfig` extends `LoggingToken`, for the start waits for it. `TaskRouter`
extends all modules of handlers. Handlers of one kind meet in Docker, in a machine or
in Vault; those of different kinds share only the `TaskContext`, which nobody writes
once the runner serves. A behaviour of `TaskRouter` therefore follows one kind
(`kind`), instead of multiplying states that have nothing to do with one another.

### How the state and the actions correspond to the code

**Poller.** `prod` is the place of the producer (`reset`: top of the loop,
`select`, `fetch`: `GetRunnerEvents`, `enqueue`: the inner select, `drain`:
`<-pollTimer.C`, `closing`: the deferred calls). `timerOn` and `tick` are the
timer and the value in its channel, with the semantics timers have under the
`go 1.22` of `go.mod` (a channel of capacity one). `pc[w]` is a worker: `idle`
at its range statement, `check` at `LoadOrStore`, `acquire`, `loop`, `handle`,
`send`, and `return` for the deferred calls. An event is its task id, a payload
the number of its requests. `polled`, `disposed` and `acquired` are history. A
select with several ready cases is a choice between actions.

**DaemonSetManager.** `entry` is the map; a `*DaemonSet` is a record of id,
config, process and flag. Callers work on their own copy `ds[c]`: the code's
pointer is shared only when the object is in the map, and there the in-place
writes are writes of `entry`. `locks` and `mapLock` are the mutexes; each step
between two accesses to shared state, two requests or two lock operations is an
action (`pc[c]`). `alive`, `procOf`, `tasks` are the processes, what they were
started with, and the daemon tasks they have. A request goes to a port and
reaches whoever listens there: the first process told to, as long as it lives.
`getPort` is two actions, for no lock protects it. `badDownload` is history.

**DaemonSetReconciler.** `rpc` is the reconciler's place between two calls of
the manager, whose steps are its own `pc[Rec]`. `want` is what the server wants,
`resp` its answer, `inbox` the events on their way (in any order, with the wish
they were sent for). `shut` is how far `DelegateShell.Shutdown` has come. With a
cancelled context a request fails (`Interrupted`), and a start does not.

**ServerCommand.** `main` is where `run` is, the deferred calls in their order
included; `watcher` the goroutine of line 96; `notified` and `s` the two ways of
the signal. `told` is the last thing the manager has heard of the runner. Between the last
look of a request at its context and its execution there is time, and nobody waits for the
goroutine of the heartbeats: `underway` counts the registrations and heartbeats that are on
their way (`Beat`), and which arrive, or get lost, at any time after, the end of the runner
included (`Arrives`).

**ManagerClient.** `pc[c]` is where a goroutine is in `doJson` (`token`, `store`, `send`,
`sent`, and `executed` when the server has acted) or in `retry` (`check`, `next`);
`wait[c]` is what is left of a `time.Sleep`. Statuses and bodies are the classes that
`retry` can tell apart. Time is counted in ticks and kept as durations left or
passed, so the state space is finite without a bound on the clock. What a returned
request leaves behind (history included) is reset.

**LocalTasks.** `local[t]` is the call a handler is about to make; between two calls
any other task acts. `container[e]` is the container of a step (or its process on
the host, which no cleanup can list), `network` and `hostPath` what a set-up creates.
`found` and `left` are the loops of `KillContainers`. `quiet` is history: cleanups that
no other task of the stage and no failed call has disturbed. That `GetDockerClient` fails
is part of the failure of the call that follows.

**ForwardedTasks.** `job[j]` is what was submitted, `told[t]` who has answered the
server for the task: `"runner"`, and what was submitted, at its end. A submission is
accepted, refused, not delivered, or delivered without the runner hearing of it (`lost`).
The step status of a service has the id of its `vm_init` (`setup.go:168`), so the end of
each service is told in the name of that task, beside the answer of the handler (`TellsOf`).
The server sends steps only after it has been told of the `vm_init`. A cleanup of a machine
ends what runs on it without an answer.

**SecretTasks.** A request for a static secret that does not decode is answered with an
empty secret, as a success. A place is a path in an engine of version 1 or 2: unknown, with data,
or with data that were deleted; `wrapped` is whether what is read is in a field `data`.
A value is a model value, `Decoded` what base64 makes of it. `erased` and `latest` are
history. The environment variable `VAULT_TOKEN`, which Vault's library reads, is taken
to be unset.

**LoggingToken.** The unit is the millisecond in which `setToken` halves the life of a
token. A goroutine reads the clock when it has fetched the token (`FetchToken`), when it
halves its life (`HalveLife`, line 83; `lifeThen` is what it was), and in `cache.Set`
(`StoreLoggingToken`, line 84); `TimePasses` any number of times in between. `cacheTime` is
how long the cache keeps the token, `cacheLife` how long it is valid, both counted down to
-2, below which nothing changes. `late` is history: the two ways in which line 84 stores a
token for longer than it may live.

**RunnerConfig.** `Config` is a function from the variables that matter, in the order
of the struct, in which envconfig reads them. `context`, `shell` and `pool` are the
copies. A pool file that cannot be read ends the start.

**ServiceCommands.** `command[c]` is where a process is between two requests to
launchd, `loaded` whether launchd lists the job, `process` the configuration its process
was started with. A file that is not written to its end is there all the same.

Each module of the code has a section of *variants*: actions with a plausible
bug in them. No specification uses them. They are there to show that every
property can be violated by a bug in the code: `PROJECT.json` names, for each
property of each run, the action and the variant of it that breaks the property.

## 3. Runs

Bounds: every bound is a constant whose name starts with `Max`, plus the sizes of
the sets.

| run | bounds | question |
| --- | --- | --- |
| `poller` | 2 workers, 2 task ids, 3 events in batches up to 2, payloads up to 2 | types; exclusive processing and its map, the gauge, no event lost, drain; `Shutdown` returns and every event is dealt with; `Poller` implements `TaskExecution` |
| `poller_acquire_once` | 2 workers, 1 task id, 2 events | **violated**, finding 1 |
| `manager_operations` | 2 callers, 2 ids; either 1 type, 3 configs (one without executable) and 3 starts, or 2 types, 1 config, 1 task and 2 starts | no process forgotten, one per type, the map tells the truth; operations return |
| `manager_remove_all` | 2 callers, 1 type, 2 configs and 2 starts | **violated**, finding 2 |
| `manager_ports` | 2 callers, 2 types, 2 starts | **violated**, finding 3 |
| `reconciler_safety` | reconciler, shutdown, 1 handler; 1 type, 2 configs; 2 changes of mind and 1 failure | types; a shutdown has the daemon sets for itself and leaves nothing, no churn, only known types removed |
| `reconciler_converges` | 1 config, 1 task; 2 changes of mind, or 1 and a failure | the server's wishes come true; a shutdown ends |
| `server` | 2 workers, 3 tasks, 2 requests under way, with and without a pool | unregisters when idle, and is back afterwards only by requests that were on their way; a signal ends the program, the clean-up of the pool is made |
| `server_done_signal` | as `server`, 1 request under way | **violated**, finding 4 |
| `server_ongoing_tasks` | as `server`, 1 request under way | **violated**, finding 5 |
| `manager_client` | 2 goroutines, one with retried requests; back-off of 2 ticks, tokens of 5, cached for 2 | no expired token is sent; retries are not given up early; what is told is true; only the server can hang a request, and a cancelled one ends |
| `task_handlers` | local: a set-up, 2 steps, 3 cleanups, 2 stages, 1 failed call; forwarded: a set-up with 2 services, 2 steps, 1 cleanup, 2 delegate tasks, 2 failed calls; secrets: 3 tasks out of 13 requests, 1 failed call; start: 96 environments with 4 values of the flag; logging: 3 goroutines, lives of -1 and 4; service: 2 installs, 2 starts, 1 stop, 1 failed call | cleanups leave nothing and touch nothing of others; tasks are answered, and twice only for a reason; secrets are gone or as written; everybody knows the runner by the same name, token and id; tokens in the cache are valid unless they came too late; the plist is that of the service that runs, and stops return |

Why the bounds are enough to be interesting. *Poller*: three events of two ids over
a channel of two make the channel full with an event left in the batch, and a
task id wait in the channel while a worker processes it and again after it has
finished; a third worker adds only one more of the same. *Manager*: conflicts are
between two operations on one type, or on two; three starts are a start, a
replacement, and a replacement of that. *Reconciler*: two changes of mind let an
answer and an event both be out of date; one type, since types interact only over
ports and the lock of the map, which the manager's runs have; `MaxStarts` is
large enough there that `StartsLeft` never holds a call back, as `NoChurn` shows. *Server*: a second signal changes nothing
(`NotifyContext` and `s` have been used), and tasks matter as none, some, all; with two
requests under way one can arrive after `Unregister` with another still to come.
*Client*: the token is the only thing goroutines share, and two are enough to
miss the cache together; a back-off of two ticks with pauses of one or two gives
three attempts and both ways of giving up; 5 is the least validity that leaves the
margin `ClientAssumption` asks for, so that one tick more of delay anywhere shows.

*Task handlers*: two steps, one of them on the host, and three cleanups of which one is of
another stage and has no labels, so that cleanups meet steps, cleanups and the containers
of others. Two services, so that one fails before or after the other; two failures, so
that a service and a step are lost. Of the requests for secrets, two tasks write and one
reads, with versions 1, 2 and an unsupported one, and two keys and two values, one
encoded and one not. The environments have the old
variables, the new ones, both, or none, each with malformed values before and between
them. A life of 4 is the least whose half is shorter than it by more than one step of
the clock, and it is halved as 4, 3, 2, 1, 0, -1 or -2, as time passes before line 83: the
last ones have a half that is no duration. Before line 84 as much may pass again. A token with
a life of -1 is expired as it is fetched. Two starts have different files, so that one can be
told from the other.

`CHECK_DEADLOCK FALSE` is in the runs of the manager and the reconciler, where after
`RemoveAllDaemonSets` the system stops for good; of the client, whose clock
always ticks or waits for a step; and of the task handlers, where each task is handled
once. `Poller` and `ServerCommand`
have a step for the state they end in, so that TLC looks for deadlocks.

### What the bounds of a behaviour stand for in the liveness runs

`MaxEvents`, `MaxTasks`, `MaxChanges`, `MaxFaults` and `MaxTroubles` end the activity of the
environment: liveness says what happens when events, changes of mind and
failures have ended. Nothing of the program is cut off: its loops run for ever.

### Properties

The properties are stated, each with the code it is about, at the end of each module.
The ones that take several actors and steps to violate:

* `ProcessingInv`: no two workers process one task, and the map that decides who may
  has exactly the tasks in process. `EventsConserved`: an event handed out is always
  somewhere. That `doneChannel` is closed only when all are finished with (or the
  context was cancelled) is in `ImplementsTaskExecution`: the abstract poller finishes
  only with nothing pending and nothing executing. `ShutdownReturns` and
  `EveryEventDisposed` are their liveness.
* `NoOrphan`, `ShutdownLeavesNothing`: unless a download failed in an upsert (finding
  2), a process is always one that the manager can kill, and after a shutdown there
  is none. The second contains `RemoveAllAlone`: `LockAll` does not wait for those who
  have their lock already, and only the order in `DelegateShell.Shutdown` makes that
  harmless.
* `Converges`: whatever the order of late events, old answers, replaced processes
  and stale ports, the daemon sets become and stay what the server wants.
* `NoChurn`: the number of starts is bounded by the number of reasons.
* `NeverSentExpired`: whoever stores a token over another's, and however old the
  token that is stored, no request carries an expired one. `SeenTwiceOnlyUnheard`: the
  server hands daemon tasks out twice only if its first answer did not arrive.
  `RequestsEnd`: the retries alone never keep a request going for ever, and a server
  that is silent does so only until its context is cancelled.
* `CleanedStageEnds`, `QuietCleanupLeavesNothing`: a step that is started while its stage is
  cleaned up is killed, cannot start, or keeps the cleanup from success. Failures of
  `ContainerKill` are harmless, those of `ContainerRemove` are reported.
* `AnswersAccounted`, `EveryTaskIsTold`: between the runner and the one it submits to, an
  answer to the server is neither doubled nor dropped, except as they say. Of a submitted
  task the server is told twice only if the answer to the submission was lost. A `vm_init`
  is told of by each of its services as well, which is how the code is written
  (`setup.go:168`), not a fault: then only those tell that the runner's own answer says are
  running, or whose answer was lost, and none for a `vm_init` that has been failed.
* `ErasedIsUnknown`, `FetchesWhatWasWritten`: for each version of the engine, across the
  four paths and forms.
* `CachedTokenLives`: a token found in the cache is valid, however slow its goroutine was and
  whoever replaced whose, unless line 83 had fewer than two milliseconds to halve or half of
  what it had was gone before line 84. In these two cases (`late`) the code does hand out
  tokens that have expired, for the rest of the half, for 30 minutes, or for ever.
* `RunnerIsKnown` (`NewNamesWin`, `TokenIsPlain`, `HandlersKnowRunner`,
  `TagsNameThePool`): copies made at different times agree, also if values are
  malformed or given in two ways.
* `PlistDescribesService`, `StopReturns`: starts and stops beside one another, and a job
  whose process has ended.
* `BackOnlyByLateRequests`, `SignalEnds`: once the runner says that it goes it begins no
  heartbeat any more, so that only requests which were on their way by then can undo it,
  each of them once; and it goes.
* `PoolLeftClean` says that the clean-up is made on every way out, not that it works: the
  error of the deferred call is dropped.

## 4. Fairness

* Goroutines that can run do run: weak fairness of the producer, of each worker,
  of each caller, of main and of the watcher. The Go scheduler is preemptive
  and fair in that sense.
* Requests end. Polls, heartbeats, reconciliations and health checks have a
  timeout; the requests of workers and those for daemon tasks end with their
  context. `Unregister` has neither (`server_command.go:127`, and the HTTP client
  has no timeout): that it ends is an assumption about the server and the
  network, and so is that task handlers end (`Handle`, `TaskEnds`), to which the
  code sets no limit.
* A `select` with two ready cases picks one at random: strong fairness of the stop
  case of the producer (`ProdSelectStop`), and of the reconciler's Done case
  (`ReconcilerStops`).
* `sync.Mutex` hands a starved mutex over to its waiter: strong fairness of `Lock`.
* Time passes (`Tick`). In `ManagerClient` a goroutine that is about to send makes
  each step within `MaxSlow`; in the code the margin is ten minutes. The server
  is under no fairness there.
* A task that is being handled goes on (`LocalStep`, `HandlerStep`), and so does a command
  (`CommandStep`): each of their calls ends. The commands of local steps are under no fairness: they may run for
  ever. What the engine and the other service have accepted comes to its end (`JobEnds`).
  A runner that launchd has told to end does (`ProcessEnds`): `SignalEnds`, or its
  `ExitTimeout` of 300 seconds.
* Nothing is assumed of the environment: not that the server answers a poll, that a
  signal comes, that processes live, or that the server wants anything. In
  `reconciler_converges` a request that can be answered
  is answered once the failures have ended.

## 5. Proofs

TLAPS checks them for every value of the constants; the assumptions are the
`ASSUME`s of the modules, which every run evaluates:

* `PollerAssumption`: finite, non-empty sets of workers and ids.
* `ManagerAssumption`, `NullAssumption`: finitely many callers, and `Null` is none of the
  others, a process id neither. `ReconcilerAssumption`: the reconciler and the shutdown are
  two of the callers, and there are finitely many types.
* `ServerAssumption`, `ForwardedAssumption`, `LocalAssumption`, `ServiceCommandsAssumption`:
  bounds are natural numbers, tasks and commands of different kinds differ, and a service
  belongs to one set-up.
* `ClientAssumption`: the validity of a token exceeds its time in the cache by more than two
  slow steps (ten minutes in the code).
* `SecretAssumption`: no secret is not a secret. `ConfigAssumption`: an environment has all
  variables, and there is no file without a name. `LoggingAssumption`: lives are integers,
  the cache's default is positive.

An invariant is seldom inductive as it stands; for each component these are the
strengthenings, and what each of their parts is for.

* **Poller.** `TypeCorrect` (`TypeOK` is inductive by itself; it has the capacity of
  the channel in it). `ProcessingInvHolds`, and from it `ExclusiveProcessingHolds` and
  `MapIsInProcessHolds`: exclusive processing is not inductive, for `LoadOrStore` looks
  at the map and not at the other workers. The invariant is the conjunction with
  `MapIsInProcess`: as the map is exactly the ids in process, an id that is not in it is with
  nobody. `DrainFindsTickHolds`: needs that a timer that does not run has left
  its tick, which `Reset` and the receive re-establish. `NoPollAfterStopSeenHolds`
  is an action property that needs only types. `EventsConservedHolds` is inductive with the
  types: each step moves one event from one place to the next. `RunningGaugeHolds` says the
  gauge with a set, of what is begun and not yet counted down (`Due`), so that a step adds
  or removes one member. `PollerImplementsTaskExecution` takes the refinement step by step:
  what is neither pending nor executing is nowhere, by `EventsConserved`, and the abstract
  poller may finish because the concrete one has an empty channel and idle workers.
* **DaemonSetManager.** `OneOperationPerTypeHolds`, `NoOrphanHolds` and
  `NothingLeftHolds` follow from one inductive invariant (`IInv`): the shape of the
  variables; `HoldsLock` (from the lookup to the unlock a caller has the mutex of
  its type, and is the only one to have it); `HasObject` (it has an object to start or
  to store); `SyncsEntry` (a sync that has not yet killed anything works on what
  the map has, so that storing it over loses nothing); `StoresNothingOver` (after
  `stopold` the map has nothing of the type); `Stopping` (once
  `RemoveAllDaemonSets` is called nobody else is in an operation); and `NoOrphan`.
  `NoOrphan` alone is not inductive: without `StoresNothingOver`, `Store` could
  overwrite a live process. A second one (`PInv`) is about what was started: `Counts` (as many
  ids are left as callers may still need), `Answers`, `Procs` (ids up to the last one are in
  use), `EntriesDescribe` and `ObjectsDescribe` (an object, in the map or in a caller's
  hands, has the type, port and config its process was started with). From it come
  `TypeOKHolds`, `EntryDescribesProcessHolds` and, with `NoOrphan`, `OneProcessPerTypeHolds`: two
  processes of a type would be with the map or with callers of that type, and there is room
  for one.
* **DaemonSetReconciler.** `RInv` is both of the manager's invariants with: `Reconciling`
  (there is a wish for every type that is still to be upserted or compared), `InTurn` (the
  shutdown takes its steps one after the other, and `Main` calls nothing but
  `RemoveAllDaemonSets`), `RemovesSnapped` (what is being removed is in the snapshot). Its
  calls are those the manager's proofs assume, so that `ManagerPromisesHold` gives the
  manager's theorems for the composition. `RTypeOKHolds`, `ShutdownLeavesNothingHolds` (with
  `RemoveAllAlone`, which is `InTurn`) and `RemovesOnlyKnownHolds` follow.
  `NoChurnHolds` is an amortised count: `NoChurn` bounds the starts by their reasons, but a
  reason comes long before its start, so `Amortised` adds to the starts what may still be
  started without another reason. An upsert on its way counts twice (the reconciler,
  which works on an older answer, may undo it), and each type counts once for each of what
  it has: a start that is decided on (`Decided`), a process that died or never was
  (`Lost`), an answer that is not what there is (`FromAnswer`), a wish that is not what is
  answered (`FromWish`), a request that the cancelled context cuts short (`CutShort`). While a
  caller replaces a daemon set, its object counts for that of the map (`Object`, `Stage`), so
  that the store changes nothing. Most steps touch one type (`OtherTypesSame`), and there one
  debt becomes another (`AnswerOwes`, `ReplacingOwesNoMore`, `ListFailsOwes`) or is paid by a
  start. `Rounds` and `Decisions` say that no type is asked for twice or asked for and
  unwanted in a round, and that who is past its decision has something to start.
* **ServerCommand.** `UnregistersIdleHolds`, `BackOnlyByLateRequestsHolds` from: no process has
  begun before `wait`; after `wait` the poller is done and idle; and a server
  that is down implies that the context is cancelled, which silences the
  heartbeat. The last is why `BackOnlyByLateRequests` leaves out a server that refused to
  start. What is on its way then (`underway`) can only arrive or get lost.
  `PoolLeftCleanHolds`: a pool is up only between its set-up and the deferred clean-up.
  `TypeOKHolds` in three parts (places, flags, counters), each inductive by itself: no
  more tasks are in progress than there are workers.
* **ManagerClient.** `NeverSentExpiredHolds`, `AttemptsEndHolds` from bounds that relate a
  token's validity to how long its goroutine has been slow and how long it has been
  cached (`Making`, `Cached`, `Carried`), and the time of an attempt to the pause
  before it (`InTime`). `Cached` is where the race of two goroutines goes: a token is
  stored at most one slow step after it is made, whoever stores last.
  `SeenTwiceOnlyUnheardHolds` from `HeardOnce`: with every execution heard there has been
  one, and its answer does not lead to another attempt. `ToldRightHolds` from
  `ExecutedBefore`: a request that is not retried has been executed only when its answer is on
  its way, and then once. `GivesUpLateHolds` needs only types.
* **LoggingToken.** `LoggingTypeOKHolds`, `CachedTokenLivesHolds`, `OnWithTokenHolds` from
  `Counted` (who begins an attempt has failed less than three times, which is what bounds
  the count) and `Outlives`: twice the time in the cache is no more than the life at line 83
  (`HalfIsLess`), so a token of which more than half of that is left at line 84 outlives its
  place in the cache, and from then on both are counted down together. `CachedTokenLives` is not inductive, for it says nothing of a token whose time
  in the cache is over.
* **RunnerConfig.** `RunnerIsKnownHolds` from what each copy was made of: `AsRead` (the fields
  are those of the environment, up to the first malformed one, and the id may have been
  given since), `Checked`, `HandedOut` (the client, the handlers and the tags have what the
  getters gave), `PoolOfFlag`. The order of the fields matters: that a runner which has
  started has a plain token needs that the token is read before what may be malformed and
  still pass the checks.
* **ServiceCommands.** `PlistDescribesServiceHolds` from `OneStart` (until two starts overlap
  there is one in progress), `FoundNone` (from its look at launchd to its load the service
  stays missing, for nobody else could have loaded it) and `ProcessIsLoaded`.
* **LocalTasks.** `RemovesOnlyItsOwnHolds`, `QuietCleanupLeavesNothingHolds` from `LocalInv`:
  `PlacesOfKinds`, `RunsWhileWaited` (a container that runs has a handler that waits for
  it), `FindsItsOwn` (what a cleanup has found is of its stage and has its labels), `QuietIsAlone`
  (beside a quiet cleanup no task of the stage is in progress), `QuietKnowsAll` (what it has not
  found or has dealt with is not there). The last is needed because the list is made once,
  and what is listed is removed one by one.
* **ForwardedTasks.** `AnswersAccountedHolds` from `SubmittedOnce`: nothing is submitted or
  told before the last step of a handler, and after it the runner has told only what
  nobody else has, or what was lost; and, for a `vm_init`, from `SetupOnce`: only its own
  services tell of it, once an engine has them, and none is started by a handler that has
  failed or is still to start them (`Unserved`). `ServicesReportedHolds` from `StatusRight`, which says
  it of every service at any time, and needs `StartedOnce` and `TodoIsOwn`: a service that
  is still to be started has not been submitted by anybody.
* **SecretTasks.** `ErasedIsUnknownHolds`, `FetchesWhatWasWrittenHolds` from `Requested` (a
  handler past its connection has a request for it) and `ErasedAndLatest`, which ties the two
  pieces of history to what Vault has: what is erased is without data, and the latest value
  written is what a read gives, on the path and in the form of its version.
* **TaskRouter.** `RouterRunsParts`: the composition implements the specification of each of
  its parts and, through the start of the program, that of remote logging, so that the
  theorems about them hold of it: its types (`RouterTypeOKHolds`), its invariants
  (`RouterKeepsPromises`) and its action properties (`RouterStepsKeepPromises`).

Some theorems are about definitions that no run checks by themselves:
`NoPollAfterStopSeenHolds`, `OneOperationPerTypeHolds`, `NothingLeftHolds`, `AttemptsEndHolds`,
`OnWithTokenHolds`, and the types of the manager, the client and the server command
(`TypeOKHolds`). What is proved needs no small instance; the runs check the same hazards by
`EventsConserved`, `OneProcessPerType`, `ShutdownLeavesNothing` and `RequestsEnd`.
`LoggingTypeOKHolds`, `StartTypeOKHolds`, `LocalTypeOKHolds` and `SecretTypeOKHolds` are about
parts of `RouterTypeOK`.

Model-checked only: liveness, which is out of the prover's reach.

## 6. Findings

1. `poller_acquire_once`. `poller.go:41` says the map makes sure that a task is
   acquired only once. It does as long as the task is in process; an event that
   still waits in the channel is acquired again afterwards.
2. `manager_remove_all`. When the download of a new executable fails, `UpsertDaemonSet`
   overwrites the map entry of the running process (`daemon_manager.go:244-247` and
   108). Nothing kills it any more, at shutdown neither.
3. `manager_ports`. `getPort` (`local.go:89-92`) is not protected; two daemon sets can be
   started on one port. One of them then answers for both.
4. `server_done_signal`. `server_command.go:104` says "this should not happen", but
   the signal makes both cases of that select ready: `Shutdown` may never be called.
5. `server_ongoing_tasks`. `poller.go:83-84` wants ongoing tasks to complete; the signal
   has cancelled their context by then (`server_command.go:39`).

Divergences met on the way that have no run, for they show in a single state:

* `server_command.go:84` hands `SetupPoolWithFile` the flag `--pool` and the old name
  (`Delegate.Name`), not the file in the configuration, which the flag has
  overridden at line 63, and not `GetName()`. A file that is only in the environment
  ends the start; with `NAME` the pool and the handlers, which pass `GetName()` to
  `HandleSetup`, have different names. `TagsNameThePool` says what remains true.
* `vm/setup.go:162-163` drops what `Sanitize` returns for the services.
* `config.go:41` says that the id is populated by the registration; envconfig takes it
  from `DELEGATE_ID` too, and then the id of the registration is dropped (line 201).
* A malformed value is logged only (`server_command.go:52`), and the fields after it stay
  empty. If it is `PARALLEL_WORKERS` itself, the runner registers and has no workers.
* `secrets/vault/client.go:41` passes over a login with the AppRole that fails, and goes on
  with the token; CONNECT (`handlers.go:70`) then fails on the same credentials.
* `local/cleanup.go:90`: a cleanup that is repeated, or follows a set-up that failed, answers
  with a failure, though nothing is left, for its network is gone.
* `darwin.go:175`: a job whose process has crashed is "currently running" to `start`.

### Exposures that no property covers, or excludes

`PROJECT.json` lists the hazards. These have no property, or one that only bounds them:

* `poller.go:123`: all workers assign the `ctx` they share; only labels of the log depend
  on it. `gcplogger/hook.go:113`: the map of labels is written while it may be read.
  `daemon_reconciler.go:117`: id, config and health are read beside a write. `local/utils/docker.go:26`:
  the client is made without synchronisation. All are data races in the sense
  of Go, of which the models have no labels, answers that may be anything, and no client.
* `server_command.go:159`: `run` does not wait for the goroutine in `Shutdown`.
* `vm/setup.go:148`: a token that cannot be made leaves the machine to the server.
* `keepalive.go:121`: a heartbeat on its way while `Unregister` is executed may make the
  runner look present after it. `BackOnlyByLateRequests` bounds this, it does not exclude it.
* `vm/setup.go:168`: services answer under the task id of their set-up, also before the set-up
  is answered. `AnswersAccounted` says for which; what the manager makes of several answers is
  its own affair.
* `token_manager.go:83`, `:84`: tokens that come too late are handed out when they have
  expired, see `CachedTokenLives`.
* `delegate_task.go:36`: a package that does not decode is never answered.
* `secrets/vault/operations.go:12`: an upsert replaces the keys beside its own.
  `handlers.go:55`: a list without secrets panics.
* `http.go:138`: the comment counts 500 and 501 as retried, the code does not.
* `darwin.go:180`: a stop leaves the plist, so the runner is back when the machine is.

## 7. Plan

Done: poller, manager, reconciler, server command, client; then the handlers, the
configuration, remote logging and the commands, with their composition `TaskRouter`.

Next, in this order:

1. `DaemonSetRegistry`: an abstract registry (wanted, running, forgotten) that
   `DaemonSetManager` implements.
2. The status codes 500 and 501 in `ManagerClient`, told apart.
3. `Poller` with the handlers that panic and those that answer nil (`TaskRouter`) told
   apart.
