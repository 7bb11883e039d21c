# Edge Serverless Box: TLA+ models, checks and proofs

Edge Serverless Box runs AWS Lambda functions in containers on one host. A
**gateway** (Python 3.12, asyncio, one uvicorn process, `Dockerfile:46`) receives
HTTP requests, keeps a pool of warm containers per function and forwards each
request to one of them. An **agent** (Go, gRPC) creates, lists and deletes the
containers through Docker or containerd. A **command line**, `esb`, turns a SAM
template into the gateway's configuration and into images, provisions tables and
buckets, and starts and stops the services. This directory models the gateway and the
command line, checks the models with TLC on small instances and proves the central
properties with TLAPS for every value of the constants.

Source paths below are relative to the repository's root.

## 1. Inventory

| Component | State | Operations | What is hard |
| --- | --- | --- | --- |
| `ContainerPool` (`services/gateway/services/container_pool.py`) | idle deque, ledger of all workers, number of provisions in flight, a condition | `acquire`, `release`, `evict`, `prune_idle_workers`, `adopt`, `drain` | capacity is checked, then awaited on; lost wake-ups; time-outs and cancellations that meet a notification; failing provisions |
| `PoolManager` (`pool_manager.py`) | table of pools, pause tasks, ids of paused workers | `acquire_worker`, `release_worker`, `evict_worker`, `cleanup_all_containers`, `prune_all_pools`, `reconcile_orphans`, `shutdown_all`, pause/resume | decisions from stale listings, deletions spread over many awaits, containers nobody knows, pause calls of unknown outcome |
| `HeartbeatJanitor` (`janitor.py`) | its task | sleep, prune, reconcile, stop | runs between any two awaits of a request; is cancelled anywhere |
| `GrpcProvisionClient` (`grpc_provision.py`) | none | `provision`, `delete_container`, `list_containers`, `pause`, `resume`, metrics | calls that fail, or whose caller leaves while the agent goes on |
| `CircuitBreaker` (`core/circuit_breaker.py`) | state, failures, time of the last failure | `call`, `reset` | calls overlap in the await and finish in another state than they began |
| `FunctionThrottle`, `ConcurrencyManager` (`core/concurrency.py`) | counter, queue of futures | `acquire`, `release` | a future is done before its task runs; hand-over without counting |
| `LambdaInvoker` (`lambda_invoker.py`) | a breaker per function | `invoke_function` | order of acquire, breaker, post; release of a container that is still busy |
| HTTP application (`main.py`, `api/deps.py`, `core/`) | context variables, application state | middleware, five endpoints, `lifespan` | contexts of tasks; background invocations; which exception becomes which status |
| `FunctionRegistry`, `RouteMatcher` | tables read at start-up | look-ups, reload of missing routes | stale against the generated files |
| `GrpcBackend`, `ResourceJanitor` (`grpc_backend.py`, `janitor.py`) | throttle; task | `acquire_worker`, `release_worker`, `evict_worker`, `list_workers`; clean-up | slots not given back, stale clock and listing |
| `OrchestratorClient`, `ContainerHostCache` (`client.py`, `container_cache.py`) | single-flight table, cache | `ensure_container`, `invalidate_cache` | leaders and followers that are cancelled |
| Generator (`tools/generator`) | generated files, staging directory | `parse_sam_template`, `generate_files` | interrupted between files, run by two processes at once |
| Provisioner (`tools/provisioner`) | tables and buckets | list, create | one of several fails; two provisioners |
| Command line (`tools/cli`) | `generator.yml`, certificates, registry, services | `init`, `build`, `up`, `down`, `reset`, `watch` | interruptions, failing steps, the watcher beside a command, its cool-down |
| Agent (`services/agent`): gRPC server, Docker and containerd runtimes, port allocator | containers, access tracker, ports | Ensure, Destroy, Suspend, Resume, List, Metrics | partly executed Ensure, concurrent Destroy |
| Runtime hooks (`tools/generator/runtime`) | thread-local trace id | patches of boto3 and logging in the function's container | none shared with the gateway |

How they interact: a request's task runs through the middleware into an endpoint, which
authorizes it, finds the function and calls `LambdaInvoker.invoke_function`; that takes a
worker from the function's pool (`acquire_worker`), posts through the breaker and releases
or evicts the worker. The pool provisions through `GrpcProvisionClient`, a gRPC call to the
agent followed by a readiness check. The janitor's task prunes the pools and deletes
containers that the agent lists and the pools do not know. All tasks share one event loop
and interleave at awaits only. `GrpcBackend` with the throttle and `ResourceJanitor`, and
`OrchestratorClient` with its cache, are older ways to a container; `main.py` does not
wire them, their tests and documents describe them. The command line and `esb watch` are
processes of their own. They share files, the registry and the services with each other
and with the gateway, and nothing locks these.

What makes each modelled component correct:

* pool: never more than `max_capacity` containers, one request per worker, no
  capacity or worker lost on any error path, no sleeping task while it could run;
* manager: clean-up deletes what nobody uses, all of it in the end, and nothing else;
* pausing: no request is served by a container known to be paused, none is lost;
* breaker: its state agrees with its count, and it does not stay open;
* throttle and backend: the limit, first come first served, no slot lost (which fails,
  in three known ways), containers in use kept and others removed;
* single flight: one call asks, all callers end alike, all end;
* HTTP side: every request ends, only permitted ones reach a function, with their own
  trace id, and a status tells what happened (which the code does not do as documented);
* command line: certificates fit together, generated files agree, what a command
  reports as done is done, an edit reaches the gateway (not every one does).

The hazards, each at its line and with the properties that watch it, are listed in
`PROJECT.json`.

## 2. Modules

| Module | Models |
| --- | --- |
| `WorkerLease` | what a pool promises: bounded membership, exclusive grants, withdrawal of unheld members only |
| `ContainerPool`, `ContainerPoolProofs` | one function's pool; its invariants, and that it implements `WorkerLease` |
| `PoolManager`, `PoolManagerProofs` | extends `ContainerPool`: containers at the agent, provision calls, clean-up, janitor, shutdown, crash |
| `ContainerPause`, `ContainerPauseProofs` | extends `ContainerPool`: `PoolManager` with pausing enabled |
| `CircuitBreaker`, `CircuitBreakerProofs` | one function's breaker |
| `LambdaInvoker` | composes `ContainerPool` and `CircuitBreaker`: `invoke_function` |
| `GatewayApi`, `GatewayApiProofs` | extends `LambdaInvoker`: middleware, endpoints, dispatch, Event invocations; proofs of both |
| `FunctionThrottle` | one function's throttle |
| `GrpcBackend`, `GrpcBackendProofs` | extends `FunctionThrottle`: the backend, its janitor and the containers; proofs of both |
| `OrchestratorClient`, `OrchestratorClientProofs` | single flight and cache of one function |
| `SamTemplate` | the generator's parser and its staging of layers, as operators |
| `Certificates` | `ensure_certs()` file by file |
| `EsbCli`, `EsbCliProofs` | extends `Certificates`, uses `SamTemplate`: commands, generator, provisioner, watcher |
| `MCContainerPool`, `MCPoolManager`, `MCLambdaInvoker`, `MCGatewayApi`, `MCEsbCli` | instances for TLC |

An operator whose name extends that of an action (`TakeIdleWithoutPop`,
`ListIgnoringGrace`, ...) is a plausible wrong version of that action; putting it in
the action's place breaks the property that `PROJECT.json` names for it.

### ContainerPool

Atomicity. Every critical section of the pool is `async with self._cv`, and none of
them awaits anything but `_cv.wait()`, which gives the lock away. A lock that is
never held across a suspension is always free, so taking it does not suspend, and a
section is one step of the model. A task suspends in two places: in `_cv.wait()`
(`pc = "waiting"`) and in the provision callback (`"provisioning"`).
`"woken"` is a task that `notify_all` has made ready and that has not run. In Python
3.12 `wait_for` awaits the coroutine in the same task, so its timer and any
cancellation can still hit a woken task: `GiveUp`.

| Variable | Code |
| --- | --- |
| `idleWorkers` | `_idle_workers`, as a bag: which warm worker is handed out matters to no property, being queued twice does |
| `allWorkers`, `provisioningCount` | `_all_workers`, `_provisioning_count` |
| `pc`, `lease` | where a request's task stands, and the worker `acquire()` returned to it |
| `phase` | before, during and after serving (`lifespan`) |

`TakeIdle`, `Reserve` and `Wait` are the three outcomes of one pass of the loop in
`acquire()`; `ProvisionOk` and `ProvisionFail` its second half. A member of
`Requests` is a task slot, which serves one request after another. `Adopt` takes a
worker once: `sync_with_manager` goes through a listing of distinct containers, on
pools that are still empty. `Drain` waits for the last request, because uvicorn runs
the end of `lifespan()` after it has waited for open requests.

### PoolManager

Adds what the agent has (`exists`, `age`), the container that a provision call has
created and not yet registered (`created`), and the one task that deletes containers
(`job`): clean-up at start, then the janitor's rounds, then the shutdown. A round is
sleep, prune (`PruneAll`, deletions), `ReconcileStart` (the clock is read),
`ListContainers` (the listing is made), `DecideOrphans` (it has arrived and is
compared with the ledger), deletions. Requests step between any two of these, so the
clock reading and the listing are stale when they are used. Every call to the agent
may fail; a provision call that fails or is cancelled before the answer may still
create a container (`abandoned`). A `Restart` forgets the gateway's memory.

Assumptions. `ProvisionBound < GracePeriod`: from creation to the end of `provision()`
passes less time than the grace period (60 s against a readiness limit of 10 s; the
Ensure call itself has no deadline, so an agent that hangs after creating a container
is outside the assumption). The clocks that stamp `created_at` and `current_time`
agree, which they do on one host. Only this gateway creates and deletes containers: a
second gateway process would delete the first one's, so `UVICORN_WORKERS` must stay
at one. A container whose process dies still exists until it is deleted. One
function's pool is modelled; pools share nothing but the janitor.

### ContainerPause

The same pool with `pause_enabled`. Each idle worker may have a task that sleeps, checks
and asks the agent to pause the container (`pauseTask`); a request that gets the worker
cancels the task, waits for its end (`"cancelling"`), resumes the container when
`_paused_ids` lists it, and evicts it and goes back to the pool when that fails. `frozen`
is the truth at the agent. A pause call that was cancelled, or whose answer was lost, may
have frozen the container without the manager's knowledge: `unsure`. The properties say
exactly how far the code's three precautions (cancelled task, `is_idle()`, `_paused_ids`)
reach: with every outcome known no request meets a frozen container, and the one leak of
the ledger is a request cancelled while it resumes (`lost`, `pool_manager.py:137` catches
`Exception` only). Deletions by the prune round and of orphans are one action here,
`PoolManager` has their steps.

### CircuitBreaker

`call()` is split at its await. `last_failure_time` is the time since, cut off just
past the recovery time, and `failures` is cut off at the threshold: the code compares
them with these bounds only. (After `reset()` the time is zero, long ago.)

### LambdaInvoker

`invoke_function` takes a worker, passes the breaker, posts, and gives the worker back
or evicts it. Its task suspends inside `acquire()` and in the post and nowhere else, so
the pool's step that yields a worker and the breaker's decision are one step (`Post`),
and so are the end of the post, the breaker's bookkeeping and the release. When the
circuit is open, `RefusePoolWorker` and `RefuseNewWorker` take a worker and give it back
within one step. The ends of a post are the code's except clauses: `Succeed`, `Failed`,
`Timeout`, `ConnectError` (the only one that evicts) and `Cancelled`. `leftover` is the
set of containers that still execute an invocation whose request has ended. Idle
pausing, off by default, is in `ContainerPause`.

### GatewayApi

A slot of `Requests` serves one HTTP request after another. `Arrive` is the middleware up
to `call_next()` and the endpoint up to its invocation: authorization before the route is
looked up, first match in the file, 404 and 502 for unknown names. The middleware's task
and the endpoint's task have each their context variables (`context`, `handler`), as
Starlette runs the endpoint in a task of its own; the middleware clears its own when the
response begins, and an Event invocation runs after that, from the endpoint's copy.
`sent` is what the invocation carried. `InvocationStep`, `InvocationOk`, `InvocationFails`,
`StartFails` and `InvocationCancelled` are steps of `LambdaInvoker` joined with what the
endpoint makes of them. Every failure of an invocation becomes a 502, a container that
does not start, an open circuit and a time-out included, since `invoke_function` wraps
every exception, the ones that the handlers for 503 and 429 wait for too. After a 202 the
invocation goes on in the background; it may be refused or fail, and nobody hears of it.
Paths are sequences of segments, tokens are issued, forged or expired, and a trace header
is its form and its id. `shown` is history: what the request's token was worth when it
arrived, which is when `verify_token` looked at it. The middleware and the dependencies
suspend nowhere that matters to the shared state, so `Arrive` is one step.

### FunctionThrottle

A queued caller's future is pending (`"queued"`), cancelled by a timer or a
cancellation (`"expired"`) or has its result (`"granted"`, or `"revoked"` when the task
is cancelled or timed out on top of it); in each of the last three the task has yet to
run. Nobody waits on the condition itself, so `notify()` has no effect.

### GrpcBackend

`GotSlot`, `Queueing` and `GiveUp` are the throttle's steps inside `acquire_worker()`;
`Ensured` and `Ready` are the two awaits behind them. `leaks` counts the slots that
`current` counts and nobody will give back; it is history, and `SlotsAccountedFor` says
that there are three ways to lose one and no fourth: a cancelled `acquire_worker()`,
`evict_worker()`, and the throttle's hand-over to a caller that has just given up.
The janitor reads the clock, lists and evicts in separate steps. `last_used_at` is the
time of creation for this backend, so a container's safety rests on
`UseBound < IdleTimeout`: readiness checks (10 s) and one invocation (`invoke_function`
posts with its own default of 300 s), 310 s in all, against 600 s. A caller that is
cancelled while it evicts releases its slot, and the container may or may not be gone
(`EvictCancelled`).

### OrchestratorClient

A member of `Calls` is one call of `ensure_container()` and names the future it creates
when it leads. `_lock` is never held across a suspension, so a call is one step up to the
post or the wait. Followers await the leader's future itself, and `Task.cancel()` cancels
what a task awaits: `CancelFollower` cancels the future for everyone, and a leader that
then completes it fails with `InvalidStateError`. A cancelled leader leaves the future
pending (`CancelLeader`).

### Certificates, SamTemplate, EsbCli

`Certificates` has the four files of `ensure_certs()`, each absent, emptied by `open()` or
written with a key; the decision of each half, each open and each write is a step, and an
interruption may come between any two. Only existence and modification times are looked
at, as in the code.

`SamTemplate` has the parser as operators over a template: names with references to
parameters, layers from the function or from `Globals`, references to no layer dropped,
and the staging of layers under their directories' names. A layer whose source is absent
is passed over in silence; one that is neither a directory nor a zip file is passed over
too, but not before the directory of its name was cleared; of two with equal names the
later remains.

`EsbCli` runs one command at a time and a watcher beside it. Both execute the same steps
of the generator and of the provisioner, so those are parameterised by the actor. A
generated file is the number of the template it was made from; a staged function is its
layers; an image is what was staged and the Dockerfile's version when it was built. The
gateway serves the files that it read when it started (`served`), and a gateway that runs
is kept by `up`. The watcher's queue drops an event equal to the one before it, its
handler drops what comes within a second of the last reload, and the copies that the
generator makes are events themselves. A failing step, an interruption or a deleted file
is a mishap. `down --volumes`, as in `reset`, empties the services' data and the registry.

Three history variables record what the properties except, and only for as long as the
damage lasts. `overlap`: the generator that parsed last found the other actor using the
files. `suspect`: the generated pair was left by a generator that was stopped between the
two files, or that overlapped; a later one that runs alone clears it. `torn`: the halves
of the certificates whose writing was interrupted when they already looked complete;
writing the root anew clears both, writing the server's half anew clears that one.

## 3. Runs

| Run | Instance | States | Shows |
| --- | --- | --- | --- |
| `pool` | 4 requests, 4 workers, capacity 2 | 1 855 | type, `CapacityBound`, `ExclusiveLease`, `LedgerExact`, `NoStrandedWaiter`, refinement of `WorkerLease`, `WaiterWoken` |
| `manager` | 2 requests, 3 containers, capacity 2, grace 2, provision 1, one abandoned call, one crash | 195 thousand | `KnownWorkersExist`, `StartingContainersExist`, `TargetsUnreachable`, `OrphansDisappear` |
| `pause` | 2 requests, 3 workers, capacity 2 | 559 thousand | `PausedAreOutOfUse`, `FrozenServesOnlyAfterLostCall`, `OnlyCancelledResumeLeaks` |
| `breaker` | 3 calls, threshold 2, recovery 2 | 260 | type, `StateMatchesCount`, `OpenEnds` |
| `gateway` | 2 requests, 2 workers, capacity 1, threshold 1, 12 kinds of request, 3 kinds of reply | 181 thousand | `InvokedOnlyIfAllowed`, `TraceFollowsRequest`, `SlotComesFree`, and the invoker's `LeaseBacksCall`, `LedgerExact`, `RequestEnds` |
| `gateway_status` | same | | `DocumentedStatus` violated, see findings |
| `invoker_idle` | 2 requests, 2 workers, capacity 1 | | violated, see findings |
| `backend` | 3 callers, 1 slot, 2 containers, idle time-out 2, use 1 | 218 thousand | `HeldContainersExist`, `SlotsAccountedFor`, `UnusedContainersGo`, and the throttle's `LimitHolds`, `QueueExact`, `ServedInOrder` |
| `throttle_leak` | 3 callers, 1 slot | | violated, see findings |
| `singleflight` | 4 calls, 2 hosts | 76 thousand | `OneAsks`, `OutcomesAgree`, `FollowersEnd` |
| `cli` | 2 commands, one edit, two mishaps | 4.4 million | `ChainHolds`, `ConfigAgrees`, `BuildIsComplete`, `ReadyMeansProvisioned` |
| `cli_edit` | `up`, two edits, no mishap | | `EditIsApplied` violated, see findings |

Bounds. Four requests on a capacity of two let two wait while two hold or provision,
and let a woken one meet a newcomer; four identities let a worker be evicted and
replaced while its successor is provisioned. In `manager` a third container can be an
orphan while two are leased, a grace period of two ticks lets a provision take one, and
the abandoned call and the crash can come together. In `pause` one worker can be paused,
taken or pruned while the other is resumed or replaced. The breaker's three calls give one
call admitted before the circuit opens, one probe and one more. In `gateway` a request
waits for the one worker while another, in the background perhaps, holds it, loses it or
opens the circuit; the twelve requests take every way through dispatch, a parameter
that hides a later literal route included. The backend's three callers are a holder and a
queue of two, and one container can be left over while the other is in use. Single flight
has a leader, two followers that can disturb each other and a late-comer, who may find
the future cancelled or the cache filled. Two commands suffice for what one leaves to
the next (an interrupted `init` and another, a `build` and an `up`), each with the watcher
between any two steps, and two mishaps for a damage and its repair (an interrupted write
and the deletion that makes `init` write again); the edit adds a table and a function
with a parameter in its name, a layer whose directory is called like another's, one that
is not found, one that is no tree and one that is not defined.

Deadlock is checked in every run but three: requests come again, and after shutdown the pool
stutters (`Closed`) or, in the manager, time and restarts go on. In `singleflight` followers
may wait for ever, which is what the code does, and in `cli` and `cli_edit` the system
rests when the developer does.

Fairness. `WaiterWoken` assumes that a holder gives its worker back (the `finally` of
`invoke_function`, bounded by the HTTP time-out) and that provision calls end; the
acquire timer is not assumed to fire. It does not promise that a woken request gets a
worker: newcomers may overtake it, and then its timer ends the wait.
`OrphansDisappear` assumes that the janitor's task runs on (weak fairness), that time
passes, and that a listing or a deletion that is tried again and again succeeds in the
end (strong fairness): the janitor retries in every round, and errors of the agent are
transient. `UnusedContainersGo` assumes the same of `ResourceJanitor`, and that a caller
is done with its container in bounded time. `OpenEnds` assumes that time passes, that
guarded calls end (httpx applies a time-out) and that callers keep coming. `RequestEnds` and
`SlotComesFree` assume that posts and provision calls end, that a response is sent
and that the acquire timer fires. `FollowersEnd` assumes that a post ends, as it has a
time-out, and that a task whose future is done runs; nothing is assumed of a future that
nobody completes. `EditIsApplied` assumes that the watcher's thread runs and nothing of
the developer; that the cooldown passes is not assumed, and does not help a dropped event.

Findings.

* `invoker_idle`: `docs/container-management.md:119` says of an IDLE container that it
  waits for a request; after an HTTP time-out or a cancelled request
  (`lambda_invoker.py:183-211`) the container goes back to the idle queue while it still
  executes the invocation, and the next request is sent to it.
* `throttle_leak`: a slot that `release()` hands to a waiter that has just timed out or
  been cancelled is lost, and so is one whose new owner is cancelled before it runs;
  `current` keeps counting it and later callers wait with no holder in sight.

* `gateway_status`: `docs/resilience.md:25` and `:75` promise 503 while the circuit is
  open, `:76` promises 504 for an invocation that exceeds its time-out. `invoke_function`
  turns both into `LambdaExecutionError`, a 502; so does it with an agent that is down,
  for which `:75` promises 503.
* `cli_edit`: `README.md:291` says that while `esb watch` runs a change is applied the
  moment it is saved. A template saved while the previous edit is being applied, or
  within a second after it, is dropped by the cooldown (`watch.py:27`) and stays so.

Other places where text and code part, by reading. No property of this project states
either side of them. `docs/resilience.md:26` says that HALF_OPEN lets one request through;
`call()` admits every call until one of them ends. `docs/resilience.md:36` calls the
threshold a number of consecutive failures; a success in CLOSED keeps the count.
`main.py:197` announces a new trace id for a malformed header, but `TraceId.parse` accepts
anything and the root is empty (`ParseRoot`; `TraceFollowsRequest` leaves such headers
out). `README.md:292` gives `esb build && esb up` as the way to apply a change by hand,
but `up` keeps a gateway that runs (`Started`). `build.py:198` says that a dry run writes no
files, but sources and layers are copied (`StageSources`). `build.py:263` says that the
build is complete although layers without a usable source were skipped (`StagedLayers`).

## 4. Proofs

| Theorem | Statement |
| --- | --- |
| `TypeCorrect`, `CapacityIsBounded`, `LeasesAreExclusive`, `LedgerIsExact`, `NoWaiterIsStranded` | the invariants of run `pool`, for any finite set of requests, any workers and capacity |
| `PoolImplementsLease` | `ContainerPool` implements `WorkerLease` |
| `RegisteredWorkersAreKept`, `GracePeriodProtects`, `DeletionTargetsAreUnreachable`, `PoolSurvivesRestarts` | the invariants of run `manager`, for any grace period longer than a provision call and any number of crashes |
| `BreakerTypeCorrect`, `StateAlwaysMatchesCount` | the invariants of run `breaker`, for any threshold and calls |
| `PausedWorkersAreResumed`, `FrozenNeedsLostCall`, `OnlyLeakIsCancelledResume`, `PausingKeepsCapacity` | the invariants of run `pause` and the pool's capacity, for any requests, workers and capacity |
| `WorkersAreReturned`, `InvokerKeepsLedger` | `LeaseBacksCall` and `LedgerExact` of the invoker, for any requests, workers, capacity and threshold |
| `GatewayReturnsWorkers` | `LeaseBacksCall` of the invoker behind the HTTP application |
| `NobodyInvokesUnasked`, `TraceIsOfTheRequest` | the other invariants of run `gateway`, for any kinds of request, routes, functions and replies |
| `LimitIsKept`, `QueueIsExact`, `OrderIsFIFO` | the throttle's properties, for any limit and callers |
| `SlotsAreAccountedFor`, `JanitorSparesUsed`, `BackendKeepsLimit`, `BackendKeepsQueue`, `BackendIsFIFO` | the invariants of run `backend`, for any callers, containers, limit and idle time-out longer than a use |
| `OneCallAsks`, `OutcomesAlwaysAgree` | the invariants of run `singleflight`, for any calls and hosts |
| `CertificatesFit`, `GeneratedFilesAgree`, `ReadyIsProvisioned`, `BuildsAreComplete` | the invariants of run `cli`, for any templates, edits, commands and mishaps |

Pool. The five invariants become inductive together with `LeaseMatchesLocation` (a
request has a lease exactly when its task is past `acquire()`): `CapacityBound` needs
the exact counter so that a finishing provision trades a slot for a worker, the exact
ledger needs exclusive leases so that an eviction removes one worker from both sides,
and `NoStrandedWaiter` holds because every step that frees a worker or capacity is
followed by `notify_all` in the same critical section. For the refinement every step
of the pool is matched with a step of `WorkerLease`: `Reserve`, `Wait` and `GiveUp`
stutter, `ProvisionOk` is `GrantNew`, which has room since `CapacityBound` counted the
reservation. Per action the invariant is shown with a set of workers `L` that the
ledger counts and nobody has (`PoolCore(L)`): empty for the pool itself, the lost
workers when pausing is on.

Manager. Every step is a step of the pool, leaves it alone or starts it anew, so the
pool's invariant carries over. The rest is the argument about stale reads: a container
that is being provisioned is younger than the grace period (`CreatedOwned`), so it is
not among those that were old when the clock was read (`Separate`), and none of the old
ones can become one, since names are new; what is left after the comparison with the
ledger is unknown to every request and stays so.

Pausing. `PauseInv` is `PoolCore(lost)` with what ties the manager's memory to the
pool: a request's stage says whether it has a lease, a pause task that may still act
belongs to an idle worker, what a prune round deletes is out of the pool, and a frozen
container of the pool is listed in `_paused_ids` or was hit by a call of unknown outcome
(`FrozenIsKnown`). The last is what `FrozenServesOnlyAfterLostCall`
needs, and it holds because a request waits for the cancelled task before it looks
at `_paused_ids`.

Invoker and HTTP application. Most steps of the invoker are steps of the pool, so
`PoolInv` carries over. The two refusals are not, and are shown to preserve it by
themselves: the counter loses a reservation as the ledger gains an idle worker.
`LeaseBacksCall` is inductive beside it, since worker and call are taken and given back
in the same step, and each step of `GatewayApi` takes a step of the invoker or leaves it
alone. `GatewayInv` adds for each slot what the endpoint has established: before an
invocation begins the request is authorized and its function known (`Admitted`), and the
handler's context has the request's trace id until the task ends.

Throttle and backend. `LimitHolds` counts owners: a hand-over replaces one owner by at
most one. The order follows from `NoBarging` (while futures are queued the counter is at
the limit, so a newcomer queues) and from a future being queued once. In the backend
`SlotInv` adds that whoever works has a slot, and follows `leaks` through the three ways
to lose one. `HeldInv` is the argument about stale reads once more: a container that is
held is younger than `UseBound`, so it was not among the old ones when the clock was read,
and what was old then is never handed out again.

Command line. Four invariants, one for each property, over the shape of `proc`. Certificates
(`CertInv`): with nothing left to write, a root that looks complete is a pair unless it is
torn (`RootSound`), and a server certificate that looks complete is signed by it unless
either is (`ServerSound`); in the midst of writing, the writes that are left restore this,
or the interruption makes the half torn. Writing the root restores both, since it makes the
server certificate the older file. Generated files (`ConfigInv`): unless `overlap`, at most
one actor generates, and one that stands between the two writes has written the first, so
that its routing.yml makes the pair agree; and `overlap` is only cleared when nobody else
generates. Provisioner (`ProvisionInv`): what has been passed exists or was
reported, since only `down` removes anything and it cannot run within `up`. Build
(`BuildInv`): each function of the parsed template is still in the list or has what the
step before must provide, first its directory and Dockerfile, then its image; names tell
functions apart, so no function undoes another's. That each layer with a tree for a source
is staged, or another that was found has its directory name, is `LastLayerStays`: take the
last one found of that name.

Single flight. `OutcomesAgree` becomes inductive with the roles (a follower has a leader, a
cancelled call has ended) and with `Futures`: the future of a call that still leads is
pending, or cancelled, and a cancelled future has a follower in `hit`. That evidence is
kept, since a call that has ended keeps its leader.

Assumptions of the proofs are the named `ASSUME`s of the modules: finitely many
requests or callers, natural numbers for the bounds, `ProvisionBound < GracePeriod` and
`UseBound < IdleTimeout`, hosts that are told from the states of a future, requests that
go to one of the five endpoints, ids that are told from no id, commands that are commands of `esb`, and
`TemplateAssumption`: versions are numbered from 0, and no two functions of a
template have one name (they would share a directory and an image; the generator does not
check it). The same assumption says that the parser returns lists, which the provers do not
derive, as `SelectSeq` is recursive; TLC evaluates it on the instance's templates.

TLC checks the inductive invariants as well, on the instances of the runs.

Only model-checked: the liveness properties (`WaiterWoken`, `OrphansDisappear`,
`OpenEnds`, `RequestEnds`, `SlotComesFree`, `UnusedContainersGo`, `FollowersEnd`), which need fairness and `ENABLED`; and the violations. What
`SamTemplate`'s parser computes from a template is used in the proofs through
`TemplateAssumption` only. Every safety property of a passing run is a theorem.

## 5. Not modelled

Gateway: the order of the idle deque and wall-clock values (`Prune` may expire any queued
workers); contents of requests, responses and environment variables, and the log queue;
the heartbeat, which has no receiver; the framework's own answers (405 for a method, 422
for a body that does not validate) and the 500 of an unexpected exception, none of which
reaches the invoker. One function's pool is modelled; a prune round that
is cut short because another function's first request adds a pool is `PruneNothing`.
Pausing and the janitor's steps are in separate modules. A deletion that was cancelled
by the shutdown and still reaches the agent only removes a container nobody knows.

Agent: the gRPC server is an adapter; the steps of Ensure inside the two runtimes,
the CNI set-up with its roll-back, and garbage collection at start are calls of Docker's,
containerd's and CNI's interfaces, of which the gateway's modules keep what they leave
behind. The port allocator is used by its own test only.

Command line: the trust stores of three operating systems (`trust_store.py`); the removal
of the functions' containers by `down`, which are the agent's state; `logs`, which only
reads; `wait_for_gateway`, which keeps no state. Edits of function code are not an action:
their events are those that staging causes. `init` and the watcher are not interleaved, as
they touch nothing in common. `up` looks for certificates in the project directory while
the services mount the home directory's; the modelled directory is the one of `init`.
Text of the generated files, handlers, events and limits in a template are data that the
generator carries along.

The hooks inside the function's container keep no state in common with the gateway;
generated protobuf code has none.

## 6. Plan

Modelled, in the order planned: pool, manager, breaker, throttle, invoker, pausing,
backend and its janitor, single flight, HTTP application, generator, provisioner and
command line. What is left:

1. `WorkerLease` once more: that `PoolManager` and `ContainerPause` implement it as well,
   with the lost workers as members that are never granted.
2. The agent's Ensure step by step with roll-back and a concurrent Destroy, and that it
   implements what `PoolManager` assumes; several pools and the janitor's iteration
   over them.
