# Verification of the SMetric router

TLA+ models of the SMetric router (`src/router`), TLC configurations that check them
on small instances, and TLAPS proofs of the properties that matter most. Paths below
are relative to `src/router/src` unless they start with `docs/` (`src/router/docs`).

## The system

The router forwards OpenAI-style requests to vLLM workers over HTTP or gRPC. A request
passes a concurrency limit and perhaps a WASM guest, is given to a router (regular,
prefill/decode, OpenAI), and is sent to a worker that a load-balancing policy picks among
those that are healthy and whose circuit is not open; failures are retried. With
`program_scheduling` on, requests that carry a Program identity are instead retained in a
request pool and dispatched to one data-parallel rank when the Program scheduler admits
their Program. The SMetric policy sends a prompt to the prefill worker that will have its
first token soonest, using an index of KV blocks fed by events of the engines.

| part | code | here |
|---|---|---|
| Program runtime, request pool | `program_scheduling/{runtime,request_pool,domain}.rs` | `RuntimeOps`, `ProgramRuntime` |
| Program scheduler | `program_scheduling/scheduler*.rs` | `SchedulerOps`, `ProgramScheduler` |
| what callers of the scheduler rely on | `acquire` and `complete` | `AdmissionService` |
| token accounting between scrapes | `program_scheduling/scheduler.rs` | `ObservationWindow` |
| arithmetic of admission and TTLs | `program_scheduling/{factors,policy,scheduler_fairness}.rs` | `ProgressTtl` |
| identities, lineage, bindings, metrics of engines | `program_scheduling/{identity,lineage,binding,observations}` | `ProgramIdentity`, `Bindings` |
| diagnostics | `program_scheduling/diagnostics.rs` | `ProgramScheduler` |
| circuit breaker | `core/circuit_breaker.rs`, `record_outcome` of `core/worker.rs` | `CircuitBreaker` |
| concurrency limit, queue | `core/token_bucket.rs`, `middleware.rs` | `ConcurrencyLimit` |
| WASM middleware | `wasm_middleware.rs` | `WasmMiddleware`, `Destinations` |
| attempts, retries, load counters | `routers/http/{router,program_adapter}.rs`, `core/retry.rs` | `RequestPath` |
| proxied requests, token counts of answers | `routers/http/{router,program_adapter}.rs` | `TransparentProxy`, `WorkerAnswers` |
| start-up wait, health checks, readiness | `routers/http/router.rs`, `core/{worker,worker_registry}.rs` | `WorkerHealth` |
| prefill/decode routers and their discovery | `routers/http/{pd_router,vllm_pd_router,vllm_service_discovery,logprobs_merge}.rs` | `PdRequest`, `WorkerAnswers` |
| worker registry, policy registry, cached targets, pods, router manager | `core/worker_registry.rs`, `policies/registry.rs`, `service_discovery.rs`, `routers/router_manager.rs` | `WorkerTopology`, `Destinations` |
| KV event feed and index | `kv_events/`, `kv_index/` | `KvFeed` |
| policies, radix tree, SMetric | `policies/`, `tree.rs` | `PrefixOwners`, `CacheAware`, `Policies` |
| request rules and texts, gRPC conversion and answers | `protocols/`, `backend/` | `ChatRequests`, `RoutingText`, `GrpcChat`, `TokenizerCaches` |
| tokenizers | `tokenizer/{stop,stream,sequence,cache}.rs` | `Detokenize`, `TokenizerCaches` |
| configuration and start of the routers | `config/`, `main.rs`, `lib.rs`, `server.rs` | `Configuration` |
| response store | `data_connector/` | `ResponseStore` |

`PROJECT.json` lists every part with its sources, what is modelled of it and why the rest
is not, the lines each definition stands for, and the places in the code that are hard to
test with the properties that watch them. A definition whose name says what goes wrong
(`FinishAgain`, `ObserveChunkAlone`) stands before the one it distorts; it is used by no
specification, and shows that the property named with it in `PROJECT.json` would fail.

## Modules

### The Program scheduler

**RuntimeOps, ProgramRuntime.** One Program is a record (state, status, placement,
epochs, in-flight count, waiting requests); the operations of `ProgramRuntime` and
`RequestPool` are operators from one runtime record to the next. `ProgramRuntime` calls
them in any order, as a policy without any sense would, and lets dispatched requests
complete in any order and arbitrarily late, also after their Program was paused, lost its
rank, was released, was created again, or had its generation history pruned. Request
identifiers and placement epochs are the fences that keep such completions harmless.

**SchedulerOps, ProgramScheduler.** The scheduler is one mutex around its state; each
critical section is one action, with every pass it runs (expiry sweeps, capacity repair,
global and rank-local admission). A call of `acquire` is a task with phases between its
critical sections: it claims, reads the force deadline, parks, is woken by a permit or a
timer, claims once more after its queue timeout, and may be dropped at any await. Scrapes
of the backends, ticks and snapshots of the ranks of a pool arrive at any time. Clocks are
reduced to whether a timer is unset, armed or due. What averages and cost models compute
is a choice here; the computations themselves are in `ProgressTtl`. The report and the
gauges of `diagnostics.rs` only read this state.

**AdmissionService.** What a caller may rely on: a request is accepted, waits, and leaves
by a dispatch or by giving up; dispatches of a Program follow the order of arrival.
`ProgramRuntime` implements it under any policy, and `ProgramScheduler` under its own.

**ObservationWindow.** A scrape begins, takes time and is applied. What the router admits,
completes and pauses meanwhile is a delta that is added to what the engine reported, and
the set of targets may change in between. `UsageOf` is what capacity decisions see.

**ProgressTtl, Bindings, ProgramIdentity.** The arithmetic with exact ratios; the table of
bindings with its five strategies and the metrics they are given; and the identity of a
request from headers, body and agent hints, with the forest of parents and roots.

### In front of the workers

**CircuitBreaker.** Threads run `record_success`, `record_failure`, `can_execute`,
`force_open` and `reset` one access at a time: reads and writes of the state behind its
lock, and the two atomic counters next to it.

**ConcurrencyLimit.** The bucket counts in fractions of a token (`Unit` of them make one),
refilled by `Rate` at each tick and on use up to `BucketCapacity`. Requests try the bucket,
enter the bounded channel, are taken by the processor, get or miss a token, run, return
it, and may disappear at any await.

**WasmMiddleware.** Requests wait for worker threads that run a guest on one request at a
time, with permits and a queue that are bounded apart; what a guest answers is a choice.
What it may see and change of the headers is in `Destinations`.

### Requests

**RequestPath.** One task per request with its retries, one task per forwarded stream,
and workers as objects: a URL that is removed and added again is a new object with a new
counter. Selection may pick any available worker, so the model covers every policy.
`up` is the result of health and breaker together and may change at any time.

**TransparentProxy.** `route_transparent`, from one await to the next: the handler, the
forwarding task it may leave behind, and the completion of a Program's dispatch they
share. The caller may leave and the stream break at every point.

**WorkerHealth.** The start-up wait in rounds (once per pool), the cycles of the health
checker with the two counters of each worker, and `readiness`, while engines go down and
come up.

**PdRequest.** A request in two stages, one after the other (NIXL) or at once
(NIXL push, Mooncake, MoRI-IO), with the workers of the registry or of the ZMQ service
registry, where instances expire unless they announce themselves again. Load counters,
SMetric charges and cached transfer identities are raised, lowered and replaced where the
code does it.

**WorkerTopology.** The calls that add and remove workers take one lock after the other;
so do the readers that hand targets to the scheduler. Administration calls, the
RouterManager, pod events, requests and the observation loop interleave.

### Data structures and algorithms

Stateful ones are small specifications of their own: `KvFeed` (lossy numbered batches, a
subscriber per worker, one task that applies them to the shared index), `CacheAware`,
`Policies` for the ring of consistent hashing, `Bindings`, `TokenizerCaches` (threads and
tasks around a lock), `ResponseStore` (the interface the store's trait offers: no handler
of this router calls it).

**CacheAware, PrefixOwners.** The radix tree has a lock for each node's children, text,
parent and tenants, and none for the whole. An insertion is a step for each level, which is
what it does while it holds the entry of one character; where it must wait for the text of
the node it splits, the wait is a step of its own. A match is a step for each node (the
child was found before, its text is read now), one that picks the tenant and one that may
note the access. A turn of a removal or of the sweep discounts the tenant, detaches it,
checks the node for emptiness and unlinks it, each in a step of its own. Requests, the
sweep and one caller of the administration run these steps at the same time; the map of
trees keeps insertions of the latter apart from its removals and from the sweep, as its
shard locks do. Where operations overlap that the code does not keep apart, sizes drift and
tenants come back: `overlaps` remembers this, and each statement says what holds regardless
and what only without. Within a level of an insertion the code has finer steps, which only
such an overlap can see. `PrefixOwners` says what the tree promises: a step gives prefixes of
one text to one worker or takes some from one. The tree implements it except where an
unlinking meets an insertion.

**Policies.** The ring of consistent hashing and the list it was built for are written under
two locks, one after the other, and compared before either is taken; callers interleave
there. A body is a sequence of tokens in which the hash key is searched as the code does, by
the first place that has the field's name.

The others are operators over every input up to a bound, compared with a definition that
says what the result means: `Policies`, `Detokenize`, `RoutingText`, `ProgramIdentity`,
`Configuration`, `ProgressTtl`, `ChatRequests`, `GrpcChat`, `WorkerAnswers`,
`Destinations`.
`Parts` declares the input they share. Hash functions are any function, a random choice is
any choice, and a text is a short sequence of characters of which only the roles differ.

## Runs

| run | result | distinct states |
|---|---|---|
| `runtime` | passes | 372,244 |
| `rank_local` | passes | 548,316 |
| `modes` | passes | 206,008 |
| `progress` | passes | 198,029 |
| `requests` | passes | 186,808 |
| `topology` | passes | 794,167 |
| `structures` | passes | 603,419 |
| `failover_starves`, `failover_retains`, `ownerless_request`, `load_decremented_twice`, `flush_dropped` | violated | |

Components that share no state are checked in one run: a behaviour is about one of its
parts, and the others rest in an initial state. A property of a run is the conjunction of
what is claimed of one component; the names below are those of the definitions, where
every conjunct is stated in words.

*`runtime`*: two Programs, two ranks, three requests, four epochs. Three requests let one
be in flight, one wait and one arrive on the same Program; four epochs let a placement be
lost and taken again twice, which is what a stale epoch needs. Counts of in-flight
requests are exact and dispatch is in order of arrival (`IInv`); completions of an earlier
life change nothing and a placement has at most one start (`PlacementsAreFenced`); and
callers see an `AdmissionService` whatever the policy does (`RuntimeIsService`, a
refinement). The second part is `ObservationWindow` with two Programs on one rank and two
changes of the target set (`ObservationsAreSound`): usage is the scrape plus what the ledger
did since its checkpoint, a scrape that agrees with the router's own estimate changes
nothing, and no scrape survives its target set.

*`rank_local`*: two Programs, three requests, one place on each of two ranks, one change
of the pool (also to no rank). Queues hold exactly the Programs that wait, decisions agree
with the runtime, an acting Program always has a deadline, and the diagnostics count every
request once (`StateIsCoherent`); no wakeup is lost (`NoLostWakeup`); admission respects
the limits and a pass leaves nothing it could have admitted (`PassesAreExact`); and the
callers see an `AdmissionService` (`ImplementsService`, a refinement).

*`modes`*: one rank of five tokens, watermarks 4 and 3, contexts of one or two tokens,
and scrapes that may report a full backend, so that Programs are marked, paused and
resumed (`CapacityIsKept`); and the pool-wide queue in MRU order over two ranks that may
report a queue, with one change of the pool (`PoolQueueIsKept`).

*`progress`*: what must eventually happen. Every Program exceeds what ordinary admission
allows, so that only force deadlines serve it (`ProgramsAreServed`). Two threads with
thresholds of two, five calls that write and any number of checks use one circuit breaker:
two failures open it, two successes close it, and the fifth call races with either
(`NoLostTransition`). Three callers share one token and one queue entry of the concurrency
limit (`BurstWithinCapacity`). Three requests share one guest worker and a queue of two: no
permit is lost and nothing passes a guest that did not let it (`WasmIsSafe`). No circuit
stays open for ever, and whoever waits for a token or a guest gets an answer
(`GuardsServe`).

*`requests`*: (1) one request of every kind, with or without a Program, over either
protocol, two retries, two URLs and three worker objects, so a worker can be replaced under
it; (2) two requests over one prefill and one decode host, in seven deployments of three
connectors, with and without service discovery, pushing engines and pods that come and go;
(3) one proxied request of each kind over two workers, as requests share nothing but the
workers' availability, which changes freely; (4) one pool of two hosts, or a prefill and a
decode pool, a start-up timeout of one round, thresholds of three failures and two
successes, and three changes of an engine, which end a row of either kind and start the
next one. An attempt never overlaps the dispatch of another (`OneDispatchAtATime`), every
dispatch is completed and loads return to zero (`RequestsSettle`), what is reported of a
proxied dispatch is what became of it (`ReportsAreTruthful`), charges, legs and instances
are accounted exactly (`PdIsAccounted`), stale transfer identities are replaced
(`IdentityHeals`), a steady host is enough to start and health turns at the end of a row of
checks only (`ChecksDecide`), and the wait ends and readiness becomes true to the engines
(`HealthIsTrue`).

*`topology`*: five settings (Program scheduling of both kinds of pools, service discovery,
the RouterManager with two callers, hosts of two ranks) with two hosts and up to two calls
each. The maps agree between calls and a tracked pod is served (`TopologyIsCoherent`), a
list cached under the current revision is that of the registry (`CacheIsCurrent`), and the
scheduler ends up with the workers of the registry (`TargetsConverge`).

*`structures`*: one property for each module. The two engines of the KV feed are alike, and
so are the two threads that select by the tree; neither occurs in another module, so states
that differ in their names only are explored once. The tree starts empty or with one of five
pasts (nodes of one tenant, of two, and split ones) and takes two operations of any kind,
which is what every overlap described above needs. The ring has two callers and three lists,
and no bound.

| property | what it says |
|---|---|
| `IndexIsExact` | an index fed by lossy events never credits a worker with blocks it lost, and scores by longest prefix |
| `TreeIsSound` | under any interleaving the cache-aware tree holds prefixes of texts that were routed to their tenants, and it implements `PrefixOwners` but for what unlinking may lose; unless operations overlap that nothing keeps apart, sizes are exact, removals and sweeps thorough and matches longest |
| `ChoicesAreSound` | when a worker leaves only its keys move, whichever list the ring is of; the ring is that of the list unless updates overlapped; the more loaded of two is spared; turns visit all; the turns of a chat keep their key if one is seen; SMetric chooses a worker that meets the budget when one does, and leaves home for less only |
| `DecodingIsExact` | streamed text is complete, and a hidden stop sequence leaks no character however tokens split it |
| `CachesAreExact` | budgets, occupancy and order of eviction hold under concurrent use; a model is loaded once |
| `AnswersAreWhole` | the streaming and the collecting path give the same answer, which ends once |
| `RequestsAreKept` | frontend and conversion read a request alike; a request that keeps the validation's rules, which no handler applies, is converted with the limits, stops and constraint it states |
| `RoutingTextsAgree` | parsed messages survive being forwarded, a longer conversation has a longer text; token keys are reversible but for one id |
| `IdentitiesAreStable` | an agent has one name, and every declared child ends below its declared root |
| `SettingsAreSound` | accepted settings can run, but for times too large to be one, and switches take effect where something reads them |
| `EstimatesAreSound` | estimates use the latest samples, TTLs pay off, deadlines follow the queue |
| `BindingsAreSound` | a Program stays with its rank while it can, and room comes before affinity |
| `RequestsReachTheirWorker` | a model's requests reach its workers and a rank's requests its server; a guest's changes of the headers apply in order and nothing passes that must not |
| `AnswersAreExact` | merged log-probabilities are aligned, their offsets up to the bytes of one token, and wherever a stream is cut exactly its usage reports are seen |
| `HistoriesAreSound` | users find what they stored, as long as nobody else stored it again, and chains are linked |

The exceptions that the code makes are part of each statement.

Every bound is a constant of its module or named beside the inputs. Bounds on requests,
epochs, snapshots, calls and outages make the instances stop when they are used up, and
algorithms end: deadlock is not checked there. That nobody waits for ever is stated
instead, by the liveness properties of `progress` and `requests` and by `NoLostWakeup`.

### Fairness

- Program scheduler: the executor polls woken tasks and fires their timers, the observation
  loop ticks while a pool has a rank (`routers/http/router.rs:329`), every dispatch
  completes (by its response or by the guard its body drops), and armed deadlines pass.
  Nobody has to arrive, give up or hit the queue timeout.
- Circuit breaker: started calls go on, the timeout passes, and somebody checks the
  circuit, as each selection of a worker does.
- Concurrency limit: the processor and time go on and routes that run end.
- WASM middleware: idle workers take jobs and guests end, by themselves or by the epoch
  deadline.
- Regular and proxied requests: sent requests are answered or fail (the client has a
  timeout), streams end, and the periodic load reset runs (`core/worker_registry.rs:426`).
- Prefill/decode: stages end, loads are reset, and, for `IdentityHeals` only, requests keep
  arriving and an engine that pushes says so again and again (strong fairness, as either
  can be interrupted by engines that restart).
- Health: the start-up wait and the checker's interval go on; engines need not come up.
- Topology: calls and loops that have begun go on.

## Proofs

The theorems hold for all values of the constants under the assumptions stated, and named,
in the modules: sets whose members are counted are finite, markers such as `None` are no
values, bounds are naturals, and settings are what the code's validation accepts
(`WasmConfigIsValid`, `LimitsArePositive`, `BreakerAssumption`). The thresholds of the
health checks are validated by nobody and are any naturals. `PdConfigIsValid` takes a host
to be a prefill or a decode worker, as the registry keeps one worker for a URL.

| run property | theorem | from the inductive invariant |
|---|---|---|
| `IInv` | `RuntimeInvariant` | itself |
| `PlacementsAreFenced` | `PlacementsStayFenced` | `IInv` |
| `RuntimeIsService` | `RuntimeServesItsCallers` | `IInv`, `DispatchesAreUnique` |
| `ObservationsAreSound` | `ObservationsStaySound` | `WindowInv`, `LedgerInv` |
| `NoLostTransition` | `TransitionsAreNotLost` | `TripInv`, `CloseInv` |
| `BurstWithinCapacity` | `BurstIsBounded` | `BucketInv` |
| `WasmIsSafe` | `WasmStaysSafe` | `WasmInv` |
| `OneDispatchAtATime` | `DispatchesDoNotOverlap` | `DispatchInv` |
| `ReportsAreTruthful` | `ProxyIsTruthful` | `ProxyInv` |
| `PdIsAccounted` | `PdStaysAccounted` | `PdInv` |
| `CacheIsCurrent` | `CacheStaysCurrent` | `CacheInv` |
| `ChecksDecide` | `ChecksAlwaysDecide` | `WaitInv`, `RowInv` |

*ProgramRuntimeProofs.* In-flight counts are not inductive by themselves: a completion must
be accepted only for a dispatch of the current placement. That rests on `Epochs` (epochs
come from one counter and no two live Programs share one), on `EpochFences` (a dispatch with
its Program's current epoch has its generation, its birth and its backend, too), on
`RequestIds` (identifiers grow, so none is issued twice and each queue is sorted) and on
`PoolIsLive` (only live Programs have retained requests).

*ServiceProofs.* The runtime implements `AdmissionService`: what callers see are the queues
of retained requests and the dispatches that are out. Accepting, dispatching, giving up and
completing are the steps of the service with these names; pauses, resumes, invalidations and
pruning are not seen. A completion takes exactly one dispatch away because no request has
two: a dispatched request is older than all that are retained (`DispatchInArrivalOrder`).

*ObservationWindowProofs.* `WindowInv` is about when: a rank was added no later than at the
current revision, and a scrape is only applied at the revision it began at. `LedgerInv` is
about what: the delta of a rank is what its Programs hold now less what they held at the
checkpoint of the last scrape, and that a scrape under way noted is what they held when it
began. Where the code lets the two drift apart the rank is marked, and only then is the
equation not claimed. Each step changes one Program, so a sum over Programs changes by what
that one holds on the rank.

*GuardProofs.* `TripInv`: in a closed circuit with a full failure counter some thread is
between counting and opening, or the lock holder has yet to clear the counter; `CloseInv` is
the same for the success counter. `BucketInv`: what was taken since the last tick, less what
was returned, and what the bucket holds now never exceed a full bucket together. `WaitInv`:
a host that has answered since the wait for its pool began was found up if it was probed in
this round, and there was no earlier round, which would have found it. `RowInv`: while a
worker is healthy its failure counter is the length of its last row of failures, and while it
is unhealthy its success counter that of its last row of successes. Of the other counter
nothing is claimed, as it is reset at the turn and may lag behind its row.

*WasmProofs.* A request that has a permit finds a place in the queue unless callers have left
their jobs behind, and permits come back because each belongs to one request. `WasmInv` adds
that jobs in the queue are of different requests that wait or have left, and that a guest
runs on none of those.

*RequestProofs.* `DispatchInv`: a live dispatch belongs to the current attempt, which has been
sent or answered. `ProxyInv`: a dispatch that was reported as failed has no task left that
could bring its answer to a good end, and a body that is whole belongs to a handler that has
answered.

*PdProofs.* Every step moves one request, and `ChargesFollow` and `LegsFollow` say that what
it adds to a worker's charge or load is what the request gains there. The code lowers a load
with a saturating subtraction; that nothing is lost by the saturation needs `LegsAreLoaded`
(the leg that ends has been counted), and for charges that a tracker is held only by a
request whose prefill runs and has not been answered. `DiscoveryInv` ties the seconds an
instance has left to the seconds it has been silent.

*TopologyProofs.* A view of a pool is computed from the maps as they are, under a revision
read before. A call is `Changing` from its first write to a map that views are made from
until it bumps the revision. `StaysDated` is what every step of a call, of discovery and of
the health checks satisfies: it bumps the revision, or its call is still Changing, or it
leaves those maps alone. Hence `CacheInv`: a cached view, and one that is about to be cached,
is complete, or its revision is over, or a call is under way that will end it.

Only model-checked:

- liveness (`ProgramsAreServed`, `GuardsServe`, `RequestsSettle`, `IdentityHeals`,
  `HealthIsTrue`, `TargetsConverge`): the prover has no rule for fairness;
- the decisions of the scheduler (`StateIsCoherent`, `NoLostWakeup`, `PassesAreExact`,
  `CapacityIsKept`, `PoolQueueIsKept`, `ImplementsService`): a pass folds over a queue, and
  what a fold does for every queue is an induction over data;
- the agreement of the registry's maps (`TopologyIsCoherent`) and of the KV index with the
  engines (`IndexIsExact`): both depend on what filtering or replaying whole sequences leaves;
- the other data structures and algorithms of `structures`, for the same reason; several are
  recursive.

## Where the code and its documents differ

Five runs end in a counterexample, each to a sentence of the repository:

- `failover_starves`: a Program requeued because its rank disappeared has no force
  deadline (`program_scheduling/scheduler.rs:214`), though `docs/program_scheduling.md:163`
  says that force resume bounds starvation.
- `failover_retains`: a Program that lost its rank with nothing waiting stays Reasoning and
  is never released (`scheduler_lifecycle.rs:421`, `docs/program_scheduling.md:102`).
- `ownerless_request`: an arrival that finds no rank leaves its request retained without an
  owner (`scheduler_admission.rs:152`, `docs/program_scheduling.md:151`).
- `load_decremented_twice`: a failed HTTP attempt lowers the worker's load twice; the
  comment at `routers/http/router.rs:1253` assumes it was not lowered before.
- `flush_dropped`: a gRPC answer that ends in a message without token ids loses the text
  the detokenizer still held back (`backend/grpc.rs:546`), which the comment at
  `backend/grpc.rs:533` says cannot happen.

Others were met while modelling. No run is spent on them: the models contain the behaviour,
and the properties state it as an exception or make no claim about it. What no model contains
stands at the end.

Program scheduling (`program_scheduling/`):

- Each arrival moves the force deadline of a Program that waits already
  (`scheduler_admission.rs:167`); `scheduler_fairness.rs:30` speaks of freezing the estimate
  when the Program enters a queue. `queued_at` survives some of the ways a wait ends
  (`scheduler_admission.rs:165`, `scheduler_state.rs:19`).
- With `binding_only` a Program whose rank was lost before its claim can wait although
  nothing is scheduled (`scheduler_lifecycle.rs:355`, `docs/program_scheduling.md:90`).
- Capacity repair also runs on an arrival and then pauses acting Programs
  (`scheduler_lifecycle.rs:600`, `docs/program_scheduling.md:165`).
- A Program can be Reasoning without demand (`runtime.rs:277`, `domain.rs:22`), and the mark
  of a placement's first dispatch is used up by a waiter that polls ahead of the front
  (`runtime.rs:111`, `domain.rs:150`).
- Until the next scrape, usage is too low after a marked Program grew and was paused, and
  too high after an arrival that reserves less output (`scheduler_admission.rs:138`).
- Any line of metrics makes an engine known, and a line without a label counts for engine 0
  (`observations.rs`).
- Identities from headers and agent hints may name themselves as parent, and identifiers
  with colons may coincide (`identity.rs`). Path compression leaves a grandchild at its old
  root when the root is declared below another one later (`lineage.rs`).

Limits, breaker, middleware:

- Races take the circuit from Open to Closed and from Closed to HalfOpen, two transitions the
  diagram in `src/router/README.md:208` does not have. Leaving Open by the timeout does not
  change the revision that cached targets are kept under.
- The bucket refills while requests run, so more than `max_concurrent_requests` of them can
  (`core/token_bucket.rs:60`, `main.rs:304`). Waiters in `acquire` are not counted against
  `queue_size`, and give up after the time one token takes rather than `queue_timeout`
  (`config/types.rs:53`). They are not served in order (`core/token_bucket.rs:11`).
- An abandoned WASM job keeps its place in the queue, so that a request with a permit may be
  refused.

Requests and workers:

- A gRPC stream completes its Program's dispatch when the response starts, an HTTP stream
  when it ends. Disconnected callers and refused gRPC routes leave a worker's load raised,
  and a forwarding task lowers the load of whatever worker has the URL by then; the load
  reset repairs both (`LoadDriftHeals`).
- A new worker counts as healthy until `failure_threshold` checks failed, so a router may
  report that it is ready right after its start with hosts that are down, and the start-up
  wait needs one host of each pool only.
- A line of a stream that outgrows the buffer for usage is dropped, and its rest is read as
  a line of its own (`routers/http/program_adapter.rs:127`).
- In direct mode MoRI-IO requests fail after the prefill load was raised, which is not lowered
  again; a JSON error of the prefill stage still leads to a decode stage, in discovery mode it
  does not; the decode load is lowered when the headers arrive. SMetric is refused in
  discovery mode. Mooncake's transfer information is queried at start-up only.
- Registering a URL again through the RouterManager counts its worker twice. The branch for
  data-parallel workers in `remove_worker` looks the worker up after removing it
  (`routers/http/router.rs:1948`). The comment at `service_discovery.rs:445` does not hold
  for pods whose readiness changed. The prefill/decode router removes workers without telling
  the policy registry.
- In gateway mode the header `x-prefer-pd` has no effect: `is_pd_mode` compares with "pd"
  (`routers/mod.rs:164`), and the prefill/decode router calls itself "vllm_pd"
  (`routers/http/vllm_pd_router.rs:2631`). All routers score alike, so a request without a
  model goes to the one the map happens to yield first (`routers/router_manager.rs:401-441`),
  which need not be the one that has workers; the comment at line 602 says that it will
  "still route correctly". Rerank requests are handed on without their model (`server.rs:281`).
  "Model not found" is answered only when there is no router.
- A ranked URL is expanded again by the regular router.

Policies and the tree:

- The comment at `tree.rs:332` calls the tree thread-safe. Its operations are each safe, but
  not as wholes. Sizes drift for good when an insertion or a noted access meets a removal of
  the same node (`tree.rs:605`, `tree.rs:761-769`), so a sweep may leave a tenant above
  `max_tree_size`, which `test_concurrent_operations_with_eviction` asserts it does not. A
  tenant can come back to a node whose parent no longer has it. A match whose next node is
  split before its text is read (`tree.rs:539-546`) reports a prefix its tenant need not own.
  A node that was empty when it was checked is unlinked with whatever was inserted since
  (`tree.rs:775-778`), and after a split the parent that was read before may lose another
  child instead. Two removals of one tenant may leave an empty node.
- A removal holds the text of the node while it waits for its parent's children
  (`tree.rs:777`, `tree.rs:857`: the read guard lives through the `if let`), an insertion that
  splits this node holds the children's entry while it waits for the text (`tree.rs:461`): both
  wait for ever, and whoever needs that shard with them.
- Two overlapping updates of the ring of consistent hashing may leave the ring of one list
  beside the name of the other (`policies/consistent_hash.rs:249-287`); it is used until the
  list changes. A worker that is then missed is replaced by the first healthy one.
- The search for the field `user` finds the `"user"` of `"role":"user"` first, after which no
  colon follows, and then gives up on quoted names (`policies/hash_key.rs:176-229`): a `user`
  named after the messages is not seen, and a text that says "user: ..." may pass for one
  although line 25 speaks of the OpenAI field.
- A match on an empty tree may insert a tenant named "empty".
- SMetric's fallback may miss a worker that meets the budget when learned rates differ.

Texts, answers, settings:

- Token id 1112061 is mapped to the character that escapes ids outside the range
  (`protocols/spec.rs:2625-2629`), so that two prompts can have one key, which
  `kv_index/cache.rs:34-38` decodes as the other one.
- The offsets of merged log-probabilities count the last token of the prompt in bytes, all
  others in characters (`routers/http/logprobs_merge.rs:196`).
- `Sequence::append_token` loses characters split over tokens; a visible stop token drops a
  pending incomplete character. `stream_openai` stops at the first finish reason while
  `collect_openai` reads to the end.
- The rules of `protocols/validation.rs` are applied to chat requests by tests only. Without
  them `max_tokens = 0` is sent, which means no limit, and so is `stop = [""]`. The rules
  accept `top_k = -1`, `n > 1` and log-probabilities, which the gRPC conversion refuses, and
  `top_p = 0` (line 17 calls the bound exclusive); they do not look at `structured_outputs`.
- Times that are finite but too large for a `Duration` pass validation and panic
  (`program_scheduling/scheduler_state.rs:97-109`). `kv_events` is accepted without effect for
  policies that do not read the index and for workers that come after the start
  (`routers/factory.rs:67-79`). Not-a-number multipliers are accepted.
  `--prefill-policy smetric` without prefill/decode is unused.
- Storing a response id again under another user leaves it in the first one's index, which
  then lists a response that is not that user's.

In no model:

- Two pools that share a rank: when one loses it, `rank_queues.remove` drops the waiters of
  both (`program_scheduling/scheduler.rs:137`). The models have one pool.
- A fitted TTL never takes its `best.1 < 0` branch (`program_scheduling/policy.rs`).
- A batch with one malformed KV event is applied without it (`kv_events/decoder.rs:101`), so
  the index can keep a block the engine dropped; in `KvFeed` a batch is decoded as a whole or
  not at all. Unsubscribing does not clear the index; `max_entries` is not enforced.
- `ConsistentHashPolicy` ignores `virtual_nodes`. Its `reset` and those of the other policies
  are called by tests only.
- `check_interval_secs = 0` and `max_concurrent_requests = 0` are accepted.

## Not modelled

- *OpenAI router*: it forwards to one upstream and keeps no state but a circuit breaker,
  which is modelled.
- *Metrics, tracing, logging, profiling*: output that no decision reads.
- *Serialisation*: JSON, MessagePack, protobuf, HTTP and the text of metrics. The models
  start from what was read and end with what is written; what a conversion does to the
  meaning of a request is modelled (`ChatRequests`, `RoutingText`, `WorkerAnswers`).
- *Tokenizers' vocabularies, chat templates, downloads, the token estimate of a body*: enter
  as any function, or not at all.
- *Floating point*: the log-normal fit of a TTL's utility is any function of the candidates;
  other quantities are exact ratios or small integers.
- *The listings and fan-outs of the regular router* (models, server information, worker
  loads, cache flushes), which keep no state, and the load monitor of the power-of-two
  policy, whose loads are any numbers here.
- *The experiment harness* around the router.
