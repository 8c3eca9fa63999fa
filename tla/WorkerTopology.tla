---------------------------- MODULE WorkerTopology ----------------------------
(***************************************************************************)
(* The set of workers and everything derived from it: the maps of          *)
(* core/worker_registry.rs, the policy of each model                       *)
(* (policies/registry.rs), the calls that add and remove workers           *)
(* (routers/http/router.rs, routers/router_manager.rs,                     *)
(* service_discovery.rs), and the two readers that hand targets to the     *)
(* Program scheduler: a request, through the cache keyed by the registry's *)
(* revision, and the observation loop.                                     *)
(*                                                                         *)
(* Every map has a lock of its own, so a call that changes the registry is *)
(* one step per map.  Calls come from the administration endpoints and     *)
(* from the discovery task, which handles one pod event at a time.         *)
(***************************************************************************)
EXTENDS Naturals, Sequences, FiniteSets, SequencesExt

CONSTANTS
    Hosts,         \* base URLs of workers; a pod has the host of its address
    MaxDp,         \* the largest data parallel size of the configurations
    Configs,       \* enable_igw, service_discovery, intra_node_data_parallel_size, the
                   \* administration calls in parallel,
                   \* how many of them (a bound), and the pools the Program scheduler
                   \* is used for
    Models,        \* model ids of workers added through the RouterManager
    Callers,       \* concurrent calls of the administration endpoints
    Pods,          \* subset of Hosts that are pods seen by service discovery
    FirstHosts,    \* worker_urls of the configuration
    MaxWorkers,    \* bound: worker objects of one behaviour
    MaxRevision,   \* bound: revisions that availability changes may reach
    None

VARIABLES
    config,        \* the configuration of the router
    workers,       \* WorkerId -> worker
    url_to_id,
    model_workers, \* model -> WorkerIds
    model_index,   \* model -> workers
    kind_workers,  \* type_workers and connection_workers, kept the same way
    revision,
    counts,        \* model_worker_counts
    policies,      \* model_policies: the hint that chose the model's policy
    made,          \* worker objects made so far
    down,          \* workers whose is_available() is false
    tasks,         \* the calls under way
    calls,         \* administration calls made so far
    pods,          \* what the API server says of every pod
    tracked,       \* tracked_pods
    cache,         \* program_targets_cache
    sched,         \* the targets the Program scheduler has for every pool
    request,       \* a request on its way to the scheduler
    observer,      \* the observation loop
    history        \* what happened, for the properties

registry == <<workers, url_to_id, model_workers, model_index, kind_workers>>
policy == <<counts, policies>>
discovery == <<pods, tracked>>
readers == <<cache, sched, request, observer>>
vars == <<config, registry, revision, policy, made, down, tasks, calls, discovery, readers, history>>

Urls == Hosts \X (0 .. MaxDp - 1)
UrlsOf(h) == [i \in 1 .. config.dp |-> <<h, i - 1>>]
Ids == 1 .. MaxWorkers
Kinds == {"regular", "prefill"}
ModelIds == Models \cup {"unknown"}
Workers == [url : Urls, model : ModelIds, kind : Kinds, gen : Ids]
Pools == ModelIds \cup {"all"}
Tasks == Callers \cup {"discovery"}
Hints == {"default", "hinted"}

ASSUME TopologyIsValid ==
    /\ FirstHosts \in Seq(Hosts)
    /\ \A c \in Configs : c.dp \in Nat \ {0} /\ c.pools \subseteq Pools /\ c.callers \subseteq Callers

Idle == [pc |-> "idle", op |-> None, host |-> None, todo |-> <<>>, worker |-> None,
         id |-> None, model |-> None, added |-> FALSE, hint |-> "default"]
NoReader == [pc |-> "idle", pool |-> None, revision |-> 0, view |-> None]

\* Router::new registers the configured workers one after the other.
Init ==
    LET n == Len(FirstHosts) * config.dp
        first == [i \in 1 .. n |-> <<FirstHosts[((i - 1) \div config.dp) + 1], (i - 1) % config.dp>>]
        worker(i) == [url |-> first[i], model |-> "unknown", kind |-> "regular", gen |-> i]
        entries == [i \in 1 .. n |-> i]
    IN  /\ config \in Configs
        /\ workers = [i \in Ids |-> IF i <= n THEN worker(i) ELSE None]
        /\ url_to_id = [u \in Urls |-> IF \E i \in 1 .. n : first[i] = u
                                       THEN CHOOSE i \in 1 .. n : first[i] = u ELSE None]
        /\ model_workers = [m \in ModelIds |-> IF m = "unknown" THEN entries ELSE <<>>]
        /\ model_index = [m \in ModelIds |-> IF m = "unknown" THEN [i \in 1 .. n |-> worker(i)] ELSE <<>>]
        /\ kind_workers = [k \in Kinds |-> IF k = "regular" THEN entries ELSE <<>>]
        /\ revision = n /\ made = n /\ down = {}
        /\ counts = [m \in ModelIds |-> IF m = "unknown" THEN n ELSE 0]
        /\ policies = [m \in ModelIds |-> IF m = "unknown" /\ n > 0 THEN "default" ELSE None]
        /\ tasks = [t \in Tasks |-> Idle] /\ calls = 0
        /\ pods = [p \in Pods |-> "absent"] /\ tracked = {}
        /\ cache = [p \in Pools |-> None] /\ sched = [p \in Pools |-> None]
        /\ request = NoReader /\ observer = NoReader
        /\ history = [clash |-> FALSE, overlap |-> FALSE, removed |-> {}]
-----------------------------------------------------------------------------
Registered == {workers[i] : i \in Ids} \ {None}
UrlsIn(s) == {w.url : w \in s}

Without(s, i) == SelectSeq(s, LAMBDA j : j # i)
WithoutUrl(s, u) == SelectSeq(s, LAMBDA w : w.url # u)

\* get_by_url
ByUrl(u) == IF url_to_id[u] = None THEN None ELSE workers[url_to_id[u]]

\* Steps of task t, in the order of the code; the last one may end the call.
At(t, pc) == tasks[t].pc = pc
Goto(t, pc) == tasks' = [tasks EXCEPT ![t].pc = pc]
Worker(t) == tasks[t].worker

\* What begins a call: remember whether it overlaps another one.
Begin(t, call) ==
    LET others == {o \in Tasks \ {t} : tasks[o].pc # "idle"}
    IN  /\ tasks' = [tasks EXCEPT ![t] = call]
        /\ history' = [history EXCEPT
                !.overlap = @ \/ others # {},
                !.clash = @ \/ \E o \in others : tasks[o].host = call.host,
                !.removed = IF call.op = "remove" /\ t # "discovery" THEN @ \cup {call.host} ELSE @]

\* The worker at the head of the call is done: on to the next, or the call
\* ends.  service_discovery.rs takes a pod whose worker was not added off
\* the tracked ones.
NextWorker(t, added) ==
    LET call == tasks[t]
        rest == Tail(call.todo)
        ok == call.added \/ added
    IN  /\ tasks' = [tasks EXCEPT ![t] =
                IF rest = <<>> THEN Idle
                ELSE [call EXCEPT !.pc = IF call.op = "remove" THEN "unmap" ELSE "check",
                                  !.todo = rest, !.worker = None, !.id = None, !.added = ok]]
        /\ tracked' = IF rest = <<>> /\ t = "discovery" /\ call.op = "add" /\ ~ok
                      THEN tracked \ {call.host} ELSE tracked
-----------------------------------------------------------------------------
(* Adding a worker.                                                        *)

\* Router::add_worker waits until the worker answers its health check.
AddCall(h) == [Idle EXCEPT !.pc = "health", !.op = "add", !.host = h, !.todo = UrlsOf(h)]

CallAddWorker(t, h) ==
    /\ ~config.igw /\ At(t, "idle") /\ calls < config.calls /\ made + config.dp <= MaxWorkers
    /\ calls' = calls + 1
    /\ Begin(t, AddCall(h))
    /\ UNCHANGED <<config, registry, revision, policy, made, down, discovery, readers>>

WorkerAnswers(t) ==
    /\ At(t, "health") /\ made + config.dp <= MaxWorkers
    /\ Goto(t, "check")
    /\ UNCHANGED <<config, registry, revision, policy, made, down, calls, discovery, readers, history>>

WorkerStartupTimeout(t) ==
    /\ At(t, "health")
    /\ tasks' = [tasks EXCEPT ![t] = Idle]
    /\ tracked' = IF t = "discovery" THEN tracked \ {tasks[t].host} ELSE tracked
    /\ UNCHANGED <<config, registry, revision, policy, made, down, calls, pods, readers, history>>

\* A URL that is there already is skipped; otherwise a worker object is made.
CheckExists(t) ==
    /\ At(t, "check")
    /\ LET u == Head(tasks[t].todo)
       IN  IF ByUrl(u) # None
           THEN NextWorker(t, FALSE) /\ UNCHANGED made
           ELSE /\ made < MaxWorkers /\ made' = made + 1
                /\ tasks' = [tasks EXCEPT ![t].pc = "lookup",
                        ![t].worker = [url |-> u, model |-> "unknown", kind |-> "regular", gen |-> made + 1]]
                /\ UNCHANGED tracked
    /\ UNCHANGED <<config, registry, revision, policy, down, calls, pods, readers, history>>

\* RouterManager::add_worker registers without looking first; the model comes
\* from the call or from the worker's server info.
CallCreateWorker(t, u, m, k, hint) ==
    /\ config.igw /\ At(t, "idle") /\ calls < config.calls /\ made < MaxWorkers
    /\ calls' = calls + 1 /\ made' = made + 1
    /\ Begin(t, [Idle EXCEPT !.pc = "lookup", !.op = "add", !.host = u[1], !.todo = <<u>>, !.hint = hint,
                    !.worker = [url |-> u, model |-> m, kind |-> k, gen |-> made + 1]])
    /\ UNCHANGED <<config, registry, revision, policy, down, discovery, readers>>

\* WorkerRegistry::register, map by map.
RegisterLookup(t) ==
    /\ At(t, "lookup")
    /\ LET known == url_to_id[Worker(t).url]
       IN  /\ tasks' = [tasks EXCEPT ![t].pc = "insert",
                            ![t].id = IF known = None THEN Worker(t).gen ELSE known]
           /\ history' = [history EXCEPT !.clash = @ \/ known # None]
    /\ UNCHANGED <<config, registry, revision, policy, made, down, calls, discovery, readers>>

RegisterInsert(t) ==
    /\ At(t, "insert") /\ Goto(t, "map")
    /\ workers' = [workers EXCEPT ![tasks[t].id] = Worker(t)]
    /\ UNCHANGED <<config, url_to_id, model_workers, model_index, kind_workers, revision, policy, made,
                   down, calls, discovery, readers, history>>

RegisterMapUrl(t) ==
    /\ At(t, "map") /\ Goto(t, "ids")
    /\ url_to_id' = [url_to_id EXCEPT ![Worker(t).url] = tasks[t].id]
    /\ UNCHANGED <<config, workers, model_workers, model_index, kind_workers, revision, policy, made,
                   down, calls, discovery, readers, history>>

RegisterModelIds(t) ==
    /\ At(t, "ids") /\ Goto(t, "index")
    /\ model_workers' = [model_workers EXCEPT ![Worker(t).model] = Append(@, tasks[t].id)]
    /\ UNCHANGED <<config, workers, url_to_id, model_index, kind_workers, revision, policy, made,
                   down, calls, discovery, readers, history>>

RegisterModelIndex(t) ==
    /\ At(t, "index") /\ Goto(t, "kinds")
    /\ model_index' = [model_index EXCEPT ![Worker(t).model] = Append(@, Worker(t))]
    /\ UNCHANGED <<config, workers, url_to_id, model_workers, kind_workers, revision, policy, made,
                   down, calls, discovery, readers, history>>

RegisterKinds(t) ==
    /\ At(t, "kinds") /\ Goto(t, "notify")
    /\ kind_workers' = [kind_workers EXCEPT ![Worker(t).kind] = Append(@, tasks[t].id)]
    /\ UNCHANGED <<config, workers, url_to_id, model_workers, model_index, revision, policy, made,
                   down, calls, discovery, readers, history>>

\* notify_worker_state_change, at the end of register and of remove.
Notify(t) ==
    /\ At(t, "notify")
    /\ revision' = revision + 1
    /\ Goto(t, IF tasks[t].op = "remove" THEN "uncount" ELSE "count")
    /\ UNCHANGED <<config, registry, policy, made, down, calls, discovery, readers, history>>

\* PolicyRegistry::on_worker_added, lock by lock.
CountWorker(t) ==
    /\ At(t, "count") /\ Goto(t, "find")
    /\ counts' = [counts EXCEPT ![Worker(t).model] = @ + 1]
    /\ UNCHANGED <<config, registry, revision, policies, made, down, calls, discovery, readers, history>>

FindPolicy(t) ==
    /\ At(t, "find")
    /\ IF policies[Worker(t).model] # None
       THEN NextWorker(t, TRUE)
       ELSE Goto(t, "store") /\ UNCHANGED tracked
    /\ UNCHANGED <<config, registry, revision, policy, made, down, calls, pods, readers, history>>

StorePolicy(t) ==
    /\ At(t, "store") /\ NextWorker(t, TRUE)
    /\ policies' = [policies EXCEPT ![Worker(t).model] = tasks[t].hint]
    /\ UNCHANGED <<config, registry, revision, counts, made, down, calls, pods, readers, history>>
-----------------------------------------------------------------------------
(* Removing a worker.                                                      *)

\* Router::remove_worker: the ranks found by prefix, or the one URL when it
\* is known; RouterManager::remove_worker_from_registry reads the model the
\* same way.
RemoveCall(h) ==
    LET known == {u \in {UrlsOf(h)[i] : i \in 1 .. config.dp} :
                    IF config.dp > 1 THEN u \in UrlsIn(Registered) ELSE ByUrl(u) # None}
    IN  [Idle EXCEPT !.pc = IF known = {} THEN "idle" ELSE "unmap", !.op = "remove", !.host = h,
            !.todo = SetToSeq(known),
            !.model = IF known = {} THEN None
                      ELSE (CHOOSE w \in Registered : w.url \in known /\ (config.dp = 1 => w = ByUrl(w.url))).model]

CallRemoveWorker(t, h) ==
    /\ At(t, "idle") /\ calls < config.calls /\ RemoveCall(h).pc # "idle"
    /\ calls' = calls + 1
    /\ Begin(t, RemoveCall(h))
    /\ UNCHANGED <<config, registry, revision, policy, made, down, discovery, readers>>

\* remove_by_url takes the URL's id out, remove takes the worker out.
RemoveUnmap(t) ==
    /\ At(t, "unmap")
    /\ LET u == Head(tasks[t].todo)
       IN  IF url_to_id[u] = None
           THEN NextWorker(t, FALSE) /\ UNCHANGED url_to_id
           ELSE /\ tasks' = [tasks EXCEPT ![t].pc = "take", ![t].id = url_to_id[u]]
                /\ url_to_id' = [url_to_id EXCEPT ![u] = None]
                /\ UNCHANGED tracked
    /\ UNCHANGED <<config, workers, model_workers, model_index, kind_workers, revision, policy, made,
                   down, calls, pods, readers, history>>

RemoveTake(t) ==
    /\ At(t, "take")
    /\ LET i == tasks[t].id
       IN  IF workers[i] = None
           THEN NextWorker(t, FALSE) /\ UNCHANGED workers
           ELSE /\ tasks' = [tasks EXCEPT ![t].pc = "unmap_again", ![t].worker = workers[i]]
                /\ workers' = [workers EXCEPT ![i] = None]
                /\ UNCHANGED tracked
    /\ UNCHANGED <<config, url_to_id, model_workers, model_index, kind_workers, revision, policy, made,
                   down, calls, pods, readers, history>>

RemoveUnmapAgain(t) ==
    /\ At(t, "unmap_again") /\ Goto(t, "unlist")
    /\ url_to_id' = [url_to_id EXCEPT ![Worker(t).url] = None]
    /\ UNCHANGED <<config, workers, model_workers, model_index, kind_workers, revision, policy, made,
                   down, calls, discovery, readers, history>>

RemoveModelIds(t) ==
    /\ At(t, "unlist") /\ Goto(t, "unindex")
    /\ model_workers' = [model_workers EXCEPT ![Worker(t).model] = Without(@, tasks[t].id)]
    /\ UNCHANGED <<config, workers, url_to_id, model_index, kind_workers, revision, policy, made,
                   down, calls, discovery, readers, history>>

RemoveModelIndex(t) ==
    /\ At(t, "unindex") /\ Goto(t, "unkind")
    /\ model_index' = [model_index EXCEPT ![Worker(t).model] = WithoutUrl(@, Worker(t).url)]
    /\ UNCHANGED <<config, workers, url_to_id, model_workers, kind_workers, revision, policy, made,
                   down, calls, discovery, readers, history>>

RemoveKinds(t) ==
    /\ At(t, "unkind") /\ Goto(t, "notify")
    /\ kind_workers' = [kind_workers EXCEPT ![Worker(t).kind] = Without(@, tasks[t].id)]
    /\ UNCHANGED <<config, workers, url_to_id, model_workers, model_index, revision, policy, made,
                   down, calls, discovery, readers, history>>

UncountWorkerLate(t) ==
    /\ At(t, "uncount")
    /\ LET m == tasks[t].model
       IN  /\ counts' = [counts EXCEPT ![m] = IF @ = 0 THEN 0 ELSE @ - 1]
           /\ IF counts[m] = 0 THEN Goto(t, "drop") /\ UNCHANGED tracked ELSE NextWorker(t, TRUE)
    /\ UNCHANGED <<config, registry, revision, policies, made, down, calls, pods, readers, history>>

\* PolicyRegistry::on_worker_removed, lock by lock.
UncountWorker(t) ==
    /\ At(t, "uncount")
    /\ LET m == tasks[t].model
       IN  /\ counts' = [counts EXCEPT ![m] = IF @ = 0 THEN 0 ELSE @ - 1]
           /\ IF counts[m] = 1 THEN Goto(t, "drop") /\ UNCHANGED tracked ELSE NextWorker(t, TRUE)
    /\ UNCHANGED <<config, registry, revision, policies, made, down, calls, pods, readers, history>>

DropPolicy(t) ==
    /\ At(t, "drop") /\ NextWorker(t, TRUE)
    /\ policies' = [policies EXCEPT ![tasks[t].model] = None]
    /\ UNCHANGED <<config, registry, revision, counts, made, down, calls, pods, readers, history>>
-----------------------------------------------------------------------------
(* Service discovery.                                                      *)

\* What the API server may say of a pod from one event to the next.
PodSteps ==
    {<<"absent", "pending">>, <<"pending", "ready">>, <<"ready", "unready">>, <<"unready", "ready">>,
     <<"ready", "deleting ready">>, <<"unready", "deleting">>, <<"pending", "deleting">>,
     <<"deleting ready", "deleting">>, <<"deleting", "absent">>}

PodChanges(p) ==
    /\ config.discovery
    /\ \E s \in PodSteps : s[1] = pods[p] /\ pods' = [pods EXCEPT ![p] = s[2]]
    /\ UNCHANGED <<config, registry, revision, policy, made, down, tasks, calls, tracked, readers, history>>

\* The call discovery makes for a pod.
DiscoveryAdds(p) ==
    IF ~config.igw THEN made + config.dp <= MaxWorkers /\ Begin("discovery", AddCall(p)) /\ UNCHANGED made
    ELSE /\ made < MaxWorkers /\ made' = made + 1
         /\ \E m \in ModelIds :
                Begin("discovery", [Idle EXCEPT !.pc = "lookup", !.op = "add", !.host = p,
                    !.todo = <<<<p, 0>>>>,
                    !.worker = [url |-> <<p, 0>>, model |-> m, kind |-> "regular", gen |-> made + 1]])

\* handle_pod_event: a healthy pod is tracked before its worker is added.
PodReady(p) ==
    /\ At("discovery", "idle") /\ pods[p] = "ready" /\ p \notin tracked
    /\ tracked' = tracked \cup {p}
    /\ DiscoveryAdds(p)
    /\ UNCHANGED <<config, registry, revision, policy, down, calls, pods, readers>>

\* handle_pod_deletion: the pod is tracked with its readiness, so only the
\* deletion of a pod that is still ready finds it.
PodDeleted(p) ==
    /\ At("discovery", "idle") /\ pods[p] = "deleting ready" /\ p \in tracked
    /\ tracked' = tracked \ {p}
    /\ Begin("discovery", RemoveCall(p))
    /\ UNCHANGED <<config, registry, revision, policy, made, down, calls, pods, readers>>
-----------------------------------------------------------------------------
(* Availability.                                                           *)

\* A health check or the outcome of a request changes is_available(); both
\* bump the revision when they do.
AvailabilityChanges(w) ==
    /\ config.pools # {} /\ w \in Registered /\ revision < MaxRevision
    /\ down' = IF w.gen \in down THEN down \ {w.gen} ELSE down \cup {w.gen}
    /\ revision' = revision + 1
    /\ UNCHANGED <<config, registry, policy, made, tasks, calls, discovery, readers, history>>

\* An open circuit becomes half-open when somebody asks for it after its
\* timeout: nobody bumps the revision for that.
CircuitRecovers(w) ==
    /\ w \in Registered /\ w.gen \in down
    /\ down' = down \ {w.gen}
    /\ UNCHANGED <<config, registry, revision, policy, made, tasks, calls, discovery, readers, history>>
-----------------------------------------------------------------------------
(* The readers.                                                            *)

\* workers_for_program_model_pool and program_targets; a view also remembers
\* the workers it left out because they were not available.
PoolWorkers(pool) == IF pool = "all" THEN Registered ELSE ToSet(model_index[pool])
View(pool) ==
    [targets |-> UrlsIn({w \in PoolWorkers(pool) : w.gen \notin down}),
     skipped |-> UrlsIn({w \in PoolWorkers(pool) : w.gen \in down})]

\* resolved_program_model_pool: a model without workers falls back to the
\* unlabelled ones.
Resolved(pool) ==
    IF pool = "all" \/ model_index[pool] # <<>> THEN pool ELSE "unknown"

RequestArrives(pool) ==
    /\ request.pc = "idle"
    /\ request' = [pc |-> "lookup", pool |-> Resolved(pool), revision |-> revision, view |-> None]
    /\ UNCHANGED <<config, registry, revision, policy, made, down, tasks, calls, discovery, cache, sched,
                   observer, history>>

RequestLooksUpAnyRevision ==
    /\ request.pc = "lookup"
    /\ request' = IF cache[request.pool] # None
                  THEN [request EXCEPT !.pc = "acquire", !.view = cache[request.pool].view]
                  ELSE [request EXCEPT !.pc = "recheck", !.view = View(request.pool)]
    /\ UNCHANGED <<config, registry, revision, policy, made, down, tasks, calls, discovery, cache,
                   sched, observer, history>>

\* program_targets_for_model: a cached list counts when its revision is the
\* one just read.
RequestLooksUp ==
    LET e == cache[request.pool]
        hit == IF e = None THEN FALSE ELSE e.revision = request.revision
    IN  /\ request.pc = "lookup"
        /\ request' = IF hit THEN [request EXCEPT !.pc = "acquire", !.view = e.view]
                      ELSE [request EXCEPT !.pc = "recheck", !.view = View(request.pool)]
        /\ UNCHANGED <<config, registry, revision, policy, made, down, tasks, calls, discovery, cache,
                       sched, observer, history>>

\* Mutant: the list is cached under the revision of the moment.
RequestCachesUnchecked ==
    /\ request.pc = "recheck"
    /\ request' = [request EXCEPT !.pc = "acquire"]
    /\ cache' = [cache EXCEPT ![request.pool] = [revision |-> revision, view |-> request.view]]
    /\ UNCHANGED <<config, registry, revision, policy, made, down, tasks, calls, discovery, sched,
                   observer, history>>

RequestRechecks ==
    /\ request.pc = "recheck"
    /\ IF revision # request.revision
       THEN /\ request' = [request EXCEPT !.pc = "lookup", !.revision = revision, !.view = None]
            /\ UNCHANGED cache
       ELSE /\ request' = [request EXCEPT !.pc = "acquire"]
            /\ cache' = [cache EXCEPT ![request.pool] =
                            [revision |-> request.revision, view |-> request.view]]
    /\ UNCHANGED <<config, registry, revision, policy, made, down, tasks, calls, discovery, sched,
                   observer, history>>

\* The scheduler takes over the targets a request brings.
RequestAcquires ==
    /\ request.pc = "acquire"
    /\ sched' = [sched EXCEPT ![request.pool] = request.view]
    /\ request' = NoReader
    /\ UNCHANGED <<config, registry, revision, policy, made, down, tasks, calls, discovery, cache,
                   observer, history>>

\* sync_program_targets_from_registry: every pool the scheduler knows, from
\* one revision, and once more if it changed.
SyncStarts ==
    /\ observer.pc = "idle" /\ \E p \in Pools : sched[p] # None
    /\ observer' = [pc |-> "collect", pool |-> {p \in Pools : sched[p] # None},
                    revision |-> revision, view |-> None]
    /\ UNCHANGED <<config, registry, revision, policy, made, down, tasks, calls, discovery, cache, sched,
                   request, history>>

SyncCollects ==
    /\ observer.pc = "collect"
    /\ observer' = [observer EXCEPT !.pc = "recheck", !.view = [p \in observer.pool |-> View(p)]]
    /\ UNCHANGED <<config, registry, revision, policy, made, down, tasks, calls, discovery, cache, sched,
                   request, history>>

SyncRestart == [observer EXCEPT !.pc = "collect", !.revision = revision, !.view = None]

SyncRechecks ==
    /\ observer.pc = "recheck"
    /\ observer' = IF revision # observer.revision THEN SyncRestart
                   ELSE [observer EXCEPT !.pc = "install"]
    /\ UNCHANGED <<config, registry, revision, policy, made, down, tasks, calls, discovery, cache, sched,
                   request, history>>

SyncInstalls ==
    /\ observer.pc = "install"
    /\ sched' = [p \in Pools |-> IF p \in observer.pool THEN observer.view[p] ELSE sched[p]]
    /\ observer' = [observer EXCEPT !.pc = "confirm"]
    /\ UNCHANGED <<config, registry, revision, policy, made, down, tasks, calls, discovery, cache,
                   request, history>>

SyncConfirms ==
    /\ observer.pc = "confirm"
    /\ observer' = IF revision # observer.revision THEN SyncRestart ELSE NoReader
    /\ UNCHANGED <<config, registry, revision, policy, made, down, tasks, calls, discovery, cache, sched,
                   request, history>>
-----------------------------------------------------------------------------
TaskStep(t) ==
    \/ WorkerAnswers(t) \/ WorkerStartupTimeout(t) \/ CheckExists(t)
    \/ RegisterLookup(t) \/ RegisterInsert(t) \/ RegisterMapUrl(t) \/ RegisterModelIds(t)
    \/ RegisterModelIndex(t) \/ RegisterKinds(t) \/ Notify(t)
    \/ CountWorker(t) \/ FindPolicy(t) \/ StorePolicy(t)
    \/ RemoveUnmap(t) \/ RemoveTake(t) \/ RemoveUnmapAgain(t) \/ RemoveModelIds(t)
    \/ RemoveModelIndex(t) \/ RemoveKinds(t) \/ UncountWorker(t) \/ DropPolicy(t)

RequestStep == RequestLooksUp \/ RequestRechecks \/ RequestAcquires
SyncStep == SyncStarts \/ SyncCollects \/ SyncRechecks \/ SyncInstalls \/ SyncConfirms

Next ==
    \/ \E t \in config.callers, h \in Hosts : CallAddWorker(t, h) \/ CallRemoveWorker(t, h)
    \/ \E t \in config.callers, h \in Hosts, m \in ModelIds, k \in Kinds, hint \in Hints :
           CallCreateWorker(t, <<h, 0>>, m, k, hint)
    \/ \E t \in Tasks : TaskStep(t)
    \/ \E p \in Pods : PodChanges(p) \/ PodReady(p) \/ PodDeleted(p)
    \/ \E i \in Ids : workers[i] # None /\ (AvailabilityChanges(workers[i]) \/ CircuitRecovers(workers[i]))
    \/ \E pool \in config.pools : RequestArrives(pool)
    \/ RequestStep \/ SyncStep

\* Calls and requests that were made are carried out, and the observation
\* loop keeps running.
Spec ==
    /\ Init /\ [][Next]_vars
    /\ \A t \in Tasks : WF_vars(TaskStep(t))
    /\ WF_vars(RequestStep) /\ WF_vars(SyncStep)
-----------------------------------------------------------------------------
AtRest == \A t \in Tasks : tasks[t].pc = "idle"

\* A task that has begun to change the maps and has not bumped the revision.
Changing(t) ==
    tasks[t].pc \in {"map", "ids", "index", "kinds", "unmap_again", "unlist", "unindex", "unkind",
                     "notify"}

TypeOK ==
    /\ config \in Configs
    /\ workers \in [Ids -> Workers \cup {None}]
    /\ url_to_id \in [Urls -> Ids \cup {None}]
    /\ \A m \in ModelIds : ToSet(model_workers[m]) \subseteq Ids /\ ToSet(model_index[m]) \subseteq Workers
    /\ \A k \in Kinds : ToSet(kind_workers[k]) \subseteq Ids
    /\ revision \in Nat /\ made \in 0 .. MaxWorkers /\ down \subseteq Ids
    /\ counts \in [ModelIds -> 0 .. MaxWorkers] /\ policies \in [ModelIds -> Hints \cup {None}]
    /\ tracked \subseteq Pods

\* While no two calls for one host overlap and no URL is registered over
\* another, every map of the registry lists exactly the registered workers
\* between calls: the URL map is the inverse of the worker map, and each
\* index has every worker once, under its own model and kind.
RegistryExact ==
    AtRest /\ ~history.clash =>
        /\ \A u \in Urls : url_to_id[u] # None =>
               workers[url_to_id[u]] # None /\ workers[url_to_id[u]].url = u
        /\ \A i \in Ids : workers[i] # None =>
               /\ url_to_id[workers[i].url] = i
               /\ Cardinality({n \in 1 .. Len(model_workers[workers[i].model]) :
                                   model_workers[workers[i].model][n] = i}) = 1
        /\ \A m \in ModelIds :
               /\ \A n \in 1 .. Len(model_workers[m]) :
                      workers[model_workers[m][n]] # None /\ workers[model_workers[m][n]].model = m
               /\ ToSet(model_index[m]) = {w \in Registered : w.model = m}
               /\ Len(model_index[m]) = Len(model_workers[m])
        /\ \A k \in Kinds : ToSet(kind_workers[k]) = {i \in Ids : workers[i] # None /\ workers[i].kind = k}

\* As long as calls do not overlap and no URL is registered twice, a model's
\* worker count is right between calls and the model has a policy of its own
\* exactly while it has workers.
PolicyFollowsWorkers ==
    AtRest /\ ~history.clash /\ ~history.overlap =>
        \A m \in ModelIds :
            /\ counts[m] = Cardinality({w \in Registered : w.model = m})
            /\ policies[m] # None <=> counts[m] > 0

\* A cached target list that carries the current revision names exactly the
\* workers of its pool, except those that were not available when it was
\* made: no removed worker is served from the cache once its removal has
\* bumped the revision, and no added one is missed.
CacheIsCurrent ==
    (\A t \in Tasks : ~Changing(t)) =>
        \A p \in Pools : cache[p] # None /\ cache[p].revision = revision =>
            cache[p].view.targets \cup cache[p].view.skipped = UrlsIn(PoolWorkers(p))

\* A pod that discovery tracks has a worker, unless somebody removed it by
\* hand: a failed addition is not remembered as done.
TrackedIsServed ==
    At("discovery", "idle") =>
        \A p \in tracked \ history.removed : \E w \in Registered : w.url[1] = p

\* A list of targets that was computed before a change and handed over after
\* it does not stay: once the topology is left alone, the scheduler's pools
\* list the workers of the registry for good.
TargetsConverge ==
    <>[](\A p \in Pools : sched[p] # None =>
            sched[p].targets \cup sched[p].skipped = UrlsIn(PoolWorkers(p)))

(***************************************************************************)
(* Between administration calls the maps of the registry agree, every model*)
(* has the policy of its workers and tracked pods are served.              *)
(***************************************************************************)
TopologyIsCoherent == TypeOK /\ RegistryExact /\ PolicyFollowsWorkers /\ TrackedIsServed
=============================================================================
