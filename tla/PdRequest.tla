----------------------------- MODULE PdRequest ------------------------------
(***************************************************************************)
(* Requests of the prefill/decode router (routers/http/vllm_pd_router.rs   *)
(* over routers/http/pd_router.rs).  A request runs its prompt on a prefill*)
(* worker and the rest on a decode worker that fetches the KV cache from   *)
(* the first: one after the other, or both at once when the decode worker  *)
(* can be told beforehand where the cache will be.                         *)
(*                                                                         *)
(* Workers come from the worker registry, which Kubernetes discovery adds  *)
(* to and removes from, or from the service registry                       *)
(* (routers/http/vllm_service_discovery.rs): instances announce themselves *)
(* over ZMQ again and again and are forgotten when they fall silent.  A    *)
(* request future runs from one await to the next, and may be dropped at   *)
(* any await when its caller goes away.                                    *)
(***************************************************************************)
EXTENDS Naturals, FiniteSets

(***************************************************************************)
(* The service registry.                                                   *)
(***************************************************************************)

CONSTANTS
    Hosts,        \* HTTP addresses of instances
    Keys,         \* the <<type, address>> pairs instances register with
    PingTime,     \* DEFAULT_PING_SECONDS, in ticks of the model's clock
    Absent

VARIABLES
    connector,    \* kv_connector of the deployment
    instances,    \* <<type, host>> -> seconds left in prefill_instances or
                  \* decode_instances, Absent when it is not there
    transfer_mode,\* moriio_transfer_mode, a OnceLock
    silent,       \* <<type, host>> -> seconds since its last accepted message
    seen          \* the modes instances were accepted with
discoveryVars == <<connector, instances, transfer_mode, silent, seen>>

Connectors == {"nixl", "mooncake", "moriio"}
Types == {"P", "D"}
Modes == {"READ", "WRITE"}

DiscoveryInit ==
    /\ connector \in Connectors
    /\ instances = [k \in Keys |-> Absent]
    /\ transfer_mode = Absent
    /\ silent = [k \in Keys |-> PingTime + 1] /\ seen = {}

\* Instances whose seconds are over are removed.
Cleaned(list) == [k \in Keys |-> IF list[k] = 0 THEN Absent ELSE list[k]]

\* parse_registration: what is dropped before anything is stored.
Accepted(mode) ==
    connector = "moriio" => mode \in Modes /\ transfer_mode \in {Absent, mode}

\* The mode is fixed by the first registration of a valid type.
Committed(type, mode) ==
    IF connector = "moriio" /\ transfer_mode = Absent /\ type \in Types THEN mode ELSE transfer_mode

\* One turn of the listener's loop with a message: handle_registration_message,
\* then cleanup_expired_instances.  A message of another type is only logged.
HandleRegistration(type, host, mode) ==
    LET k == <<type, host>>
        ok == Accepted(mode)
        stored == ok /\ type \in Types
    IN  /\ transfer_mode' = IF ok THEN Committed(type, mode) ELSE transfer_mode
        /\ instances' = Cleaned(IF stored THEN [instances EXCEPT ![k] = PingTime] ELSE instances)
        /\ silent' = IF stored THEN [silent EXCEPT ![k] = 0] ELSE silent
        /\ seen' = IF stored THEN seen \cup {mode} ELSE seen
        /\ UNCHANGED connector

\* A turn without a message.
CleanUp ==
    /\ Cleaned(instances) # instances
    /\ instances' = Cleaned(instances)
    /\ UNCHANGED <<connector, transfer_mode, silent, seen>>

\* A second passes.  The loop turns many times a second, so what has expired
\* is gone before the next one.
Second ==
    /\ Cleaned(instances) = instances
    /\ \E k \in Keys : silent[k] <= PingTime
    /\ instances' = [k \in Keys |-> IF instances[k] = Absent THEN Absent ELSE instances[k] - 1]
    /\ silent' = [k \in Keys |-> IF silent[k] <= PingTime THEN silent[k] + 1 ELSE silent[k]]
    /\ UNCHANGED <<connector, transfer_mode, seen>>

\* Only MoRI-IO instances send a mode, not necessarily one the router knows.
SentModes == IF connector = "moriio" THEN Modes \cup {"other"} ELSE {"other"}

DiscoveryNext ==
    \/ \E k \in Keys, mode \in SentModes : HandleRegistration(k[1], k[2], mode)
    \/ \E h \in Hosts, mode \in SentModes : HandleRegistration("other", h, mode)
    \/ CleanUp \/ Second

Listed(type) == {k[2] : k \in {x \in Keys : x[1] = type /\ instances[x] # Absent}}
-----------------------------------------------------------------------------
DiscoveryTypeOK ==
    /\ connector \in Connectors
    /\ instances \in [Keys -> 0 .. PingTime \cup {Absent}]
    /\ transfer_mode \in Modes \cup {Absent}
    /\ silent \in [Keys -> 0 .. PingTime + 1]

\* MoRI-IO instances of one deployment move data the same way: every
\* instance that was ever accepted has the one transfer mode requests are
\* built for, and a mode is known only from an instance that was accepted.
ModeIsShared ==
    connector = "moriio" => seen = IF transfer_mode = Absent THEN {} ELSE {transfer_mode}

\* An instance is listed while its last message is younger than the ping
\* time, and no longer than that: one late ping does not remove it early,
\* and one that fell silent gets no new requests.
ListedWhilePinging ==
    \A k \in Keys :
        /\ silent[k] < PingTime => instances[k] # Absent
        /\ silent[k] > PingTime => instances[k] = Absent

-----------------------------------------------------------------------------
(***************************************************************************)
(* The worker registry and the requests.                                   *)
(***************************************************************************)

CONSTANTS
    Prefills, Decodes,  \* the Hosts that run prefill and decode workers
    PdRequests,         \* slots for concurrent requests, used again and again
    Deployments,        \* the connector, discovery address set or not, SMetric as
                        \* prefill policy or not, engines that push their KV cache
                        \* or not, hosts that are pods, requests at a time
    MaxObjects,         \* bound: worker objects made for one host
    MaxEngines,         \* bound: starts of the engine process of one host
    MaxLoad,            \* bound: what abandoned requests may leave on a load
    MaxLeaves           \* bound: callers that go away in one behaviour

VARIABLES
    deployment,
    registered,   \* host -> number of its worker object, 0 when not registered
    objects,      \* host -> worker objects made so far
    adding,       \* the server add_server waits for; pods are handled one by one
    pd_load,      \* worker object -> load counter
    charge,       \* worker object -> pending prefill work, in charges
    engine,       \* host -> the start of its engine that is running
    identity,     \* nixl_prefill_info and mooncake_prefill_info: host -> engine
    requests,
    history

\* A URL is registered once, as a prefill or as a decode worker.
ASSUME PdConfigIsValid ==
    /\ Prefills \subseteq Hosts /\ Decodes \subseteq Hosts /\ Prefills \cap Decodes = {}
    /\ Keys \subseteq Types \X Hosts /\ PingTime \in Nat
    /\ IsFiniteSet(PdRequests) /\ MaxObjects \in Nat \ {0} /\ MaxEngines \in Nat \ {0}
    /\ \A c \in Deployments : /\ c.connector \in Connectors /\ c.pods \subseteq Hosts
                             /\ c.discovery \in BOOLEAN /\ c.smetric \in BOOLEAN
    /\ Absent \notin Nat /\ Absent \notin Hosts /\ Absent \notin Modes

pdVars == <<discoveryVars, deployment, registered, objects, adding, pd_load, charge, engine, identity,
            requests, history>>
registration == <<registered, objects, adding>>

PdObjects == Hosts \X (1 .. MaxObjects)
NoRequest == [pc |-> "idle", p |-> Absent, d |-> Absent, tracker |-> FALSE, engine |-> 0,
         prefill |-> Absent, decode |-> Absent]

\* VllmPDRouter::new registers the configured workers, or none and listens.
\* For Mooncake it asks every prefill worker for its engine first.
PdInit ==
    /\ deployment \in Deployments
    /\ DiscoveryInit /\ connector = deployment.connector
    /\ registered = [h \in Hosts |-> IF deployment.discovery THEN 0 ELSE 1]
    /\ objects = [h \in Hosts |-> 1] /\ adding = Absent
    /\ pd_load = [w \in PdObjects |-> 0] /\ charge = [w \in PdObjects |-> 0]
    /\ engine = [h \in Hosts |-> 1]
    /\ identity = [h \in Prefills |-> IF connector = "mooncake" /\ ~deployment.discovery THEN 1 ELSE Absent]
    /\ requests = [r \in PdRequests |-> NoRequest]
    /\ history = [left |-> 0, refused |-> FALSE, reset |-> FALSE]
-----------------------------------------------------------------------------
\* Workers a request may be given: the registered ones of direct mode, the
\* instances that are listed in discovery mode.
DirectCandidates(hosts) == {<<h, registered[h]>> : h \in {x \in hosts : registered[x] > 0}}
DiscoveredCandidates(type, hosts) == {<<h, 1>> : h \in hosts \cap Listed(type)}
Candidates(type, hosts) ==
    IF deployment.discovery THEN DiscoveredCandidates(type, hosts) ELSE DirectCandidates(hosts)

\* Loads are kept in direct mode only, and saturate at zero when lowered.
Counted == ~deployment.discovery
Raised(l, ws) == [w \in PdObjects |-> IF w \in ws THEN l[w] + 1 ELSE l[w]]
Lowered(l, ws) == [w \in PdObjects |-> IF w \in ws /\ l[w] > 0 THEN l[w] - 1 ELSE l[w]]

\* Dropping an SMetricPrefill, or its first token, gives its charge back.
Released(r) ==
    IF requests[r].tracker THEN [charge EXCEPT ![requests[r].p] = @ - 1] ELSE charge

PushIdentity(h) == IF connector = "nixl" THEN identity[h] ELSE Absent
WriteMode == connector = "moriio" /\ transfer_mode = "WRITE"

\* try_build_concurrent_requests: an engine that pushes can be told at once.
BuildsConcurrent(p) == PushIdentity(p[1]) # Absent

\* build_prefill_kv_transfer_params fails while the MoRI-IO mode is unknown.
NoTransferParams == connector = "moriio" /\ transfer_mode = Absent

\* choose_prefill: SMetric charges the worker it chooses.
Charged(p) == IF deployment.smetric THEN [charge EXCEPT ![p] = @ + 1] ELSE charge

Started(p, d, concurrent, tracker) ==
    [pc |-> IF concurrent THEN "both" ELSE "prefill", p |-> p, d |-> d, tracker |-> tracker,
     engine |-> engine[p[1]], prefill |-> Absent, decode |-> Absent]

\* process_vllm_two_stage_request, up to its first await: both stages at
\* once, or the prefill stage.  A request whose parameters cannot be built
\* has raised the load of the prefill worker by then, and its tracker goes.
TwoStage(r, p, d) ==
    LET concurrent == BuildsConcurrent(p)
    IN  /\ pd_load' = Raised(pd_load, IF concurrent THEN {p, d} ELSE {p})
        /\ charge' = IF NoTransferParams THEN charge ELSE Charged(p)
        /\ requests' = [requests EXCEPT ![r] =
               IF NoTransferParams THEN NoRequest ELSE Started(p, d, concurrent, deployment.smetric)]
        /\ history' = [history EXCEPT !.refused = @ \/ NoTransferParams]

\* process_vllm_two_stage_request_discovered: no loads are kept, and with a
\* WRITE transfer both stages start at once, too.
TwoStageDiscovered(r, p, d) ==
    /\ requests' = [requests EXCEPT ![r] =
           IF NoTransferParams THEN NoRequest ELSE Started(p, d, BuildsConcurrent(p) \/ WriteMode, FALSE)]
    /\ UNCHANGED <<pd_load, charge, history>>

\* A request comes in.  Without a worker of each kind it is answered 503.
Admitted(r, p, d) ==
    /\ requests[r].pc = "idle"
    /\ Cardinality({x \in PdRequests : requests[x].pc # "idle"}) < deployment.limit
    /\ pd_load[p] < MaxLoad /\ pd_load[d] < MaxLoad
    /\ UNCHANGED <<discoveryVars, deployment, registration, engine, identity>>

\* The endpoints in direct mode.  They choose among all registered workers,
\* route_transparent among the available ones, which may be any.
RouteChat(r, p, d) ==
    /\ ~deployment.discovery /\ Admitted(r, p, d)
    /\ p \in DirectCandidates(Prefills) /\ d \in DirectCandidates(Decodes)
    /\ TwoStage(r, p, d)

RouteCompletion(r, p, d) == RouteChat(r, p, d)
RouteTransparent(r, p, d) == RouteChat(r, p, d)

\* In discovery mode all of them call process_vllm_request.
ProcessVllmRequest(r, p, d) ==
    /\ deployment.discovery /\ Admitted(r, p, d)
    /\ p \in DiscoveredCandidates("P", Prefills) /\ d \in DiscoveredCandidates("D", Decodes)
    /\ TwoStageDiscovered(r, p, d)

Arrive(r, p, d) ==
    RouteChat(r, p, d) \/ RouteCompletion(r, p, d) \/ RouteTransparent(r, p, d) \/ ProcessVllmRequest(r, p, d)

\* What a prefill worker may answer: nothing that can be used, a JSON error,
\* or a JSON response with or without kv_transfer_params.  An engine that
\* was restarted meanwhile does not answer.
PrefillAnswers(r) ==
    {"failed"} \cup
    (IF engine[requests[r].p[1]] # requests[r].engine THEN {}
     ELSE {"error", "bare", IF deployment.push THEN "push" ELSE "pull"})

\* build_decode_kv_transfer_params, as far as it changes anything: an engine
\* that pushes is remembered, unless one is already.
Ensured(h, answer, e) ==
    IF connector = "nixl" /\ answer = "push" /\ identity[h] = Absent
    THEN [identity EXCEPT ![h] = e] ELSE identity

\* The prefill worker of a sequential request answers: a request without a
\* JSON answer ends here; otherwise, whatever the status, the load moves from
\* the prefill to the decode worker.
Prefilled(r, answer) ==
    LET q == requests[r]
        over == answer = "failed"
    IN  /\ ~deployment.discovery /\ q.pc = "prefill" /\ answer \in PrefillAnswers(r)
        /\ charge' = Released(r)
        /\ pd_load' = IF over THEN Lowered(pd_load, {q.p}) ELSE Raised(Lowered(pd_load, {q.p}), {q.d})
        /\ identity' = IF over THEN identity ELSE Ensured(q.p[1], answer, q.engine)
        /\ requests' = [requests EXCEPT ![r] =
               IF over THEN NoRequest ELSE [q EXCEPT !.pc = "decode", !.tracker = FALSE]]
        /\ UNCHANGED <<discoveryVars, deployment, registration, engine, history>>

\* In discovery mode a request also ends with an answer that is an error.
PrefilledDiscovered(r, answer) ==
    LET q == requests[r]
        over == answer \in {"failed", "error"}
    IN  /\ deployment.discovery /\ q.pc = "prefill" /\ answer \in PrefillAnswers(r)
        /\ identity' = IF over THEN identity ELSE Ensured(q.p[1], answer, q.engine)
        /\ requests' = [requests EXCEPT ![r] = IF over THEN NoRequest ELSE [q EXCEPT !.pc = "decode"]]
        /\ UNCHANGED <<discoveryVars, deployment, registration, pd_load, charge, engine, history>>

\* The decode worker answers or fails: its load is lowered when the headers
\* are there, and the body is handed on.
Decoded(r) ==
    LET q == requests[r]
    IN  /\ ~deployment.discovery /\ q.pc = "decode"
        /\ pd_load' = Lowered(pd_load, {q.d})
        /\ requests' = [requests EXCEPT ![r] = NoRequest]
        /\ UNCHANGED <<discoveryVars, deployment, registration, charge, engine, identity, history>>

DecodedDiscovered(r) ==
    /\ deployment.discovery /\ requests[r].pc = "decode"
    /\ requests' = [requests EXCEPT ![r] = NoRequest]
    /\ UNCHANGED <<discoveryVars, deployment, registration, pd_load, charge, engine, identity, history>>

\* The two legs of process_concurrent_two_stage, joined when both are done.
PrefillLeg(r, answer) ==
    LET q == requests[r]
    IN  /\ q.pc = "both" /\ q.prefill = Absent /\ answer \in PrefillAnswers(r)
        /\ charge' = Released(r)
        /\ requests' = [requests EXCEPT ![r].prefill = answer, ![r].tracker = FALSE]
        /\ UNCHANGED <<discoveryVars, deployment, registration, pd_load, engine, identity, history>>

DecodeLeg(r, ok) ==
    LET q == requests[r]
    IN  /\ q.pc = "both" /\ q.decode = Absent
        /\ requests' = [requests EXCEPT ![r].decode = ok]
        /\ UNCHANGED <<discoveryVars, deployment, registration, pd_load, charge, engine, identity, history>>

CachedOnce(h, answer, e) ==
    IF connector = "nixl" /\ answer = "push" /\ identity[h] = Absent
    THEN [identity EXCEPT ![h] = e] ELSE identity

\* maybe_cache_nixl_push_identity: what the engine said last is kept.
Cached(h, answer, e) ==
    IF connector = "nixl" /\ answer = "push" THEN [identity EXCEPT ![h] = e] ELSE identity

Join(r) ==
    LET q == requests[r]
        failed == q.prefill \in {"failed", "error"}
    IN  /\ ~deployment.discovery /\ q.pc = "both" /\ q.prefill # Absent /\ q.decode # Absent
        /\ pd_load' = Lowered(pd_load, {q.p, q.d})
        /\ identity' = IF failed THEN identity ELSE Cached(q.p[1], q.prefill, q.engine)
        /\ requests' = [requests EXCEPT ![r] = NoRequest]
        /\ UNCHANGED <<discoveryVars, deployment, registration, charge, engine, history>>

JoinDiscovered(r) ==
    LET q == requests[r]
        failed == q.prefill \in {"failed", "error"}
    IN  /\ deployment.discovery /\ q.pc = "both" /\ q.prefill # Absent /\ q.decode # Absent
        /\ identity' = IF failed THEN identity ELSE Cached(q.p[1], q.prefill, q.engine)
        /\ requests' = [requests EXCEPT ![r] = NoRequest]
        /\ UNCHANGED <<discoveryVars, deployment, registration, pd_load, charge, engine, history>>

LeaveKeepsCharge(r) ==
    /\ requests[r].pc # "idle" /\ history.left < MaxLeaves
    /\ requests' = [requests EXCEPT ![r] = NoRequest]
    /\ history' = [history EXCEPT !.left = @ + 1]
    /\ UNCHANGED <<discoveryVars, deployment, registration, pd_load, charge, engine, identity>>

\* The caller goes away and the future is dropped: the tracker goes with it,
\* the loads stay as they are.
Leave(r) ==
    /\ requests[r].pc # "idle" /\ history.left < MaxLeaves
    /\ charge' = Released(r)
    /\ requests' = [requests EXCEPT ![r] = NoRequest]
    /\ history' = [history EXCEPT !.left = @ + 1]
    /\ UNCHANGED <<discoveryVars, deployment, registration, pd_load, engine, identity>>
-----------------------------------------------------------------------------
(* Workers of the direct mode.                                             *)

\* evict_nixl_info; only prefill URLs have an identity.
Evicted(h) ==
    IF connector = "nixl" /\ h \in Prefills THEN [identity EXCEPT ![h] = Absent] ELSE identity

\* add_prefill_server forgets what it knew of the URL; both kinds of server
\* are then waited for until they answer their health check.
AddServer(h) ==
    /\ h \in deployment.pods /\ adding = Absent /\ objects[h] < MaxObjects
    /\ adding' = h /\ identity' = Evicted(h)
    /\ UNCHANGED <<discoveryVars, deployment, registered, objects, pd_load, charge, engine, requests, history>>

\* A server that is there already, or that does not become healthy, is not
\* registered.
ServerAdded(healthy) ==
    /\ adding # Absent
    /\ LET ok == healthy /\ registered[adding] = 0
       IN  /\ registered' = IF ok THEN [registered EXCEPT ![adding] = objects[adding] + 1] ELSE registered
           /\ objects' = IF ok THEN [objects EXCEPT ![adding] = @ + 1] ELSE objects
    /\ adding' = Absent
    /\ UNCHANGED <<discoveryVars, deployment, pd_load, charge, engine, identity, requests, history>>

RemoveServer(h) ==
    /\ h \in deployment.pods /\ registered[h] > 0 /\ adding = Absent
    /\ registered' = [registered EXCEPT ![h] = 0] /\ identity' = Evicted(h)
    /\ UNCHANGED <<discoveryVars, deployment, objects, adding, pd_load, charge, engine, requests, history>>

\* The process of a prefill worker is replaced behind the router's back.
EngineRestarts(h) ==
    /\ engine[h] < MaxEngines
    /\ engine' = [engine EXCEPT ![h] = @ + 1]
    /\ UNCHANGED <<discoveryVars, deployment, registration, pd_load, charge, identity, requests, history>>

\* The registry's health checker clears the loads of registered workers.
ResetPdLoads ==
    /\ Counted /\ \E w \in PdObjects : registered[w[1]] = w[2] /\ pd_load[w] > 0
    /\ pd_load' = [w \in PdObjects |-> IF registered[w[1]] = w[2] THEN 0 ELSE pd_load[w]]
    /\ history' = [history EXCEPT !.reset = TRUE]
    /\ UNCHANGED <<discoveryVars, deployment, registration, charge, engine, identity, requests>>

Discovers ==
    /\ deployment.discovery /\ DiscoveryNext
    /\ UNCHANGED <<deployment, registration, pd_load, charge, engine, identity, requests, history>>
-----------------------------------------------------------------------------
PdStep(r) ==
    \/ \E a \in {"failed", "error", "bare", "push", "pull"} : Prefilled(r, a) \/ PrefilledDiscovered(r, a) \/ PrefillLeg(r, a)
    \/ Decoded(r) \/ DecodedDiscovered(r) \/ \E ok \in BOOLEAN : DecodeLeg(r, ok)
    \/ Join(r) \/ JoinDiscovered(r)

\* What liveness needs: requests keep coming, and prefills keep succeeding.
ArriveAt(h) ==
    \E r \in PdRequests, p \in {h} \X (1 .. MaxObjects), d \in Decodes \X (1 .. MaxObjects) : Arrive(r, p, d)
Pushes == \E r \in PdRequests : PrefillLeg(r, "push")

PdNext ==
    \/ \E h \in Prefills : ArriveAt(h)
    \/ \E r \in PdRequests : PdStep(r) \/ Leave(r)
    \/ \E h \in Hosts : AddServer(h) \/ RemoveServer(h)
    \/ \E healthy \in BOOLEAN : ServerAdded(healthy)
    \/ \E h \in Prefills : EngineRestarts(h)
    \/ ResetPdLoads
    \/ Discovers

PdSpec == PdInit /\ [][PdNext]_pdVars
-----------------------------------------------------------------------------
\* The requests that have a leg running on worker object w.
OnPrefill(w) == {r \in PdRequests : requests[r].pc \in {"prefill", "both"} /\ requests[r].p = w}
OnDecode(w) == {r \in PdRequests : requests[r].pc \in {"decode", "both"} /\ requests[r].d = w}
Legs(w) == Cardinality(OnPrefill(w)) + Cardinality(OnDecode(w))

PdTypeOK ==
    /\ DiscoveryTypeOK
    /\ registered \in [Hosts -> 0 .. MaxObjects] /\ objects \in [Hosts -> 1 .. MaxObjects]
    /\ pd_load \in [PdObjects -> Nat] /\ charge \in [PdObjects -> 0 .. Cardinality(PdRequests)]
    /\ engine \in [Hosts -> 1 .. MaxEngines]
    /\ identity \in [Prefills -> 1 .. MaxEngines \cup {Absent}]
    /\ \A r \in PdRequests : requests[r].pc \in {"idle", "prefill", "decode", "both"}

\* Pending prefill work is charged for exactly the requests whose prefill is
\* still running, whichever way they end: answered, failed, refused, joined
\* with a failed decode, or dropped by their caller.
ChargesAreHeld ==
    \A w \in PdObjects : charge[w] = Cardinality({r \in OnPrefill(w) : requests[r].tracker})

\* Until the health checker clears the counters, no leg that runs on a worker
\* is missing from its load; and as long as no caller leaves and no request
\* is refused after it was counted, the load is exactly the number of legs.
LegsAreCounted ==
    Counted /\ ~history.reset =>
        \A w \in PdObjects :
            /\ pd_load[w] >= Legs(w)
            /\ history.left = 0 /\ ~history.refused => pd_load[w] = Legs(w)

\* An identity cached from an engine that has been replaced does not stay:
\* with requests coming and being answered, decode workers are pointed at the
\* engine that is running.
IdentitiesAreFresh ==
    \A h \in Prefills :
        connector = "nixl" /\ Candidates("P", {h}) # {} /\ Candidates("D", Decodes) # {} =>
            identity[h] \in {Absent, engine[h]}

IdentityHeals == <>[]IdentitiesAreFresh

(***************************************************************************)
(* Between any two awaits of its requests the prefill/decode router charges*)
(* a prefill worker exactly for the requests whose prompt it runs, counts  *)
(* every leg, and knows the instances that announced themselves lately,    *)
(* under one transfer mode.                                                *)
(***************************************************************************)
PdIsAccounted ==
    /\ PdTypeOK /\ ChargesAreHeld /\ LegsAreCounted
    /\ ModeIsShared /\ ListedWhilePinging
=============================================================================
