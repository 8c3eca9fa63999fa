--------------------------- MODULE Destinations -----------------------------
(***************************************************************************)
(* How a request gets to the server that answers it: through one of the    *)
(* routers of the gateway, to one rank of a data-parallel server, and with *)
(* the headers the guests of the middleware leave it.                      *)
(*                                                                         *)
(* The router manager of the multi-router mode                             *)
(* (routers/router_manager.rs): which of its routers a request goes to.    *)
(* Workers are known by their model and kind.  A header may ask for the    *)
(* prefill-decode router; the bodies of some requests name a model.        *)
(***************************************************************************)
EXTENDS Parts, Integers, FiniteSets

RouterIds == {"http-regular", "http-pd"}
NoRouter == "no router"
NoModelNamed == "no model"

(***************************************************************************)
(* The routers the server could create, registered in this order; the      *)
(* first is the default (startup, register_router).                        *)
(***************************************************************************)
RegisterRouters(created) ==
    LET order == SelectSeq(<<"http-regular", "http-pd">>, LAMBDA id : id \in created)
    IN  [routers |-> created, default |-> IF order = << >> THEN NoRouter ELSE Head(order)]

GetByModel(workers, model) == {w \in workers : w.model = model}

GetRouterForModel(manager, workers, model) ==
    LET served == GetByModel(workers, model)
        wanted == IF \E w \in served : w.kind \in {"prefill", "decode"}
                  THEN "http-pd" ELSE "http-regular"
    IN  IF served # {} /\ wanted \in manager.routers THEN wanted ELSE manager.default

\* router_type and is_pd_mode: no router the server registers is of type "pd".
RouterType(id) == IF id = "http-pd" THEN "vllm_pd" ELSE "regular"
IsPdMode(id) == RouterType(id) = "pd"

RouterScore(id, prefer_pd) ==
    IF prefer_pd /\ IsPdMode(id) THEN 3
    ELSE IF ~prefer_pd /\ ~IsPdMode(id) THEN 2 ELSE 1

\* select_router_for_request; order is the iteration order of the map of routers.
SelectRouterForRequest(manager, workers, prefer_pd, model, order) ==
    LET named      == GetRouterForModel(manager, workers, model)
        candidates == IF model = NoModelNamed THEN SelectSeq(order, LAMBDA id : id \in manager.routers)
                      ELSE IF named = NoRouter THEN << >> ELSE <<named>>
    IN  FoldLeft(LAMBDA best, id :
                     IF RouterScore(id, prefer_pd) > best.score
                     THEN [router |-> id, score |-> RouterScore(id, prefer_pd)] ELSE best,
                 [router |-> NoRouter, score |-> 0], candidates).router

(***************************************************************************)
(* The handlers: which endpoints choose by the model of their body, and    *)
(* the model they hand on.  The server itself names none, so that a rerank *)
(* request goes on without the one of its body.  The Responses API is      *)
(* refused for now, but for reading and cancelling.                        *)
(***************************************************************************)
ByModel == {"chat", "completion", "embeddings"}
ByHeaders == {"generate", "inference_generate", "rerank", "get_response", "cancel_response",
              "transparent"}
NotImplemented == {"responses", "delete_response", "list_response_input_items"}

RouteRequest(manager, workers, r, order) ==
    IF r.endpoint \in NotImplemented THEN [status |-> 501, router |-> NoRouter, model |-> NoModelNamed]
    ELSE LET model  == IF r.endpoint \in ByModel THEN r.model ELSE NoModelNamed
             router == SelectRouterForRequest(manager, workers, r.prefer_pd, model, order)
         IN  [status |-> IF router = NoRouter THEN 404 ELSE 200,
              router |-> router,
              model  |-> model]

\* readiness and flush_cache
Readiness(manager) == IF manager.routers = {} THEN 503 ELSE 200

\* get_models
GetModels(workers) == {w.model : w \in workers}
-----------------------------------------------------------------------------
GatewayInputs ==
    [of : {"gateway"}, created : SUBSET RouterIds,
     workers : SUBSET [model : {"m1", "m2"}, kind : {"regular", "prefill", "decode"}],
     endpoint : ByModel \cup ByHeaders \cup NotImplemented,
     prefer_pd : BOOLEAN, model : {"m1", NoModelNamed}]

Orders == {<<"http-regular", "http-pd">>, <<"http-pd", "http-regular">>}

GatewayAnswers ==
    {RouteRequest(RegisterRouters(input.created), input.workers, input, order) : order \in Orders}

\* The order in which the map of routers happens to be iterated decides for requests that
\* name no model only, and the header for none (select_router_for_request): of two requests
\* for one model with the same workers, both go through the same router.
NamedModelsHaveOneRouter ==
    input.of = "gateway" /\ input.endpoint \in ByModel /\ input.model # NoModelNamed =>
        Cardinality(GatewayAnswers
                    \cup {RouteRequest(RegisterRouters(input.created), input.workers,
                                       [input EXCEPT !.prefer_pd = ~@], order) : order \in Orders}) = 1

\* With both routers in place a request that names a served model goes where its workers are:
\* to the prefill-decode router when the model has such workers, else to the regular one,
\* whatever the header prefers (get_router_for_model).
ModelsReachTheirWorkers ==
    input.of = "gateway" /\ input.created = RouterIds /\ input.endpoint \in ByModel
    /\ input.model \in GetModels(input.workers) =>
        \A a \in GatewayAnswers :
            (\E w \in GetByModel(input.workers, input.model) : w.kind # "regular")
                <=> a.router = "http-pd"

\* A manager that reports itself ready finds a router for every request it implements, also
\* one for a model that nobody serves, and hands on the model it chose by (readiness).
ReadyMeansRouted ==
    input.of = "gateway" /\ input.endpoint \notin NotImplemented =>
        LET manager == RegisterRouters(input.created)
        IN  \A a \in GatewayAnswers :
               /\ a.status = 200 <=> Readiness(manager) = 200
               /\ a.status = 200 => a.router \in input.created
               /\ a.model = IF input.endpoint \in ByModel THEN input.model ELSE NoModelNamed

-----------------------------------------------------------------------------
(***************************************************************************)
(* The data-parallel ranks of a server: how many there are, the workers    *)
(* they become, and how the rank gets from a worker's URL to the server    *)
(* (routers/http/dp_utils.rs, build_dp_workers of pd_router.rs, the        *)
(* workers of core/worker.rs).                                             *)
(*                                                                         *)
(* A URL is the sequence of the texts between its @s.  A text is an        *)
(* address or a number.                                                    *)
(***************************************************************************)

Address(name) == [number |-> FALSE, value |-> name]
Number(n) == [number |-> TRUE, value |-> n]

\* extract_dp_rank; rank -1 says that there is none.
ExtractDpRank(url) ==
    IF Len(url) = 2 /\ url[2].number
    THEN [ok |-> TRUE, base |-> <<url[1]>>, rank |-> url[2].value]
    ELSE [ok |-> FALSE, base |-> url, rank |-> -1]

\* parse_worker_url
ParseWorkerUrl(url) == [base |-> ExtractDpRank(url).base, rank |-> ExtractDpRank(url).rank]

\* normalised_url, of a health check: "invalid" where the check only ends in an error.
NormalisedUrl(url) ==
    IF Len(url) = 1 \/ ExtractDpRank(url).ok THEN ExtractDpRank(url).base ELSE <<Address("invalid")>>

\* A line of /metrics: whether it is a vLLM metric, and its engine label (-1 if
\* none).  count_engine_labels; 0 for None.
CountEngineLabels(lines) ==
    Cardinality({lines[i].engine : i \in {j \in DOMAIN lines : lines[j].vllm /\ lines[j].engine >= 0}})

\* discover_dp_size: `answer` is that of the server, or an error.
DiscoverDpSize(answer, fallback) ==
    IF answer.ok /\ CountEngineLabels(answer.lines) > 0 THEN CountEngineLabels(answer.lines)
    ELSE IF fallback > 1 THEN fallback ELSE 1

\* DPAwareWorker::new and BasicWorker::new
DpAwareWorker(base, rank) == [url |-> base \o <<Number(rank)>>, base |-> base, rank |-> rank]
BasicWorker(url) == [url |-> url, base |-> url, rank |-> -1]

\* build_dp_workers of the prefill/decode routers.
BuildDpWorkers(url, dp_size) ==
    LET parsed == ParseWorkerUrl(url)
    IN  IF parsed.rank >= 0 THEN <<DpAwareWorker(parsed.base, parsed.rank)>>
        ELSE IF dp_size > 1 THEN [i \in 1 .. dp_size |-> DpAwareWorker(parsed.base, i - 1)]
        ELSE <<BasicWorker(url)>>

\* get_dp_aware_workers
GetDpAwareWorkers(url, dp_size) == [i \in 1 .. dp_size |-> url \o <<Number(i - 1)>>]

\* The start of the regular router.
StartWorkers(url, dp_size) ==
    IF dp_size > 1
    THEN LET urls == GetDpAwareWorkers(url, dp_size)
         IN  [i \in 1 .. dp_size |->
                LET parsed == ParseWorkerUrl(urls[i])
                IN  DpAwareWorker(parsed.base, IF parsed.rank >= 0 THEN parsed.rank ELSE 0)]
    ELSE <<BasicWorker(url)>>

\* Mutant: endpoint_url is that of any other worker.
SentToUrl(worker) == [to |-> worker.url, rank |-> worker.rank]

\* add_dp_rank_header on a request to endpoint_url of a worker.
Sent(worker) == [to |-> worker.base, rank |-> worker.rank]

\* ProgramTarget of program_targets: the worker's rank, or that of its URL.
TargetOf(worker) ==
    LET parsed == ParseWorkerUrl(worker.url)
    IN  [base |-> parsed.base, rank |-> IF worker.rank >= 0 THEN worker.rank ELSE parsed.rank]
-----------------------------------------------------------------------------
\* A host, one of its ranks, and a host with a user name.
SomeUrls == {<<Address("h")>>, <<Address("h"), Number(0)>>, <<Address("h"), Number(2)>>, <<Address("user"), Address("h")>>}

MetricLines == [vllm : BOOLEAN, engine : {-1, 0, 1, 4}]
MetricAnswers ==
    [ok : {FALSE}, lines : {<< >>}] \cup [ok : {TRUE}, lines : UNION {[1 .. n -> MetricLines] : n \in 0 .. 3}]

RankInputs == [of : {"ranks"}, url : SomeUrls, answer : MetricAnswers, fallback : {0, 1, 3}]

IsHost(url) == Len(url) = 1
-----------------------------------------------------------------------------
(***************************************************************************)
(* Every engine of a server is one worker: a server that reports n engines *)
(* gets n workers with n URLs, whatever the labels are ("count distinct    *)
(* labels rather than taking the maximum") and however often they are      *)
(* reported, and one that reports none gets the configured number.         *)
(***************************************************************************)
EnginesBecomeWorkers ==
    input.of = "ranks" /\ IsHost(input.url) =>
        LET lines == input.answer.lines
            labels == {l \in {0, 1, 4} : \E i \in DOMAIN lines : lines[i] = [vllm |-> TRUE, engine |-> l]}
            workers == BuildDpWorkers(input.url, DiscoverDpSize(input.answer, input.fallback))
        IN  /\ labels # {} => Len(workers) = Cardinality(labels)
            /\ labels = {} => Len(workers) = IF input.fallback = 3 THEN 3 ELSE 1
            /\ Cardinality({workers[i].url : i \in DOMAIN workers}) = Len(workers)

(***************************************************************************)
(* "preventing IPv6+DP URL corruption": what is sent to a worker, checked  *)
(* of its health, and scheduled on it, goes to the same server and the     *)
(* same rank, never to an address with a rank in it, whichever of the      *)
(* routers made the worker.                                                *)
(***************************************************************************)
RanksReachTheirServer ==
    input.of = "ranks" /\ (IsHost(input.url) \/ ExtractDpRank(input.url).ok) =>
        LET size == DiscoverDpSize(input.answer, input.fallback)
            made == {BuildDpWorkers(input.url, size)}
                    \cup (IF IsHost(input.url) THEN {StartWorkers(input.url, size)} ELSE {})
        IN  \A workers \in made : \A i \in DOMAIN workers :
                /\ TargetOf(workers[i]) = [base |-> Sent(workers[i]).to, rank |-> Sent(workers[i]).rank]
                /\ NormalisedUrl(workers[i].url) = Sent(workers[i]).to
                /\ Sent(workers[i]).to = <<Address("h")>>

(***************************************************************************)
(* A URL with a rank stands for that rank alone: building workers from the *)
(* URLs of workers gives the same workers again, whatever the server       *)
(* reports by then.                                                        *)
(***************************************************************************)
PinnedRanksStay ==
    input.of = "ranks" /\ IsHost(input.url) =>
        LET workers == BuildDpWorkers(input.url, DiscoverDpSize(input.answer, input.fallback))
        IN  \A i \in DOMAIN workers : workers[i].rank >= 0 =>
                \A size \in 1 .. 3 : BuildDpWorkers(workers[i].url, size) = <<workers[i]>>
-----------------------------------------------------------------------------
(***************************************************************************)
(* What a guest of the WASM middleware may see and change of a request's   *)
(* headers (wasm_middleware.rs).  The headers stand for their kinds:       *)
(* "auth" is a credential and immutable, "length" is Content-Length,       *)
(* "cookie2" is a credential that may be changed, and "plain" is any other *)
(* one.  "bad" is not a header name, and 0 not a header value.             *)
(***************************************************************************)
HeaderNames == {"auth", "length", "cookie2", "plain"}

\* is_immutable_header and is_sensitive_guest_header
IsImmutableHeader(name) == name \in {"auth", "length"}
IsSensitiveGuestHeader(name) == name \in {"auth", "cookie2"}

\* collect_wit_headers
CollectWitHeaders(headers) ==
    [h \in HeaderNames |-> IF IsSensitiveGuestHeader(h) THEN << >> ELSE headers[h]]

ValidName(name) == name # "bad"
ValidValue(value) == value # 0

(***************************************************************************)
(* apply_header_mutations: one mutation, in its three kinds.  An immutable *)
(* header is left alone; after an error nothing more is applied.           *)
(***************************************************************************)
Mutated(done, name, valid, values) ==
    IF ~done.ok \/ IsImmutableHeader(name) THEN done
    ELSE IF ~ValidName(name) \/ ~valid THEN [done EXCEPT !.ok = FALSE]
    ELSE [done EXCEPT !.headers[name] = values]

RemoveHeader(done, name) == Mutated(done, name, TRUE, << >>)
SetHeader(done, h) == Mutated(done, h.name, ValidValue(h.value), <<h.value>>)
AddHeader(done, h) ==
    Mutated(done, h.name, ValidValue(h.value),
            IF ValidName(h.name) THEN Append(done.headers[h.name], h.value) ELSE << >>)

ApplyHeaderMutations(headers, headers_set, headers_add, headers_remove) ==
    LET removed == FoldLeft(RemoveHeader, [ok |-> TRUE, headers |-> headers], headers_remove)
        set     == FoldLeft(SetHeader, removed, headers_set)
    IN  FoldLeft(AddHeader, set, headers_add)

\* wasm_on_request_middleware on a Modify action: the length of the old body is dropped.
ForwardedHeaders(i) ==
    LET done == ApplyHeaderMutations(i.headers, i.set, i.add, i.remove)
    IN  [done EXCEPT !.headers["length"] = << >>]

-----------------------------------------------------------------------------
Named(name, values) == {[name |-> name, value |-> v] : v \in values}

HeaderInputs ==
    [of : {"headers"},
     headers : [HeaderNames -> {<< >>, <<9>>}],
     remove : {<< >>} \cup {<<n>> : n \in {"plain", "cookie2", "auth", "bad"}},
     set : SeqOf(Named("plain", {0, 1, 2}) \cup Named("auth", {1}) \cup Named("bad", {1}), 2),
     add : SeqOf(Named("plain", {3}) \cup Named("length", {0, 3}) \cup Named("bad", {3}), 1)]

Mutable(hs) == SelectSeq(hs, LAMBDA h : h.name = "plain")
Values(hs) == [i \in DOMAIN hs |-> hs[i].value]

\* Removals, settings and additions take effect in this order whatever order the guest
\* lists them in: of several settings the last stays, additions follow it; a mutation that
\* is not valid refuses the request (apply_header_mutations).
MutationsApplyInOrder ==
    input.of = "headers" =>
        LET done == ForwardedHeaders(input)
            sets == Values(Mutable(input.set))
            old  == IF "plain" \in Range(input.remove) THEN << >> ELSE input.headers["plain"]
            bad  == \/ \E h \in Range(input.set \o input.add) : h.name = "bad"
                    \/ "bad" \in Range(input.remove) \/ 0 \in Range(sets)
        IN  /\ done.ok <=> ~bad
            /\ done.ok => done.headers["plain"] =
                              (IF sets = << >> THEN old ELSE <<Last(sets)>>)
                              \o Values(Mutable(input.add))

\* A modified request keeps its credentials, has no length of a body it may no longer have,
\* and the guest that modified it never saw a credential (IMMUTABLE_HEADERS,
\* SENSITIVE_GUEST_HEADERS).
CredentialsPassBy ==
    input.of = "headers" =>
        LET done  == ForwardedHeaders(input)
            shown == CollectWitHeaders(input.headers)
        IN  /\ done.headers["auth"] = input.headers["auth"]
            /\ done.headers["length"] = << >>
            /\ shown["auth"] = << >> /\ shown["cookie2"] = << >>
            /\ shown["plain"] = input.headers["plain"]

(***************************************************************************)
(* A request that names a served model reaches the router of that model's  *)
(* workers, and what is sent to a worker reaches the rank of the           *)
(* data-parallel server it was meant for, with the headers the client      *)
(* sent, every guest's changes to them in their order, and nothing that    *)
(* must not pass.                                                          *)
(***************************************************************************)
RequestsReachTheirWorker ==
    /\ ModelsReachTheirWorkers /\ NamedModelsHaveOneRouter /\ ReadyMeansRouted
    /\ RanksReachTheirServer /\ EnginesBecomeWorkers /\ PinnedRanksStay
    /\ MutationsApplyInOrder /\ CredentialsPassBy
=============================================================================
