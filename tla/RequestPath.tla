----------------------------- MODULE RequestPath -----------------------------
(***************************************************************************)
(* route_typed_request of routers/http/router.rs: the attempts of a        *)
(* request, the worker each of them is sent to, the load counter it        *)
(* raises there, the Program dispatch it completes and the task that       *)
(* forwards a streamed answer.  A step ends where the code awaits; there a *)
(* client may disconnect, which drops the request's future, and workers    *)
(* may be removed, added again and marked unavailable.  Load is tracked    *)
(* for every attempt, as under the cache_aware and smetric policies and    *)
(* for Programs.                                                           *)
(*                                                                         *)
(* A worker object is a number: removing a URL and adding it again makes a *)
(* new object with a counter of its own, while old requests still hold the *)
(* old one or look the URL up again.                                       *)
(***************************************************************************)
EXTENDS Naturals, FiniteSets

CONSTANTS
    Requests, Urls,
    FirstWorkers,   \* the worker object each URL starts with
    MaxWorkers,     \* bound: worker objects of one behaviour
    MaxRetries,     \* RetryConfig::max_retries
    None

ASSUME RetriesArePositive == MaxRetries \in Nat \ {0}
ASSUME WorkersAssumption ==
    IsFiniteSet(Urls) /\ MaxWorkers \in Nat /\ FirstWorkers \in [Urls -> 1 .. MaxWorkers]

VARIABLES
    grpc,       \* whether the pool is all-grpc (otherwise all-http)
    kind,       \* what each request asks for
    registry,   \* WorkerRegistry: the worker object of every URL, if any
    up,         \* Worker::is_available
    load,       \* Worker::load
    created,    \* worker objects made so far
    reqs,       \* the task of every request
    streams,    \* the tasks that forward streamed answers
    live,       \* ProgramCompletions not finished yet: <<request, attempt>>
    drops       \* how often each attempt decremented a load counter

vars == <<grpc, kind, registry, up, load, created, reqs, streams, live, drops>>
workers == <<registry, up, created>>

Objects == 1 .. MaxWorkers
Attempts == 1 .. MaxRetries
Kinds == [body : {"json", "sse", "other"}, program : BOOLEAN]
Statuses == {"ok", "client", "busy", "server"}
Retryable(status) == status \in {"busy", "server"}

Stream == [request : Requests, attempt : Attempts, url : Urls, object : Objects,
           counted : BOOLEAN]
Request == [phase : {"ready", "sending", "backoff", "answered", "gone"}, attempt : Attempts,
            url : Urls \cup {None}, object : Objects \cup {None}]

NewRequest == [phase |-> "ready", attempt |-> 1, url |-> None, object |-> None]

Init ==
    /\ grpc \in BOOLEAN /\ kind \in [Requests -> Kinds]
    /\ registry = FirstWorkers /\ up = [o \in Objects |-> TRUE]
    /\ load = [o \in Objects |-> 0] /\ created = Cardinality(Urls)
    /\ reqs = [r \in Requests |-> NewRequest]
    /\ streams = {} /\ live = {}
    /\ drops = [r \in Requests |-> [a \in Attempts |-> 0]]
-----------------------------------------------------------------------------
Available(u) == IF registry[u] = None THEN FALSE ELSE up[registry[u]]

\* Worker::decrement_load stops at zero.
Lower(l, o) == IF o = None THEN l ELSE [l EXCEPT ![o] = IF @ = 0 THEN 0 ELSE @ - 1]

\* RetryExecutor: what becomes of the request after an attempt.
Settle(r, status) ==
    reqs' = [reqs EXCEPT ![r] =
                IF Retryable(status) /\ @.attempt < MaxRetries
                THEN [NewRequest EXCEPT !.phase = "backoff", !.attempt = reqs[r].attempt + 1]
                ELSE [@ EXCEPT !.phase = "answered"]]

\* The scheduler refuses, the Program's worker is gone, or no worker is
\* available: an error without an attempt on any worker.
FailToSelect(r) ==
    /\ reqs[r].phase = "ready"
    /\ \/ kind[r].program
       \/ \A u \in Urls : ~Available(u)
    /\ \E status \in (IF kind[r].program THEN {"client", "busy", "server"} ELSE {"server"}) :
           Settle(r, status)
    /\ UNCHANGED <<grpc, kind, workers, load, streams, live, drops>>

\* An available worker is selected (a Program's dispatch names it) and its
\* load goes up before the request is sent.
Select(r) ==
    /\ reqs[r].phase = "ready"
    /\ \E u \in Urls :
          /\ Available(u)
          /\ load' = [load EXCEPT ![registry[u]] = @ + 1]
          /\ reqs' = [reqs EXCEPT ![r].phase = "sending", ![r].url = u, ![r].object = registry[u]]
    /\ live' = IF kind[r].program THEN live \cup {<<r, reqs[r].attempt>>} ELSE live
    /\ UNCHANGED <<grpc, kind, workers, streams, drops>>

EndAttemptKeepsCompletion(r, status, done, spawned) ==
    LET q == reqs[r]
        cleanup == IF Retryable(status) THEN q.object ELSE None
    IN  /\ load' = Lower(Lower(load, done), cleanup)
        /\ drops' = [drops EXCEPT ![r][q.attempt] =
                        @ + Cardinality({x \in {1} : done # None})
                          + Cardinality({x \in {1} : cleanup # None})]
        /\ streams' = streams \cup spawned
        /\ live' = IF spawned # {} /\ ~grpc
                   THEN live ELSE live \ {<<r, q.attempt>>}
        /\ \E now \in (IF status = "server" THEN {FALSE, up[q.object]} ELSE {up[q.object]}) :
               up' = [up EXCEPT ![q.object] = now]
        /\ Settle(r, status)
        /\ UNCHANGED <<grpc, kind, registry, created>>

\* What ends an attempt: record_outcome may make the worker unavailable, and
\* a retryable answer lowers the load of the worker it was sent to.
\* done: what send_typed_request itself lowered; spawned: the task it left.
EndAttempt(r, status, done, spawned) ==
    LET q == reqs[r]
        cleanup == IF Retryable(status) THEN q.object ELSE None
    IN  /\ load' = Lower(Lower(load, done), cleanup)
        /\ drops' = [drops EXCEPT ![r][q.attempt] =
                        @ + Cardinality({x \in {1} : done # None})
                          + Cardinality({x \in {1} : cleanup # None})]
        /\ streams' = streams \cup spawned
        /\ live' = IF status = "ok" /\ spawned # {} /\ ~grpc
                   THEN live ELSE live \ {<<r, q.attempt>>}
        /\ \E now \in (IF status = "server" THEN {FALSE, up[q.object]} ELSE {up[q.object]}) :
               up' = [up EXCEPT ![q.object] = now]
        /\ Settle(r, status)
        /\ UNCHANGED <<grpc, kind, registry, created>>

Forwarder(r) == [request |-> r, attempt |-> reqs[r].attempt, url |-> reqs[r].url,
                 object |-> registry[reqs[r].url], counted |-> TRUE]

\* send_typed_request over HTTP: a transport error or a whole body lowers
\* the load of whatever worker now has the URL; a stream leaves that to the
\* task that forwards it, whatever its status.
RespondHttp(r) ==
    /\ reqs[r].phase = "sending" /\ ~grpc
    /\ \/ EndAttempt(r, "server", registry[reqs[r].url], {})
       \/ /\ kind[r].body # "sse"
          /\ \E status \in Statuses : EndAttempt(r, status, registry[reqs[r].url], {})
       \/ /\ kind[r].body = "sse"
          /\ \E status \in Statuses :
                EndAttempt(r, status, None, {[Forwarder(r) EXCEPT !.object = reqs[r].object]})

\* send_typed_request over gRPC: only chat is supported; a success or a
\* final error lowers the load, a stream when its producer ends.
RespondGrpc(r) ==
    /\ reqs[r].phase = "sending" /\ grpc
    /\ \/ kind[r].body = "other" /\ EndAttempt(r, "client", None, {})
       \/ /\ kind[r].body # "other"
          /\ \E status \in Statuses :
                LET now == registry[reqs[r].url]
                IN  IF Retryable(status) \/ now = None
                    THEN EndAttempt(r, status, None, {})
                    ELSE IF status = "ok" /\ kind[r].body = "sse"
                         THEN EndAttempt(r, status, None, {Forwarder(r)})
                         ELSE EndAttempt(r, status, now, {})

\* The backoff sleep ends.
Retry(r) ==
    /\ reqs[r].phase = "backoff"
    /\ reqs' = [reqs EXCEPT ![r].phase = "ready"]
    /\ UNCHANGED <<grpc, kind, workers, load, streams, live, drops>>

DisconnectKeepsCompletion(r) ==
    /\ reqs[r].phase \in {"ready", "sending", "backoff"}
    /\ reqs' = [reqs EXCEPT ![r].phase = "gone"]
    /\ UNCHANGED <<grpc, kind, workers, load, streams, live, drops>>

\* The client goes away: the future is dropped where it waits, and with it
\* the ProgramCompletion of the attempt, but nothing lowers the load.
Disconnect(r) ==
    /\ reqs[r].phase \in {"ready", "sending", "backoff"}
    /\ reqs' = [reqs EXCEPT ![r].phase = "gone"]
    /\ live' = live \ {<<r, reqs[r].attempt>>}
    /\ UNCHANGED <<grpc, kind, workers, load, streams, drops>>
-----------------------------------------------------------------------------
\* The forwarding task lowers the load at the end marker or when it ends:
\* over HTTP of the worker that has the URL then, over gRPC of its own.
LowerFor(s) == IF grpc THEN s.object ELSE registry[s.url]

ForwardMarker(s) ==
    /\ s.counted /\ ~grpc /\ LowerFor(s) # None
    /\ load' = Lower(load, LowerFor(s))
    /\ streams' = (streams \ {s}) \cup {[s EXCEPT !.counted = FALSE]}
    /\ drops' = [drops EXCEPT ![s.request][s.attempt] = @ + 1]
    /\ UNCHANGED <<grpc, kind, workers, reqs, live>>

ForwardEnd(s) ==
    /\ LET o == IF s.counted THEN LowerFor(s) ELSE None
       IN  /\ load' = Lower(load, o)
           /\ drops' = [drops EXCEPT ![s.request][s.attempt] = IF o = None THEN @ ELSE @ + 1]
    /\ streams' = streams \ {s}
    /\ live' = live \ {<<s.request, s.attempt>>}
    /\ UNCHANGED <<grpc, kind, workers, reqs>>

RemoveWorker(u) ==
    /\ registry[u] # None
    /\ registry' = [registry EXCEPT ![u] = None]
    /\ UNCHANGED <<grpc, kind, up, load, created, reqs, streams, live, drops>>

AddWorker(u) ==
    /\ registry[u] = None /\ created < MaxWorkers
    /\ created' = created + 1
    /\ registry' = [registry EXCEPT ![u] = created + 1]
    /\ UNCHANGED <<grpc, kind, up, load, reqs, streams, live, drops>>

\* A health check flips a worker's health.
CheckHealth(o) ==
    /\ \E u \in Urls : registry[u] = o
    /\ up' = [up EXCEPT ![o] = ~@]
    /\ UNCHANGED <<grpc, kind, registry, load, created, reqs, streams, live, drops>>

\* Every tenth cycle the health checker clears the counters of the
\* registered workers.
ResetLoads ==
    /\ load' = [o \in Objects |-> IF \E u \in Urls : registry[u] = o THEN 0 ELSE load[o]]
    /\ UNCHANGED <<grpc, kind, workers, reqs, streams, live, drops>>

Serve(r) == FailToSelect(r) \/ Select(r) \/ RespondHttp(r) \/ RespondGrpc(r) \/ Retry(r)
Forward(s) == ForwardMarker(s) \/ ForwardEnd(s)

Next ==
    \/ \E r \in Requests : Serve(r) \/ Disconnect(r)
    \/ \E s \in streams : Forward(s)
    \/ \E u \in Urls : RemoveWorker(u) \/ AddWorker(u)
    \/ \E o \in Objects : CheckHealth(o)
    \/ ResetLoads

\* Requests are answered within the client timeout, streams end, and the
\* health checker keeps running.
Fairness ==
    /\ \A r \in Requests : WF_vars(Serve(r))
    /\ WF_vars(\E s \in streams : ForwardEnd(s))
    /\ WF_vars(ResetLoads)

Spec == Init /\ [][Next]_vars /\ Fairness
-----------------------------------------------------------------------------
TypeOK ==
    /\ registry \in [Urls -> Objects \cup {None}] /\ up \in [Objects -> BOOLEAN]
    /\ load \in [Objects -> Nat] /\ created \in Objects
    /\ reqs \in [Requests -> Request] /\ streams \subseteq Stream
    /\ live \subseteq Requests \X Attempts
    /\ drops \in [Requests -> [Attempts -> Nat]]

(***************************************************************************)
(* router.rs: "The previous ProgramCompletion finishes exactly once before *)
(* a retry invokes this closure again."  A request never holds two         *)
(* dispatches of its Program, and none while it waits to retry, also when  *)
(* a failed attempt left a forwarding task behind.                         *)
(***************************************************************************)
OneDispatchAtATime ==
    \A r \in Requests :
        /\ \A a, b \in Attempts : <<r, a>> \in live /\ <<r, b>> \in live => a = b
        /\ reqs[r].phase \in {"ready", "backoff"} => \A a \in Attempts : <<r, a>> \notin live

(***************************************************************************)
(* Every Program dispatch is completed, whether the client reads its       *)
(* answer or leaves, the attempt fails, or the worker is removed: what the *)
(* scheduler's progress rests on.                                          *)
(***************************************************************************)
DispatchesComplete ==
    \A r \in Requests, a \in Attempts : <<r, a>> \in live ~> <<r, a>> \notin live

(***************************************************************************)
(* worker_registry.rs, "Reset loads periodically": whatever attempts,      *)
(* disconnections and removals left in the counters, an idle worker's load *)
(* returns to zero.                                                        *)
(***************************************************************************)
Quiet == streams = {} /\ \A r \in Requests : reqs[r].phase \in {"answered", "gone"}
LoadDriftHeals == Quiet ~> \A u \in Urls : registry[u] = None \/ load[registry[u]] = 0

(***************************************************************************)
(* router.rs: "we need to decrement load since send_typed_request won't    *)
(* have done it (it only decrements on success or non-retryable            *)
(* failures)".  No attempt lowers a load counter twice.                    *)
(***************************************************************************)
AttemptDecrementsOnce == \A r \in Requests, a \in Attempts : drops[r][a] <= 1
=============================================================================
