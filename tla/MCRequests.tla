----------------------------- MODULE MCRequests -----------------------------
(***************************************************************************)
(* The request paths, for TLC: a behaviour is one of the regular router    *)
(* ("regular"), of the prefill/decode router ("pd"), of requests that are  *)
(* passed on as they are ("proxy") or of a router's start and its health   *)
(* checks ("health"); the others rest in an initial state.                 *)
(***************************************************************************)
EXTENDS RequestPath, PdRequest, TransparentProxy, WorkerHealth

CONSTANTS u1, u2, p1, d1

VARIABLE part
allVars == <<part, vars, pdVars, proxyVars, healthVars>>

TwoWorkers == [u \in Urls |-> IF u = u1 THEN 1 ELSE 2]
OneWorker == [u \in Urls |-> 1]

Direct(c, push, pods, limit) ==
    [connector |-> c, discovery |-> FALSE, smetric |-> TRUE, push |-> push, pods |-> pods, limit |-> limit]
Discovery(c, push, limit) ==
    [connector |-> c, discovery |-> TRUE, smetric |-> FALSE, push |-> push, pods |-> {}, limit |-> limit]

SomeDeployments ==
    {Direct("nixl", TRUE, {}, 2), Direct("nixl", TRUE, {p1}, 1), Direct("nixl", FALSE, {p1, d1}, 1),
     Direct("mooncake", FALSE, {d1}, 2), Direct("moriio", FALSE, {}, 1),
     Discovery("nixl", TRUE, 1), Discovery("moriio", FALSE, 1)}
SomeKeys == {<<"P", p1>>, <<"D", d1>>}

SomePools == {<<{p1, d1}>>, <<{p1}, {d1}>>}

RestingRegular == grpc = FALSE /\ kind = [r \in Requests |-> [body |-> "json", program |-> FALSE]]
RestingPd == deployment = Direct("mooncake", FALSE, {d1}, 2)
RestingProxy ==
    smetric = FALSE /\ asked = [c \in Proxied |-> [method |-> "GET", program |-> FALSE, stream |-> FALSE]]
RestingHealth == pools = <<{p1, d1}>> /\ answering = [h \in AllHosts |-> TRUE]

RequestsInit ==
    /\ part \in {"regular", "pd", "proxy", "health"}
    /\ Init /\ PdInit /\ ProxyInit /\ HealthInit
    /\ part = "regular" \/ RestingRegular
    /\ part = "pd" \/ RestingPd
    /\ part = "proxy" \/ RestingProxy
    /\ part = "health" \/ RestingHealth

RequestsNext ==
    \/ part = "regular" /\ Next /\ UNCHANGED <<part, pdVars, proxyVars, healthVars>>
    \/ part = "pd" /\ PdNext /\ UNCHANGED <<part, vars, proxyVars, healthVars>>
    \/ part = "proxy" /\ ProxyNext /\ UNCHANGED <<part, vars, pdVars, healthVars>>
    \/ part = "health" /\ HealthNext /\ UNCHANGED <<part, vars, pdVars, proxyVars>>

\* The regular router as in RequestPath.  Prefill and decode workers answer,
\* requests keep coming to every prefill worker, prefills keep succeeding
\* every now and then, and the health checker keeps running.  A proxied
\* request is answered within the client timeout and a stream ends.
RequestsSpec ==
    /\ RequestsInit /\ [][RequestsNext]_allVars
    /\ \A r \in Requests : WF_vars(part = "regular" /\ Serve(r))
    /\ WF_vars(part = "regular" /\ \E s \in streams : ForwardEnd(s))
    /\ WF_vars(part = "regular" /\ ResetLoads)
    /\ \A q \in PdRequests : WF_pdVars(part = "pd" /\ PdStep(q))
    /\ SF_pdVars(part = "pd" /\ ArriveAt(p1))
    /\ SF_pdVars(part = "pd" /\ Pushes)
    /\ WF_pdVars(part = "pd" /\ ResetPdLoads)
    /\ \A c \in Proxied : /\ WF_proxyVars(part = "proxy" /\ Handle(c))
                          /\ WF_proxyVars(part = "proxy" /\ Relay(c))
    /\ WF_healthVars(part = "health" /\ WaitOn) /\ WF_healthVars(part = "health" /\ CheckOn)

(***************************************************************************)
(* Every dispatch of a Program is completed, and the loads go back to zero,*)
(* whichever way a request of the regular router or a proxied one ends.    *)
(***************************************************************************)
RequestsSettle ==
    /\ []TypeOK
    /\ DispatchesComplete /\ LoadDriftHeals /\ ProxiedDispatchesComplete
=============================================================================
