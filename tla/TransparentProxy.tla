--------------------------- MODULE TransparentProxy ---------------------------
(***************************************************************************)
(* route_transparent of routers/http/router.rs: a request for a route the  *)
(* router does not know is passed on as it is.  A POST may be of a         *)
(* Program: then the scheduler names the worker, and the Program's         *)
(* dispatch is completed by this handler, by the task that forwards a      *)
(* stream, or by the drop of the completion they hold.                     *)
(*                                                                         *)
(* A step ends where the code awaits; there the caller may leave and       *)
(* workers become available or not.                                        *)
(***************************************************************************)
EXTENDS Naturals

CONSTANTS Proxied, ProxyWorkers, NoWorker

VARIABLES
    smetric,   \* whether the default policy is SMetric
    asked,     \* what each request is
    usable,    \* Worker::is_available
    proxied,   \* the handler of each request
    relay,     \* the task that forwards a stream, if there is one
    report     \* what the scheduler was told of the request's dispatch

proxyVars == <<smetric, asked, usable, proxied, relay, report>>

Asked == [method : {"POST", "GET", "other"}, program : BOOLEAN, stream : BOOLEAN]
NewProxied == [at |-> "new", found |-> {}, worker |-> NoWorker, status |-> "none",
               body |-> "none", left |-> FALSE]

ProxyInit ==
    /\ smetric \in BOOLEAN /\ asked \in [Proxied -> Asked]
    /\ usable = [w \in ProxyWorkers |-> TRUE]
    /\ proxied = [c \in Proxied |-> NewProxied]
    /\ relay = [c \in Proxied |-> "none"]
    /\ report = [c \in Proxied |-> "none"]
-----------------------------------------------------------------------------
\* acquire_program_completion_from_payload: only a POST that names a Program.
Tracked(c) == asked[c].method = "POST" /\ asked[c].program

FinishAgain(said, success) == IF said = "none" THEN said ELSE IF success THEN "ok" ELSE "failed"

\* ProgramCompletion::finish: only the first call counts.
Finish(said, success) == IF said = "held" THEN IF success THEN "ok" ELSE "failed" ELSE said

\* The last holder of the completion goes away.
Dropped(said) == Finish(said, FALSE)

\* finish, and then the caller's handle goes out of scope.
Done(said, success) == Dropped(Finish(said, success))

Answer(c, status) == proxied' = [proxied EXCEPT ![c].at = "answered", ![c].status = status]

\* The handler begins: without an available worker it ends here; a request
\* of a Program waits for the scheduler.
Enter(c) ==
    /\ proxied[c].at = "new"
    /\ LET found == {w \in ProxyWorkers : usable[w]}
       IN  IF found = {} THEN Answer(c, "unavailable")
           ELSE proxied' = [proxied EXCEPT ![c].at = IF Tracked(c) THEN "acquiring" ELSE "choosing",
                                           ![c].found = found]
    /\ UNCHANGED <<smetric, asked, usable, relay, report>>

\* The scheduler refuses the request: schedule_error_response.
Refused(c) ==
    /\ proxied[c].at = "acquiring"
    /\ \E status \in {"invalid", "unavailable", "busy"} : Answer(c, status)
    /\ UNCHANGED <<smetric, asked, usable, relay, report>>

\* The scheduler dispatches to a worker, which is used if it is available.
Dispatched(c) ==
    /\ proxied[c].at = "acquiring"
    /\ \E w \in ProxyWorkers :
          IF usable[w]
          THEN /\ proxied' = [proxied EXCEPT ![c].at = "sending", ![c].worker = w]
               /\ report' = [report EXCEPT ![c] = "held"]
          ELSE Answer(c, "unavailable") /\ report' = [report EXCEPT ![c] = Done("held", FALSE)]
    /\ UNCHANGED <<smetric, asked, usable, relay>>

\* Without a Program the default policy chooses among the workers found on
\* entry, or none when they are no longer healthy; SMetric needs a prompt.
Choose(c) ==
    /\ proxied[c].at = "choosing"
    /\ \/ smetric /\ Answer(c, "invalid")
       \/ ~smetric /\ (\A w \in proxied[c].found : ~usable[w]) /\ Answer(c, "unavailable")
       \/ ~smetric /\ asked[c].method = "other" /\ Answer(c, "not allowed")
       \/ /\ ~smetric /\ asked[c].method # "other"
          /\ \E w \in proxied[c].found :
                proxied' = [proxied EXCEPT ![c].at = "sending", ![c].worker = w]
    /\ UNCHANGED <<smetric, asked, usable, relay, report>>

\* The request to the worker fails.
SendFails(c) ==
    /\ proxied[c].at = "sending"
    /\ Answer(c, "bad gateway")
    /\ report' = [report EXCEPT ![c] = Done(@, FALSE)]
    /\ UNCHANGED <<smetric, asked, usable, relay>>

\* The head of the answer: an error is reported at once.  Without a Program
\* the body is passed on as it comes; a Program's answer is read to its end,
\* or forwarded by a task, which holds the completion of a success.
Respond(c) ==
    /\ proxied[c].at = "sending"
    /\ \E status \in {"ok", "error"} :
          /\ report' = [report EXCEPT ![c] = IF status = "error" THEN Finish(@, FALSE) ELSE @]
          /\ IF Tracked(c) /\ ~asked[c].stream
             THEN /\ proxied' = [proxied EXCEPT ![c].at = "reading", ![c].status = status]
                  /\ UNCHANGED relay
             ELSE /\ Answer(c, status)
                  /\ relay' = [relay EXCEPT ![c] = IF Tracked(c) THEN status ELSE @]
    /\ UNCHANGED <<smetric, asked, usable>>

\* The whole body is there, or reading it fails.
ReadBody(c) ==
    /\ proxied[c].at = "reading"
    /\ \/ /\ proxied' = [proxied EXCEPT ![c].at = "answered", ![c].body = "whole"]
          /\ report' = [report EXCEPT ![c] = IF proxied[c].status = "ok" THEN Done(@, TRUE) ELSE Dropped(@)]
       \/ /\ proxied' = [proxied EXCEPT ![c].at = "answered", ![c].body = "cut",
                                      ![c].status = "bad gateway"]
          /\ report' = [report EXCEPT ![c] = IF proxied[c].status = "ok" THEN Done(@, FALSE) ELSE Dropped(@)]
    /\ UNCHANGED <<smetric, asked, usable, relay>>

RelayEnds(c, body, success) ==
    /\ relay' = [relay EXCEPT ![c] = "none"]
    /\ proxied' = [proxied EXCEPT ![c].body = body]
    /\ report' = [report EXCEPT ![c] = IF relay[c] = "ok" THEN Done(@, success) ELSE @]
    /\ UNCHANGED <<smetric, asked, usable>>

\* The forwarding task: the stream ends, it breaks, or a chunk cannot be
\* passed on because the caller has left.
Relay(c) ==
    /\ relay[c] # "none"
    /\ \/ RelayEnds(c, "whole", TRUE)
       \/ RelayEnds(c, "cut", FALSE)

\* The caller leaves: the handler is dropped where it waits, with what it
\* holds; a forwarding task goes on and finds out later.
CallerLeaves(c) ==
    /\ ~proxied[c].left /\ proxied[c].at \in {"acquiring", "sending", "reading", "answered"}
    /\ proxied' = [proxied EXCEPT ![c].left = TRUE,
                                  ![c].at = IF @ = "answered" THEN @ ELSE "gone"]
    /\ report' = [report EXCEPT ![c] = IF proxied[c].at = "answered" THEN @ ELSE Dropped(@)]
    /\ UNCHANGED <<smetric, asked, usable, relay>>

UsabilityChanges(w) ==
    /\ usable' = [usable EXCEPT ![w] = ~@]
    /\ UNCHANGED <<smetric, asked, proxied, relay, report>>

Handle(c) ==
    Enter(c) \/ Refused(c) \/ Dispatched(c) \/ Choose(c) \/ SendFails(c) \/ Respond(c) \/ ReadBody(c)

ProxyNext ==
    \/ \E c \in Proxied : Handle(c) \/ Relay(c) \/ CallerLeaves(c)
    \/ \E w \in ProxyWorkers : UsabilityChanges(w)
-----------------------------------------------------------------------------
(***************************************************************************)
(* What route_transparent tells the scheduler of a dispatch is what became *)
(* of it: success only of a 2xx answer whose body came to its end, and     *)
(* never failure of such an answer, although the completion is also        *)
(* finished by the drops that follow (program_adapter.rs).                 *)
(***************************************************************************)
ReportsAreTruthful ==
    \A c \in Proxied :
        /\ report[c] = "ok" => proxied[c].status = "ok" /\ proxied[c].body = "whole"
        /\ report[c] = "failed" => ~(proxied[c].status = "ok" /\ proxied[c].body = "whole")

(***************************************************************************)
(* Every dispatch that route_transparent takes is completed, whether the   *)
(* worker answers, its stream breaks or the caller leaves: otherwise its   *)
(* Program would hold its place in the scheduler for good.                 *)
(***************************************************************************)
ProxiedDispatchesComplete ==
    \A c \in Proxied : report[c] = "held" ~> report[c] # "held"
=============================================================================
