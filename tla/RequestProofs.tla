--------------------------- MODULE RequestProofs ----------------------------
(***************************************************************************)
(* What holds on the request paths for any requests, workers and number of *)
(* retries.                                                                *)
(*                                                                         *)
(* A request of the regular router holds at most one dispatch of its       *)
(* Program: a dispatch that is not completed belongs to the attempt that is*)
(* being sent or whose answer is being forwarded.                          *)
(***************************************************************************)
EXTENDS RequestPath, TransparentProxy, FiniteSetTheorems, TLAPS

\* Every leaf has a minute of each prover, so that a busy machine fails none of them.
USE SMTT(60), ZenonT(60)

DispatchInv ==
    /\ created \in Nat /\ registry \in [Urls -> Objects \cup {None}]
    /\ reqs \in [Requests -> Request]
    /\ \A r \in Requests, a \in Attempts :
          <<r, a>> \in live => reqs[r].phase \in {"sending", "answered"} /\ a = reqs[r].attempt

(***************************************************************************)
(* RetryExecutor: the next attempt, or the answer.                         *)
(***************************************************************************)
LEMMA SettleFacts ==
    ASSUME reqs \in [Requests -> Request], NEW r \in Requests, NEW status, Settle(r, status)
    PROVE  /\ reqs' \in [Requests -> Request]
           /\ \A q \in Requests : q # r => reqs'[q] = reqs[q]
           /\ ~Retryable(status) => /\ reqs'[r].phase = "answered"
                                    /\ reqs'[r].attempt = reqs[r].attempt
<1> DEFINE more == Retryable(status) /\ reqs[r].attempt < MaxRetries
           again == [NewRequest EXCEPT !.phase = "backoff", !.attempt = reqs[r].attempt + 1]
           done == [reqs[r] EXCEPT !.phase = "answered"]
<1>1. reqs' = [reqs EXCEPT ![r] = IF more THEN again ELSE done]
    BY DEF Settle
<1>2. reqs[r] \in Request
    OBVIOUS
<1>3. done \in Request /\ done.phase = "answered" /\ done.attempt = reqs[r].attempt
    BY <1>2 DEF Request
<1>4. more => again \in Request
  <2>1. more => reqs[r].attempt + 1 \in Attempts
      BY <1>2, RetriesArePositive DEF Request, Attempts
  <2> QED
      BY <2>1, ZenonT(60) DEF NewRequest, Request
<1> HIDE DEF again, done
<1> QED
    BY <1>1, <1>3, <1>4

(***************************************************************************)
(* The end of an attempt: the forwarding task keeps the dispatch of a      *)
(* successful stream only, which is not retried.                           *)
(***************************************************************************)
LEMMA EndAttemptKeeps ==
    ASSUME DispatchInv, NEW r \in Requests, reqs[r].phase = "sending",
           NEW status, NEW done, NEW spawned, EndAttempt(r, status, done, spawned)
    PROVE  DispatchInv'
<1>1. Settle(r, status) /\ registry' = registry /\ created' = created
    BY DEF EndAttempt
<1>2. live' \subseteq live /\ (status # "ok" => live' = live \ {<<r, reqs[r].attempt>>})
    BY DEF EndAttempt
<1>3. reqs \in [Requests -> Request]
    BY DEF DispatchInv
<1>4. /\ reqs' \in [Requests -> Request]
      /\ \A q \in Requests : q # r => reqs'[q] = reqs[q]
      /\ ~Retryable(status) => reqs'[r].phase = "answered" /\ reqs'[r].attempt = reqs[r].attempt
    BY <1>1, <1>3, SettleFacts
<1>5. status = "ok" => ~Retryable(status)
    BY DEF Retryable
<1>6. ASSUME NEW q \in Requests, NEW a \in Attempts, <<q, a>> \in live'
      PROVE  reqs'[q].phase \in {"sending", "answered"} /\ a = reqs'[q].attempt
  <2>1. <<q, a>> \in live /\ a = reqs[q].attempt /\ reqs[q].phase \in {"sending", "answered"}
      BY <1>2, <1>6 DEF DispatchInv
  <2>2. CASE q # r
      BY <1>4, <2>1, <2>2
  <2>3. CASE q = r
    <3>1. status = "ok"
        BY <1>2, <1>6, <2>1, <2>3
    <3> QED
        BY <1>4, <1>5, <2>1, <2>3, <3>1
  <2> QED
      BY <2>2, <2>3
<1> QED
    BY <1>1, <1>4, <1>6 DEF DispatchInv, Attempts, Objects, Request

\* Every step keeps the invariant.
LEMMA DispatchPreserved ==
    ASSUME DispatchInv, [Next]_vars
    PROVE  DispatchInv'
<1> USE DEF Attempts, Objects
<1>0. reqs \in [Requests -> Request] /\ registry \in [Urls -> Objects \cup {None}]
    BY DEF DispatchInv
<1>1. ASSUME NEW r \in Requests, FailToSelect(r)
      PROVE  DispatchInv'
  <2>1. PICK status : Settle(r, status)
      BY <1>1 DEF FailToSelect
  <2>2. reqs' \in [Requests -> Request] /\ \A q \in Requests : q # r => reqs'[q] = reqs[q]
      BY <1>0, <2>1, SettleFacts
  <2>3. live' = live /\ registry' = registry /\ created' = created /\ reqs[r].phase = "ready"
      BY <1>1 DEF FailToSelect, workers
  <2> QED
      BY <2>2, <2>3 DEF DispatchInv, Request
<1>2. ASSUME NEW r \in Requests, Select(r)
      PROVE  DispatchInv'
  <2>1. PICK u \in Urls :
            /\ Available(u)
            /\ reqs' = [reqs EXCEPT ![r].phase = "sending", ![r].url = u, ![r].object = registry[u]]
      BY <1>2, ZenonT(60) DEF Select
  <2>2. /\ reqs'[r] = [phase |-> "sending", attempt |-> reqs[r].attempt, url |-> u,
                       object |-> registry[u]]
        /\ \A q \in Requests : q # r => reqs'[q] = reqs[q]
        /\ reqs' = [q \in Requests |-> reqs'[q]]
      BY <1>0, <2>1, ZenonT(60) DEF Request
  <2>3. reqs'[r] \in Request
      BY <1>0, <2>2 DEF Request
  <2>4. reqs' \in [Requests -> Request]
      BY <1>0, <2>2, <2>3
  <2>5. /\ live' \subseteq live \cup {<<r, reqs[r].attempt>>}
        /\ registry' = registry /\ created' = created
      BY <1>2 DEF Select, workers
  <2>6. reqs[r].phase = "ready"
      BY <1>2 DEF Select
  <2> QED
      BY <2>2, <2>4, <2>5, <2>6 DEF DispatchInv, Request
<1>3. ASSUME NEW r \in Requests, RespondHttp(r) \/ RespondGrpc(r)
      PROVE  DispatchInv'
  <2>1. reqs[r].phase = "sending"
      BY <1>3 DEF RespondHttp, RespondGrpc
  <2>2. \E status, done, spawned : EndAttempt(r, status, done, spawned)
      BY <1>3 DEF RespondHttp, RespondGrpc
  <2> QED
      BY <2>1, <2>2, EndAttemptKeeps
<1>4. ASSUME NEW r \in Requests, Retry(r)
      PROVE  DispatchInv'
    BY <1>0, <1>4 DEF Retry, workers, DispatchInv, Request
<1>5. ASSUME NEW r \in Requests, Disconnect(r)
      PROVE  DispatchInv'
    BY <1>0, <1>5 DEF Disconnect, workers, DispatchInv, Request
<1>6. ASSUME NEW s \in streams, Forward(s)
      PROVE  DispatchInv'
    BY <1>6 DEF Forward, ForwardMarker, ForwardEnd, workers, DispatchInv, Request
<1>7. ASSUME NEW u \in Urls, RemoveWorker(u)
      PROVE  DispatchInv'
    BY <1>0, <1>7 DEF RemoveWorker, DispatchInv, Request
<1>8. CASE UNCHANGED <<created, registry, reqs, live>>
    BY <1>8 DEF DispatchInv, Request
<1>9. ASSUME NEW u \in Urls, AddWorker(u)
      PROVE  DispatchInv'
  <2>1. created + 1 \in Objects
      BY <1>9, WorkersAssumption DEF AddWorker, DispatchInv
  <2> QED
      BY <1>0, <1>9, <2>1 DEF AddWorker, DispatchInv, Request
<1>10. ASSUME NEW o \in Objects, CheckHealth(o)
       PROVE  UNCHANGED <<created, registry, reqs, live>>
    BY <1>10 DEF CheckHealth
<1>11. ResetLoads \/ UNCHANGED vars => UNCHANGED <<created, registry, reqs, live>>
    BY DEF ResetLoads, workers, vars
<1> QED
    BY <1>1, <1>2, <1>3, <1>4, <1>5, <1>6, <1>7, <1>8, <1>9, <1>10, <1>11 DEF Next, Serve

(***************************************************************************)
(* A request never holds two dispatches of its Program, and none while it  *)
(* waits to retry.                                                         *)
(***************************************************************************)
THEOREM DispatchesDoNotOverlap == Spec => []OneDispatchAtATime
<1>1. Init => DispatchInv
  <2> SUFFICES ASSUME Init PROVE DispatchInv
      OBVIOUS
  <2>1. NewRequest \in Request
      BY RetriesArePositive DEF NewRequest, Request, Attempts
  <2>2. reqs = [r \in Requests |-> NewRequest] /\ live = {} /\ registry = FirstWorkers
      BY DEF Init
  <2>3. created \in Nat
      BY WorkersAssumption, FS_CardinalityType DEF Init
  <2> QED
      BY <2>1, <2>2, <2>3, WorkersAssumption DEF DispatchInv, Objects
<1>2. DispatchInv /\ [Next]_vars => DispatchInv'
    BY DispatchPreserved
<1>3. DispatchInv => OneDispatchAtATime
    BY DEF DispatchInv, OneDispatchAtATime
<1> QED
    BY <1>1, <1>2, <1>3, PTL DEF Spec

-----------------------------------------------------------------------------
(***************************************************************************)
(* What route_transparent tells the scheduler of a dispatch is what became *)
(* of it.  ReportsAreTruthful alone is not inductive: a dispatch that was  *)
(* reported as failed must not be left with a task that could still bring  *)
(* its body to a good end.                                                 *)
(***************************************************************************)

ProxyStatuses ==
    {"none", "ok", "error", "unavailable", "invalid", "busy", "not allowed", "bad gateway"}

Handler == [at : {"new", "acquiring", "choosing", "sending", "reading", "answered", "gone"},
            found : SUBSET ProxyWorkers, worker : ProxyWorkers \cup {NoWorker},
            status : ProxyStatuses, body : {"none", "whole", "cut"}, left : BOOLEAN]

Relayed == {"none", "ok", "error"}
Said == {"none", "held", "ok", "failed"}

\* Where a request is, and what may have been said of its dispatch there.
Fits(p, task, said) ==
    /\ p.at \in {"new", "acquiring", "choosing"} => said = "none"
    /\ p.at = "sending" => said # "failed"
    /\ p.at = "reading" /\ p.status = "ok" => said # "failed"
    /\ p.body = "whole" => p.at = "answered" /\ task = "none"
    /\ task # "none" => p.at = "answered" /\ task = p.status
    /\ task = "ok" => said # "failed"
    /\ said = "ok" => p.status = "ok" /\ p.body = "whole"
    /\ said = "failed" => ~(p.status = "ok" /\ p.body = "whole")

ProxyInv ==
    /\ proxied \in [Proxied -> Handler] /\ relay \in [Proxied -> Relayed]
    /\ report \in [Proxied -> Said]
    /\ \A c \in Proxied : Fits(proxied[c], relay[c], report[c])

ProxySpec == ProxyInit /\ [][ProxyNext]_proxyVars

\* finish and the drop that may follow it, from what was said before.
LEMMA Finishing ==
    ASSUME NEW said \in Said
    PROVE  /\ Finish(said, FALSE) = IF said = "held" THEN "failed" ELSE said
           /\ Dropped(said) = IF said = "held" THEN "failed" ELSE said
           /\ Done(said, TRUE) = IF said = "held" THEN "ok" ELSE said
           /\ Done(said, FALSE) = IF said = "held" THEN "failed" ELSE said
BY DEF Finish, Dropped, Done, Said

\* A step of one request keeps the invariant when that request still fits.
LEMMA OneRequest ==
    ASSUME ProxyInv, NEW c \in Proxied, NEW p \in Handler, NEW task \in Relayed, NEW said \in Said,
           proxied' = [proxied EXCEPT ![c] = p], relay' = [relay EXCEPT ![c] = task],
           report' = [report EXCEPT ![c] = said], Fits(p, task, said)
    PROVE  ProxyInv'
<1>1. /\ proxied' \in [Proxied -> Handler] /\ relay' \in [Proxied -> Relayed]
      /\ report' \in [Proxied -> Said]
  BY DEF ProxyInv
<1>2. ASSUME NEW d \in Proxied PROVE Fits(proxied'[d], relay'[d], report'[d])
  <2>1. CASE d = c
    BY <2>1 DEF ProxyInv
  <2>2. CASE d # c
    <3>1. proxied'[d] = proxied[d] /\ relay'[d] = relay[d] /\ report'[d] = report[d]
      BY <2>2 DEF ProxyInv
    <3> QED
      BY <3>1 DEF ProxyInv
  <2> QED
    BY <2>1, <2>2
<1> QED
  BY <1>1, <1>2 DEF ProxyInv

\* The invariant holds before the first request.
LEMMA ProxyStarts == ProxyInit => ProxyInv
<1> SUFFICES ASSUME ProxyInit PROVE ProxyInv
  OBVIOUS
<1>1. NewProxied \in Handler /\ Fits(NewProxied, "none", "none")
  BY DEF NewProxied, Handler, ProxyStatuses, Fits
<1> QED
  BY <1>1 DEF ProxyInit, ProxyInv, Relayed, Said

\* What is known of a request before its step.
LEMMA Before ==
    ASSUME ProxyInv, NEW c \in Proxied
    PROVE  /\ proxied[c] \in Handler /\ relay[c] \in Relayed /\ report[c] \in Said
           /\ Fits(proxied[c], relay[c], report[c])
           /\ relay = [relay EXCEPT ![c] = relay[c]] /\ report = [report EXCEPT ![c] = report[c]]
BY DEF ProxyInv

\* The handler answers.
LEMMA Answered ==
    ASSUME ProxyInv, NEW c \in Proxied, NEW status, Answer(c, status)
    PROVE  proxied' = [proxied EXCEPT ![c] = [proxied[c] EXCEPT !.at = "answered", !.status = status]]
BY ZenonT(60) DEF Answer, ProxyInv

\* Every step of the handler keeps the invariant.
LEMMA HandleKeeps ==
    ASSUME ProxyInv, NEW c \in Proxied, Handle(c)
    PROVE  ProxyInv'
<1> DEFINE p == proxied[c]
           answered(status) == [p EXCEPT !.at = "answered", !.status = status]
<1>0. /\ p \in Handler /\ relay[c] \in Relayed /\ report[c] \in Said /\ Fits(p, relay[c], report[c])
      /\ relay = [relay EXCEPT ![c] = relay[c]] /\ report = [report EXCEPT ![c] = report[c]]
  BY Before
<1>a. \A status \in ProxyStatuses : answered(status) \in Handler
  BY <1>0, ZenonT(60) DEF Handler
<1>b. ASSUME NEW status, Answer(c, status) PROVE proxied' = [proxied EXCEPT ![c] = answered(status)]
  BY <1>b, Answered, ZenonT(60)
<1> HIDE DEF answered
<1>1. CASE Enter(c)
  <2>1. CASE Answer(c, "unavailable")
    <3>1. Fits(answered("unavailable"), relay[c], report[c])
      BY <1>0, <1>1 DEF Fits, Handler, Enter, Relayed, Said, answered
    <3> QED
      BY <1>0, <1>a, <1>b, <1>1, <2>1, <3>1, OneRequest, ZenonT(60) DEF Enter, ProxyStatuses
  <2>2. CASE ~Answer(c, "unavailable")
    <3> DEFINE found == {w \in ProxyWorkers : usable[w]}
               next == [p EXCEPT !.at = IF Tracked(c) THEN "acquiring" ELSE "choosing", !.found = found]
    <3>1. proxied' = [proxied EXCEPT ![c] = next]
      BY <1>1, <2>2, ZenonT(60) DEF Enter, ProxyInv
    <3>2. next \in Handler
      BY <1>0, ZenonT(60) DEF Handler
    <3>3. Fits(next, relay[c], report[c])
      BY <1>0, <1>1 DEF Fits, Handler, Enter, Relayed, Said
    <3> HIDE DEF next
    <3> QED
      BY <1>0, <1>1, <3>1, <3>2, <3>3, OneRequest, ZenonT(60) DEF Enter
  <2> QED
    BY <2>1, <2>2
<1>2. CASE Refused(c)
  <2>1. PICK status \in {"invalid", "unavailable", "busy"} : Answer(c, status)
    BY <1>2 DEF Refused
  <2>2. Fits(answered(status), relay[c], report[c])
    BY <1>0, <1>2 DEF Fits, Handler, Refused, Relayed, Said, answered
  <2> QED
    BY <1>0, <1>a, <1>b, <1>2, <2>1, <2>2, OneRequest, ZenonT(60) DEF Refused, ProxyStatuses
<1>3. CASE Dispatched(c)
  <2>1. PICK w \in ProxyWorkers :
          IF usable[w]
          THEN /\ proxied' = [proxied EXCEPT ![c].at = "sending", ![c].worker = w]
               /\ report' = [report EXCEPT ![c] = "held"]
          ELSE Answer(c, "unavailable") /\ report' = [report EXCEPT ![c] = Done("held", FALSE)]
    BY <1>3, ZenonT(60) DEF Dispatched
  <2>2. CASE usable[w]
    <3> DEFINE next == [p EXCEPT !.at = "sending", !.worker = w]
    <3>1. proxied' = [proxied EXCEPT ![c] = next]
      BY <2>1, <2>2, ZenonT(60) DEF ProxyInv
    <3>2. next \in Handler /\ Fits(next, relay[c], "held")
      BY <1>0, <1>3, ZenonT(60) DEF Fits, Handler, Dispatched, Relayed, Said
    <3> HIDE DEF next
    <3> QED
      BY <1>0, <1>3, <2>1, <2>2, <3>1, <3>2, OneRequest, ZenonT(60) DEF Dispatched, Said
  <2>3. CASE ~usable[w]
    <3>1. Done("held", FALSE) = "failed"
      BY DEF Done, Dropped, Finish
    <3>2. Fits(answered("unavailable"), relay[c], "failed")
      BY <1>0, <1>3 DEF Fits, Handler, Dispatched, Relayed, Said, answered
    <3> QED
      BY <1>0, <1>a, <1>b, <1>3, <2>1, <2>3, <3>1, <3>2, OneRequest, ZenonT(60)
         DEF Dispatched, ProxyStatuses, Said
  <2> QED
    BY <2>2, <2>3
<1>4. CASE Choose(c)
  <2>1. ASSUME NEW status \in {"invalid", "unavailable", "not allowed"}, Answer(c, status)
        PROVE  ProxyInv'
    <3>1. Fits(answered(status), relay[c], report[c])
      BY <1>0, <1>4, ZenonT(60) DEF Fits, Handler, Choose, Relayed, Said, answered
    <3> QED
      BY <1>0, <1>a, <1>b, <1>4, <2>1, <3>1, OneRequest, ZenonT(60) DEF Choose, ProxyStatuses
  <2>2. ASSUME NEW w \in p.found, proxied' = [proxied EXCEPT ![c].at = "sending", ![c].worker = w]
        PROVE  ProxyInv'
    <3> DEFINE next == [p EXCEPT !.at = "sending", !.worker = w]
    <3>1. proxied' = [proxied EXCEPT ![c] = next]
      BY <2>2, ZenonT(60) DEF ProxyInv
    <3>2. next \in Handler /\ Fits(next, relay[c], report[c])
      BY <1>0, <1>4, ZenonT(60) DEF Fits, Handler, Choose, Relayed, Said
    <3> HIDE DEF next
    <3> QED
      BY <1>0, <1>4, <3>1, <3>2, OneRequest, ZenonT(60) DEF Choose
  <2> QED
    BY <1>4, <2>1, <2>2, ZenonT(60) DEF Choose
<1>5. CASE SendFails(c)
  <2> DEFINE said == Done(report[c], FALSE)
  <2>1. said \in Said /\ Fits(answered("bad gateway"), relay[c], said)
    BY <1>0, <1>5, Finishing, ZenonT(60) DEF Fits, Handler, SendFails, Relayed, Said, answered
  <2>2. /\ report' = [report EXCEPT ![c] = said] /\ relay' = relay
        /\ Answer(c, "bad gateway") /\ "bad gateway" \in ProxyStatuses
    BY <1>5, ZenonT(60) DEF SendFails, ProxyStatuses
  <2> HIDE DEF said
  <2> QED
    BY <1>0, <1>a, <1>b, <2>1, <2>2, OneRequest, ZenonT(60)
<1>6. CASE Respond(c)
  <2>1. PICK status \in {"ok", "error"} :
          /\ report' = [report EXCEPT ![c] = IF status = "error" THEN Finish(@, FALSE) ELSE @]
          /\ IF Tracked(c) /\ ~asked[c].stream
             THEN /\ proxied' = [proxied EXCEPT ![c].at = "reading", ![c].status = status]
                  /\ UNCHANGED relay
             ELSE /\ Answer(c, status)
                  /\ relay' = [relay EXCEPT ![c] = IF Tracked(c) THEN status ELSE @]
    BY <1>6, ZenonT(60) DEF Respond
  <2> DEFINE said == IF status = "error" THEN Finish(report[c], FALSE) ELSE report[c]
  <2>2. report' = [report EXCEPT ![c] = said]
    BY <2>1
  <2>3. /\ said \in Said /\ said # "ok" /\ (status = "ok" => said # "failed")
        /\ p.at = "sending" /\ p.body # "whole" /\ relay[c] = "none"
    BY <1>0, <1>6, Finishing, ZenonT(60) DEF Fits, Handler, Respond, Relayed, Said
  <2> HIDE DEF said
  <2>4. CASE Tracked(c) /\ ~asked[c].stream
    <3> DEFINE next == [p EXCEPT !.at = "reading", !.status = status]
    <3>1. proxied' = [proxied EXCEPT ![c] = next] /\ relay' = relay
      BY <2>1, <2>4, ZenonT(60) DEF ProxyInv
    <3>2. next \in Handler /\ Fits(next, relay[c], said)
      BY <1>0, <2>3, ZenonT(60) DEF Fits, Handler, ProxyStatuses
    <3> HIDE DEF next
    <3> QED
      BY <1>0, <2>2, <2>3, <3>1, <3>2, OneRequest, ZenonT(60)
  <2>5. CASE ~(Tracked(c) /\ ~asked[c].stream)
    <3> DEFINE task == IF Tracked(c) THEN status ELSE relay[c]
    <3>1. relay' = [relay EXCEPT ![c] = task] /\ task \in Relayed
      BY <1>0, <2>1, <2>5 DEF Relayed
    <3>2. task = "none" \/ task = status
      BY <2>3
    <3> HIDE DEF task
    <3>3. Fits(answered(status), task, said)
      BY <1>0, <2>3, <3>2 DEF Fits, Handler, answered
    <3>4. Answer(c, status) /\ status \in ProxyStatuses
      BY <2>1, <2>5, ZenonT(60) DEF ProxyStatuses
    <3> QED
      BY <1>a, <1>b, <2>2, <2>3, <3>1, <3>3, <3>4, OneRequest, ZenonT(60)
  <2> QED
    BY <2>4, <2>5
<1>7. CASE ReadBody(c)
  <2>1. CASE /\ proxied' = [proxied EXCEPT ![c].at = "answered", ![c].body = "whole"]
             /\ report' = [report EXCEPT ![c] = IF proxied[c].status = "ok" THEN Done(@, TRUE) ELSE Dropped(@)]
    <3> DEFINE next == [p EXCEPT !.at = "answered", !.body = "whole"]
               said == IF p.status = "ok" THEN Done(report[c], TRUE) ELSE Dropped(report[c])
    <3>1. proxied' = [proxied EXCEPT ![c] = next] /\ report' = [report EXCEPT ![c] = said]
      BY <2>1, ZenonT(60) DEF ProxyInv
    <3>2. next \in Handler /\ said \in Said /\ Fits(next, relay[c], said)
      BY <1>0, <1>7, Finishing, ZenonT(60) DEF Fits, Handler, ReadBody, Relayed, Said
    <3> HIDE DEF next, said
    <3> QED
      BY <1>0, <1>7, <3>1, <3>2, OneRequest, ZenonT(60) DEF ReadBody
  <2>2. CASE /\ proxied' = [proxied EXCEPT ![c].at = "answered", ![c].body = "cut",
                                         ![c].status = "bad gateway"]
             /\ report' = [report EXCEPT ![c] = IF proxied[c].status = "ok" THEN Done(@, FALSE) ELSE Dropped(@)]
    <3> DEFINE next == [p EXCEPT !.at = "answered", !.body = "cut", !.status = "bad gateway"]
               said == IF p.status = "ok" THEN Done(report[c], FALSE) ELSE Dropped(report[c])
    <3>1. proxied' = [proxied EXCEPT ![c] = next] /\ report' = [report EXCEPT ![c] = said]
      BY <2>2, ZenonT(60) DEF ProxyInv
    <3>2. next \in Handler /\ said \in Said /\ Fits(next, relay[c], said)
      BY <1>0, <1>7, Finishing, ZenonT(60) DEF Fits, Handler, ProxyStatuses, ReadBody, Relayed, Said
    <3> HIDE DEF next, said
    <3> QED
      BY <1>0, <1>7, <3>1, <3>2, OneRequest, ZenonT(60) DEF ReadBody
  <2> QED
    BY <1>7, <2>1, <2>2, ZenonT(60) DEF ReadBody
<1> QED
  BY <1>1, <1>2, <1>3, <1>4, <1>5, <1>6, <1>7 DEF Handle

\* So does the end of the body, whole or cut.
LEMMA RelayKeeps ==
    ASSUME ProxyInv, NEW c \in Proxied, Relay(c)
    PROVE  ProxyInv'
<1> SUFFICES ASSUME NEW body \in {"whole", "cut"}, NEW success \in BOOLEAN,
                    success = (body = "whole"), RelayEnds(c, body, success)
             PROVE  ProxyInv'
  BY ZenonT(60) DEF Relay
<1> DEFINE next == [proxied[c] EXCEPT !.body = body]
           said == IF relay[c] = "ok" THEN Done(report[c], success) ELSE report[c]
<1>1. /\ proxied[c] \in Handler /\ relay[c] \in Relayed /\ report[c] \in Said
      /\ Fits(proxied[c], relay[c], report[c])
  BY Before
<1>2. /\ proxied' = [proxied EXCEPT ![c] = next] /\ report' = [report EXCEPT ![c] = said]
      /\ relay' = [relay EXCEPT ![c] = "none"]
  BY DEF RelayEnds, ProxyInv
<1>3. next \in Handler
  BY <1>1 DEF Handler
<1>4. said \in Said /\ Fits(next, "none", said)
  BY <1>1, Finishing, ZenonT(60) DEF Fits, Handler, Relay, Relayed, Said
<1> HIDE DEF next, said
<1> QED
  BY <1>2, <1>3, <1>4, OneRequest, ZenonT(60) DEF Relayed

\* So does a caller that leaves, whose handler is dropped.
LEMMA LeaveKeeps ==
    ASSUME ProxyInv, NEW c \in Proxied, CallerLeaves(c)
    PROVE  ProxyInv'
<1> DEFINE p == proxied[c]
           next == [p EXCEPT !.left = TRUE, !.at = IF @ = "answered" THEN @ ELSE "gone"]
           said == IF p.at = "answered" THEN report[c] ELSE Dropped(report[c])
<1>1. /\ p \in Handler /\ relay[c] \in Relayed /\ report[c] \in Said /\ Fits(p, relay[c], report[c])
      /\ relay = [relay EXCEPT ![c] = relay[c]]
  BY Before
<1>2. /\ proxied' = [proxied EXCEPT ![c] = next] /\ report' = [report EXCEPT ![c] = said]
      /\ relay' = relay
  BY ZenonT(60) DEF CallerLeaves, ProxyInv
<1>3. next \in Handler
  BY <1>1, ZenonT(60) DEF Handler
<1>4. said \in Said /\ Fits(next, relay[c], said)
  BY <1>1, Finishing DEF Fits, Handler, CallerLeaves, Relayed, Said
<1> HIDE DEF next, said
<1> QED
  BY <1>1, <1>2, <1>3, <1>4, OneRequest, ZenonT(60)

\* Every step keeps the invariant.
LEMMA ProxyStep == ProxyInv /\ [ProxyNext]_proxyVars => ProxyInv'
<1> SUFFICES ASSUME ProxyInv, [ProxyNext]_proxyVars
             PROVE  ProxyInv'
  OBVIOUS
<1>1. ASSUME NEW w \in ProxyWorkers, UsabilityChanges(w) PROVE ProxyInv'
  BY <1>1 DEF UsabilityChanges, ProxyInv
<1>2. CASE UNCHANGED proxyVars
  BY <1>2 DEF proxyVars, ProxyInv
<1> QED
  BY <1>1, <1>2, HandleKeeps, RelayKeeps, LeaveKeeps DEF ProxyNext

(***************************************************************************)
(* route_transparent reports a success only of a 2xx answer that came to   *)
(* its end, and never a failure of one.                                    *)
(***************************************************************************)
THEOREM ProxyIsTruthful == ProxySpec => []ReportsAreTruthful
<1>1. ProxyInv => ReportsAreTruthful
  BY DEF ProxyInv, Fits, ReportsAreTruthful
<1> QED
  BY <1>1, ProxyStarts, ProxyStep, PTL DEF ProxySpec

=============================================================================
