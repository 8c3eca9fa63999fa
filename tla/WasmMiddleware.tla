--------------------------- MODULE WasmMiddleware ---------------------------
(***************************************************************************)
(* The WASM middleware of the server (wasm_middleware.rs): requests to the *)
(* configured routes are shown to a guest component before they go on.  A  *)
(* bounded queue feeds a few worker threads, which run the guest on one    *)
(* request at a time; permits count the requests whose caller waits.       *)
(*                                                                         *)
(* The guest is foreign code: what it answers is a choice.  Its run ends,  *)
(* by itself or by the deadline that the epoch thread enforces.            *)
(***************************************************************************)
EXTENDS Naturals, SequencesExt, FiniteSets

CONSTANTS
    WasmCallers,      \* requests that arrive at the middleware
    GuestWorkers,     \* worker threads
    QueueCapacity     \* queue_capacity, of the channel and of the permits

NoJob == "no job"

\* WasmMiddlewareConfig::validate
ASSUME WasmConfigIsValid ==
    /\ GuestWorkers # {} /\ QueueCapacity \in Nat \ {0}
    /\ IsFiniteSet(WasmCallers) /\ NoJob \notin WasmCallers

VARIABLES
    wasm,       \* a request: where it is (at), and what the guest answered for it
    permits,    \* queue_permits
    jobs,       \* the channel: the requests to run the guest on
    guest       \* the request a worker thread runs the guest on

wasmVars == <<wasm, permits, jobs, guest>>

Pending == "pending"

\* What a run of the guest ends with: its action, as map_action takes it, or an error
\* (a trap, the deadline, an action that is not valid or a body that is too large).
Verdicts == {"continue", "modify", "modify badly", "reject", "error"}

\* WasmMiddlewareRuntime::load
WasmInit ==
    /\ wasm = [c \in WasmCallers |-> [at |-> "new", verdict |-> Pending]]
    /\ permits = QueueCapacity
    /\ jobs = << >>
    /\ guest = [g \in GuestWorkers |-> NoJob]

Moved(c, where) == [wasm EXCEPT ![c].at = where]

\* The middleware's first part: a request to another route passes through; a body that
\* is too long, or that cannot be read, is refused.
ReadBody(c) ==
    /\ wasm[c].at = "new"
    /\ \E where \in {"passed", "refused", "read"} : wasm' = Moved(c, where)
    /\ UNCHANGED <<permits, jobs, guest>>

\* handle_request up to try_acquire_owned
AcquirePermit(c) ==
    /\ wasm[c].at = "read"
    /\ IF permits = 0
       THEN wasm' = Moved(c, "refused") /\ UNCHANGED permits
       ELSE wasm' = Moved(c, "acquired") /\ permits' = permits - 1
    /\ UNCHANGED <<jobs, guest>>

\* try_send; the permit comes back when it fails.
SendJob(c) ==
    /\ wasm[c].at = "acquired"
    /\ IF Len(jobs) = QueueCapacity
       THEN wasm' = Moved(c, "refused") /\ permits' = permits + 1 /\ UNCHANGED jobs
       ELSE wasm' = Moved(c, "waiting") /\ jobs' = Append(jobs, c) /\ UNCHANGED permits
    /\ UNCHANGED guest

\* recv_blocking of a worker thread
TakeJob(g) ==
    /\ guest[g] = NoJob /\ jobs # << >>
    /\ guest' = [guest EXCEPT ![g] = Head(jobs)]
    /\ jobs' = Tail(jobs)
    /\ UNCHANGED <<wasm, permits>>

\* A caller that is gone has dropped its end of the channel.
Reply(c, verdict) ==
    IF wasm[c].at = "waiting"
    THEN [wasm EXCEPT ![c].at = "answered", ![c].verdict = verdict]
    ELSE wasm

\* execute_once, and the answer.
RunGuest(g) ==
    /\ guest[g] \in WasmCallers
    /\ \E verdict \in Verdicts : wasm' = Reply(guest[g], verdict)
    /\ guest' = [guest EXCEPT ![g] = NoJob]
    /\ UNCHANGED <<permits, jobs>>

\* The middleware's last part: only Continue and a modification that can be applied go on.
Outcome(verdict) ==
    IF verdict \in {"continue", "modify"} THEN "forwarded" ELSE "refused"

Conclude(c) ==
    /\ wasm[c].at = "answered"
    /\ wasm' = Moved(c, Outcome(wasm[c].verdict))
    /\ permits' = permits + 1
    /\ UNCHANGED <<jobs, guest>>

\* Mutant: a client that leaves takes its permit along.
LeaveWithPermit(c) ==
    /\ wasm[c].at \in {"new", "waiting", "answered"}
    /\ wasm' = Moved(c, "left")
    /\ UNCHANGED <<permits, jobs, guest>>

\* The client leaves while the middleware reads its body or awaits the guest: its permit
\* comes back, its job stays.
LeaveMiddleware(c) ==
    /\ wasm[c].at \in {"new", "waiting", "answered"}
    /\ wasm' = Moved(c, "left")
    /\ permits' = IF wasm[c].at = "new" THEN permits ELSE permits + 1
    /\ UNCHANGED <<jobs, guest>>

WasmNext ==
    \/ \E c \in WasmCallers :
          ReadBody(c) \/ AcquirePermit(c) \/ SendJob(c) \/ Conclude(c) \/ LeaveMiddleware(c)
    \/ \E g \in GuestWorkers : TakeJob(g) \/ RunGuest(g)

\* A worker thread goes on while the router runs, and a run of the guest ends.
WasmFairness == \A g \in GuestWorkers : WF_wasmVars(TakeJob(g)) /\ WF_wasmVars(RunGuest(g))

WasmSpec == WasmInit /\ [][WasmNext]_wasmVars /\ WasmFairness

-----------------------------------------------------------------------------
\* The type of the middleware's state.
WasmTypeOK ==
    /\ wasm \in [WasmCallers ->
                   [at : {"new", "passed", "read", "acquired", "waiting", "answered",
                          "forwarded", "refused", "left"},
                    verdict : Verdicts \cup {Pending}]]
    /\ permits \in Nat
    /\ jobs \in Seq(WasmCallers)
    /\ guest \in [GuestWorkers -> WasmCallers \cup {NoJob}]

\* A request to a configured route goes on only when the guest ran on that request and
\* let it pass: whatever fails, refuses it ("Failures are fail-closed").
FailsClosed ==
    \A c \in WasmCallers :
        wasm[c].at = "forwarded" => wasm[c].verdict \in {"continue", "modify"}

HoldsPermit(c) == wasm[c].at \in {"acquired", "waiting", "answered"}

\* Every permit is free or held by a request under way, in particular after a failed send
\* and after a client left (queue_permits): the middleware never wedges itself shut.
PermitsComeBack ==
    permits + Cardinality({c \in WasmCallers : HoldsPermit(c)}) = QueueCapacity

\* try_send of a request that got a permit finds room, unless the queue still holds the
\* job of a client that left (handle_request).
PermitsMeanRoom ==
    [][\A c \in WasmCallers :
          wasm[c].at = "acquired" /\ wasm'[c].at = "refused" =>
              \E i \in 1..Len(jobs) : wasm[jobs[i]].at = "left"]_wasmVars

\* A request that waits for the guest gets an answer or leaves: a worker thread outlives
\* every error of the guest (worker_loop).
WaitersAreAnswered ==
    \A c \in WasmCallers : wasm[c].at = "waiting" ~> wasm[c].at # "waiting"

(***************************************************************************)
(* A request goes on only past guests that let it, and every permit comes  *)
(* back and stands for room in the queue (handle_request).                 *)
(***************************************************************************)
WasmIsSafe == [](WasmTypeOK /\ FailsClosed /\ PermitsComeBack) /\ PermitsMeanRoom
=============================================================================
