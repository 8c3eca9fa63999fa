-------------------------- MODULE ProgramScheduler --------------------------
(***************************************************************************)
(* The Program scheduler as its callers see it: every action is one        *)
(* critical section of the state mutex, and between two of them any other  *)
(* caller may run.  A task is one acquire call, from the moment it has     *)
(* retained its request until it owns a dispatch or gives up.              *)
(***************************************************************************)
EXTENDS SchedulerOps

CONSTANTS MaxRequests,   \* bound on requests ever retained
          MaxSyncs,      \* bound on target snapshots that change a pool
          Snapshots,     \* target sets a pool may be synchronized to
          InitialTargets,\* the first snapshot of every pool
          Contexts,      \* context sizes
          Hints,         \* hints of a request: output and priority
          Deadlines,     \* whether a force deadline may pass on arrival
          Estimates,     \* occupancies a metrics scrape may report
          BackendWaiting,\* whether it may report waiting requests
          Terminations   \* the terminate flags callers of complete pass

VARIABLES s,           \* ProgramSchedulerState
          tasks,       \* acquire calls waiting for a dispatch
          dispatches,  \* dispatches whose completion is outstanding
          syncs        \* snapshots applied so far

vars == <<s, tasks, dispatches, syncs>>

\* "claim" is about to run claim_dispatch ("last": with its queue deadline
\* passed), "arm" about to read the force deadline, "parked" waits for its
\* notification ("alarmed": or for a force deadline), "expired" drops its guard.
Task == [key : Keys, request : Nat,
         phase : {"claim", "last", "arm", "parked", "alarmed", "expired"}]

DispatchRecord ==
    [key : Keys, generation : Nat, request : Nat, target : Targets,
     epoch : Nat, start : BOOLEAN, birth : Nat]

TypeOK ==
    /\ s \in Scheduler
    /\ tasks \subseteq Task
    /\ dispatches \subseteq DispatchRecord
    /\ syncs \in Nat

Init ==
    /\ s = [rt |-> EmptyRuntime, dec |-> [k \in Keys |-> None],
            queues |-> [t \in Targets |-> {}], globals |-> [p \in Pools |-> {}],
            targets |-> [p \in Pools |-> InitialTargets],
            used |-> [t \in Targets |-> None], busy |-> {}, permits |-> {},
            finished |-> << >>, hints |-> << >>]
    /\ tasks = {} /\ dispatches = {} /\ syncs = 0

\* What the decisions read from the rolling statistics and the clock: a
\* choice for every Program that a decision of the next step may ask about.
Running == {k \in Keys : Live(s.rt, k) /\ s.rt.programs[k].state = "Active"}

VictimOrders == SetToSeqs(Keys)

Oracles ==
    [roomy : IF Capacity = None THEN {{}}
             ELSE SUBSET ((Keys \ Running) \X LiveTargets(s)),
     victims : IF Capacity = None \/ Cardinality(Running) < 2
               THEN {CHOOSE order \in VictimOrders : TRUE} ELSE VictimOrders,
     ripe : IF GlobalQueue THEN SUBSET (Keys \ Running) ELSE {{}},
     mature : IF GlobalQueue THEN BOOLEAN ELSE {FALSE},
     old : SUBSET {k \in Keys : CanPrune(s.rt, k)}]

\* The ranks a binding policy may pick from S.
Homes(S) == IF S = {} THEN {None} ELSE S
-----------------------------------------------------------------------------
\* acquire, from its lock until it is ready to claim.  The pool may have
\* been synchronized to another snapshot since the caller's own.
AcquireRequest(k) ==
    /\ Len(s.hints) < MaxRequests
    /\ \E hint \in Hints, context \in Contexts, force \in Deadlines,
          home \in Homes(s.targets[PoolOf[k]]), o \in Oracles :
          LET retained == ArriveRetained(s, k, hint, context, home)
              r == retained.rt.nextRequestId
          IN  /\ s' = Arrive(s, k, hint, context, home, force, o)
              /\ tasks' = IF ArrivalFails(retained, k) THEN tasks
                          ELSE tasks \cup {[key |-> k, request |-> r, phase |-> "claim"]}
    /\ UNCHANGED <<dispatches, syncs>>

Step(task, phase) == tasks' = (tasks \ {task}) \cup {[task EXCEPT !.phase = phase]}

ClaimDispatch(task) ==
    LET k == task.key
        placed == Live(s.rt, k) /\ s.rt.programs[k].placement # None
    IN  /\ task.phase \in {"claim", "last"}
        /\ s' = IF placed THEN Claim(s, k, task.request) ELSE s
        /\ IF placed /\ IsFront(s.rt, k, task.request)
           THEN /\ dispatches' = dispatches \cup {Dispatch(s.rt, k, task.request, 0)}
                /\ tasks' = tasks \ {task}
           ELSE /\ \/ Step(task, "expired")
                   \/ task.phase = "claim" /\ Step(task, "arm")
                /\ UNCHANGED dispatches
        /\ UNCHANGED syncs

ReadForceDeadline(task) ==
    /\ task.phase = "arm"
    /\ Step(task, IF s.dec[task.key] # None /\ s.dec[task.key].force # "none"
                  THEN "alarmed" ELSE "parked")
    /\ UNCHANGED <<s, dispatches, syncs>>

WakeNotified(task) ==
    /\ task.phase \in {"parked", "alarmed"} /\ task.request \in s.permits
    /\ s' = [s EXCEPT !.permits = @ \ {task.request}]
    /\ Step(task, "claim")
    /\ UNCHANGED <<dispatches, syncs>>

\* The wait ends at the force deadline it was given or at the queue deadline.
WakeTimedOut(task, phase) ==
    /\ task.phase \in {"parked", "alarmed"}
    /\ phase = "claim" => task.phase = "alarmed"
    /\ \E o \in Oracles : s' = RunArrivalDecisions(s, o)
    /\ Step(task, phase)
    /\ UNCHANGED <<dispatches, syncs>>

\* Dropping the AdmissionGuard: the queue deadline passed, or the caller went
\* away while the task was parked.
DropGuard(task) ==
    /\ task.phase \in {"expired", "parked", "alarmed"}
    /\ tasks' = tasks \ {task}
    /\ UNCHANGED <<dispatches, syncs>>
    /\ \E o \in Oracles : s' = CancelRetained(s, task.key, task.request, o)

CompleteRequest(d) ==
    /\ \E c \in [success : BOOLEAN, terminate : Terminations, context : Contexts,
                 continuous : BOOLEAN, ttl : {"armed", "due"}], o \in Oracles :
          s' = CompleteDispatch(s, d, c, o)
    /\ dispatches' = dispatches \ {d}
    /\ UNCHANGED <<tasks, syncs>>

\* The observation loop skips its tick when no pool has a rank.
Tick ==
    /\ LiveTargets(s) # {}
    /\ UNCHANGED <<tasks, dispatches, syncs>>
    /\ \E o \in Oracles : s' = RunPeriodicDecisions(s, o)

SyncPool(p, S) ==
    /\ syncs < MaxSyncs /\ S # s.targets[p]
    /\ \E home \in [Keys -> Homes(S)] : s' = SyncTargets(s, p, S, home)
    /\ syncs' = syncs + 1
    /\ UNCHANGED <<tasks, dispatches>>

ObserveTarget(t) ==
    /\ t \in LiveTargets(s)
    /\ \E estimate \in Estimates, waiting \in BackendWaiting : s' = Observe(s, t, estimate, waiting)
    /\ UNCHANGED <<tasks, dispatches, syncs>>
-----------------------------------------------------------------------------
(***************************************************************************)
(* Time: a deadline that is set passes at some point.                      *)
(***************************************************************************)
Passes(k, timer) ==
    /\ s.dec[k] # None /\ s.dec[k][timer] = "armed"
    /\ s' = [s EXCEPT !.dec[k][timer] = "due"]
    /\ UNCHANGED <<tasks, dispatches, syncs>>

TaskStep(task) ==
    \/ ClaimDispatch(task) \/ ReadForceDeadline(task) \/ WakeNotified(task)
    \/ WakeTimedOut(task, "claim") \/ WakeTimedOut(task, "last") \/ DropGuard(task)

\* Everything but the periodic loop.
Event ==
    \/ \E k \in Keys : AcquireRequest(k)
    \/ \E task \in tasks : TaskStep(task)
    \/ \E d \in dispatches : CompleteRequest(d)
    \/ \E p \in Pools, S \in Snapshots : SyncPool(p, S)
    \/ \E t \in Targets : ObserveTarget(t)
    \/ \E k \in Keys, timer \in {"force", "ttl", "retention"} : Passes(k, timer)

Next == Event \/ Tick

Spec == Init /\ [][Next]_vars
-----------------------------------------------------------------------------
(***************************************************************************)
(* What the scheduler tells its operators (diagnostics.rs): the gauges that*)
(* every tick publishes, and the report that is built on demand.  Both only*)
(* read the scheduler's state.  Identities, clocks and rolling averages,   *)
(* which they copy, are left out.                                          *)
(***************************************************************************)

\* publish_metrics: a rank's waiting and active Programs.  An active Program counts where
\* it is placed, another one where it ran last.
Gauge(t) ==
    [active |-> Cardinality(ActiveOn(s, t)),
     queued |-> Cardinality({k \in Keys : /\ Live(s.rt, k)
                                          /\ s.rt.programs[k].state # "Active"
                                          /\ s.rt.pool[k] # << >>
                                          /\ s.dec[k] # None /\ s.dec[k].lastTarget = t})]

\* The row of a Program
ProgramDiagnostic(k) ==
    [program |-> k, state |-> s.rt.programs[k].state, status |-> s.rt.programs[k].status,
     private_tokens |-> Tokens(s.dec[k]), in_flight_requests |-> s.rt.programs[k].inFlight,
     waiting_requests |-> Len(s.rt.pool[k]), pause_when_idle |-> s.dec[k].pauseWhenIdle]

\* programs_by_target: every row is under the rank where the Program ran last.
Rows(t) ==
    {ProgramDiagnostic(k) : k \in {m \in Keys : Live(s.rt, m) /\ s.dec[m] # None
                                                /\ s.dec[m].lastTarget = t}}

RouterQueuedPrograms(rows) ==
    Cardinality({r \in rows : r.state = "Paused" /\ r.waiting_requests > 0})

SumOver(rows, field) == MapThenSumSet(LAMBDA r : r[field], rows)

\* The report on a rank
RankDiagnostic(t) ==
    LET rows == Rows(t)
        are(state, status) == {r \in rows : r.state = state /\ r.status = status}
        used == TargetUsage(s, t)
    IN  [router_estimated_used_tokens      |-> used,
         router_estimated_headroom_tokens  |-> IF Capacity = None THEN None
                                               ELSE AtLeastZero(Capacity - used),
         tracked_active_reasoning_requests |-> SumOver(are("Active", "Reasoning"), "in_flight_requests"),
         future_pause_relief_tokens        |->
             SumOver({r \in are("Active", "Reasoning") : r.pause_when_idle}, "private_tokens"),
         active_acting_private_tokens      |-> SumOver(are("Active", "Acting"), "private_tokens"),
         router_active_programs            |-> Cardinality({r \in rows : r.state = "Active"}),
         router_active_reasoning_programs  |-> Cardinality(are("Active", "Reasoning")),
         router_active_acting_programs     |-> Cardinality(are("Active", "Acting")),
         router_paused_reasoning_programs  |-> Cardinality(are("Paused", "Reasoning")),
         router_paused_acting_programs     |-> Cardinality(are("Paused", "Acting")),
         router_in_flight_requests         |-> SumOver(rows, "in_flight_requests"),
         router_queued_programs            |-> RouterQueuedPrograms(rows),
         router_queued_requests            |-> SumOver(rows, "waiting_requests")]

\* retained_request_count
RetainedRequests == MapThenSumSet(LAMBDA k : Len(s.rt.pool[k]), Keys)
-----------------------------------------------------------------------------
(***************************************************************************)
(* The queues hold exactly the paused Programs with retained requests, each*)
(* in the queue of the rank it is bound to (of its pool, with a global     *)
(* queue): none is lost, queued twice, or left behind by an admission, a   *)
(* cancellation, a release or a failover (rank_queues, global_queues).     *)
(***************************************************************************)
QueuesAreExact ==
    /\ \A k \in Keys, t \in Targets :
           k \in s.queues[t] <=> ~GlobalQueue /\ IsWaiter(s, k) /\ s.dec[k].lastTarget = t
    /\ \A k \in Keys, p \in Pools :
           /\ k \in s.globals[p] => GlobalQueue /\ IsWaiter(s, k) /\ PoolOf[k] = p
           /\ GlobalQueue /\ IsWaiter(s, k) /\ PoolOf[k] = p /\ s.dec[k].lastTarget # None
                  => k \in s.globals[p]

(***************************************************************************)
(* decisions has an entry for exactly the live Programs, so the lookups    *)
(* state.decisions[..] of ordering and repair cannot panic.                *)
(***************************************************************************)
DecisionsMatchPrograms == \A k \in Keys : s.dec[k] # None <=> Live(s.rt, k)

(***************************************************************************)
(* An active Program runs on the rank its decision names, and that rank is *)
(* in its pool: no sync leaves a Program on a rank that has disappeared,   *)
(* and cancel_retained_request relieves the right rank.                    *)
(***************************************************************************)
PlacedWhereBound ==
    \A k \in Keys : Live(s.rt, k) /\ s.rt.programs[k].state = "Active" =>
        /\ s.rt.programs[k].placement = s.dec[k].lastTarget
        /\ s.dec[k].lastTarget \in s.targets[PoolOf[k]]

(***************************************************************************)
(* No lost wakeup: a task that waits, or is about to, while its request is *)
(* first in line on a placed Program has a notification pending.  The      *)
(* future of Notify is created before claim_dispatch, and admissions,      *)
(* dispatches and cancellations notify the next front.                     *)
(***************************************************************************)
NoLostWakeup ==
    \A task \in tasks :
        /\ task.phase \in {"arm", "parked", "alarmed"}
        /\ s.rt.programs[task.key].placement # None
        /\ IsFront(s.rt, task.key, task.request)
        => task.request \in s.permits

(***************************************************************************)
(* Every acquire call still waiting has its request retained, so that its  *)
(* guard cancels what it owns and a claim refers to a live Program.        *)
(***************************************************************************)
TasksAreRetained ==
    \A task \in tasks : Live(s.rt, task.key) /\ Retained(s.rt, task.key, task.request)

(***************************************************************************)
(* docs/program_scheduling.md on request-scoped state: "They are retained  *)
(* with exactly one RequestPool entry; dispatch transfers them only to     *)
(* that exact in-flight request, and completion or cancellation drops      *)
(* them."  Every retained request has an acquire call that will.           *)
(***************************************************************************)
RetainedIsOwned ==
    \A k \in Keys : \A i \in DOMAIN s.rt.pool[k] :
        \E task \in tasks : task.key = k /\ task.request = s.rt.pool[k][i]

(***************************************************************************)
(* A Program marked to pause at its idle boundary still has a request in   *)
(* flight that will bring it there.  repair_capacity subtracts the relief  *)
(* of marked Programs, so a mark that outlives its reason would hide real  *)
(* pressure for ever.                                                      *)
(***************************************************************************)
MarkedWillPause ==
    \A k \in Keys : s.dec[k] # None /\ s.dec[k].pauseWhenIdle =>
        /\ s.rt.programs[k].state = "Active"
        /\ s.rt.programs[k].inFlight > 0

(***************************************************************************)
(* router/docs/program_scheduling.md: "Their TTL and terminal lifecycle are*)
(* responsible for moving them out of ACTIVE state": an active Program     *)
(* without requests always has a TTL deadline.                             *)
(***************************************************************************)
ActingHasDeadline ==
    \A k \in Keys :
        Live(s.rt, k) /\ s.rt.programs[k].state = "Active" /\ s.rt.programs[k].status = "Acting"
            => s.dec[k].ttl # "none"

(***************************************************************************)
(* Queues, decisions, placements, tasks and deadlines agree with the       *)
(* Programs.                                                               *)
(***************************************************************************)
SchedulerIsCoherent ==
    /\ TypeOK /\ QueuesAreExact /\ DecisionsMatchPrograms /\ PlacedWhereBound
    /\ TasksAreRetained /\ ActingHasDeadline

\* The gauges, which go by placement, and the report, which goes by the last rank, count
\* the same Programs on every rank, and the queue of a rank is as long as both say
\* (publish_metrics, diagnostics).
ReportsAgree ==
    \A t \in LiveTargets(s) :
        LET rank == RankDiagnostic(t)
        IN  /\ Gauge(t).active = rank.router_active_programs
            /\ Gauge(t).queued = rank.router_queued_programs
            /\ ~GlobalQueue => rank.router_queued_programs = Cardinality(s.queues[t])

\* The report loses no request: while every pool has a rank, the requests of its ranks are
\* those the scheduler retains and those in flight (retained_requests, router_queued_requests,
\* router_in_flight_requests).
ReportsCountEveryRequest ==
    (\A p \in Pools : s.targets[p] # {}) =>
        LET over(field) == MapThenSumSet(LAMBDA t : RankDiagnostic(t)[field], LiveTargets(s))
        IN  /\ over("router_queued_requests") = RetainedRequests
            /\ over("router_in_flight_requests")
                   = MapThenSumSet(LAMBDA k : IF Live(s.rt, k) THEN s.rt.programs[k].inFlight ELSE 0, Keys)

(***************************************************************************)
(* At every moment queues, decisions, placements, tasks and deadlines agree*)
(* with the Programs, and so does what is reported of them.                *)
(***************************************************************************)
StateIsCoherent == SchedulerIsCoherent /\ ReportsCountEveryRequest /\ ReportsAgree

(***************************************************************************)
(* An admission that no force deadline excuses leaves its rank within      *)
(* max_active_programs_per_target and under the low watermark, however     *)
(* many Programs one pass admits (rank_admission_plan, commit_admission).  *)
(***************************************************************************)
Admits ==
    \A t \in Targets :
       LET new == ActiveOn(s', t) \ ActiveOn(s, t)
       IN  new # {} /\ (\A k \in new : s.dec[k] = None \/ ~Forced(s, k))
           => /\ Cardinality(ActiveOn(s', t)) <= MaxActive
              /\ Capacity # None => TargetUsage(s', t) <= Low
AdmissionWithinLimits == [][Admits]_vars

(***************************************************************************)
(* After a tick or a cancellation no waiter is left that its own rank      *)
(* could take at once: the pass does not stop early, whatever the order of *)
(* the queue.  (Growth reserves, which may keep a Program out, are left    *)
(* aside: only force deadlines count when there is a token capacity.)      *)
(***************************************************************************)
PassIsExhaustive ==
    [][(\E k \in Keys, t \in Targets :
           IsWaiter(s', k) /\ s'.dec[k].lastTarget = t /\ Admissible(s', k, t, [roomy |-> {}]))
           => ~Tick /\ ~\E task \in tasks : DropGuard(task)]_vars

(***************************************************************************)
(* A pass admits all it may and nothing it may not.                        *)
(***************************************************************************)
PassesAreExact == AdmissionWithinLimits /\ PassIsExhaustive

(***************************************************************************)
(* A tick that leaves a rank above its high watermark has paused or marked *)
(* every Program it may: repair does not stop between the watermarks, and  *)
(* no mark is counted twice (repair_capacity).                             *)
(***************************************************************************)
Repairs ==
    (\E t \in LiveTargets(s') :
        /\ Projected(s', t) > High /\ Victims(s', t) # {}
        /\ ~\E k \in ActiveOn(s', t) \ ActiveOn(s, t) : Forced(s, k))
        => ~Tick

(***************************************************************************)
(* scheduler_global.rs: a Program that has not been paused yet is admitted *)
(* on the rank its first binding chose, even from a pool-wide queue.       *)
(***************************************************************************)
StaysHome ==
    \A k \in Keys :
       s.dec[k] # None /\ s.dec[k].reason = None /\ IsWaiter(s, k)
       /\ Live(s'.rt, k) /\ s'.rt.programs[k].placement # None
           => s'.rt.programs[k].placement = s.dec[k].lastTarget

(***************************************************************************)
(* Seen by its callers, the scheduler is an AdmissionService: whatever the *)
(* pauses, failovers and passes, the requests of a Program are dispatched  *)
(* in their order of arrival, once, and only while their callers wait.     *)
(***************************************************************************)
Service ==
    INSTANCE AdmissionService WITH
        issued <- s.rt.nextRequestId, waiting <- s.rt.pool,
        running <- {<<d.key, d.request, d.target>> : d \in dispatches}

ImplementsService == Service!Spec
=============================================================================
