---------------------------- MODULE SchedulerOps ----------------------------
(***************************************************************************)
(* The decisions of program_scheduling/scheduler*.rs on the value that the *)
(* scheduler's mutex protects.  Each operator takes that value s to the    *)
(* next one, as the Rust methods take &mut ProgramSchedulerState; module   *)
(* ProgramScheduler composes them into whole critical sections.            *)
(*                                                                         *)
(* Instants are abstracted to what the comparisons tell apart: a deadline  *)
(* is a timer that is "none", "armed" or "due", and an arrival instant is  *)
(* the number of the request that arrived then (zero for None, which       *)
(* Option orders first).  What depends on measured rates (growth reserve,  *)
(* batch gain, victim scores, window maturity) is an oracle o.             *)
(***************************************************************************)
EXTENDS RuntimeOps

CONSTANTS Pools,              \* model pools
          PoolOf,             \* the pool of each Program
          MaxActive,          \* max_active_programs_per_target
          Capacity,           \* token_capacity, or None
          High, Low,          \* capacity times the watermark ratios
          DecodeBuffer,       \* decode_buffer_tokens
          AverageCompletion,  \* average_completion_tokens of every rank
          HeadroomRatio,      \* cross_rank_headroom_ratio
          MaxSegmentRounds,   \* max_segment_rounds
          ResumeOrder,        \* "mru" or "fcfs"
          GlobalQueue,        \* global_queue
          BindingOnly         \* binding_only

ASSUME SchedulerAssumption ==
    /\ Keys \subseteq Nat  \* program ids are ordered
    /\ PoolOf \in [Keys -> Pools]
    /\ Low <= High
    /\ ResumeOrder \in {"mru", "fcfs"}

Timer == {"none", "armed", "due"}

Reasons == {"ttl", "repair", "yield", "failed", "cancelled"}

\* ProgramDecisionState; context stands for the private part of the context.
Decision ==
    [lastTarget : Targets \cup {None}, context : Nat, output : Nat \cup {None},
     completed : BOOLEAN, rounds : 0 .. MaxSegmentRounds, queuedAt : Nat,
     force : Timer, ttl : Timer, retention : Timer, reason : Reasons \cup {None},
     pauseWhenIdle : BOOLEAN, terminateWhenIdle : BOOLEAN]

(***************************************************************************)
(* ProgramSchedulerState.  finished lists Programs from the least to the   *)
(* most recent last_request_finished_at.  used is the observed occupancy   *)
(* plus the deltas since (None without a fresh estimate), busy the targets *)
(* with a fresh waiting count at the threshold.  permits are requests with *)
(* a stored Notify permit; hints are the hints of every request so far.    *)
(***************************************************************************)
Scheduler ==
    [rt : Runtime, dec : [Keys -> Decision \cup {None}],
     queues : [Targets -> SUBSET Keys], globals : [Pools -> SUBSET Keys],
     targets : [Pools -> SUBSET Targets], used : [Targets -> Int \cup {None}],
     busy : SUBSET Targets, permits : SUBSET Nat, finished : Seq(Keys),
     hints : Seq([output : Nat \cup {None}, priority : Int])]

NewDecision(home, context, output, request) ==
    [lastTarget |-> home, context |-> context, output |-> output,
     completed |-> FALSE, rounds |-> 0, queuedAt |-> request, force |-> "none",
     ttl |-> "none", retention |-> "armed", reason |-> None,
     pauseWhenIdle |-> FALSE, terminateWhenIdle |-> FALSE]

LiveTargets(s) == UNION {s.targets[p] : p \in Pools}

AtLeastZero(n) == Max({n, 0})

\* Option::or
OrElse(x, y) == IF x # None THEN x ELSE y

\* private_tokens_with_output and private_tokens
TokensWith(d, output) == d.context + OrElse(output, OrElse(d.output, DecodeBuffer))

Tokens(d) == TokensWith(d, None)

TokensOf(s, K) == MapThenSumSet(LAMBDA k : Tokens(s.dec[k]), K)

ActiveOn(s, t) ==
    {k \in Keys : Live(s.rt, k) /\ s.rt.programs[k].state = "Active"
                                /\ s.rt.programs[k].placement = t}

WithStatus(s, K, status) == {k \in K : s.rt.programs[k].status = status}

\* The filter every scheduling pass applies to its queue.
IsWaiter(s, k) ==
    /\ Live(s.rt, k)
    /\ s.rt.programs[k].state = "Paused"
    /\ s.rt.programs[k].status = "Reasoning"
    /\ s.rt.pool[k] # << >>

ObservedOr(s, t, ledger) ==
    IF s.used[t] = None THEN ledger ELSE AtLeastZero(s.used[t])

TargetUsage(s, t) == ObservedOr(s, t, TokensOf(s, ActiveOn(s, t)))

AdjustUsage(s, t, delta) ==
    [s EXCEPT !.used[t] = IF @ = None THEN None ELSE @ + delta]

Dequeue(s, k) ==
    [s EXCEPT !.queues = [t \in Targets |-> @[t] \ {k}],
              !.globals = [p \in Pools |-> @[p] \ {k}]]

NotifyFront(s, k) ==
    [s EXCEPT !.permits = IF s.rt.pool[k] = << >> THEN @
                          ELSE @ \cup {Head(s.rt.pool[k])}]

FrontHints(s, k) == s.hints[Head(s.rt.pool[k])]

Forced(s, k) == s.dec[k].force = "due"
-----------------------------------------------------------------------------
(***************************************************************************)
(* Resume order: the smaller key, lexicographically, resumes first.        *)
(***************************************************************************)
Before(u, v) ==
    \E i \in DOMAIN u : u[i] < v[i] /\ \A j \in 1 .. i - 1 : u[j] = v[j]

FinishRank(s, k) ==
    IF \E i \in DOMAIN s.finished : s.finished[i] = k
    THEN CHOOSE i \in DOMAIN s.finished : s.finished[i] = k
    ELSE 0

\* resume_tier_cmp and segment_yield_cmp
Tier(s, k) == <<IF Forced(s, k) THEN 0 ELSE 1, -FrontHints(s, k).priority,
                IF s.dec[k].reason = "yield" THEN 1 ELSE 0>>

CrossKey(s, k) == Tier(s, k) \o <<s.dec[k].queuedAt, k>>

ResumeKey(s, k) ==
    IF ResumeOrder = "fcfs" THEN CrossKey(s, k)
    ELSE Tier(s, k) \o <<-FinishRank(s, k), s.dec[k].queuedAt, k>>

First(K, Key(_)) == CHOOSE k \in K : \A m \in K \ {k} : Before(Key(k), Key(m))
-----------------------------------------------------------------------------
(***************************************************************************)
(* rank_admission_plan: may the waiter k run on t now?  The waiting gate   *)
(* holds back forced waiters too.  o.roomy has <<k, t>> when k's growth    *)
(* reserve fits on t, or its batch gain pays for it.                       *)
(***************************************************************************)
\* Mutant: the candidate itself is not counted.
FitsOffByOne(s, k, t, o) == Cardinality(ActiveOn(s, t)) <= MaxActive

Fits(s, k, t, o) ==
    /\ Cardinality(ActiveOn(s, t)) + 1 <= MaxActive
    /\ Capacity # None =>
           /\ TargetUsage(s, t) + TokensWith(s.dec[k], FrontHints(s, k).output) <= Low
           /\ <<k, t>> \in o.roomy

Admissible(s, k, t, o) ==
    /\ s.dec[k] # None
    /\ GlobalQueue \/ s.dec[k].lastTarget = t
    /\ IsWaiter(s, k)
    /\ t \notin s.busy
    /\ Forced(s, k) \/ Fits(s, k, t, o)

CommitAdmission(s, k, t) ==
    LET d == [s.dec[k] EXCEPT !.lastTarget = t, !.rounds = 0, !.ttl = "none",
                              !.retention = "none", !.reason = None,
                              !.pauseWhenIdle = FALSE, !.queuedAt = 0,
                              !.force = "none"]
        admitted == [s EXCEPT !.rt = Activate(s.rt, k, t), !.dec[k] = d]
    IN  NotifyFront(Dequeue(AdjustUsage(admitted, t, Tokens(d)), k), k)

\* pause_idle of the scheduler, around pause_idle of the runtime
Pause(s, k, reason) ==
    LET d == [s.dec[k] EXCEPT !.retention = "armed", !.reason = reason,
                              !.rounds = 0, !.ttl = "none", !.pauseWhenIdle = FALSE]
        paused == [s EXCEPT !.rt = PauseIdle(s.rt, k), !.dec[k] = d]
    IN  IF CanPauseIdle(s.rt, k)
        THEN AdjustUsage(paused, s.rt.programs[k].placement, -Tokens(d)) ELSE s

Release(s, k) ==
    LET released == [Dequeue(s, k) EXCEPT !.rt = ReleaseIdle(s.rt, k),
                                          !.dec[k] = None,
                                          !.finished = SelectSeq(@, LAMBDA m : m # k)]
        t == s.rt.programs[k].placement
    IN  CASE ~CanReleaseIdle(s.rt, k) -> Dequeue(s, k)
          [] s.rt.programs[k].state = "Active" ->
                 AdjustUsage(released, t, -Tokens(s.dec[k]))
          [] OTHER -> released
-----------------------------------------------------------------------------
(***************************************************************************)
(* The scheduling pass: admit the first admissible waiter until none is.   *)
(***************************************************************************)
\* n applications of Step to s
Repeat(Step(_), s, n) ==
    LET after[i \in 0 .. n] == IF i = 0 THEN s ELSE Step(after[i - 1])
    IN  after[n]

AdmitLocal(s, t, o) ==
    LET K == {k \in s.queues[t] : Admissible(s, k, t, o)}
        k == First(K, LAMBDA m : ResumeKey(s, m))
    IN  IF K = {} THEN s ELSE CommitAdmission(s, k, t)

ScheduleRankLocal(s, o) ==
    FoldSet(LAMBDA t, r : Repeat(LAMBDA q : AdmitLocal(q, t, o), r, Cardinality(Keys)),
            s, Targets)

\* First loop of schedule_global_waiting: resume where the Program ran last.
AdmitAffine(s, p, o) ==
    LET K == {k \in s.globals[p] : /\ s.dec[k].lastTarget # None
                                   /\ Admissible(s, k, s.dec[k].lastTarget, o)}
        k == First(K, LAMBDA m : ResumeKey(s, m))
    IN  IF K = {} THEN s ELSE CommitAdmission(s, k, s.dec[k].lastTarget)

\* higher_priority_source_waiters >= 1; o.ripe waited for a metrics interval.
Overtaken(s, k, o) ==
    \E m \in s.globals[PoolOf[k]] \ {k} :
        /\ IsWaiter(s, m)
        /\ s.dec[m].lastTarget = s.dec[k].lastTarget
        /\ s.dec[m].queuedAt # 0 /\ m \in o.ripe
        /\ Before(ResumeKey(s, m), ResumeKey(s, k))

Headroom(s, t) == AtLeastZero(Low - TargetUsage(s, t))

\* Mutant: the first binding may be rerun.
MayMoveWhenNew(s, k, t) == s.dec[k].lastTarget \notin {None, t} /\ t \in s.targets[PoolOf[k]]

\* Only a Program that was paused moves, to another rank of its pool.
MayMove(s, k, t) ==
    /\ s.dec[k].reason # None
    /\ s.dec[k].lastTarget \notin {None, t}
    /\ t \in s.targets[PoolOf[k]]

\* The filters of select_cross_rank_admission; o.mature says whether the
\* request windows of both ranks are complete.
CrossAdmissible(s, k, t, o) ==
    LET source == s.dec[k].lastTarget
    IN  /\ IsWaiter(s, k)
        /\ MayMove(s, k, t)
        /\ ~\E m \in s.globals[PoolOf[k]] \ {k} :
               IsWaiter(s, m) /\ s.dec[m].lastTarget = t
        /\ o.mature /\ s.dec[k].queuedAt # 0 /\ k \in o.ripe
        /\ source \in s.busy \/ Overtaken(s, k, o)
        /\ Capacity # None =>
               Headroom(s, t) >= Headroom(s, source) + HeadroomRatio * s.dec[k].context
        /\ Admissible(s, k, t, o)

Pressure(s, t) ==
    <<IF Capacity = None THEN 0 ELSE TargetUsage(s, t), Cardinality(ActiveOn(s, t))>>

AdmitCrossRank(s, p, o) ==
    LET To(k) == {t \in Targets : CrossAdmissible(s, k, t, o)}
        K == {k \in s.globals[p] : To(k) # {}}
        k == First(K, LAMBDA m : CrossKey(s, m))
        t == CHOOSE u \in To(k) : \A v \in To(k) : ~Before(Pressure(s, v), Pressure(s, u))
    IN  IF K = {} THEN s ELSE CommitAdmission(s, k, t)

ScheduleGlobal(s, o) ==
    FoldSet(LAMBDA p, r :
                Repeat(LAMBDA q : AdmitCrossRank(q, p, o),
                       Repeat(LAMBDA q : AdmitAffine(q, p, o), r, Cardinality(Keys)),
                       Cardinality(Keys)),
            s, Pools)

ScheduleWaiting(s, o) ==
    IF GlobalQueue THEN ScheduleGlobal(s, o) ELSE ScheduleRankLocal(s, o)
-----------------------------------------------------------------------------
(***************************************************************************)
(* Deadlines and capacity repair.                                          *)
(***************************************************************************)
ExpireActingTtls(s) ==
    LET expired == {k \in Keys : /\ Live(s.rt, k)
                                 /\ s.rt.programs[k].state = "Active"
                                 /\ s.rt.programs[k].status = "Acting"
                                 /\ s.rt.programs[k].inFlight = 0
                                 /\ s.dec[k] # None /\ s.dec[k].ttl = "due"}
    IN  FoldSet(LAMBDA k, r : Pause(r, k, "ttl"), s, expired)

ReleaseExpiredPaused(s) ==
    LET expired == {k \in Keys : /\ Live(s.rt, k)
                                 /\ s.rt.programs[k].state = "Paused"
                                 /\ s.rt.programs[k].status = "Acting"
                                 /\ Idle(s.rt, k)
                                 /\ s.dec[k] # None /\ s.dec[k].retention = "due"}
    IN  FoldSet(LAMBDA k, r : Release(r, k), s, expired)

\* Programs on t already marked to pause at their next idle boundary.
Marked(s, t) ==
    {k \in WithStatus(s, ActiveOn(s, t), "Reasoning") : s.dec[k].pauseWhenIdle}

Victims(s, t) ==
    {k \in ActiveOn(s, t) :
        IF s.rt.programs[k].status = "Acting" THEN s.rt.programs[k].inFlight = 0
        ELSE ~s.dec[k].pauseWhenIdle /\ s.rt.programs[k].inFlight > 0}

\* Occupancy of t at the idle boundaries that earlier repairs wait for.
Projected(s, t) ==
    AtLeastZero(ObservedOr(s, t, TokensOf(s, ActiveOn(s, t)))
        + AverageCompletion * Cardinality(WithStatus(s, ActiveOn(s, t), "Reasoning"))
        - TokensOf(s, Marked(s, t))
        - AverageCompletion * Cardinality(Marked(s, t)))

\* One victim of repair_capacity; r carries the state and the projection.
Relieve(r, k) ==
    LET acting == r.s.rt.programs[k].status = "Acting"
        relief == Tokens(r.s.dec[k]) + (IF acting THEN 0 ELSE AverageCompletion)
    IN  IF r.projected <= Low THEN r
        ELSE [s |-> IF acting THEN Pause(r.s, k, "repair")
                    ELSE [r.s EXCEPT !.dec[k].pauseWhenIdle = TRUE],
              projected |-> AtLeastZero(r.projected - relief)]

\* Mutant: repair waits for the capacity, not the watermark.
RepairAboveCapacity(s, t, o) ==
    LET victims == SelectSeq(o.victims, LAMBDA k : k \in Victims(s, t))
    IN  IF Projected(s, t) <= Capacity THEN s
        ELSE FoldLeft(Relieve, [s |-> s, projected |-> Projected(s, t)], victims).s

\* o.victims is the order of the scores.
RepairTarget(s, t, o) ==
    LET victims == SelectSeq(o.victims, LAMBDA k : k \in Victims(s, t))
    IN  IF Projected(s, t) <= High THEN s
        ELSE FoldLeft(Relieve, [s |-> s, projected |-> Projected(s, t)], victims).s

RepairCapacity(s, o) ==
    IF Capacity = None THEN s
    ELSE FoldSet(LAMBDA t, r : RepairTarget(r, t, o), s, LiveTargets(s))

RunArrivalDecisions(s, o) ==
    ScheduleWaiting(RepairCapacity(ExpireActingTtls(ReleaseExpiredPaused(s)), o), o)

\* o.old are the Programs whose release is older than the retention.
RunPeriodicDecisions(s, o) ==
    LET pruned == [s EXCEPT !.rt = FoldSet(LAMBDA k, r : IF CanPrune(r, k) THEN Prune(r, k) ELSE r,
                                           @, o.old)]
        swept == ReleaseExpiredPaused(ExpireActingTtls(pruned))
    IN  IF BindingOnly THEN swept ELSE ScheduleWaiting(RepairCapacity(swept, o), o)

\* yield_completed_segment
YieldSegment(s, k) ==
    LET t == s.rt.programs[k].placement
        queue == IF GlobalQueue
                 THEN {m \in s.globals[PoolOf[k]] : s.dec[m].lastTarget = t}
                 ELSE s.queues[t]
        waiters == {m \in queue : IsWaiter(s, m)} \ {k}
        waiter == First(waiters, LAMBDA m : ResumeKey(s, m))
    IN  IF /\ Live(s.rt, k)
           /\ s.rt.programs[k].state = "Active" /\ s.rt.programs[k].status = "Acting"
           /\ s.dec[k].rounds >= MaxSegmentRounds
           /\ waiters # {}
           /\ Tokens(s.dec[waiter]) > TokensOf(s, Marked(s, t))
        THEN Pause(s, k, "yield") ELSE s
-----------------------------------------------------------------------------
(***************************************************************************)
(* The critical section of acquire_synced.  home is the rank the binding   *)
(* policy picks for a new Program (None when the pool has none).           *)
(***************************************************************************)
EnsureDecision(s, k, context, output, home) ==
    IF s.dec[k] = None THEN NewDecision(home, context, output, s.rt.nextRequestId)
    ELSE [s.dec[k] EXCEPT !.context = Max({@, context}), !.output = output]

\* Mutant: no force deadline is set.
EnqueueWithoutDeadline(s, k, force) ==
    LET t == s.dec[k].lastTarget
    IN  [s EXCEPT !.queues[t] = @ \cup {k},
                  !.dec[k].queuedAt = IF @ = 0 THEN s.rt.nextRequestId ELSE @]

\* A paused Program enters its queue; every arrival sets the force deadline.
Enqueue(s, k, force) ==
    LET t == s.dec[k].lastTarget
    IN  [s EXCEPT !.queues[t] = IF GlobalQueue THEN @ ELSE @ \cup {k},
                  !.globals[PoolOf[k]] = IF GlobalQueue THEN @ \cup {k} ELSE @,
                  !.dec[k].queuedAt = IF @ = 0 THEN s.rt.nextRequestId ELSE @,
                  !.dec[k].force = force]

ActivateBindingOnly(s, k) ==
    CASE s.rt.programs[k].state = "Active" -> NotifyFront(s, k)
      [] s.dec[k].lastTarget = None -> s
      [] OTHER -> CommitAdmission(s, k, s.dec[k].lastTarget)

\* NoTargets after the request was retained: it stays in the pool.
ArrivalFails(s, k) == s.rt.programs[k].placement = None /\ s.dec[k].lastTarget = None

ArriveRetained(s, k, hint, context, home) ==
    LET retained == [s EXCEPT !.rt = Retain(s.rt, k), !.hints = Append(@, hint)]
    IN  [retained EXCEPT !.dec[k] = EnsureDecision(retained, k, context, hint.output, home)]

Arrive(s, k, hint, context, home, force, o) ==
    LET q == ArriveRetained(s, k, hint, context, home)
        placement == q.rt.programs[k].placement
        growth == Tokens(q.dec[k]) - (IF s.dec[k] = None THEN 0 ELSE Tokens(s.dec[k]))
        entered == CASE placement = None -> Enqueue(q, k, force)
                     [] placement # None /\ ~q.dec[k].pauseWhenIdle /\ growth > 0 ->
                            AdjustUsage(q, placement, growth)
                     [] OTHER -> q
    IN  CASE ArrivalFails(q, k) -> q
          [] BindingOnly -> ActivateBindingOnly(entered, k)
          [] OTHER -> RunArrivalDecisions(entered, o)

\* Mutant: the next request is not notified.
ClaimSilently(s, k, r) ==
    [s EXCEPT !.rt = AdmitFront(s.rt, k, r),
              !.permits = IF IsFront(s.rt, k, r) THEN @ \ {r} ELSE @]

\* claim_dispatch of a waiting request whose Program is placed
Claim(s, k, r) ==
    LET claimed == [s EXCEPT !.rt = AdmitFront(s.rt, k, r)]
    IN  IF IsFront(s.rt, k, r)
        THEN NotifyFront([claimed EXCEPT !.permits = @ \ {r}], k) ELSE claimed

\* A Program without retained requests leaves its queue.
LeaveIfEmpty(s, k) == IF s.rt.pool[k] = << >> THEN Dequeue(s, k) ELSE s

\* A Program cancelled before it ever completed a request is dropped.
DropUnstarted(s, k) == IF Idle(s.rt, k) /\ ~s.dec[k].completed THEN Release(s, k) ELSE s

\* cancel_retained_request
CancelRetained(s, k, r, o) ==
    LET front == IsFront(s.rt, k, r)
        q == [s EXCEPT !.rt = Cancel(s.rt, k, r), !.permits = @ \ {r}]
        notified == IF front THEN NotifyFront(q, k) ELSE q
        pausedNow == s.rt.programs[k].state = "Active" /\ q.rt.programs[k].state = "Paused"
        relieved == IF ~pausedNow THEN notified
                    ELSE AdjustUsage([notified EXCEPT
                             !.dec[k] = [@ EXCEPT !.retention = "armed",
                                                  !.reason = "cancelled", !.rounds = 0,
                                                  !.pauseWhenIdle = FALSE]],
                             s.dec[k].lastTarget, -Tokens(s.dec[k]))
    IN  ScheduleWaiting(DropUnstarted(LeaveIfEmpty(relieved, k), k), o)
-----------------------------------------------------------------------------
(***************************************************************************)
(* complete: c is what the response brought: whether it succeeded, whether *)
(* the Program ends, the context it leaves, whether the cache hit makes it *)
(* a continuous round, and the acting TTL ("due" for a TTL of zero).       *)
(***************************************************************************)
CompletionCounts(s, d) ==
    /\ CompletionIsCurrent(s.rt, d)
    /\ s.rt.programs[d.key].placement = d.target
    /\ s.dec[d.key] # None

\* completion_action: what becomes of a Program left without requests.
CompletionAction(s, k, c) ==
    CASE ~Idle(s.rt, k) -> "none"
      [] s.dec[k].terminateWhenIdle -> "terminate"
      [] s.dec[k].pauseWhenIdle -> "repair"
      [] ~c.success -> "failed"
      [] OTHER -> "ttl"

\* The statistics of the completed request.
Served(d, c, action) ==
    [d EXCEPT !.context = c.context,
              !.output = None,
              !.completed = @ \/ c.success,
              !.rounds = IF c.success /\ c.continuous THEN Min({@ + 1, MaxSegmentRounds}) ELSE @,
              !.ttl = IF action = "ttl" THEN c.ttl ELSE @]

\* A retained successor keeps the Program from its idle boundary, and
\* withdraws the mark to pause there.
MarkSurvives(s, k) ==
    s.dec[k].pauseWhenIdle /\ ~(s.rt.programs[k].inFlight = 0 /\ s.rt.pool[k] # << >>)

CompleteDispatch(s, d, c, o) ==
    LET k == d.key
        q == [s EXCEPT !.rt = Complete(s.rt, d)]
        marked == [q EXCEPT !.dec[k].pauseWhenIdle = MarkSurvives(q, k),
                            !.dec[k].terminateWhenIdle = @ \/ c.terminate]
        action == CompletionAction(marked, k, c)
        paused == IF action \in {"repair", "failed"} THEN Pause(marked, k, action) ELSE marked
        served == [paused EXCEPT
                      !.dec[k] = Served(@, c, action),
                      !.finished = IF c.success THEN Append(SelectSeq(@, LAMBDA m : m # k), k)
                                   ELSE @]
        charged == IF served.rt.programs[k].state = "Active"
                   THEN AdjustUsage(served, d.target, Tokens(served.dec[k]) - Tokens(s.dec[k]))
                   ELSE served
        ended == IF action = "terminate" THEN Release(charged, k) ELSE charged
    IN  IF ~CompletionCounts(s, d) THEN s
        ELSE RunPeriodicDecisions(IF BindingOnly THEN ended ELSE YieldSegment(ended, k), o)
-----------------------------------------------------------------------------
(***************************************************************************)
(* sync_target_snapshot_locked: pool p now has the ranks S.  Programs of   *)
(* the pool bound elsewhere are rebound (home is the binding policy's pick *)
(* for each); no scheduling pass follows.                                  *)
(***************************************************************************)
\* Mutant: the placement is not invalidated.
RebindInPlace(s, k, removed, home) == [Dequeue(s, k) EXCEPT !.dec[k].lastTarget = home]

Rebind(s, k, removed, home) ==
    LET invalidated == CanInvalidate(s.rt, k, removed)
        gone == s.dec[k].lastTarget \in removed
        d == [s.dec[k] EXCEPT !.lastTarget = home]
        lost == [d EXCEPT !.retention = "armed", !.pauseWhenIdle = FALSE, !.ttl = "none"]
        q == [Dequeue(s, k) EXCEPT !.rt = IF invalidated THEN Invalidate(s.rt, k) ELSE @,
                                   !.dec[k] = IF invalidated \/ gone THEN lost ELSE d]
    IN  CASE s.rt.pool[k] = << >> -> q
          [] GlobalQueue -> [q EXCEPT !.globals[PoolOf[k]] = @ \cup {k}]
          [] home = None -> q
          [] OTHER -> [q EXCEPT !.queues[home] = @ \cup {k}]

SyncTargets(s, p, S, home) ==
    LET removed == s.targets[p] \ S
        q == [s EXCEPT !.targets[p] = S,
                       !.queues = [t \in Targets |-> IF t \in removed THEN {} ELSE @[t]],
                       !.used = [t \in Targets |-> IF t \in removed THEN None ELSE @[t]],
                       !.busy = @ \ removed]
        affected == {k \in Keys : /\ PoolOf[k] = p /\ Live(s.rt, k) /\ s.dec[k] # None
                                  /\ s.dec[k].lastTarget \notin S}
    IN  FoldSet(LAMBDA k, r : Rebind(r, k, removed, home[k]), q, affected)

\* apply_observations for one target: a fresh estimate (or none) and whether
\* the backend reports waiting requests.
Observe(s, t, estimate, waiting) ==
    [s EXCEPT !.used[t] = estimate,
              !.busy = IF waiting THEN @ \cup {t} ELSE @ \ {t}]
=============================================================================
