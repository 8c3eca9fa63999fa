------------------------------- MODULE ProgressTtl -------------------------------
(***************************************************************************)
(* The arithmetic of Program scheduling: the rolling windows of            *)
(* program_scheduling/factors.rs, the Progress-TTL formulas of policy.rs,  *)
(* the rank admission plan that uses them (scheduler_admission.rs) and the *)
(* force-resume deadlines of scheduler_fairness.rs.  A ratio is kept as a  *)
(* numerator and a denominator, so that a comparison is exact; the utility *)
(* of a TTL, a log-normal fit in the code, is any function of the          *)
(* candidate TTLs.                                                         *)
(***************************************************************************)
EXTENDS Parts

Least(x, y) == IF x <= y THEN x ELSE y
Most(x, y) == IF x >= y THEN x ELSE y
Clamp(x, low, high) == Least(Most(x, low), high)

(***************************************************************************)
(* Windows.                                                                *)
(***************************************************************************)
\* Mutant: the window holds one sample too many.
PushWhenOver(window, sample, limit) ==
    IF limit = 0 THEN window
    ELSE Append(IF Len(window) > limit THEN Tail(window) ELSE window, sample)

\* push_bounded: the oldest sample leaves a full window.
PushBounded(window, sample, limit) ==
    IF limit = 0 THEN window
    ELSE Append(IF Len(window) = limit THEN Tail(window) ELSE window, sample)

WindowComplete(window, limit) == limit > 0 /\ Len(window) >= limit

\* average and optional_average, as <<sum, count>>.
AverageOf(values) == <<Total(values), Len(values)>>

\* average_context_growth_tokens: over the samples that have a growth.
NoGrowth == 99
ContextGrowth(window) == AverageOf(SelectSeq(window, LAMBDA g : g # NoGrowth))

\* request_throughput_per_second, from the times of completion: requests and the
\* seconds they took; <<0, 1>> when it cannot be told.
Throughput(times) ==
    IF Len(times) < 2 \/ times[Len(times)] <= times[1] THEN <<0, 1>>
    ELSE <<Len(times) - 1, times[Len(times)] - times[1]>>

\* target_rounds: twice the average segment, rounded up, in 1 .. max_rounds.
TargetRounds(rounds, limit, max_rounds) ==
    IF ~WindowComplete(rounds, limit) THEN 0
    ELSE Clamp((2 * Total(rounds) + Len(rounds) - 1) \div Len(rounds), 1, max_rounds)

(***************************************************************************)
(* fitted_acting_ttl: the candidate of the best utility, the later one of  *)
(* equals, among the TTLs up to what recomputing the context would cost.   *)
(***************************************************************************)
LongestWorth(max_acting_ttl, impact) == Least(max_acting_ttl, impact)

CandidateTtls(longest) ==
    <<0, Least(1, longest), longest>> \o [i \in 1 .. longest |-> i]

FittedTtl(complete, max_acting_ttl, impact, utility) ==
    LET longest == LongestWorth(max_acting_ttl, impact)
        worth(t) == IF t = 0 THEN 0 ELSE utility[t]
        better(best, t) == IF worth(t) >= worth(best) THEN t ELSE best
    IN  IF ~complete \/ longest = 0 \/ impact = 0 THEN 0
        ELSE FoldLeft(better, 0, CandidateTtls(longest))

(***************************************************************************)
(* rank_admission_plan and estimate_batch_gain.  r describes the rank: its *)
(* capacity under the low watermark, the tokens used, the growth of a      *)
(* context per round, the target rounds, the rounds left and the recovery  *)
(* cost of each protected Program, the running Programs and their          *)
(* contexts, the average seconds of a decode.                              *)
(***************************************************************************)
CountFits(r) == r.active < r.max_active

\* continuous_growth_reserve_tokens.
GrowthReserve(r) ==
    IF r.target_rounds = 0 THEN 0
    ELSE r.growth * (r.target_rounds + Total(r.remaining))

\* decode_throughput of n requests over a context, as <<requests, seconds>>.
DecodeThroughput(n, context) == <<n, 2 + n + context>>

\* The relative gain in throughput, as <<numerator, denominator>>.
RelativeGain(r) ==
    LET before == DecodeThroughput(r.running, r.context)
        after == DecodeThroughput(r.running + 1, r.context + r.candidate)
        gain == after[1] * before[2] - before[1] * after[2]
    IN  <<Most(gain, 0), before[1] * after[2]>>

\* Tokens of protected growth the rank has room for, before and after.
RoomBefore(r) ==
    Least(r.growth * Total(r.remaining), Most(r.low - r.used, 0))
RoomAfter(r) ==
    Least(r.growth * Total(r.remaining),
          Most(r.low - r.used - r.required - r.growth * r.target_rounds, 0))

\* estimate_batch_gain: the gain covers the candidate's recovery and what the
\* protected Programs lose, which is everything when no room is left for them.
GainAdmits(r) ==
    LET gain == RelativeGain(r)
        before == RoomBefore(r)
        after == RoomAfter(r)
    IN  /\ r.complete /\ r.running > 0 /\ r.decode_seconds > 0
        /\ IF r.growth = 0 \/ (after = 0 /\ before = 0)
           THEN r.decode_seconds * gain[1] >= r.recovery * gain[2]
           ELSE /\ after > 0
                /\ r.decode_seconds * gain[1] * after
                     >= (r.recovery * after + (before - after) * r.protected_cost) * gain[2]

\* rank_admission_plan without force: "plain", "gain" or "none".
RankPlan(r) ==
    LET immediate == r.used + r.required
    IN  IF ~CountFits(r) \/ immediate > r.low THEN "none"
        ELSE IF immediate + GrowthReserve(r) <= r.low THEN "plain"
        ELSE IF GainAdmits(r) THEN "gain" ELSE "none"

(***************************************************************************)
(* Force-resume deadlines.  q describes what a queue knows: the target     *)
(* rounds, the completion times of the requests, the rounds the active     *)
(* Programs have used and whether they reason, the last ranks of the       *)
(* queued Programs in resume order, and the configured timeouts.  The two  *)
(* ranks of the pool complete requests at the same times; the queue of a   *)
(* rank holds Programs of that rank.                                       *)
(***************************************************************************)
Shortest30(q) == Least(30, q.force_resume)

\* Rounds an active Program still has, at least one while it reasons.
RoundsLeft(program, rounds) ==
    Most(rounds - program.used, IF program.reasoning THEN 1 ELSE 0)

Ahead(q, position) == position - 1

\* force_resume_timeout of the Program at a position of r1's queue.
RankTimeout(q, position) ==
    LET speed == Throughput(q.times)
    IN  IF q.target_rounds = 0 \/ speed[1] = 0 THEN q.force_resume
        ELSE LET here == SelectSeq(q.active, LAMBDA program : program.on = "r1")
                 active == [i \in DOMAIN here |-> RoundsLeft(here[i], q.target_rounds)]
                 pool == Ahead(q, position) * Most(q.target_rounds, 1)
             IN  Clamp((3 * (Total(active) + pool) * speed[2]) \div speed[1],
                       Shortest30(q), q.force_resume)

\* global_force_resume_timeout: each Program ahead counts the rounds of the rank it
\* was last on, or the average when that rank is gone; the throughputs add up.
GlobalTimeout(q, position) ==
    LET speed == <<2 * Throughput(q.times)[1], Throughput(q.times)[2]>>
        average == (q.rounds_of.r1 + q.rounds_of.r2) \div 2
        rounds(last) == IF last = "gone" THEN average ELSE q.rounds_of[last]
        active == [i \in 1 .. Len(q.active) |->
                      RoundsLeft(q.active[i], q.rounds_of[q.active[i].on])]
        pool == [i \in 1 .. Ahead(q, position) |-> Most(rounds(q.last[i]), 1)]
    IN  IF speed[1] = 0 \/ 0 \in {q.rounds_of.r1, q.rounds_of.r2}
        THEN q.force_resume
        ELSE Clamp((3 * (Total(active) + Total(pool)) * speed[2]) \div speed[1],
                   Shortest30(q), q.force_resume)

\* set_force_resume_deadline: a hint replaces the estimate; the queue timeout
\* bounds both.
ForceResumeAfter(q, position) ==
    LET estimate == IF q.global THEN GlobalTimeout(q, position)
                                ELSE RankTimeout(q, position)
    IN  Least(IF q.hint = 0 THEN estimate ELSE q.hint, q.queue_timeout)

(***************************************************************************)
(* Inputs.                                                                 *)
(***************************************************************************)
WindowInputs ==
    {[of |-> "window", samples |-> s, limit |-> l, max_rounds |-> m] :
        s \in UNION {[1 .. n -> {0, 1, 4, NoGrowth}] : n \in 0 .. 4},
        l \in 0 .. 3, m \in {1, 3}}

TtlInputs ==
    {[of |-> "ttl", complete |-> c, max_acting_ttl |-> m, impact |-> i, utility |-> u] :
        c \in BOOLEAN, m \in 0 .. 3, i \in 0 .. 4, u \in [1 .. 4 -> -1 .. 1]}

PlanInputs ==
    {[of |-> "plan", active |-> a, max_active |-> 2, low |-> 12, used |-> u,
      required |-> q, growth |-> g, target_rounds |-> t, remaining |-> rem,
      running |-> run, context |-> u, candidate |-> 2, decode_seconds |-> d,
      recovery |-> c, protected_cost |-> p, complete |-> t > 0] :
        a \in 0 .. 2, u \in {0, 4, 8, 11}, q \in {1, 3}, g \in 0 .. 2, t \in {0, 1, 3},
        rem \in {<<>>, <<1>>, <<3, 1>>}, run \in 0 .. 2, d \in {0, 9}, c \in 0 .. 1,
        p \in {1, 5}}

LastRanks(global) ==
    IF global THEN [1 .. 3 -> {"r1", "r2", "gone"}] ELSE {<<"r1", "r1", "r1">>}

QueueInputs ==
    UNION {{[of |-> "queue", global |-> g, target_rounds |-> t, times |-> ti,
             active |-> ac, last |-> l, rounds_of |-> [r1 |-> t, r2 |-> t2],
             force_resume |-> f, queue_timeout |-> f + 5, hint |-> h] :
               t \in {0, 1, 4}, t2 \in {0, 2},
               ti \in {<<>>, <<5>>, <<5, 5>>, <<5, 9>>, <<5, 6, 45>>},
               ac \in {<<>>, <<[on |-> "r1", used |-> 0, reasoning |-> TRUE]>>,
                       <<[on |-> "r1", used |-> 9, reasoning |-> TRUE],
                         [on |-> "r2", used |-> 1, reasoning |-> FALSE]>>},
               l \in LastRanks(g), f \in {10, 300}, h \in {0, 20}} : g \in BOOLEAN}

ProgressInput == \/ input \in WindowInputs \/ input \in TtlInputs \/ input \in PlanInputs \/ input \in QueueInputs

(***************************************************************************)
(* Properties.                                                             *)
(***************************************************************************)
\* However many samples a rank has pushed, an estimate is made from exactly the
\* latest `limit` of them, and from none before that many have come: push_bounded
\* keeps them, target_rounds is zero until the window is complete and never
\* outside 1 .. max_segment_rounds afterwards.
EstimatesUseTheLatest ==
    input.of = "window" =>
        LET window == FoldLeft(LAMBDA w, s : PushBounded(w, s, input.limit),
                               <<>>, input.samples)
            n == Len(input.samples)
            rounds == TargetRounds(window, input.limit, input.max_rounds)
        IN  /\ window = SubSeq(input.samples, n - Least(n, input.limit) + 1, n)
            /\ IF 0 < input.limit /\ input.limit <= n
               THEN rounds \in 1 .. input.max_rounds ELSE rounds = 0
            /\ ContextGrowth(window)[2] <= input.limit

\* A Program is kept acting only as long as that can pay: the fitted TTL is zero
\* until the window is complete, never exceeds max_acting_ttl nor the cost of
\* recomputing the context, and no other candidate within those bounds has a
\* higher utility.
TtlsPayOff ==
    input.of = "ttl" =>
        LET ttl == FittedTtl(input.complete, input.max_acting_ttl, input.impact,
                             input.utility)
        IN  /\ ~input.complete => ttl = 0
            /\ ttl <= input.max_acting_ttl /\ ttl <= input.impact
            /\ ttl > 0 => input.utility[ttl] >= 0
            /\ \A t \in 1 .. Least(input.max_acting_ttl, input.impact) :
                   input.complete => IF ttl = 0 THEN input.utility[t] < 0
                                     ELSE input.utility[t] <= input.utility[ttl]

\* An admission that is not forced fits under the low watermark at once, and when
\* only the batch gain let it in, the Programs whose continuity is protected and
\* that had room to grow still have some.
GainLeavesRoom ==
    input.of = "plan" =>
        /\ RankPlan(input) # "none" =>
             CountFits(input) /\ input.used + input.required <= input.low
        /\ RankPlan(input) = "gain" =>
             /\ input.running > 0
             /\ (input.growth > 0 /\ RoomBefore(input) > 0) => RoomAfter(input) > 0

\* A queue never forces a Program in before one that is ahead of it and was queued
\* at the same time without a deadline of its own; every forced resume comes within
\* force_resume_timeout, and before the queue timeout gives the request up.
DeadlinesFollowTheQueue ==
    input.of = "queue" =>
        \A i \in 1 .. Len(input.last) :
            /\ ForceResumeAfter(input, i) <= input.queue_timeout
            /\ input.hint = 0 =>
                 /\ ForceResumeAfter(input, i) \in Shortest30(input) .. input.force_resume
                 /\ \A j \in i .. Len(input.last) :
                        ForceResumeAfter(input, i) <= ForceResumeAfter(input, j)

(***************************************************************************)
(* The scheduler's estimates rest on the latest samples, a Program is kept *)
(* resident only when that pays, and deadlines follow the queue.           *)
(***************************************************************************)
EstimatesAreSound ==
    EstimatesUseTheLatest /\ TtlsPayOff /\ GainLeavesRoom /\ DeadlinesFollowTheQueue
=============================================================================
