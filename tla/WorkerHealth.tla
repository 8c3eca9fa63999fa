---------------------------- MODULE WorkerHealth ----------------------------
(***************************************************************************)
(* From the start of a router to its readiness: the wait for workers that  *)
(* answer (routers/http/router.rs, once per pool in routers/http/          *)
(* pd_router.rs), the health checker of core/worker_registry.rs with the   *)
(* counters of core/worker.rs, and what /readiness makes of them.          *)
(*                                                                         *)
(* Time is counted in rounds of the start-up wait.                         *)
(***************************************************************************)
EXTENDS Naturals, Sequences, FiniteSets

CONSTANTS
    PoolChoices,       \* the hosts of each pool to wait for, in order: one
                       \* pool in a regular router, prefill and decode in PD
    StartupTimeout,    \* worker_startup_timeout_secs, in rounds
    FailureLimit,      \* HealthConfig::failure_threshold
    SuccessLimit,      \* HealthConfig::success_threshold
    MaxOutages         \* bound: how often hosts go down or come up

ASSUME HealthConfigIsValid ==
    /\ StartupTimeout \in Nat /\ FailureLimit \in Nat /\ SuccessLimit \in Nat /\ MaxOutages \in Nat
    /\ \A c \in PoolChoices : Len(c) \in Nat /\ DOMAIN c = 1 .. Len(c)

VARIABLES
    pools,       \* the pools of this router
    outages,     \* such changes so far
    answering,   \* whether each host answers a health check
    steady,      \* whether it has since the wait for its pool began
    waiting,     \* the pool waited for; after the last one the router serves
    waited,      \* rounds of this wait so far
    round,       \* the results of the round so far
    healthy,     \* Worker::is_healthy
    fails,       \* consecutive_failures
    oks,         \* consecutive_successes
    due,         \* the workers this cycle of the checker still has to check
    recent       \* the results of the last checks of each worker, newest first

healthVars == <<pools, outages, answering, steady, waiting, waited, round,
                healthy, fails, oks, due, recent>>
waitVars == <<steady, waiting, waited, round>>
checkVars == <<healthy, fails, oks, due, recent>>

AllHosts == UNION {pools[i] : i \in DOMAIN pools}
StartedUp == waiting > Len(pools)
Failed == waiting = 0

\* Nothing keeps a threshold from being zero, which acts like one: a counter is
\* compared after it was raised.
Needed(limit) == IF limit = 0 THEN 1 ELSE limit
Larger == IF Needed(FailureLimit) > Needed(SuccessLimit) THEN Needed(FailureLimit) ELSE Needed(SuccessLimit)

Newest(results) == IF Len(results) > Larger THEN SubSeq(results, 1, Larger) ELSE results

\* New workers count as healthy.
HealthInit ==
    /\ pools \in PoolChoices
    /\ outages = 0 /\ answering \in [AllHosts -> BOOLEAN] /\ steady = answering
    /\ waiting = 1 /\ waited = 0 /\ round = {}
    /\ healthy = [h \in AllHosts |-> TRUE]
    /\ fails = [h \in AllHosts |-> 0] /\ oks = [h \in AllHosts |-> 0]
    /\ due = {} /\ recent = [h \in AllHosts |-> <<>>]

\* An engine comes up or goes down.
Outage(h) ==
    /\ outages < MaxOutages /\ outages' = outages + 1
    /\ answering' = [answering EXCEPT ![h] = ~@]
    /\ steady' = [steady EXCEPT ![h] = FALSE]
    /\ UNCHANGED <<pools, waiting, waited, round, checkVars>>
-----------------------------------------------------------------------------
(* wait_for_healthy_workers_async.                                         *)

Waiting == ~StartedUp /\ ~Failed
Probed == {p.host : p \in round}

\* The checks of a round run at once, each in a task of its own.
ProbeHost(h) ==
    /\ Waiting /\ waited <= StartupTimeout
    /\ h \in pools[waiting] \ Probed
    /\ round' = round \cup {[host |-> h, up |-> answering[h]]}
    /\ UNCHANGED <<pools, outages, answering, steady, waiting, waited, checkVars>>

\* One host that answers is enough.
Enough == \E p \in round : p.up

\* Mutant: a round that found nobody does not count.
EndRoundOffClock ==
    /\ Waiting /\ Probed = pools[waiting]
    /\ round' = {}
    /\ IF Enough
       THEN waiting' = waiting + 1 /\ waited' = 0 /\ steady' = answering
       ELSE UNCHANGED <<waiting, waited, steady>>
    /\ UNCHANGED <<pools, outages, answering, checkVars>>

\* All checks of the round are in: the wait is over, or sleeps.
EndRound ==
    /\ Waiting /\ Probed = pools[waiting]
    /\ round' = {}
    /\ IF Enough
       THEN waiting' = waiting + 1 /\ waited' = 0 /\ steady' = answering
       ELSE waited' = waited + 1 /\ UNCHANGED <<waiting, steady>>
    /\ UNCHANGED <<pools, outages, answering, checkVars>>

\* The router does not start.
GiveUpWaiting ==
    /\ Waiting /\ waited > StartupTimeout /\ round = {}
    /\ waiting' = 0
    /\ UNCHANGED <<pools, outages, answering, steady, waited, round, checkVars>>
-----------------------------------------------------------------------------
(* start_health_checker and check_health_async.                            *)

\* A tick of the checker: it lists the registered workers.
BeginCycle ==
    /\ StartedUp /\ due = {}
    /\ due' = AllHosts
    /\ UNCHANGED <<pools, outages, answering, waitVars, healthy, fails, oks, recent>>

\* The counters are only compared with their limits.
Up(n, limit) == IF n < limit THEN n + 1 ELSE n

PassedKeepsFailures(h) ==
    LET n == Up(oks[h], SuccessLimit)
        turns == ~healthy[h] /\ n >= SuccessLimit
    IN  /\ oks' = [oks EXCEPT ![h] = IF turns THEN 0 ELSE n]
        /\ healthy' = [healthy EXCEPT ![h] = @ \/ turns]
        /\ UNCHANGED fails

Passed(h) ==
    LET n == Up(oks[h], SuccessLimit)
        turns == ~healthy[h] /\ n >= SuccessLimit
    IN  /\ fails' = [fails EXCEPT ![h] = 0]
        /\ oks' = [oks EXCEPT ![h] = IF turns THEN 0 ELSE n]
        /\ healthy' = [healthy EXCEPT ![h] = @ \/ turns]

Missed(h) ==
    LET n == Up(fails[h], FailureLimit)
        turns == healthy[h] /\ n >= FailureLimit
    IN  /\ oks' = [oks EXCEPT ![h] = 0]
        /\ fails' = [fails EXCEPT ![h] = IF turns THEN 0 ELSE n]
        /\ healthy' = [healthy EXCEPT ![h] = @ /\ ~turns]

Result(h) == IF answering[h] THEN "good" ELSE "failed"

\* One worker after the other is checked.
CheckWorker(h) ==
    /\ h \in due
    /\ due' = due \ {h}
    /\ IF answering[h] THEN Passed(h) ELSE Missed(h)
    /\ recent' = [recent EXCEPT ![h] = Newest(<<Result(h)>> \o @)]
    /\ UNCHANGED <<pools, outages, answering, waitVars>>

\* readiness: every pool has a healthy worker.
Ready == \A i \in DOMAIN pools : \E h \in pools[i] : healthy[h]

WaitOn == EndRound \/ GiveUpWaiting \/ \E h \in AllHosts : ProbeHost(h)
CheckOn == BeginCycle \/ \E h \in AllHosts : CheckWorker(h)

HealthNext == WaitOn \/ CheckOn \/ \E h \in AllHosts : Outage(h)

HealthSpec == HealthInit /\ [][HealthNext]_healthVars
-----------------------------------------------------------------------------
(***************************************************************************)
(* wait_for_healthy_workers: a router that has a host which answers all    *)
(* the time it waits for its pool does not fail to start, whatever its     *)
(* other hosts do.                                                         *)
(***************************************************************************)
SteadyHostsSuffice ==
    [][Waiting /\ Failed' => \A h \in pools[waiting] : ~steady[h]]_healthVars

(***************************************************************************)
(* A wait for workers that has begun ends: the router serves or reports a  *)
(* timeout, however its hosts come and go.                                 *)
(***************************************************************************)
StartupEnds == round # {} ~> StartedUp \/ Failed

(***************************************************************************)
(* check_health_async: a worker turns unhealthy at the end of a row of     *)
(* failure_threshold failed checks and healthy again at the end of a row   *)
(* of success_threshold good ones, and keeps its state otherwise; the      *)
(* counters are reset at different moments.                                *)
(***************************************************************************)
Row(results, n, result) == Len(results) >= n /\ \A i \in 1 .. n : results[i] = result
HealthFollowsRows ==
    [][\A h \in AllHosts :
          healthy'[h] = IF Row(recent'[h], Needed(FailureLimit), "failed") THEN FALSE
                        ELSE IF Row(recent'[h], Needed(SuccessLimit), "good") THEN TRUE ELSE healthy[h]]_healthVars

(***************************************************************************)
(* Once hosts stop going down and coming up, /readiness is what can be     *)
(* served: it is ready exactly when every pool has a host that answers,    *)
(* also when workers counted as healthy before they were ever checked.     *)
(***************************************************************************)
ReadinessIsTrue ==
    <>[](StartedUp => Ready = \A i \in DOMAIN pools : \E h \in pools[i] : answering[h])

(***************************************************************************)
(* A router is not kept from starting while one host of the pool answers,  *)
(* and a worker's health changes at the end of a row of checks only.       *)
(***************************************************************************)
ChecksDecide == SteadyHostsSuffice /\ HealthFollowsRows

(***************************************************************************)
(* The wait for workers ends, and readiness becomes true to the engines.   *)
(***************************************************************************)
HealthIsTrue == StartupEnds /\ ReadinessIsTrue
=============================================================================
