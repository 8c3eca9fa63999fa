-------------------------- MODULE ConcurrencyLimit --------------------------
(***************************************************************************)
(* The concurrency limiter in front of the protected routes: the token     *)
(* bucket (core/token_bucket.rs), the middleware that takes a token per    *)
(* request and the queue processor that finds tokens for the others        *)
(* (middleware.rs).  A step ends where the code releases the bucket's lock *)
(* or waits; a caller may go away at any of those points, which drops its  *)
(* future where it stands.                                                 *)
(*                                                                         *)
(* Time advances in ticks.  Tokens are counted in units, Unit of them to a *)
(* token, and Rate units come back per tick.                               *)
(***************************************************************************)
EXTENDS Integers, Sequences, FiniteSets

CONSTANTS
    Callers,        \* requests to the protected routes
    BucketCapacity,       \* max_concurrent_requests, in tokens
    Unit,           \* units per token
    Rate,           \* refill_rate, in units per tick
    QueueSize,      \* queue_size
    QueueTimeout    \* queue_timeout, in ticks

ASSUME LimitsArePositive ==
    {BucketCapacity, Unit, Rate, QueueTimeout} \subseteq Nat \ {0} /\ QueueSize \in Nat

VARIABLES
    tokens,     \* TokenBucketInner::tokens
    owed,       \* what the time since last_refill is worth, at most a full bucket
    queue,      \* the channel of QueuedRequests
    callers,    \* every request's task
    net         \* tokens taken minus tokens returned since the last tick

limitVars == <<tokens, owed, queue, callers, net>>

Cap == BucketCapacity * Unit
Least(a, b) == IF a <= b THEN a ELSE b

Phases ==
    {"new", "denied", "queued", "waiting", "computing", "polling", "permitted", "running",
     "served", "rejected", "timedout", "gone"}

\* left: ticks to the queue timeout while queued or waiting, then ticks to
\* the deadline acquire sets itself.  caller: whether anybody still waits.
Caller == [phase : Phases, caller : BOOLEAN, left : 0 .. QueueTimeout]

LimitInit ==
    /\ tokens = Cap /\ owed = 0 /\ queue = <<>> /\ net = 0
    /\ callers = [r \in Callers |-> [phase |-> "new", caller |-> TRUE, left |-> QueueTimeout]]
-----------------------------------------------------------------------------
\* TokenBucket::try_acquire(1.0): refill, then take a token if there is one.
Refilled == Least(tokens + owed, Cap)
HasToken == Refilled >= Unit

TryAcquireKeepsClock ==
    /\ tokens' = IF HasToken THEN Refilled - Unit ELSE Refilled
    /\ net' = IF HasToken THEN net + 1 ELSE net
    /\ UNCHANGED owed

TryAcquire ==
    /\ tokens' = IF HasToken THEN Refilled - Unit ELSE Refilled
    /\ net' = IF HasToken THEN net + 1 ELSE net
    /\ owed' = 0

Phase(r, p) == callers' = [callers EXCEPT ![r].phase = p]

\* permit_tx.send: the answer is lost when the caller is gone, and with it
\* the token of a permit.
Answer(r, p) == Phase(r, IF callers[r].caller THEN p ELSE "gone")

TakeToken(r) ==
    /\ callers[r].phase = "new"
    /\ TryAcquire
    /\ Phase(r, IF HasToken THEN "running" ELSE "denied")
    /\ UNCHANGED queue

\* queue_tx.try_send; 429 without a queue or when it is full.
JoinQueue(r) ==
    /\ callers[r].phase = "denied"
    /\ IF Len(queue) < QueueSize
       THEN queue' = Append(queue, r) /\ Phase(r, "queued")
       ELSE Phase(r, "rejected") /\ UNCHANGED queue
    /\ UNCHANGED <<tokens, owed, net>>

\* QueueProcessor::run takes the oldest entry: too late, served at once, or
\* handed to a task of its own.
Process ==
    /\ queue # <<>>
    /\ LET r == Head(queue)
       IN  IF callers[r].left = 0
           THEN Answer(r, "timedout") /\ UNCHANGED <<tokens, owed, net>>
           ELSE /\ TryAcquire
                /\ IF HasToken THEN Answer(r, "permitted") ELSE Phase(r, "waiting")
    /\ queue' = Tail(queue)

\* TokenBucket::acquire in that task: try, compute how long the missing
\* units take to come back, then poll until then.
Acquire(r) ==
    /\ callers[r].phase = "waiting"
    /\ TryAcquire
    /\ IF HasToken THEN Answer(r, "permitted") ELSE Phase(r, "computing")
    /\ UNCHANGED queue

WaitTime == IF tokens >= Unit THEN 0 ELSE (Unit - tokens + Rate - 1) \div Rate

ComputeWait(r) ==
    /\ callers[r].phase = "computing"
    /\ callers' = [callers EXCEPT ![r].phase = "polling", ![r].left = Least(@, WaitTime)]
    /\ UNCHANGED <<tokens, owed, queue, net>>

Poll(r) ==
    /\ callers[r].phase = "polling"
    /\ TryAcquire
    /\ IF HasToken THEN Answer(r, "permitted") ELSE UNCHANGED callers
    /\ UNCHANGED queue

GiveUp(r) ==
    /\ callers[r].phase = "polling" /\ callers[r].left = 0
    /\ Answer(r, "timedout")
    /\ UNCHANGED <<tokens, owed, queue, net>>

\* The caller's task wakes up with the permit and runs the route.
Start(r) ==
    /\ callers[r].phase = "permitted" /\ Phase(r, "running")
    /\ UNCHANGED <<tokens, owed, queue, net>>

\* The route answers and return_tokens(1.0) gives the token back.
Finish(r) ==
    /\ callers[r].phase = "running" /\ Phase(r, "served")
    /\ tokens' = Least(tokens + Unit, Cap) /\ net' = net - 1
    /\ UNCHANGED <<owed, queue>>

\* The connection closes: the middleware's future is dropped, with the token
\* it holds.  What the queue processor does for it goes on.
HangUp(r) ==
    /\ callers[r].caller
    /\ callers[r].phase \notin {"new", "served", "rejected", "timedout"}
    /\ callers' = [callers EXCEPT ![r].caller = FALSE,
                            ![r].phase = IF @ \in {"denied", "permitted", "running"}
                                         THEN "gone" ELSE @]
    /\ UNCHANGED <<tokens, owed, queue, net>>

\* Only a queued, polling or running request lets time pass, and a poll does
\* not outlast its deadline.
LetsTimePass(r) ==
    \/ callers[r].phase \in {"new", "queued", "running", "served", "rejected", "timedout", "gone"}
    \/ callers[r].phase = "polling" /\ callers[r].left > 0

LimitTickWithoutRefill ==
    /\ \A r \in Callers : LetsTimePass(r)
    /\ net' = 0
    /\ callers' = [r \in Callers |->
                  IF callers[r].phase \in {"queued", "polling"} /\ callers[r].left > 0
                  THEN [callers[r] EXCEPT !.left = @ - 1] ELSE callers[r]]
    /\ UNCHANGED <<tokens, owed, queue>>

LimitTick ==
    /\ \A r \in Callers : LetsTimePass(r)
    /\ owed' = Least(owed + Rate, Cap) /\ net' = 0
    /\ callers' = [r \in Callers |->
                  IF callers[r].phase \in {"queued", "polling"} /\ callers[r].left > 0
                  THEN [callers[r] EXCEPT !.left = @ - 1] ELSE callers[r]]
    /\ UNCHANGED <<tokens, queue>>

ServeCaller(r) == JoinQueue(r) \/ Acquire(r) \/ ComputeWait(r) \/ Poll(r) \/ GiveUp(r) \/ Start(r) \/ Finish(r)

LimitNext ==
    \/ \E r \in Callers : TakeToken(r) \/ ServeCaller(r) \/ HangUp(r)
    \/ Process
    \/ LimitTick

\* Tasks run, routes answer and time passes; nobody has to arrive or leave.
LimitFairness ==
    /\ WF_limitVars(Process) /\ WF_limitVars(LimitTick)
    /\ \A r \in Callers : WF_limitVars(ServeCaller(r))

LimitSpec == LimitInit /\ [][LimitNext]_limitVars /\ LimitFairness
-----------------------------------------------------------------------------
LimitTypeOK ==
    /\ tokens \in 0 .. Cap /\ owed \in 0 .. Cap /\ net \in Int
    /\ queue \in Seq(Callers) /\ Len(queue) <= QueueSize
    /\ callers \in [Callers -> Caller]

(***************************************************************************)
(* token_bucket.rs: "Burst capacity handling".  Without time passing, no   *)
(* more tokens are taken than the bucket holds and callers return, however *)
(* arrivals, the queue processor and its tasks interleave.                 *)
(***************************************************************************)
BurstWithinCapacity == net <= BucketCapacity

(***************************************************************************)
(* Whoever asks is answered: a request that arrived runs, is refused or    *)
(* times out, unless its caller leaves.  No entry is lost between the      *)
(* queue, the processor and the tasks it spawns.                           *)
(***************************************************************************)
Settled(r) == callers[r].phase \in {"served", "rejected", "timedout", "gone"}
EveryCallerIsAnswered == \A r \in Callers : callers[r].phase # "new" ~> Settled(r)

(***************************************************************************)
(* A caller that disconnects takes its token with it (nobody calls         *)
(* return_tokens).  Refilling makes up for it: once the last request has   *)
(* left, in whatever way, the bucket fills up and stays full.              *)
(***************************************************************************)
LostTokensComeBack == <>[](Refilled = Cap)

(***************************************************************************)
(* The limiter answers every caller, and tokens lost with callers that went*)
(* away come back.                                                         *)
(***************************************************************************)
LimiterServes == []LimitTypeOK /\ EveryCallerIsAnswered /\ LostTokensComeBack
=============================================================================
