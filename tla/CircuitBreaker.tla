--------------------------- MODULE CircuitBreaker ---------------------------
(***************************************************************************)
(* core/circuit_breaker.rs: the breaker of one worker, shared by every     *)
(* request task and by the health checker.  The state is behind a RwLock   *)
(* and the two counters are separate atomics, so every call is several     *)
(* steps that interleave with the steps of the other threads.              *)
(*                                                                         *)
(* A thread's "todo" holds the calls it still has to make, in order:       *)
(* Worker::record_outcome (core/worker.rs), for instance, reads state(),   *)
(* records the outcome and reads state() twice more for its metrics.       *)
(***************************************************************************)
EXTENDS Naturals, Sequences

CONSTANTS
    Threads,            \* request tasks and the health checker
    FailureThreshold,   \* CircuitBreakerConfig::failure_threshold
    SuccessThreshold,   \* CircuitBreakerConfig::success_threshold
    MaxCalls,           \* bound: calls that do more than check, in one behaviour
    NoThread

ASSUME BreakerAssumption ==
    /\ FailureThreshold \in Nat \ {0} /\ SuccessThreshold \in Nat \ {0}
    /\ MaxCalls \in Nat /\ NoThread \notin Threads

VARIABLES
    state,       \* CircuitState
    failures,    \* consecutive_failures
    successes,   \* consecutive_successes
    expired,     \* last_state_change.elapsed() >= timeout_duration
    holder,      \* the thread that holds the write lock of state
    threads,     \* what each thread is doing
    calls        \* such calls made so far

breakerVars == <<state, failures, successes, expired, holder, threads, calls>>

States == {"Closed", "Open", "HalfOpen"}

Calls ==
    {<<"check">>,                                   \* can_execute, state
     <<"check", "success", "check", "check">>,      \* Worker::record_outcome(true)
     <<"check", "failure", "check", "check">>,      \* Worker::record_outcome(false)
     <<"check", "probe", "success">>,               \* record_test_success
     <<"check", "probe", "failure">>,               \* record_test_failure
     <<"reset">>, <<"force_open">>}

\* Where a thread is inside the call at the head of its todo.
Steps == {"enter", "elapsed", "add", "look", "move", "zero_failures", "zero_successes",
          "clear_failures", "clear_successes"}

CallNames == {"check", "success", "failure", "probe", "reset", "force_open"}

Thread == [todo : Seq(CallNames), at : Steps, count : Nat, target : States]

Resting == [todo |-> <<>>, at |-> "enter", count |-> 0, target |-> "Closed"]

BreakerInit ==
    /\ state = "Closed" /\ failures = 0 /\ successes = 0
    /\ expired = FALSE /\ holder = NoThread
    /\ threads = [t \in Threads |-> Resting]
    /\ calls = 0
-----------------------------------------------------------------------------
At(t, call, step) == threads[t].todo # <<>> /\ Head(threads[t].todo) = call /\ threads[t].at = step

Goto(t, step) == threads' = [threads EXCEPT ![t].at = step]
MoveTo(t, new) == threads' = [threads EXCEPT ![t].at = "move", ![t].target = new]
Return(t) == threads' = [threads EXCEPT ![t] = [Resting EXCEPT !.todo = Tail(threads[t].todo)]]

\* A thread takes a read or a write lock of state only while nobody writes.
Unlocked == holder = NoThread

Begin(t, call) ==
    /\ threads[t].todo = <<>>
    /\ calls' = IF call = <<"check">> THEN calls ELSE calls + 1
    /\ calls' <= MaxCalls
    /\ threads' = [threads EXCEPT ![t].todo = call]
    /\ UNCHANGED <<state, failures, successes, expired, holder>>

\* check_and_update_state reads the state, then last_state_change.
CheckState(t) ==
    /\ At(t, "check", "enter") /\ Unlocked
    /\ IF state = "Open" THEN Goto(t, "elapsed") ELSE Return(t)
    /\ UNCHANGED <<state, failures, successes, expired, holder, calls>>

CheckElapsedInverted(t) ==
    /\ At(t, "check", "elapsed")
    /\ IF ~expired THEN MoveTo(t, "HalfOpen") ELSE Return(t)
    /\ UNCHANGED <<state, failures, successes, expired, holder, calls>>

CheckElapsed(t) ==
    /\ At(t, "check", "elapsed")
    /\ IF expired THEN MoveTo(t, "HalfOpen") ELSE Return(t)
    /\ UNCHANGED <<state, failures, successes, expired, holder, calls>>

TripsLate(count, seen) == seen = "HalfOpen" \/ (seen = "Closed" /\ count > FailureThreshold)

\* record_success: failures to zero, one more success, then the state.
ResetFailures(t) ==
    /\ At(t, "success", "enter")
    /\ failures' = 0 /\ Goto(t, "add")
    /\ UNCHANGED <<state, successes, expired, holder, calls>>

CountSuccess(t) ==
    /\ At(t, "success", "add")
    /\ successes' = successes + 1
    /\ threads' = [threads EXCEPT ![t].at = "look", ![t].count = successes + 1]
    /\ UNCHANGED <<state, failures, expired, holder, calls>>

ActOnSuccess(t) ==
    /\ At(t, "success", "look") /\ Unlocked
    /\ IF state = "HalfOpen" /\ threads[t].count >= SuccessThreshold
       THEN MoveTo(t, "Closed") ELSE Return(t)
    /\ UNCHANGED <<state, failures, successes, expired, holder, calls>>

\* record_failure: successes to zero, one more failure, then the state.
ResetSuccesses(t) ==
    /\ At(t, "failure", "enter")
    /\ successes' = 0 /\ Goto(t, "add")
    /\ UNCHANGED <<state, failures, expired, holder, calls>>

CountFailure(t) ==
    /\ At(t, "failure", "add")
    /\ failures' = failures + 1
    /\ threads' = [threads EXCEPT ![t].at = "look", ![t].count = failures + 1]
    /\ UNCHANGED <<state, successes, expired, holder, calls>>

\* What a failure counted as the count-th in a row does in the state it reads.
Trips(count, seen) == seen = "HalfOpen" \/ (seen = "Closed" /\ count >= FailureThreshold)

ActOnFailure(t) ==
    /\ At(t, "failure", "look") /\ Unlocked
    /\ IF Trips(threads[t].count, state) THEN MoveTo(t, "Open") ELSE Return(t)
    /\ UNCHANGED <<state, failures, successes, expired, holder, calls>>

\* record_test_success and record_test_failure give up unless half open.
Probe(t) ==
    /\ At(t, "probe", "enter") /\ Unlocked
    /\ IF state = "HalfOpen"
       THEN Return(t)
       ELSE threads' = [threads EXCEPT ![t] = Resting]
    /\ UNCHANGED <<state, failures, successes, expired, holder, calls>>
-----------------------------------------------------------------------------
\* transition_to under the write lock: nothing when the state is already
\* the target; otherwise the counters are cleared one after the other.
Moving(t) == threads[t].todo # <<>> /\ threads[t].at = "move"

AfterMove(t) == IF Head(threads[t].todo) = "reset" THEN Goto(t, "clear_failures") ELSE Return(t)

Transition(t) ==
    /\ Moving(t) /\ Unlocked
    /\ LET new == threads[t].target
       IN  IF state = new
           THEN /\ AfterMove(t)
                /\ UNCHANGED <<state, expired, holder>>
           ELSE /\ state' = new /\ expired' = FALSE /\ holder' = t
                /\ Goto(t, IF new = "Open" THEN "zero_successes" ELSE "zero_failures")
    /\ UNCHANGED <<failures, successes, calls>>

ZeroFailures(t) ==
    /\ holder = t /\ threads[t].at = "zero_failures"
    /\ failures' = 0 /\ Goto(t, "zero_successes")
    /\ UNCHANGED <<state, successes, expired, holder, calls>>

ZeroSuccesses(t) ==
    /\ holder = t /\ threads[t].at = "zero_successes"
    /\ successes' = 0 /\ holder' = NoThread /\ AfterMove(t)
    /\ UNCHANGED <<state, failures, expired, calls>>

\* reset and force_open.
StartReset(t) ==
    /\ At(t, "reset", "enter") /\ MoveTo(t, "Closed")
    /\ UNCHANGED <<state, failures, successes, expired, holder, calls>>

ClearFailures(t) ==
    /\ At(t, "reset", "clear_failures")
    /\ failures' = 0 /\ Goto(t, "clear_successes")
    /\ UNCHANGED <<state, successes, expired, holder, calls>>

ClearSuccesses(t) ==
    /\ At(t, "reset", "clear_successes")
    /\ successes' = 0 /\ Return(t)
    /\ UNCHANGED <<state, failures, expired, holder, calls>>

StartForceOpen(t) ==
    /\ At(t, "force_open", "enter") /\ MoveTo(t, "Open")
    /\ UNCHANGED <<state, failures, successes, expired, holder, calls>>

\* The clock reaches last_state_change + timeout_duration.
TimeoutElapses ==
    /\ ~expired /\ expired' = TRUE
    /\ UNCHANGED <<state, failures, successes, holder, threads, calls>>

BreakerStep(t) ==
    \/ CheckState(t) \/ CheckElapsed(t)
    \/ ResetFailures(t) \/ CountSuccess(t) \/ ActOnSuccess(t)
    \/ ResetSuccesses(t) \/ CountFailure(t) \/ ActOnFailure(t) \/ Probe(t)
    \/ Transition(t) \/ ZeroFailures(t) \/ ZeroSuccesses(t)
    \/ StartReset(t) \/ ClearFailures(t) \/ ClearSuccesses(t) \/ StartForceOpen(t)

BreakerNext ==
    \/ \E t \in Threads : BreakerStep(t) \/ \E call \in Calls : Begin(t, call)
    \/ TimeoutElapses

\* Threads run, time passes, and the health checker asks is_available() of
\* every worker in every interval.
BreakerFairness ==
    /\ WF_breakerVars(TimeoutElapses)
    /\ \A t \in Threads : WF_breakerVars(BreakerStep(t)) /\ WF_breakerVars(Begin(t, <<"check">>))

BreakerSpec == BreakerInit /\ [][BreakerNext]_breakerVars /\ BreakerFairness
-----------------------------------------------------------------------------
BreakerTypeOK ==
    /\ state \in States /\ failures \in Nat /\ successes \in Nat
    /\ expired \in BOOLEAN /\ holder \in Threads \cup {NoThread}
    /\ threads \in [Threads -> Thread] /\ calls \in 0 .. MaxCalls

(***************************************************************************)
(* A closed circuit never sits on failure_threshold consecutive failures:  *)
(* whoever counted the last of them is still going to open it.  The count  *)
(* and the state are read apart, so a transition in between must not leave *)
(* a full counter behind.                                                  *)
(***************************************************************************)
WillTrip(t) ==
    /\ threads[t].todo # <<>>
    /\ \/ Head(threads[t].todo) = "failure" /\ threads[t].at = "look"
          /\ threads[t].count >= FailureThreshold
       \/ threads[t].at = "move" /\ threads[t].target = "Open"

NoLostTrip ==
    Unlocked /\ state = "Closed" /\ failures >= FailureThreshold => \E t \in Threads : WillTrip(t)

(***************************************************************************)
(* A half-open circuit never sits on success_threshold successes: whoever  *)
(* counted the last of them is still going to close it.                    *)
(***************************************************************************)
WillClose(t) ==
    /\ threads[t].todo # <<>>
    /\ \/ Head(threads[t].todo) = "success" /\ threads[t].at = "look"
          /\ threads[t].count >= SuccessThreshold
       \/ threads[t].at = "move" /\ threads[t].target = "Closed"

NoLostClose ==
    Unlocked /\ state = "HalfOpen" /\ successes >= SuccessThreshold
        => \E t \in Threads : WillClose(t)

(***************************************************************************)
(* An open circuit does not stay open for ever: after the timeout some     *)
(* check_and_update_state takes it out.                                    *)
(***************************************************************************)
OpenIsTemporary == state = "Open" ~> state # "Open"

(***************************************************************************)
(* No threshold is missed, in whichever order threads count, look and move.*)
(***************************************************************************)
NoLostTransition == BreakerTypeOK /\ NoLostTrip /\ NoLostClose
=============================================================================
