---------------------------- MODULE GuardProofs -----------------------------
(***************************************************************************)
(* What guards a worker and the router from too many requests, for any     *)
(* number of threads or requests and any settings.                         *)
(*                                                                         *)
(* The circuit breaker never loses a trip or a close.  Both invariants     *)
(* become inductive once they exempt only the moments in which             *)
(* transition_to, with the write lock, is about to clear the counter in    *)
(* question.                                                               *)
(*                                                                         *)
(* Health follows the checks.  The counters of a worker are the lengths of *)
(* its rows of results, each only while it can still turn the worker.      *)
(***************************************************************************)
EXTENDS CircuitBreaker, ConcurrencyLimit, WorkerHealth, TLAPS

\* Every leaf has a minute of each prover, so that a busy machine fails none of them.
USE SMTT(60), ZenonT(60)

\* A thread in the middle of a call has that call at the head of its todo.
ThreadsOK ==
    /\ threads \in [Threads -> Thread]
    /\ \A t \in Threads : threads[t].at # "enter" => threads[t].todo # <<>>

Types == BreakerTypeOK /\ ThreadsOK

\* The lock holder has yet to clear failures (or successes).
ClearingFailures == holder \in Threads /\ threads[holder].at = "zero_failures"
ClearingSuccesses ==
    holder \in Threads /\ threads[holder].at \in {"zero_failures", "zero_successes"}

TripInv ==
    state = "Closed" /\ failures >= FailureThreshold /\ ~ClearingFailures
        => \E t \in Threads : WillTrip(t)

CloseInv ==
    state = "HalfOpen" /\ successes >= SuccessThreshold /\ ~ClearingSuccesses
        => \E t \in Threads : WillClose(t)
-----------------------------------------------------------------------------
(***************************************************************************)
(* How a call advances: to a step of its own, to transition_to, to its     *)
(* return, or past a counter.  Each keeps the threads well typed.          *)
(***************************************************************************)
LEMMA GotoTyped ==
    ASSUME ThreadsOK, NEW t \in Threads, NEW step \in Steps, threads[t].todo # <<>>, Goto(t, step)
    PROVE  ThreadsOK'
    BY DEF ThreadsOK, Thread, Goto

\* A thread that is about to change the state stays well-formed.
LEMMA MoveToTyped ==
    ASSUME ThreadsOK, NEW t \in Threads, NEW new \in States, threads[t].todo # <<>>, MoveTo(t, new)
    PROVE  ThreadsOK'
<1>1. "move" \in Steps
    BY DEF Steps
<1>2. threads'[t] \in Thread /\ threads'[t].todo # <<>>
    BY <1>1, ZenonT(60) DEF ThreadsOK, Thread, MoveTo
<1>3. \A u \in Threads : u # t => threads'[u] = threads[u]
    BY DEF ThreadsOK, MoveTo
<1>4. threads' = [u \in Threads |-> threads'[u]]
    BY ZenonT(60) DEF ThreadsOK, MoveTo
<1> QED
    BY <1>2, <1>3, <1>4 DEF ThreadsOK

\* So does one that returns from a call.
LEMMA ReturnTyped ==
    ASSUME ThreadsOK, NEW t \in Threads, threads[t].todo # <<>>, Return(t)
    PROVE  ThreadsOK'
<1>1. threads[t].todo \in Seq(CallNames)
    BY DEF ThreadsOK, Thread
<1>2. Tail(threads[t].todo) \in Seq(CallNames)
    BY <1>1
<1>3. threads'[t] = [todo |-> Tail(threads[t].todo), at |-> "enter", count |-> 0,
                     target |-> "Closed"]
    BY DEF ThreadsOK, Return, Resting
<1>4. threads'[t] \in Thread /\ threads'[t].at = "enter"
    BY <1>2, <1>3 DEF Thread, Steps, States
<1>5. \A u \in Threads : u # t => threads'[u] = threads[u]
    BY DEF ThreadsOK, Return
<1>6. threads' = [u \in Threads |-> threads'[u]]
    BY ZenonT(60) DEF ThreadsOK, Return
<1> QED
    BY <1>4, <1>5, <1>6 DEF ThreadsOK

\* So does one that looks at a counter.
LEMMA CountTyped ==
    ASSUME ThreadsOK, NEW t \in Threads, NEW n \in Nat, threads[t].todo # <<>>,
           threads' = [threads EXCEPT ![t].at = "look", ![t].count = n]
    PROVE  ThreadsOK'
<1>1. "look" \in Steps
    BY DEF Steps
<1>2. threads'[t] \in Thread /\ threads'[t].todo # <<>>
    BY <1>1, ZenonT(60) DEF ThreadsOK, Thread
<1>3. \A u \in Threads : u # t => threads'[u] = threads[u]
    BY DEF ThreadsOK
<1>4. threads' = [u \in Threads |-> threads'[u]]
    BY ZenonT(60) DEF ThreadsOK
<1> QED
    BY <1>2, <1>3, <1>4 DEF ThreadsOK

\* What a thread has to do is a sequence of calls.
LEMMA CallsAreSequences == Calls \subseteq Seq(CallNames)
<1>1. {"check", "success", "failure", "probe", "reset", "force_open"} \subseteq CallNames
    BY DEF CallNames
<1>2. <<"check">> \in Seq(CallNames) /\ <<"reset">> \in Seq(CallNames)
      /\ <<"force_open">> \in Seq(CallNames)
    BY <1>1
<1>3. \A a, b, c \in CallNames : <<a, b, c>> \in Seq(CallNames)
    OBVIOUS
<1>4. \A a, b, c, d \in CallNames : <<a, b, c, d>> \in Seq(CallNames)
    OBVIOUS
<1> QED
    BY <1>1, <1>2, <1>3, <1>4 DEF Calls

\* A thread at rest is well-formed.
LEMMA RestingTyped == Resting \in Thread /\ Resting.at = "enter" /\ Resting.todo = <<>>
<1>1. <<>> \in Seq(CallNames)
    OBVIOUS
<1> QED
    BY <1>1 DEF Resting, Thread, Steps, States

\* Every thread is, at the start.
LEMMA InitTyped == BreakerInit => Types
<1> SUFFICES ASSUME BreakerInit PROVE Types
    OBVIOUS
<1>1. ThreadsOK
  <2>1. threads = [t \in Threads |-> Resting]
      BY DEF BreakerInit
  <2> QED
      BY <2>1, RestingTyped DEF ThreadsOK
<1>2. calls \in 0 .. MaxCalls
    BY BreakerAssumption DEF BreakerInit
<1> QED
    BY <1>1, <1>2, ZenonT(60) DEF BreakerInit, Types, BreakerTypeOK, ThreadsOK, States

(***************************************************************************)
(* Every step keeps the types.                                             *)
(***************************************************************************)
LEMMA TypesPreserved ==
    ASSUME Types, [BreakerNext]_breakerVars
    PROVE  Types'
<1> USE BreakerAssumption
<1>0. ThreadsOK /\ failures \in Nat /\ successes \in Nat /\ state \in States
    BY DEF Types, BreakerTypeOK
<1>s. {"Open", "HalfOpen", "Closed"} \subseteq States
    BY DEF States
<1>n. {"elapsed", "add", "zero_failures", "zero_successes", "clear_failures", "clear_successes"}
          \subseteq Steps
    BY DEF Steps
<1>1. ASSUME NEW t \in Threads, NEW call \in Calls, Begin(t, call)
      PROVE  Types'
  <2>1. call \in Seq(CallNames)
      BY CallsAreSequences
  <2>2. /\ threads'[t] = [threads[t] EXCEPT !.todo = call]
        /\ \A u \in Threads : u # t => threads'[u] = threads[u]
        /\ threads' = [u \in Threads |-> threads'[u]]
      BY <1>0, <1>1, ZenonT(60) DEF Begin, ThreadsOK
  <2>a. threads[t] \in Thread /\ threads[t].at = "enter"
      BY <1>0, <1>1 DEF Begin, ThreadsOK
  <2>3. threads'[t] \in Thread /\ threads'[t].at = "enter"
      BY <2>1, <2>2, <2>a DEF Thread
  <2>4. ThreadsOK'
      BY <1>0, <2>2, <2>3, ZenonT(60) DEF ThreadsOK
  <2>5. calls' \in 0 .. MaxCalls
      BY <1>1 DEF Begin, Types, BreakerTypeOK
  <2> QED
      BY <1>1, <2>4, <2>5 DEF Begin, Types, BreakerTypeOK, ThreadsOK
<1>2. ASSUME NEW t \in Threads, CheckState(t)
      PROVE  Types'
  <2>3. ThreadsOK'
      BY <1>0, <1>s, <1>n, <1>2, GotoTyped, ReturnTyped DEF CheckState, At
  <2> QED
      BY <1>0, <1>2, <2>3 DEF CheckState, Types, BreakerTypeOK, ThreadsOK
<1>3. ASSUME NEW t \in Threads, CheckElapsed(t)
      PROVE  Types'
  <2>3. ThreadsOK'
      BY <1>0, <1>s, <1>n, <1>3, MoveToTyped, ReturnTyped DEF CheckElapsed, At
  <2> QED
      BY <1>0, <1>3, <2>3 DEF CheckElapsed, Types, BreakerTypeOK, ThreadsOK
<1>4. ASSUME NEW t \in Threads, ResetFailures(t)
      PROVE  Types'
  <2>3. ThreadsOK'
      BY <1>0, <1>s, <1>n, <1>4, GotoTyped DEF ResetFailures, At
  <2> QED
      BY <1>0, <1>4, <2>3 DEF ResetFailures, Types, BreakerTypeOK, ThreadsOK
<1>5. ASSUME NEW t \in Threads, CountSuccess(t)
      PROVE  Types'
  <2>1. successes + 1 \in Nat
      BY <1>0
  <2>2. /\ threads[t].todo # <<>>
        /\ threads' = [threads EXCEPT ![t].at = "look", ![t].count = successes + 1]
      BY <1>5 DEF CountSuccess, At
  <2>3. ThreadsOK'
      BY <1>0, <2>1, <2>2, CountTyped, ZenonT(60)
  <2> QED
      BY <1>0, <1>5, <2>3 DEF CountSuccess, Types, BreakerTypeOK, ThreadsOK
<1>6. ASSUME NEW t \in Threads, ActOnSuccess(t)
      PROVE  Types'
  <2>3. ThreadsOK'
      BY <1>0, <1>s, <1>n, <1>6, MoveToTyped, ReturnTyped DEF ActOnSuccess, At
  <2> QED
      BY <1>0, <1>6, <2>3 DEF ActOnSuccess, Types, BreakerTypeOK, ThreadsOK
<1>7. ASSUME NEW t \in Threads, ResetSuccesses(t)
      PROVE  Types'
  <2>3. ThreadsOK'
      BY <1>0, <1>s, <1>n, <1>7, GotoTyped DEF ResetSuccesses, At
  <2> QED
      BY <1>0, <1>7, <2>3 DEF ResetSuccesses, Types, BreakerTypeOK, ThreadsOK
<1>8. ASSUME NEW t \in Threads, CountFailure(t)
      PROVE  Types'
  <2>1. failures + 1 \in Nat
      BY <1>0
  <2>2. /\ threads[t].todo # <<>>
        /\ threads' = [threads EXCEPT ![t].at = "look", ![t].count = failures + 1]
      BY <1>8 DEF CountFailure, At
  <2>3. ThreadsOK'
      BY <1>0, <2>1, <2>2, CountTyped, ZenonT(60)
  <2> QED
      BY <1>0, <1>8, <2>3 DEF CountFailure, Types, BreakerTypeOK, ThreadsOK
<1>9. ASSUME NEW t \in Threads, ActOnFailure(t)
      PROVE  Types'
  <2>3. ThreadsOK'
      BY <1>0, <1>s, <1>n, <1>9, MoveToTyped, ReturnTyped DEF ActOnFailure, At
  <2> QED
      BY <1>0, <1>9, <2>3 DEF ActOnFailure, Types, BreakerTypeOK, ThreadsOK
<1>10. ASSUME NEW t \in Threads, Probe(t)
      PROVE  Types'
  <2>1. ASSUME threads' = [threads EXCEPT ![t] = Resting]
        PROVE  ThreadsOK'
      BY <1>0, <2>1, RestingTyped DEF ThreadsOK
  <2>3. ThreadsOK'
      BY <1>0, <1>10, <2>1, ReturnTyped DEF Probe, At
  <2> QED
      BY <1>0, <1>10, <2>3 DEF Probe, Types, BreakerTypeOK, ThreadsOK
<1>11. ASSUME NEW t \in Threads, Transition(t)
      PROVE  Types'
  <2>3. ThreadsOK'
      BY <1>0, <1>s, <1>n, <1>11, GotoTyped, ReturnTyped DEF Transition, Moving, AfterMove
  <2>4. threads[t].target \in States
      BY <1>0 DEF ThreadsOK, Thread
  <2>5. /\ failures' = failures /\ successes' = successes /\ calls' = calls
        /\ \/ state' = state /\ expired' = expired /\ holder' = holder
           \/ state' = threads[t].target /\ expired' = FALSE /\ holder' = t
      BY <1>11 DEF Transition
  <2>6. expired \in BOOLEAN /\ holder \in Threads \cup {NoThread} /\ calls \in 0 .. MaxCalls
      BY DEF Types, BreakerTypeOK
  <2>7. state' \in States /\ holder' \in Threads \cup {NoThread} /\ expired' \in BOOLEAN
      BY <1>0, <2>4, <2>5, <2>6, ZenonT(60)
  <2>8. BreakerTypeOK'
      BY <1>0, <2>3, <2>5, <2>6, <2>7 DEF BreakerTypeOK, ThreadsOK
  <2> QED
      BY <2>3, <2>8 DEF Types
<1>12. ASSUME NEW t \in Threads, ZeroFailures(t)
      PROVE  Types'
  <2>3. ThreadsOK'
      BY <1>0, <1>s, <1>n, <1>12, GotoTyped DEF ZeroFailures, ThreadsOK
  <2> QED
      BY <1>0, <1>12, <2>3 DEF ZeroFailures, Types, BreakerTypeOK, ThreadsOK
<1>13. ASSUME NEW t \in Threads, ZeroSuccesses(t)
      PROVE  Types'
  <2>3. ThreadsOK'
      BY <1>0, <1>s, <1>n, <1>13, GotoTyped, ReturnTyped DEF ZeroSuccesses, AfterMove, ThreadsOK
  <2> QED
      BY <1>0, <1>13, <2>3 DEF ZeroSuccesses, Types, BreakerTypeOK, ThreadsOK
<1>14. ASSUME NEW t \in Threads, StartReset(t)
      PROVE  Types'
  <2>3. ThreadsOK'
      BY <1>0, <1>s, <1>n, <1>14, MoveToTyped DEF StartReset, At
  <2> QED
      BY <1>0, <1>14, <2>3 DEF StartReset, Types, BreakerTypeOK, ThreadsOK
<1>15. ASSUME NEW t \in Threads, ClearFailures(t)
      PROVE  Types'
  <2>3. ThreadsOK'
      BY <1>0, <1>s, <1>n, <1>15, GotoTyped DEF ClearFailures, At
  <2> QED
      BY <1>0, <1>15, <2>3 DEF ClearFailures, Types, BreakerTypeOK, ThreadsOK
<1>16. ASSUME NEW t \in Threads, ClearSuccesses(t)
      PROVE  Types'
  <2>3. ThreadsOK'
      BY <1>0, <1>s, <1>n, <1>16, ReturnTyped DEF ClearSuccesses, At
  <2> QED
      BY <1>0, <1>16, <2>3 DEF ClearSuccesses, Types, BreakerTypeOK, ThreadsOK
<1>17. ASSUME NEW t \in Threads, StartForceOpen(t)
      PROVE  Types'
  <2>3. ThreadsOK'
      BY <1>0, <1>s, <1>n, <1>17, MoveToTyped DEF StartForceOpen, At
  <2> QED
      BY <1>0, <1>17, <2>3 DEF StartForceOpen, Types, BreakerTypeOK, ThreadsOK
<1>18. CASE TimeoutElapses
    BY <1>18 DEF TimeoutElapses, Types, BreakerTypeOK, ThreadsOK
<1>19. CASE UNCHANGED breakerVars
    BY <1>19 DEF breakerVars, Types, BreakerTypeOK, ThreadsOK
<1> QED
    BY <1>1, <1>2, <1>3, <1>4, <1>5, <1>6, <1>7, <1>8, <1>9, <1>10,
       <1>11, <1>12, <1>13, <1>14, <1>15, <1>16, <1>17, <1>18, <1>19 DEF BreakerNext, BreakerStep

(***************************************************************************)
(* A full failure counter stays in the hands of a thread that will trip:   *)
(* the one that filled it, until it has read the state and moved it.       *)
(***************************************************************************)
LEMMA TripPreserved ==
    ASSUME Types, TripInv, [BreakerNext]_breakerVars
    PROVE  TripInv'
<1> USE BreakerAssumption DEF Types, BreakerTypeOK, Thread, States, TripInv, WillTrip, ClearingFailures
<1>1. ASSUME NEW t \in Threads, NEW call \in Calls, Begin(t, call)
      PROVE  TripInv'
    BY <1>1 DEF Begin, Calls
<1>2. ASSUME NEW t \in Threads, CheckState(t)
      PROVE  TripInv'
    BY <1>2, ZenonT(60) DEF CheckState, At, Unlocked, Goto, Return, Resting
<1>3. ASSUME NEW t \in Threads, CheckElapsed(t)
      PROVE  TripInv'
    BY <1>3, ZenonT(60) DEF CheckElapsed, At, MoveTo, Return, Resting
<1>4. ASSUME NEW t \in Threads, ResetFailures(t)
      PROVE  TripInv'
    BY <1>4 DEF ResetFailures, At, Goto
<1>5. ASSUME NEW t \in Threads, CountSuccess(t)
      PROVE  TripInv'
    BY <1>5, ZenonT(60) DEF CountSuccess, At
<1>6. ASSUME NEW t \in Threads, ActOnSuccess(t)
      PROVE  TripInv'
    BY <1>6, ZenonT(60) DEF ActOnSuccess, At, Unlocked, MoveTo, Return, Resting
<1>7. ASSUME NEW t \in Threads, ResetSuccesses(t)
      PROVE  TripInv'
    BY <1>7 DEF ResetSuccesses, At, Goto
<1>8. ASSUME NEW t \in Threads, CountFailure(t)
      PROVE  TripInv'
    BY <1>8 DEF CountFailure, At
<1>9. ASSUME NEW t \in Threads, ActOnFailure(t)
      PROVE  TripInv'
  <2>1. CASE state = "Closed" /\ MoveTo(t, "Open")
    <3>1. WillTrip(t)'
        BY <1>9, <2>1 DEF ActOnFailure, At, MoveTo
    <3> QED
        BY <3>1
  <2>2. CASE state = "Closed" /\ Return(t)
    <3>1. ~WillTrip(t)
        BY <1>9, <2>2 DEF ActOnFailure, At, Unlocked, MoveTo, Return, Resting, Trips
    <3>2. \A u \in Threads : u # t => threads'[u] = threads[u]
        BY <2>2 DEF Return
    <3>3. state' = state /\ failures' = failures /\ successes' = successes /\ holder = NoThread
        BY <1>9 DEF ActOnFailure, Unlocked
    <3> QED
        BY <3>1, <3>2, <3>3
  <2>3. CASE state # "Closed"
      BY <1>9, <2>3 DEF ActOnFailure
  <2> QED
      BY <1>9, <2>1, <2>2, <2>3 DEF ActOnFailure, Trips
<1>10. ASSUME NEW t \in Threads, Probe(t)
      PROVE  TripInv'
    BY <1>10, ZenonT(60) DEF Probe, At, Unlocked, Return, Resting
<1>11. ASSUME NEW t \in Threads, Transition(t)
      PROVE  TripInv'
  <2>1. CASE state = threads[t].target
    <3>1. ~(state = "Closed" /\ WillTrip(t))
        BY <1>11, <2>1 DEF Transition, Moving
    <3>2. \A u \in Threads : u # t => threads'[u] = threads[u]
        BY <1>11, <2>1 DEF Transition, AfterMove, Goto, Return
    <3>3. state' = state /\ failures' = failures /\ successes' = successes /\ holder = NoThread
        BY <1>11, <2>1 DEF Transition, Unlocked
    <3> QED
        BY <3>1, <3>2, <3>3
  <2>2. CASE state # threads[t].target
    <3>1. /\ state' = threads[t].target /\ holder' = t
          /\ threads'[t].at = IF state' = "Open" THEN "zero_successes" ELSE "zero_failures"
        BY <1>11, <2>2 DEF Transition, Goto
    <3> QED
        BY <3>1
  <2> QED
      BY <2>1, <2>2
<1>12. ASSUME NEW t \in Threads, ZeroFailures(t)
      PROVE  TripInv'
    BY <1>12 DEF ZeroFailures, Goto
<1>13. ASSUME NEW t \in Threads, ZeroSuccesses(t)
      PROVE  TripInv'
    BY <1>13, ZenonT(60) DEF ZeroSuccesses, AfterMove, Goto, Return, Resting
<1>14. ASSUME NEW t \in Threads, StartReset(t)
      PROVE  TripInv'
    BY <1>14, ZenonT(60) DEF StartReset, At, MoveTo
<1>15. ASSUME NEW t \in Threads, ClearFailures(t)
      PROVE  TripInv'
    BY <1>15 DEF ClearFailures, At, Goto
<1>16. ASSUME NEW t \in Threads, ClearSuccesses(t)
      PROVE  TripInv'
    BY <1>16 DEF ClearSuccesses, At, Return, Resting
<1>17. ASSUME NEW t \in Threads, StartForceOpen(t)
      PROVE  TripInv'
    BY <1>17 DEF StartForceOpen, At, MoveTo
<1>18. CASE TimeoutElapses
    BY <1>18 DEF TimeoutElapses
<1>19. CASE UNCHANGED breakerVars
    BY <1>19 DEF breakerVars
<1> QED
    BY <1>1, <1>2, <1>3, <1>4, <1>5, <1>6, <1>7, <1>8, <1>9, <1>10, ZenonT(60),
       <1>11, <1>12, <1>13, <1>14, <1>15, <1>16, <1>17, <1>18, <1>19 DEF BreakerNext, BreakerStep

(***************************************************************************)
(* A full success counter stays in the hands of a thread that will close.  *)
(***************************************************************************)
LEMMA ClosePreserved ==
    ASSUME Types, CloseInv, [BreakerNext]_breakerVars
    PROVE  CloseInv'
<1> USE BreakerAssumption DEF Types, BreakerTypeOK, Thread, States, CloseInv, WillClose, ClearingSuccesses
<1>1. ASSUME NEW t \in Threads, NEW call \in Calls, Begin(t, call)
      PROVE  CloseInv'
    BY <1>1 DEF Begin, Calls
<1>2. ASSUME NEW t \in Threads, CheckState(t)
      PROVE  CloseInv'
    BY <1>2, ZenonT(60) DEF CheckState, At, Unlocked, Goto, Return, Resting
<1>3. ASSUME NEW t \in Threads, CheckElapsed(t)
      PROVE  CloseInv'
    BY <1>3, ZenonT(60) DEF CheckElapsed, At, MoveTo, Return, Resting
<1>4. ASSUME NEW t \in Threads, ResetFailures(t)
      PROVE  CloseInv'
    BY <1>4 DEF ResetFailures, At, Goto
<1>5. ASSUME NEW t \in Threads, CountSuccess(t)
      PROVE  CloseInv'
    BY <1>5 DEF CountSuccess, At
<1>6. ASSUME NEW t \in Threads, ActOnSuccess(t)
      PROVE  CloseInv'
  <2>1. CASE state = "HalfOpen" /\ MoveTo(t, "Closed")
    <3>1. WillClose(t)'
        BY <1>6, <2>1 DEF ActOnSuccess, At, MoveTo
    <3> QED
        BY <3>1
  <2>2. CASE state = "HalfOpen" /\ Return(t)
    <3>1. ~WillClose(t)
        BY <1>6, <2>2 DEF ActOnSuccess, At, Unlocked, MoveTo, Return, Resting
    <3>2. \A u \in Threads : u # t => threads'[u] = threads[u]
        BY <2>2 DEF Return
    <3>3. state' = state /\ failures' = failures /\ successes' = successes /\ holder = NoThread
        BY <1>6 DEF ActOnSuccess, Unlocked
    <3> QED
        BY <3>1, <3>2, <3>3
  <2>3. CASE state # "HalfOpen"
      BY <1>6, <2>3 DEF ActOnSuccess
  <2> QED
      BY <1>6, <2>1, <2>2, <2>3 DEF ActOnSuccess
<1>7. ASSUME NEW t \in Threads, ResetSuccesses(t)
      PROVE  CloseInv'
    BY <1>7 DEF ResetSuccesses, At, Goto
<1>8. ASSUME NEW t \in Threads, CountFailure(t)
      PROVE  CloseInv'
    BY <1>8, ZenonT(60) DEF CountFailure, At
<1>9. ASSUME NEW t \in Threads, ActOnFailure(t)
      PROVE  CloseInv'
    BY <1>9, ZenonT(60) DEF ActOnFailure, At, Unlocked, Trips, MoveTo, Return, Resting
<1>10. ASSUME NEW t \in Threads, Probe(t)
      PROVE  CloseInv'
    BY <1>10, ZenonT(60) DEF Probe, At, Unlocked, Return, Resting
<1>11. ASSUME NEW t \in Threads, Transition(t)
      PROVE  CloseInv'
  <2>1. CASE state = threads[t].target
    <3>1. ~(state = "HalfOpen" /\ WillClose(t))
        BY <1>11, <2>1 DEF Transition, Moving
    <3>2. \A u \in Threads : u # t => threads'[u] = threads[u]
        BY <1>11, <2>1 DEF Transition, AfterMove, Goto, Return
    <3>3. state' = state /\ failures' = failures /\ successes' = successes /\ holder = NoThread
        BY <1>11, <2>1 DEF Transition, Unlocked
    <3> QED
        BY <3>1, <3>2, <3>3, ZenonT(60)
  <2>2. CASE state # threads[t].target
    <3>1. /\ state' = threads[t].target /\ holder' = t
          /\ threads'[t].at = IF state' = "Open" THEN "zero_successes" ELSE "zero_failures"
        BY <1>11, <2>2 DEF Transition, Goto
    <3> QED
        BY <3>1
  <2> QED
      BY <2>1, <2>2
<1>12. ASSUME NEW t \in Threads, ZeroFailures(t)
      PROVE  CloseInv'
    BY <1>12 DEF ZeroFailures, Goto
<1>13. ASSUME NEW t \in Threads, ZeroSuccesses(t)
      PROVE  CloseInv'
    BY <1>13 DEF ZeroSuccesses, AfterMove, Goto, Return, Resting
<1>14. ASSUME NEW t \in Threads, StartReset(t)
      PROVE  CloseInv'
    BY <1>14 DEF StartReset, At, MoveTo
<1>15. ASSUME NEW t \in Threads, ClearFailures(t)
      PROVE  CloseInv'
    BY <1>15 DEF ClearFailures, At, Goto
<1>16. ASSUME NEW t \in Threads, ClearSuccesses(t)
      PROVE  CloseInv'
    BY <1>16 DEF ClearSuccesses, At, Return, Resting
<1>17. ASSUME NEW t \in Threads, StartForceOpen(t)
      PROVE  CloseInv'
    BY <1>17, ZenonT(60) DEF StartForceOpen, At, MoveTo
<1>18. CASE TimeoutElapses
    BY <1>18 DEF TimeoutElapses
<1>19. CASE UNCHANGED breakerVars
    BY <1>19 DEF breakerVars
<1> QED
    BY <1>1, <1>2, <1>3, <1>4, <1>5, <1>6, <1>7, <1>8, <1>9, <1>10, ZenonT(60),
       <1>11, <1>12, <1>13, <1>14, <1>15, <1>16, <1>17, <1>18, <1>19 DEF BreakerNext, BreakerStep

-----------------------------------------------------------------------------
(***************************************************************************)
(* CircuitBreaker keeps its types.                                         *)
(***************************************************************************)
THEOREM BreakerTypes == BreakerSpec => []BreakerTypeOK
<1>1. BreakerInit => Types
    BY InitTyped
<1>2. Types /\ [BreakerNext]_breakerVars => Types'
    BY TypesPreserved
<1>3. Types => BreakerTypeOK
    BY DEF Types
<1> QED
    BY <1>1, <1>2, <1>3, PTL DEF BreakerSpec

(***************************************************************************)
(* record_failure: failure_threshold failures in a row always open a       *)
(* closed circuit, whatever the other threads do in between.               *)
(***************************************************************************)
THEOREM TripsAreNotLost == BreakerSpec => []NoLostTrip
<1>1. BreakerInit => Types /\ TripInv
    BY InitTyped, BreakerAssumption DEF BreakerInit, TripInv
<1>2. Types /\ TripInv /\ [BreakerNext]_breakerVars => (Types /\ TripInv)'
    BY TypesPreserved, TripPreserved
<1>3. Types /\ TripInv => NoLostTrip
    BY BreakerAssumption DEF TripInv, NoLostTrip, Unlocked, ClearingFailures
<1> QED
    BY <1>1, <1>2, <1>3, PTL DEF BreakerSpec

(***************************************************************************)
(* record_success: success_threshold successes in a row always close a     *)
(* half-open circuit, whatever the other threads do in between.            *)
(***************************************************************************)
THEOREM ClosesAreNotLost == BreakerSpec => []NoLostClose
<1>1. BreakerInit => Types /\ CloseInv
    BY InitTyped, BreakerAssumption DEF BreakerInit, CloseInv
<1>2. Types /\ CloseInv /\ [BreakerNext]_breakerVars => (Types /\ CloseInv)'
    BY TypesPreserved, ClosePreserved
<1>3. Types /\ CloseInv => NoLostClose
    BY BreakerAssumption DEF CloseInv, NoLostClose, Unlocked, ClearingSuccesses
<1> QED
    BY <1>1, <1>2, <1>3, PTL DEF BreakerSpec

(***************************************************************************)
(* record_success and record_failure miss no threshold.                    *)
(***************************************************************************)
THEOREM TransitionsAreNotLost == BreakerSpec => []NoLostTransition
<1>1. BreakerTypeOK /\ NoLostTrip /\ NoLostClose => NoLostTransition
    BY DEF NoLostTransition
<1> QED
    BY <1>1, BreakerTypes, TripsAreNotLost, ClosesAreNotLost, PTL

-----------------------------------------------------------------------------
(***************************************************************************)
(* The burst bound of the token bucket.  What was taken since the last tick*)
(* and what is left never exceed a full bucket together; every operation on*)
(* the bucket moves units between the two.                                 *)
(***************************************************************************)

BucketInv ==
    /\ tokens \in 0 .. Cap /\ owed \in 0 .. Cap /\ net \in Int
    /\ net * Unit + Refilled <= Cap

\* The steps that leave the bucket alone.
bucket == <<tokens, owed, net>>

\* The bucket is measured in whole units.
LEMMA CapIsNat == Unit \in Nat /\ Unit > 0 /\ Rate \in Nat /\ BucketCapacity \in Nat /\ Cap \in Nat
    BY LimitsArePositive DEF Cap

(***************************************************************************)
(* try_acquire: refill, then at most one token leaves the bucket.          *)
(***************************************************************************)
LEMMA TryAcquireKeeps ==
    ASSUME BucketInv, TryAcquire
    PROVE  BucketInv'
<1>1. Refilled \in 0 .. Cap
    BY CapIsNat DEF BucketInv, Refilled, Least
<1>2. CASE HasToken
  <2>1. tokens' = Refilled - Unit /\ net' = net + 1 /\ owed' = 0 /\ Refilled >= Unit
      BY <1>2 DEF TryAcquire, HasToken
  <2>2. tokens' \in 0 .. Cap /\ net' \in Int /\ owed' \in 0 .. Cap
      BY <1>1, <2>1, CapIsNat DEF BucketInv
  <2>3. Refilled' = tokens'
      BY <2>1, <2>2, CapIsNat DEF Refilled, Least, Cap
  <2>4. (net + 1) * Unit = net * Unit + Unit
      BY CapIsNat DEF BucketInv
  <2>5. net * Unit \in Int
      BY CapIsNat DEF BucketInv
  <2>6. net' * Unit + Refilled' <= Cap
      BY <1>1, <2>1, <2>3, <2>4, <2>5, CapIsNat DEF BucketInv
  <2> QED
      BY <2>2, <2>6 DEF BucketInv, Cap
<1>3. CASE ~HasToken
  <2>1. tokens' = Refilled /\ net' = net /\ owed' = 0
      BY <1>3 DEF TryAcquire
  <2>2. Refilled' = Refilled
      BY <1>1, <2>1, CapIsNat DEF Refilled, Least, Cap
  <2> QED
      BY <1>1, <2>1, <2>2, CapIsNat DEF BucketInv, Cap
<1> QED
    BY <1>2, <1>3

(***************************************************************************)
(* return_tokens: what a caller gives back was counted as taken.           *)
(***************************************************************************)
LEMMA FinishKeeps ==
    ASSUME BucketInv, NEW r \in Callers, Finish(r)
    PROVE  BucketInv'
<1>1. tokens' = Least(tokens + Unit, Cap) /\ net' = net - 1 /\ owed' = owed
    BY DEF Finish
<1>2. tokens' \in 0 .. Cap /\ net' \in Int /\ owed' \in 0 .. Cap
    BY <1>1, CapIsNat DEF BucketInv, Least
<1> DEFINE left == Least(tokens + owed, Cap)
           leftNext == Least(tokens' + owed', Cap)
           taken == net * Unit
           takenNext == net' * Unit
<1>3. leftNext <= left + Unit /\ leftNext \in Int /\ left \in Int
    BY <1>1, <1>2, CapIsNat DEF BucketInv, Least
<1>4. takenNext = taken - Unit /\ taken \in Int
    BY <1>1, CapIsNat DEF BucketInv
<1>5. taken + left <= Cap
    BY DEF BucketInv, Refilled
<1> HIDE DEF left, leftNext, taken, takenNext
<1>6. takenNext + leftNext <= Cap
    BY <1>3, <1>4, <1>5, CapIsNat
<1> QED
    BY <1>2, <1>6 DEF BucketInv, Refilled, Cap, leftNext, takenNext

\* Time passing adds what is owed, up to the capacity.
LEMMA TickKeeps ==
    ASSUME BucketInv, LimitTick
    PROVE  BucketInv'
<1>1. tokens' = tokens /\ net' = 0 /\ owed' = Least(owed + Rate, Cap)
    BY DEF LimitTick
<1>2. owed' \in 0 .. Cap
    BY <1>1, CapIsNat DEF BucketInv, Least
<1> DEFINE leftNext == Least(tokens' + owed', Cap)
<1>3. leftNext <= Cap /\ leftNext \in Int
    BY <1>1, <1>2, CapIsNat DEF BucketInv, Least
<1>4. net' * Unit = 0
    BY <1>1, CapIsNat
<1>5. net' * Unit + leftNext <= Cap
  <2> HIDE DEF leftNext
  <2> QED
      BY <1>3, <1>4, CapIsNat
<1> QED
    BY <1>1, <1>2, <1>5 DEF BucketInv, Refilled, Cap

\* Every step keeps the account of the bucket.
LEMMA BucketPreserved ==
    ASSUME BucketInv, [LimitNext]_limitVars
    PROVE  BucketInv'
<1>1. CASE UNCHANGED bucket
    BY <1>1 DEF bucket, BucketInv, Refilled, Cap
<1>2. CASE TryAcquire
    BY <1>2, TryAcquireKeeps
<1>3. ASSUME NEW r \in Callers, TakeToken(r) \/ Acquire(r) \/ Poll(r)
      PROVE  TryAcquire
    BY <1>3 DEF TakeToken, Acquire, Poll
<1>4. ASSUME NEW r \in Callers,
             JoinQueue(r) \/ ComputeWait(r) \/ GiveUp(r) \/ Start(r) \/ HangUp(r)
      PROVE  UNCHANGED bucket
    BY <1>4 DEF JoinQueue, ComputeWait, GiveUp, Start, HangUp, bucket
<1>5. ASSUME Process
      PROVE  TryAcquire \/ UNCHANGED bucket
    BY <1>5 DEF Process, bucket
<1>6. ASSUME UNCHANGED limitVars
      PROVE  UNCHANGED bucket
    BY <1>6 DEF limitVars, bucket
<1> QED
    BY <1>1, <1>2, <1>3, <1>4, <1>5, <1>6, FinishKeeps, TickKeeps DEF LimitNext, ServeCaller

(***************************************************************************)
(* Without time passing, no more tokens are taken than the bucket's        *)
(* capacity and its returns allow, for any number of callers, queue        *)
(* entries and waiting tasks.                                              *)
(***************************************************************************)
THEOREM BurstIsBounded == LimitSpec => []BurstWithinCapacity
<1>1. LimitInit => BucketInv
  <2> SUFFICES ASSUME LimitInit PROVE BucketInv
      OBVIOUS
  <2>1. tokens = Cap /\ owed = 0 /\ net = 0
      BY DEF LimitInit
  <2>2. Refilled = Cap /\ 0 * Unit = 0
      BY <2>1, CapIsNat DEF Refilled, Least
  <2> QED
      BY <2>1, <2>2, CapIsNat DEF BucketInv
<1>2. BucketInv /\ [LimitNext]_limitVars => BucketInv'
    BY BucketPreserved
<1>3. BucketInv => BurstWithinCapacity
  <2> SUFFICES ASSUME BucketInv, net > BucketCapacity PROVE FALSE
      BY CapIsNat DEF BurstWithinCapacity, BucketInv
  <2>1. net \in Int /\ Refilled >= 0 /\ Refilled \in Int
      BY CapIsNat DEF BucketInv, Refilled, Least
  <2>2. (net - BucketCapacity) * Unit >= Unit
      BY <2>1, CapIsNat, SMTT(60)
  <2>3. (net - BucketCapacity) * Unit = net * Unit - Cap /\ net * Unit \in Int
      BY <2>1, CapIsNat DEF Cap
  <2> QED
      BY <2>1, <2>2, <2>3, CapIsNat DEF BucketInv
<1> QED
    BY <1>1, <1>2, <1>3, PTL DEF LimitSpec
-----------------------------------------------------------------------------
(* The start of a router and the health of its workers.                    *)

\* A host that has answered since the wait for its pool began has been found up
\* in this round if it was probed, and there was no earlier round: that one would
\* have found it.
WaitInv ==
    /\ pools \in PoolChoices /\ waiting \in Nat /\ waited \in Nat
    /\ DOMAIN answering = AllHosts /\ DOMAIN steady = AllHosts
    /\ Waiting => \A h \in pools[waiting] : steady[h] =>
           answering[h] /\ waited = 0 /\ \A p \in round : p.host = h => p.up

\* The pool waited for is a pool of the router.
LEMMA PoolFacts ==
    ASSUME pools \in PoolChoices, waiting \in Nat, Waiting
    PROVE  pools[waiting] \subseteq AllHosts
BY HealthConfigIsValid DEF Waiting, StartedUp, Failed, AllHosts

\* wait_for_healthy_workers_async, step by step.
LEMMA WaitStep ==
    ASSUME WaitInv, [HealthNext]_healthVars
    PROVE  WaitInv' /\ (Waiting /\ Failed' => \A h \in pools[waiting] : ~steady[h])
<1>0. pools \in PoolChoices /\ waiting \in Nat /\ waited \in Nat /\ StartupTimeout \in Nat /\ Len(pools) \in Nat
    BY HealthConfigIsValid DEF WaitInv
<1>1. ASSUME NEW h \in AllHosts, Outage(h)
      PROVE  WaitInv' /\ ~(Waiting /\ Failed')
    <2>1. /\ answering' = [answering EXCEPT ![h] = ~@] /\ steady' = [steady EXCEPT ![h] = FALSE]
          /\ UNCHANGED <<pools, waiting, waited, round>>
        BY <1>1 DEF Outage
    <2>2. AllHosts' = AllHosts /\ Waiting' = Waiting /\ Failed' = Failed
        BY <2>1 DEF AllHosts, Waiting, StartedUp, Failed
    <2>3. DOMAIN answering' = AllHosts /\ DOMAIN steady' = AllHosts
        BY <2>1 DEF WaitInv
    <2>4. ASSUME NEW g \in AllHosts, steady'[g]
          PROVE  steady[g] /\ answering'[g] = answering[g]
        BY <2>1, <2>4 DEF WaitInv
    <2>5. Waiting => pools[waiting] \subseteq AllHosts
        BY <1>0, PoolFacts
    <2> QED BY <1>0, <2>1, <2>2, <2>3, <2>4, <2>5 DEF WaitInv, Waiting
<1>2. ASSUME NEW h \in AllHosts, ProbeHost(h)
      PROVE  WaitInv' /\ ~(Waiting /\ Failed')
    <2>1. /\ UNCHANGED <<pools, answering, steady, waiting, waited>>
          /\ round' = round \cup {[host |-> h, up |-> answering[h]]}
        BY <1>2 DEF ProbeHost
    <2>2. AllHosts' = AllHosts /\ Waiting' = Waiting /\ Failed' = Failed
        BY <2>1 DEF AllHosts, Waiting, StartedUp, Failed
    <2>3. ASSUME Waiting, NEW g \in pools[waiting], steady[g], NEW p \in round', p.host = g
          PROVE  p.up
        BY <2>1, <2>3 DEF WaitInv
    <2> QED BY <1>0, <2>1, <2>2, <2>3 DEF WaitInv, Waiting
<1>3. CASE EndRound
    <2>1. /\ Waiting /\ Probed = pools[waiting] /\ round' = {} /\ UNCHANGED <<pools, answering>>
        BY <1>3 DEF EndRound
    <2>2. AllHosts' = AllHosts
        BY <2>1 DEF AllHosts
    <2>3. CASE Enough
        <3>1. waiting' = waiting + 1 /\ waited' = 0 /\ steady' = answering
            BY <1>3, <2>3 DEF EndRound
        <3>2. Waiting' => pools[waiting'] \subseteq AllHosts
            BY <1>0, <2>1, <3>1, HealthConfigIsValid DEF Waiting, StartedUp, Failed, AllHosts
        <3>3. ~Failed'
            BY <1>0, <3>1 DEF Failed
        <3> QED BY <1>0, <2>1, <2>2, <3>1, <3>2, <3>3 DEF WaitInv
    <2>4. CASE ~Enough
        <3>1. waited' = waited + 1 /\ UNCHANGED <<waiting, steady>>
            BY <1>3, <2>4 DEF EndRound
        <3>2. ASSUME NEW h \in pools[waiting] PROVE ~steady[h]
            <4>1. PICK p \in round : p.host = h
                BY <2>1 DEF Probed
            <4> QED BY <2>1, <2>4, <4>1 DEF Enough, WaitInv
        <3>3. ~Failed'
            BY <2>1, <3>1 DEF Failed, Waiting
        <3> QED BY <1>0, <2>1, <2>2, <3>1, <3>2, <3>3 DEF WaitInv
    <2> QED BY <2>3, <2>4
<1>4. CASE GiveUpWaiting
    <2>1. /\ Waiting /\ waited > StartupTimeout /\ waiting' = 0
          /\ UNCHANGED <<pools, answering, steady, waited, round>>
        BY <1>4 DEF GiveUpWaiting
    <2>2. AllHosts' = AllHosts /\ ~Waiting'
        BY <2>1 DEF AllHosts, Waiting, Failed
    <2>3. \A h \in pools[waiting] : ~steady[h]
        BY <1>0, <2>1 DEF WaitInv
    <2> QED BY <1>0, <2>1, <2>2, <2>3 DEF WaitInv
<1>5. CASE CheckOn \/ UNCHANGED healthVars
    <2>1. UNCHANGED <<pools, answering, steady, waiting, waited, round>>
        BY <1>5, ZenonT(60) DEF CheckOn, BeginCycle, CheckWorker, waitVars, healthVars
    <2>2. AllHosts' = AllHosts /\ Waiting' = Waiting /\ Failed' = Failed
        BY <2>1 DEF AllHosts, Waiting, StartedUp, Failed
    <2> QED BY <1>0, <2>1, <2>2 DEF WaitInv, Waiting
<1> QED
    BY <1>1, <1>2, <1>3, <1>4, <1>5 DEF HealthNext, WaitOn

\* The newest results begin with exactly n results b.
Leads(results, n, b) == Row(results, n, b) /\ (Len(results) > n => results[n + 1] # b)

Results == {s \in Seq({"good", "failed"}) : Len(s) <= Larger}

Counted(h) ==
    IF healthy[h] THEN fails[h] < Needed(FailureLimit) /\ Leads(recent[h], fails[h], "failed")
    ELSE oks[h] < Needed(SuccessLimit) /\ Leads(recent[h], oks[h], "good")

\* What HealthFollowsRows says of one worker.
Follows(h) ==
    healthy'[h] = IF Row(recent'[h], Needed(FailureLimit), "failed") THEN FALSE
                  ELSE IF Row(recent'[h], Needed(SuccessLimit), "good") THEN TRUE ELSE healthy[h]

\* consecutive_failures is the length of the row of failures that a healthy worker
\* has last, and consecutive_successes that of the successes of an unhealthy one.
\* The counter of the other kind may lag behind its row, for it is reset when the
\* state turns.
RowInv ==
    /\ recent \in [AllHosts -> Results] /\ healthy \in [AllHosts -> BOOLEAN]
    /\ fails \in [AllHosts -> Nat] /\ oks \in [AllHosts -> Nat]
    /\ DOMAIN answering = AllHosts /\ \A h \in AllHosts : answering[h] \in BOOLEAN
    /\ due \subseteq AllHosts
    /\ \A h \in AllHosts : Counted(h)

\* A row that is needed fits in the results that are kept.
LEMMA LimitFacts ==
    /\ Needed(FailureLimit) \in Nat \ {0} /\ Needed(SuccessLimit) \in Nat \ {0} /\ Larger \in Nat
    /\ Needed(FailureLimit) <= Larger /\ Needed(SuccessLimit) <= Larger
BY HealthConfigIsValid DEF Needed, Larger

\* The results after one more check.
LEMMA NewestFacts ==
    ASSUME NEW s \in Results, NEW b \in {"good", "failed"}
    PROVE  LET r == Newest(<<b>> \o s)
           IN  /\ r \in Results /\ Len(r) >= 1 /\ r[1] = b
               /\ Len(r) <= Len(s) + 1 /\ (Len(s) < Larger => Len(r) = Len(s) + 1)
               /\ \A i \in 2 .. Len(r) : r[i] = s[i - 1]
               /\ Len(s) = Larger => Len(r) = Larger
<1> DEFINE t == <<b>> \o s
           r == Newest(t)
<1>1. s \in Seq({"good", "failed"}) /\ Len(s) \in Nat /\ Len(s) <= Larger
    BY DEF Results
<1>2. t \in Seq({"good", "failed"}) /\ Len(t) = Len(s) + 1 /\ t[1] = b /\ \A i \in 2 .. Len(t) : t[i] = s[i - 1]
    BY <1>1
<1> HIDE DEF t
<1>3. CASE Len(t) > Larger
    <2>1. r = SubSeq(t, 1, Larger)
        BY <1>3, ZenonT(60) DEF Newest
    <2>2. Larger \in Nat /\ Larger >= 1
        BY LimitFacts
    <2>3. r \in Seq({"good", "failed"}) /\ Len(r) = Larger /\ \A i \in 1 .. Larger : r[i] = t[i]
        BY <1>2, <1>3, <2>1, <2>2
    <2> HIDE DEF r
    <2> QED BY <1>1, <1>2, <1>3, <2>2, <2>3 DEF r, t, Results
<1>4. CASE ~(Len(t) > Larger)
    <2>1. r = t
        BY <1>4 DEF Newest
    <2>2. Larger \in Nat
        BY LimitFacts
    <2>3. r \in Seq({"good", "failed"}) /\ Len(r) = Len(s) + 1 /\ r[1] = b /\ \A i \in 2 .. Len(r) : r[i] = s[i - 1]
        BY <1>2, <2>1
    <2>4. Len(r) <= Larger
        BY <1>1, <1>2, <1>4, <2>1, <2>2
    <2> HIDE DEF r
    <2> QED BY <1>1, <2>2, <2>3, <2>4 DEF r, t, Results
<1> QED
    BY <1>3, <1>4

\* A row that is not long enough is no reason to turn.
LEMMA ShortRows ==
    ASSUME NEW s \in Results, NEW n \in Nat, NEW b \in {"good", "failed"}, NEW limit \in Nat, n < limit, Leads(s, n, b)
    PROVE  ~Row(s, limit, b)
<1>1. Len(s) \in Nat
    BY DEF Results
<1> QED
    BY <1>1 DEF Leads, Row

\* One more result of the kind makes the row one longer.
LEMMA RowGrows ==
    ASSUME NEW s \in Results, NEW n \in Nat, NEW b \in {"good", "failed"}, n < Larger, Leads(s, n, b),
           NEW r, r = Newest(<<b>> \o s)
    PROVE  Leads(r, n + 1, b)
<1>1. /\ r \in Results /\ Len(r) >= 1 /\ r[1] = b
      /\ Len(r) <= Len(s) + 1 /\ (Len(s) < Larger => Len(r) = Len(s) + 1)
      /\ \A i \in 2 .. Len(r) : r[i] = s[i - 1]
      /\ Len(s) = Larger => Len(r) = Larger
    BY NewestFacts, ZenonT(60)
<1>2. Len(s) \in Nat /\ Len(r) \in Nat /\ Len(s) <= Larger /\ Larger \in Nat
    BY <1>1, LimitFacts DEF Results
<1>3. Len(s) >= n /\ \A i \in 1 .. n : s[i] = b
    BY DEF Leads, Row
<1>4. Len(r) >= n + 1
    BY <1>1, <1>2, <1>3
<1>5. ASSUME NEW i \in 1 .. n + 1 PROVE r[i] = b
    <2>1. CASE i = 1
        BY <2>1, <1>1
    <2>2. CASE i # 1
        <3>1. i \in 2 .. Len(r) /\ i - 1 \in 1 .. n
            BY <2>2, <1>2, <1>4
        <3> QED BY <3>1, <1>1, <1>3
    <2> QED BY <2>1, <2>2
<1>6. ASSUME Len(r) > n + 1 PROVE r[n + 2] # b
    <2>1. n + 2 \in 2 .. Len(r) /\ Len(s) > n
        BY <1>1, <1>2, <1>6
    <2>2. r[n + 2] = s[n + 1]
        BY <2>1, <1>1
    <2> QED BY <2>1, <2>2 DEF Leads
<1> QED
    BY <1>4, <1>5, <1>6 DEF Leads, Row

\* A result of the other kind ends the row.
LEMMA RowEnds ==
    ASSUME NEW s \in Results, NEW b \in {"good", "failed"}, NEW r, r = Newest(<<b>> \o s)
    PROVE  /\ r \in Results
           /\ \A c \in {"good", "failed"} \ {b} :
                  Leads(r, 0, c) /\ \A limit \in Nat \ {0} : ~Row(r, limit, c)
<1>1. r \in Results /\ Len(r) >= 1 /\ r[1] = b
    BY NewestFacts, ZenonT(60)
<1>2. Len(r) \in Nat
    BY <1>1 DEF Results
<1>3. ASSUME NEW c \in {"good", "failed"} \ {b} PROVE Leads(r, 0, c)
    BY <1>1, <1>2 DEF Leads, Row
<1>4. ASSUME NEW c \in {"good", "failed"} \ {b}, NEW limit \in Nat \ {0} PROVE ~Row(r, limit, c)
    BY <1>1, <1>2 DEF Row
<1> QED
    BY <1>1, <1>3, <1>4

\* A worker that is not checked keeps its state, which its row does not change.
LEMMA UncheckedKeeps ==
    ASSUME RowInv, NEW h \in AllHosts,
           recent'[h] = recent[h], healthy'[h] = healthy[h], fails'[h] = fails[h], oks'[h] = oks[h]
    PROVE  Counted(h)' /\ Follows(h)
<1>1. recent[h] \in Results /\ healthy[h] \in BOOLEAN /\ fails[h] \in Nat /\ oks[h] \in Nat /\ Counted(h)
    BY DEF RowInv
<1>2. Counted(h)'
    BY <1>1 DEF Counted
<1>3. CASE healthy[h] = TRUE
    <2>1. ~Row(recent[h], Needed(FailureLimit), "failed")
        BY <1>1, <1>3, LimitFacts, ShortRows DEF Counted
    <2> QED BY <1>2, <1>3, <2>1, ZenonT(60) DEF Follows
<1>4. CASE healthy[h] = FALSE
    <2>1. ~Row(recent[h], Needed(SuccessLimit), "good")
        BY <1>1, <1>4, LimitFacts, ShortRows DEF Counted
    <2> QED BY <1>2, <1>4, <2>1, ZenonT(60) DEF Follows
<1> QED
    BY <1>1, <1>3, <1>4, ZenonT(60)

\* check_health_async: a good check and a failed one, of a healthy worker and of an
\* unhealthy one.
LEMMA CheckedKeeps ==
    ASSUME RowInv, NEW h \in AllHosts, CheckWorker(h)
    PROVE  /\ recent'[h] \in Results /\ healthy'[h] \in BOOLEAN /\ fails'[h] \in Nat /\ oks'[h] \in Nat
           /\ Counted(h)' /\ Follows(h)
<1>1. /\ recent[h] \in Results /\ healthy[h] \in BOOLEAN /\ fails[h] \in Nat /\ oks[h] \in Nat /\ Counted(h)
      /\ answering[h] \in BOOLEAN
    BY DEF RowInv
<1>0. fails[h] \in Nat /\ oks[h] \in Nat
    BY <1>1
<1>2. recent'[h] = Newest(<<Result(h)>> \o recent[h])
    BY DEF CheckWorker, RowInv
<1> PICK s, r, b : s = recent[h] /\ r = recent'[h] /\ b = Result(h)
    OBVIOUS
<1>3. s \in Results /\ b \in {"good", "failed"} /\ r = Newest(<<b>> \o s)
    BY <1>1, <1>2 DEF Result
<1>4. /\ r \in Results
      /\ \A c \in {"good", "failed"} \ {b} : Leads(r, 0, c) /\ \A limit \in Nat \ {0} : ~Row(r, limit, c)
    BY <1>3, RowEnds
<1>5. CASE b = "good"
    <2> DEFINE n == Up(oks[h], SuccessLimit)
               turns == ~healthy[h] /\ n >= SuccessLimit
    <2> HIDE DEF n
    <2>1. /\ fails'[h] = 0 /\ oks'[h] = (IF turns THEN 0 ELSE n) /\ healthy'[h] = (healthy[h] \/ turns)
        BY <1>5 DEF n, CheckWorker, Passed, RowInv, Result
    <2>5. n \in Nat
        BY <1>0, HealthConfigIsValid DEF n, Up
    <2>0. n \in Nat /\ fails'[h] = 0
        BY <2>1, <2>5
    <2>2. Leads(r, 0, "failed") /\ ~Row(r, Needed(FailureLimit), "failed")
        BY <1>4, <1>5, LimitFacts
    <2>3. CASE healthy[h] = TRUE
        <3>0. healthy'[h] = TRUE
            BY <2>1, <2>3, ZenonT(60)
        <3>1. healthy'[h] = TRUE /\ oks'[h] \in Nat
            BY <2>0, <2>1, <3>0
        <3>2. Counted(h)'
            BY <2>0, <2>2, <3>0, LimitFacts DEF Counted
        <3>3. Follows(h)
            BY <2>2, <2>3, <3>1, ZenonT(60) DEF Follows
        <3>4. healthy'[h] \in BOOLEAN
            BY <3>0, ZenonT(60)
        <3>5. fails'[h] \in Nat /\ oks'[h] \in Nat
            BY <2>0, <3>1
        <3> QED BY <1>4, <3>2, <3>3, <3>4, <3>5
    <2>4. CASE healthy[h] = FALSE
        <3>1. oks[h] < Needed(SuccessLimit) /\ Leads(s, oks[h], "good")
            BY <1>1, <2>4 DEF Counted
        <3>2. Leads(r, oks[h] + 1, "good")
            BY <1>0, <1>3, <1>5, <3>1, LimitFacts, RowGrows
        <3>3. CASE oks[h] + 1 = Needed(SuccessLimit)
            <4>1. n >= SuccessLimit
                BY <1>0, <3>3, HealthConfigIsValid DEF n, Up, Needed
            <4>2. healthy'[h] = TRUE /\ oks'[h] = 0
                BY <2>1, <2>4, <4>1, ZenonT(60)
            <4>3. Row(r, Needed(SuccessLimit), "good")
                BY <3>2, <3>3 DEF Leads
            <4>4. Counted(h)'
                BY <2>0, <2>2, <4>2, LimitFacts DEF Counted
            <4>5. Follows(h)
                BY <2>2, <4>2, <4>3, ZenonT(60) DEF Follows
            <4>6. oks'[h] \in Nat
                BY <4>2
            <4>7. healthy'[h] \in BOOLEAN
                BY <4>2, ZenonT(60)
            <4>8. fails'[h] \in Nat /\ oks'[h] \in Nat
                BY <2>0, <4>6
            <4> QED BY <1>4, <4>4, <4>5, <4>7, <4>8
        <3>4. CASE oks[h] + 1 # Needed(SuccessLimit)
            <4>1. n = oks[h] + 1 /\ ~(n >= SuccessLimit) /\ n < Needed(SuccessLimit)
                BY <1>0, <3>1, <3>4, HealthConfigIsValid DEF n, Up, Needed
            <4>2. healthy'[h] = FALSE /\ oks'[h] = oks[h] + 1
                BY <2>1, <2>4, <4>1, ZenonT(60)
            <4>3. ~Row(r, Needed(SuccessLimit), "good")
                BY <1>0, <1>4, <3>2, <4>1, LimitFacts, ShortRows
            <4>4. Counted(h)'
                BY <3>2, <4>1, <4>2, ZenonT(60) DEF Counted
            <4>5. Follows(h)
                BY <2>2, <2>4, <4>2, <4>3, ZenonT(60) DEF Follows
            <4>6. oks'[h] \in Nat
                BY <1>0, <4>2
            <4>7. healthy'[h] \in BOOLEAN
                BY <4>2, ZenonT(60)
            <4>8. fails'[h] \in Nat /\ oks'[h] \in Nat
                BY <2>0, <4>6
            <4> QED BY <1>4, <4>4, <4>5, <4>7, <4>8
        <3> QED BY <3>3, <3>4
    <2> QED BY <1>1, <2>3, <2>4, ZenonT(60)
<1>6. CASE b = "failed"
    <2> DEFINE n == Up(fails[h], FailureLimit)
               turns == healthy[h] /\ n >= FailureLimit
    <2> HIDE DEF n
    <2>1. /\ oks'[h] = 0 /\ fails'[h] = (IF turns THEN 0 ELSE n) /\ healthy'[h] = (healthy[h] /\ ~turns)
        BY <1>6 DEF n, CheckWorker, Missed, RowInv, Result
    <2>5. n \in Nat
        BY <1>0, HealthConfigIsValid DEF n, Up
    <2>0. n \in Nat /\ oks'[h] = 0
        BY <2>1, <2>5
    <2>2. Leads(r, 0, "good") /\ ~Row(r, Needed(SuccessLimit), "good")
        BY <1>4, <1>6, LimitFacts
    <2>3. CASE healthy[h] = FALSE
        <3>0. healthy'[h] = FALSE
            BY <2>1, <2>3, ZenonT(60)
        <3>1. healthy'[h] = FALSE /\ fails'[h] \in Nat
            BY <2>0, <2>1, <3>0
        <3>2. Counted(h)'
            BY <2>0, <2>2, <3>0, LimitFacts DEF Counted
        <3>3. Follows(h)
            BY <2>2, <2>3, <3>1, ZenonT(60) DEF Follows
        <3>4. healthy'[h] \in BOOLEAN
            BY <3>0, ZenonT(60)
        <3>5. fails'[h] \in Nat /\ oks'[h] \in Nat
            BY <2>0, <3>1
        <3> QED BY <1>4, <3>2, <3>3, <3>4, <3>5
    <2>4. CASE healthy[h] = TRUE
        <3>1. fails[h] < Needed(FailureLimit) /\ Leads(s, fails[h], "failed")
            BY <1>1, <2>4 DEF Counted
        <3>2. Leads(r, fails[h] + 1, "failed")
            BY <1>0, <1>3, <1>6, <3>1, LimitFacts, RowGrows
        <3>3. CASE fails[h] + 1 = Needed(FailureLimit)
            <4>1. n >= FailureLimit
                BY <1>0, <3>3, HealthConfigIsValid DEF n, Up, Needed
            <4>2. healthy'[h] = FALSE /\ fails'[h] = 0
                BY <2>1, <2>4, <4>1, ZenonT(60)
            <4>3. Row(r, Needed(FailureLimit), "failed")
                BY <3>2, <3>3 DEF Leads
            <4>4. Counted(h)'
                BY <2>0, <2>2, <4>2, LimitFacts DEF Counted
            <4>5. Follows(h)
                BY <2>2, <4>2, <4>3, ZenonT(60) DEF Follows
            <4>6. fails'[h] \in Nat
                BY <4>2
            <4>7. healthy'[h] \in BOOLEAN
                BY <4>2, ZenonT(60)
            <4>8. fails'[h] \in Nat /\ oks'[h] \in Nat
                BY <2>0, <4>6
            <4> QED BY <1>4, <4>4, <4>5, <4>7, <4>8
        <3>4. CASE fails[h] + 1 # Needed(FailureLimit)
            <4>1. n = fails[h] + 1 /\ ~(n >= FailureLimit) /\ n < Needed(FailureLimit)
                BY <1>0, <3>1, <3>4, HealthConfigIsValid DEF n, Up, Needed
            <4>2. healthy'[h] = TRUE /\ fails'[h] = fails[h] + 1
                BY <2>1, <2>4, <4>1, ZenonT(60)
            <4>3. ~Row(r, Needed(FailureLimit), "failed")
                BY <1>0, <1>4, <3>2, <4>1, LimitFacts, ShortRows
            <4>4. Counted(h)'
                BY <3>2, <4>1, <4>2 DEF Counted
            <4>5. Follows(h)
                BY <2>2, <2>4, <4>2, <4>3, ZenonT(60) DEF Follows
            <4>6. fails'[h] \in Nat
                BY <1>0, <4>2
            <4>7. healthy'[h] \in BOOLEAN
                BY <4>2, ZenonT(60)
            <4>8. fails'[h] \in Nat /\ oks'[h] \in Nat
                BY <2>0, <4>6
            <4> QED BY <1>4, <4>4, <4>5, <4>7, <4>8
        <3> QED BY <3>3, <3>4
    <2> QED BY <1>1, <2>3, <2>4, ZenonT(60)
<1> QED
    BY <1>3, <1>5, <1>6

\* Every step keeps the counters and the rows together.
LEMMA RowStep ==
    ASSUME RowInv, pools \in PoolChoices, [HealthNext]_healthVars
    PROVE  RowInv' /\ \A h \in AllHosts : Follows(h)
<1>1. AllHosts' = AllHosts
    BY ZenonT(60)
       DEF HealthNext, WaitOn, CheckOn, Outage, ProbeHost, EndRound, GiveUpWaiting, BeginCycle, CheckWorker,
           AllHosts, healthVars
<1>2. ASSUME UNCHANGED <<healthy, fails, oks, recent>>,
             DOMAIN answering' = AllHosts, \A h \in AllHosts : answering'[h] \in BOOLEAN,
             due' \subseteq AllHosts
      PROVE  RowInv' /\ \A h \in AllHosts : Follows(h)
    <2>1. ASSUME NEW h \in AllHosts PROVE Counted(h)' /\ Follows(h)
        BY <1>2, UncheckedKeeps
    <2> QED BY <1>1, <1>2, <2>1, ZenonT(60) DEF RowInv
<1>3. ASSUME NEW h \in AllHosts, Outage(h)
      PROVE  RowInv' /\ \A g \in AllHosts : Follows(g)
    <2>1. /\ answering' = [answering EXCEPT ![h] = ~@]
          /\ UNCHANGED <<healthy, fails, oks, recent, due>>
        BY <1>3 DEF Outage, checkVars
    <2>2. DOMAIN answering' = AllHosts /\ \A g \in AllHosts : answering'[g] \in BOOLEAN
        BY <2>1, ZenonT(60) DEF RowInv
    <2> QED BY <1>2, <2>1, <2>2 DEF RowInv
<1>4. ASSUME NEW h \in AllHosts, CheckWorker(h)
      PROVE  RowInv' /\ \A g \in AllHosts : Follows(g)
    <2>1. \A g \in AllHosts \ {h} : /\ recent'[g] = recent[g] /\ healthy'[g] = healthy[g]
                                    /\ fails'[g] = fails[g] /\ oks'[g] = oks[g]
        BY <1>4 DEF CheckWorker, Passed, Missed, RowInv
    <2>2. /\ DOMAIN recent' = AllHosts /\ DOMAIN healthy' = AllHosts
          /\ DOMAIN fails' = AllHosts /\ DOMAIN oks' = AllHosts
          /\ recent' = [g \in DOMAIN recent' |-> recent'[g]] /\ healthy' = [g \in DOMAIN healthy' |-> healthy'[g]]
          /\ fails' = [g \in DOMAIN fails' |-> fails'[g]] /\ oks' = [g \in DOMAIN oks' |-> oks'[g]]
        BY <1>4, ZenonT(60) DEF CheckWorker, Passed, Missed, RowInv
    <2>3. /\ recent'[h] \in Results /\ healthy'[h] \in BOOLEAN /\ fails'[h] \in Nat /\ oks'[h] \in Nat
          /\ Counted(h)' /\ Follows(h)
        BY <1>4, CheckedKeeps
    <2>4. ASSUME NEW g \in AllHosts PROVE Counted(g)' /\ Follows(g)
        BY <2>1, <2>3, UncheckedKeeps, ZenonT(60)
    <2>5. \A g \in AllHosts : recent'[g] \in Results
        BY <2>1, <2>3 DEF RowInv
    <2>6. \A g \in AllHosts : healthy'[g] \in BOOLEAN
        BY <2>1, <2>3 DEF RowInv
    <2>7. \A g \in AllHosts : fails'[g] \in Nat /\ oks'[g] \in Nat
        BY <2>1, <2>3 DEF RowInv
    <2>8. recent' \in [AllHosts -> Results] /\ fails' \in [AllHosts -> Nat] /\ oks' \in [AllHosts -> Nat]
        BY <2>2, <2>5, <2>7
    <2>9. healthy' \in [AllHosts -> BOOLEAN]
        BY <2>2, <2>6
    <2>10. answering' = answering /\ due' \subseteq AllHosts
        BY <1>4 DEF CheckWorker, RowInv
    <2>11. Results' = Results
        BY DEF Results
    <2> QED BY <1>1, <2>4, <2>8, <2>9, <2>10, <2>11 DEF RowInv
<1>5. CASE WaitOn \/ BeginCycle \/ UNCHANGED healthVars
    <2>1. UNCHANGED <<healthy, fails, oks, recent, answering>> /\ (due' = due \/ due' = AllHosts)
        BY <1>5, ZenonT(60)
           DEF WaitOn, ProbeHost, EndRound, GiveUpWaiting, BeginCycle, checkVars, healthVars
    <2> QED BY <1>2, <2>1 DEF RowInv
<1> QED
    BY <1>3, <1>4, <1>5 DEF HealthNext, CheckOn

\* A router starts to wait, with workers that count as healthy and were not checked.
LEMMA HealthInitially ==
    HealthInit => WaitInv /\ RowInv
<1> SUFFICES ASSUME HealthInit PROVE WaitInv /\ RowInv
    OBVIOUS
<1>1. /\ pools \in PoolChoices /\ answering \in [AllHosts -> BOOLEAN] /\ steady = answering
      /\ waiting = 1 /\ waited = 0 /\ round = {} /\ due = {}
      /\ healthy = [h \in AllHosts |-> TRUE] /\ fails = [h \in AllHosts |-> 0] /\ oks = [h \in AllHosts |-> 0]
      /\ recent = [h \in AllHosts |-> <<>>]
    BY DEF HealthInit
<1>2. Waiting => pools[waiting] \subseteq AllHosts
    BY <1>1, PoolFacts
<1>3. WaitInv
    BY <1>1, <1>2 DEF WaitInv
<1>4. <<>> \in Results
    BY LimitFacts DEF Results
<1>5. ASSUME NEW h \in AllHosts PROVE Counted(h)
    BY <1>1, LimitFacts DEF Counted, Leads, Row
<1>6. RowInv
    BY <1>1, <1>4, <1>5 DEF RowInv
<1> QED
    BY <1>3, <1>6

\* For any pools, thresholds and time-out, a router fails to start only when no host
\* of the pool it waits for has answered since the wait began, and however a worker's
\* checks come out, it turns at the end of a row of the needed length and at no other
\* moment.
THEOREM ChecksAlwaysDecide == HealthSpec => ChecksDecide
<1>1. WaitInv /\ RowInv /\ [HealthNext]_healthVars => (WaitInv /\ RowInv)'
    BY WaitStep, RowStep DEF WaitInv
<1>2. HealthSpec => [](WaitInv /\ RowInv)
    BY HealthInitially, <1>1, PTL DEF HealthSpec
<1>3. WaitInv /\ RowInv /\ [HealthNext]_healthVars =>
          [Waiting /\ Failed' => \A h \in pools[waiting] : ~steady[h]]_healthVars
    BY WaitStep
<1>4. WaitInv /\ RowInv /\ [HealthNext]_healthVars =>
          [\A h \in AllHosts :
              healthy'[h] = IF Row(recent'[h], Needed(FailureLimit), "failed") THEN FALSE
                            ELSE IF Row(recent'[h], Needed(SuccessLimit), "good") THEN TRUE
                            ELSE healthy[h]]_healthVars
    BY RowStep, ZenonT(60) DEF WaitInv, Follows
<1>5. HealthSpec => SteadyHostsSuffice
    BY <1>2, <1>3, PTL DEF HealthSpec, SteadyHostsSuffice
<1>6. HealthSpec => HealthFollowsRows
    BY <1>2, <1>4, PTL DEF HealthSpec, HealthFollowsRows
<1> QED
    BY <1>5, <1>6 DEF ChecksDecide
=============================================================================
