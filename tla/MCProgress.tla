----------------------------- MODULE MCProgress -----------------------------
(***************************************************************************)
(* What must not wait for ever, for TLC: a behaviour is one of the Program *)
(* scheduler ("scheduler"), on the instances of MCProgramScheduler, or of  *)
(* one of the guards in front of the workers: a worker's circuit breaker   *)
(* ("breaker"), the concurrency limiter ("limiter") or the WASM middleware *)
(* ("wasm").  They share no state here; the others rest in their initial   *)
(* state.                                                                  *)
(*                                                                         *)
(* Fairness of the scheduler: the executor polls woken acquire calls and   *)
(* fires their timers; the observation loop ticks while some pool has a    *)
(* rank; every dispatch is completed, by its response or by the guard its  *)
(* body drops; clocks advance.  Nothing forces a request to arrive, a      *)
(* caller to give up, the queue timeout to pass, a pool to change or a     *)
(* backend to report.  Each fair action names only the variable its step   *)
(* is seen in, and is enabled exactly when a step of Next is that does it. *)
(***************************************************************************)
EXTENDS MCProgramScheduler, CircuitBreaker, ConcurrencyLimit, WasmMiddleware

CONSTANT LiveParts    \* the parts that behaviours are of

VARIABLES
    part,
    beat     \* parity of the scheduler's ticks

allVars == <<part, vars, beat, breakerVars, limitVars, wasmVars>>

CanAdvance(task) ==
    \/ task.phase \in {"claim", "last", "arm", "alarmed", "expired"}
    \/ task.phase = "parked" /\ task.request \in s.permits

Advances(r) ==
    \E task \in tasks :
        /\ task.request = r /\ CanAdvance(task)
        /\ \/ tasks' = tasks \ {task}
           \/ \E phase \in {"claim", "last", "arm", "parked", "alarmed", "expired"} :
                  Step(task, phase)

Completes(r) == \E d \in dispatches : d.request = r /\ dispatches' = dispatches \ {d}

Beats == LiveTargets(s) # {} /\ beat' = 1 - beat

ProgressInit ==
    /\ part \in LiveParts
    /\ Init /\ beat = 0 /\ BreakerInit /\ LimitInit /\ WasmInit

ProgressNext ==
    \/ /\ part = "scheduler"
       /\ (Event /\ UNCHANGED beat) \/ (Tick /\ beat' = 1 - beat)
       /\ UNCHANGED <<part, breakerVars, limitVars, wasmVars>>
    \/ part = "breaker" /\ BreakerNext /\ UNCHANGED <<part, vars, beat, limitVars, wasmVars>>
    \/ part = "limiter" /\ LimitNext /\ UNCHANGED <<part, vars, beat, breakerVars, wasmVars>>
    \/ part = "wasm" /\ WasmNext /\ UNCHANGED <<part, vars, beat, breakerVars, limitVars>>

\* The scheduler's fairness, BreakerFairness, LimitFairness and WasmFairness, each for its
\* own behaviours.
ProgressSpec ==
    /\ ProgressInit /\ [][ProgressNext]_allVars
    /\ WF_beat(part = "scheduler" /\ Beats)
    /\ \A r \in 1 .. MaxRequests : /\ WF_tasks(part = "scheduler" /\ Advances(r))
                                   /\ WF_dispatches(part = "scheduler" /\ Completes(r))
    /\ \A k \in Keys, timer \in {"force", "ttl", "retention"} :
           WF_vars(part = "scheduler" /\ Passes(k, timer))
    /\ WF_breakerVars(part = "breaker" /\ TimeoutElapses)
    /\ \A t \in Threads : /\ WF_breakerVars(part = "breaker" /\ BreakerStep(t))
                          /\ WF_breakerVars(part = "breaker" /\ Begin(t, <<"check">>))
    /\ WF_limitVars(part = "limiter" /\ Process) /\ WF_limitVars(part = "limiter" /\ LimitTick)
    /\ \A r \in Callers : WF_limitVars(part = "limiter" /\ ServeCaller(r))
    /\ \A g \in GuestWorkers : /\ WF_wasmVars(part = "wasm" /\ TakeJob(g))
                               /\ WF_wasmVars(part = "wasm" /\ RunGuest(g))
-----------------------------------------------------------------------------
(***************************************************************************)
(* docs/program_scheduling.md: "force resume bounds starvation".  Whether  *)
(* or not the queue timeout ever passes, an acquire call does not wait for *)
(* ever while its backend has no queue of its own.                         *)
(***************************************************************************)
ForceBoundsStarvation ==
    \A r \in 1 .. MaxRequests :
        (\E task \in tasks : task.request = r) ~> ~(\E task \in tasks : task.request = r)

(***************************************************************************)
(* docs/program_scheduling.md on paused_retention_ttl_seconds: "Releases   *)
(* an idle paused Program generation after this retention period so stale  *)
(* Program state and logical capacity do not persist indefinitely."        *)
(***************************************************************************)
IdlePausedIsReleased ==
    LET IdlePaused(k) == Live(s.rt, k) /\ s.rt.programs[k].state = "Paused" /\ Idle(s.rt, k)
    IN  \A k \in Keys : IdlePaused(k) ~> ~IdlePaused(k)

(***************************************************************************)
(* Nobody waits for ever for a Program: not a caller for its admission, nor*)
(* the capacity of an idle paused Program for its release.                 *)
(***************************************************************************)
ProgramsAreServed == ForceBoundsStarvation /\ IdlePausedIsReleased

(***************************************************************************)
(* The guards serve, whatever fails behind them: an open circuit is left   *)
(* again (check_and_update_state), every caller of the limiter is answered *)
(* and lost tokens come back (concurrency_limit_middleware), and every     *)
(* request that waits for the WASM guest is answered (worker_loop).        *)
(***************************************************************************)
GuardsServe == OpenIsTemporary /\ LimiterServes /\ WaitersAreAnswered
=============================================================================
