--------------------------- MODULE RuntimeOps -----------------------------
(***************************************************************************)
(* Program generations, retained requests and placements: the lifecycle    *)
(* facts that program_scheduling/runtime.rs and request_pool.rs own.       *)
(*                                                                         *)
(* ProgramRuntime "mutates lifecycle facts but makes no scheduling         *)
(* decisions", so its operations are operators from a runtime value to the *)
(* next one, which ProgramRuntime calls one at a time and ProgramScheduler *)
(* composes into the critical sections of its mutex.                       *)
(*                                                                         *)
(* A Program key stands for (model_pool, program_id).  The HashMaps keyed  *)
(* by it are functions on Keys with None (or -1, FALSE, <<>>) for an       *)
(* absent entry.  RequestPool is keyed by the exact generation; a          *)
(* generation is only released with an empty queue, so one queue per key   *)
(* holds the same requests.                                                *)
(***************************************************************************)
EXTENDS Integers, Sequences, SequencesExt, FiniteSets

CONSTANTS Keys,     \* Program identities
          Targets,  \* concrete backend ranks
          None      \* Option::None

Program == [generation : Nat, state : {"Active", "Paused"},
            status : {"Reasoning", "Acting"}, placement : Targets \cup {None},
            epoch : Nat, startPending : BOOLEAN, inFlight : Nat]

ASSUME NoneAssumption == None \notin Targets /\ None \notin Program

(***************************************************************************)
(* The runtime value.  lastGeneration = -1 is an absent entry, so that the *)
(* next generation is always the entry plus one.  released marks an entry  *)
(* of released_generations_at; its age is left to the caller of Prune.     *)
(***************************************************************************)
Runtime == [programs : [Keys -> Program \cup {None}],
            lastGeneration : [Keys -> Nat \cup {-1}],
            released : [Keys -> BOOLEAN],
            pool : [Keys -> Seq(Nat)],
            nextRequestId : Nat,
            nextEpoch : Nat]

EmptyRuntime == [programs |-> [k \in Keys |-> None],
                 lastGeneration |-> [k \in Keys |-> -1],
                 released |-> [k \in Keys |-> FALSE],
                 pool |-> [k \in Keys |-> << >>],
                 nextRequestId |-> 0,
                 nextEpoch |-> 0]

FreshProgram(generation) ==
    [generation |-> generation, state |-> "Paused", status |-> "Reasoning",
     placement |-> None, epoch |-> 0, startPending |-> FALSE, inFlight |-> 0]

Live(rt, k) == rt.programs[k] # None

Waiting(rt, k) == Len(rt.pool[k])

Idle(rt, k) == rt.programs[k].inFlight = 0 /\ rt.pool[k] = << >>

\* Mutant: the newest request is served first.
RetainFirst(rt, k) ==
    LET fresh == ~Live(rt, k)
    IN  [rt EXCEPT !.programs[k] = IF fresh THEN FreshProgram(rt.lastGeneration[k] + 1)
                                   ELSE [@ EXCEPT !.status = "Reasoning"],
                   !.lastGeneration[k] = IF fresh THEN @ + 1 ELSE @,
                   !.pool[k] = <<rt.nextRequestId + 1>> \o @,
                   !.nextRequestId = @ + 1]

(***************************************************************************)
(* retain_request: the request joins the tail of its Program's queue; an   *)
(* unknown Program starts its next generation.                             *)
(***************************************************************************)
Retain(rt, k) ==
    LET fresh == ~Live(rt, k)
        generation == rt.lastGeneration[k] + 1
        program == IF fresh THEN FreshProgram(generation) ELSE rt.programs[k]
    IN  [rt EXCEPT !.programs[k] = [program EXCEPT !.status = "Reasoning"],
                   !.lastGeneration[k] = IF fresh THEN generation ELSE @,
                   !.released[k] = FALSE,
                   !.pool[k] = Append(@, rt.nextRequestId + 1),
                   !.nextRequestId = @ + 1]

(***************************************************************************)
(* activate: a paused Program with a waiting request begins a placement.   *)
(***************************************************************************)
CanActivate(rt, k) ==
    /\ Live(rt, k)
    /\ rt.programs[k].state = "Paused"
    /\ rt.pool[k] # << >>

Activate(rt, k, t) ==
    [rt EXCEPT !.nextEpoch = @ + 1,
               !.programs[k] = [@ EXCEPT !.state = "Active",
                                         !.status = "Reasoning",
                                         !.placement = t,
                                         !.epoch = rt.nextEpoch + 1,
                                         !.startPending = TRUE]]

(***************************************************************************)
(* admit_front for a handle the caller has matched with its Program's      *)
(* placement (claim_dispatch).  The pending mark is cleared whether or not *)
(* the handle turns out to be the front of its queue.                      *)
(***************************************************************************)
IsFront(rt, k, r) == rt.pool[k] # << >> /\ Head(rt.pool[k]) = r

\* Mutant: the pending mark survives the dispatch.
AdmitKeepsMark(rt, k, r) ==
    IF IsFront(rt, k, r)
    THEN [rt EXCEPT !.pool[k] = Tail(@), !.programs[k].status = "Reasoning",
                    !.programs[k].inFlight = @ + 1]
    ELSE rt

AdmitFront(rt, k, r) ==
    LET front == IsFront(rt, k, r)
        p == [rt.programs[k] EXCEPT !.startPending = FALSE]
    IN  [rt EXCEPT !.pool[k] = IF front THEN Tail(@) ELSE @,
                   !.programs[k] = IF front
                                   THEN [p EXCEPT !.status = "Reasoning",
                                                  !.inFlight = @ + 1]
                                   ELSE p]

\* The ProgramDispatch that AdmitFront hands to the front request; birth
\* numbers the Programs of a key for the properties and is read by no action.
Dispatch(rt, k, r, birth) ==
    [key |-> k, generation |-> rt.programs[k].generation, request |-> r,
     target |-> rt.programs[k].placement, epoch |-> rt.programs[k].epoch,
     start |-> rt.programs[k].startPending, birth |-> birth]

(***************************************************************************)
(* complete_request: a completion counts only for the generation and the   *)
(* placement epoch that dispatched it.                                     *)
(***************************************************************************)
CompletionIsCurrent(rt, d) ==
    /\ Live(rt, d.key)
    /\ rt.programs[d.key].generation = d.generation
    /\ rt.programs[d.key].epoch = d.epoch
    /\ rt.programs[d.key].inFlight > 0

Complete(rt, d) ==
    LET p == rt.programs[d.key]
        left == p.inFlight - 1
        idle == left = 0 /\ rt.pool[d.key] = << >>
    IN  [rt EXCEPT !.programs[d.key] =
                       [p EXCEPT !.inFlight = left,
                                 !.status = IF idle THEN "Acting" ELSE p.status]]

(***************************************************************************)
(* cancel_request: removes a retained request wherever it is in its queue. *)
(***************************************************************************)
Position(rt, k, r) == CHOOSE i \in DOMAIN rt.pool[k] : rt.pool[k][i] = r

Retained(rt, k, r) == \E i \in DOMAIN rt.pool[k] : rt.pool[k][i] = r

Cancel(rt, k, r) ==
    LET pool == RemoveAt(rt.pool[k], Position(rt, k, r))
        p == rt.programs[k]
        idle == p.inFlight = 0 /\ pool = << >>
    IN  [rt EXCEPT !.pool[k] = pool,
                   !.programs[k] =
                       IF idle THEN [p EXCEPT !.status = "Acting",
                                              !.state = "Paused",
                                              !.placement = None]
                               ELSE p]

(***************************************************************************)
(* pause_idle: an active Program without requests in flight gives up its   *)
(* placement and keeps its epoch.                                          *)
(***************************************************************************)
CanPauseIdle(rt, k) ==
    Live(rt, k) /\ rt.programs[k].state = "Active" /\ rt.programs[k].inFlight = 0

PauseIdle(rt, k) ==
    [rt EXCEPT !.programs[k] = [@ EXCEPT !.state = "Paused", !.placement = None]]

(***************************************************************************)
(* release_idle and prune_released_generations: forget an idle Program,    *)
(* and later the last generation that fences its late completions.         *)
(***************************************************************************)
CanReleaseIdle(rt, k) == Live(rt, k) /\ Idle(rt, k)

ReleaseIdle(rt, k) ==
    [rt EXCEPT !.lastGeneration[k] = rt.programs[k].generation,
               !.released[k] = TRUE,
               !.programs[k] = None]

CanPrune(rt, k) == rt.released[k] /\ ~Live(rt, k)

Prune(rt, k) == [rt EXCEPT !.released[k] = FALSE, !.lastGeneration[k] = -1]

(***************************************************************************)
(* invalidate_placement: the backend is gone.  A new epoch disowns what is *)
(* in flight; the demand status is left as it was.                         *)
(***************************************************************************)
CanInvalidate(rt, k, removed) == Live(rt, k) /\ rt.programs[k].placement \in removed

\* Mutant: a lost backend leaves the epoch as it was.
InvalidateKeepsEpoch(rt, k) ==
    [rt EXCEPT !.programs[k] = [@ EXCEPT !.state = "Paused", !.placement = None,
                                         !.startPending = FALSE, !.inFlight = 0]]

Invalidate(rt, k) ==
    [rt EXCEPT !.nextEpoch = @ + 1,
               !.programs[k] = [@ EXCEPT !.state = "Paused",
                                         !.placement = None,
                                         !.epoch = rt.nextEpoch + 1,
                                         !.startPending = FALSE,
                                         !.inFlight = 0]]
=============================================================================
