--------------------------- MODULE ProgramRuntime ---------------------------
(***************************************************************************)
(* The Program runtime under an arbitrary policy: one action per operation *)
(* of runtime.rs, taken under the conditions its callers in scheduler*.rs  *)
(* check, with dispatched requests completing in any order and arbitrarily *)
(* late, long after their Program lost its backend, was released, or had   *)
(* its generation history pruned.                                          *)
(***************************************************************************)
EXTENDS RuntimeOps

CONSTANTS MaxRequests,  \* bound on requests ever retained
          MaxEpochs     \* bound on placement epochs ever begun

ASSUME BoundsAssumption == MaxRequests \in Nat /\ MaxEpochs \in Nat

VARIABLES rt,          \* the ProgramRuntime value
          dispatches,  \* ProgramDispatch values whose completion is outstanding
          births,      \* history: Programs ever created, per key
          served       \* history: epochs under which a request was dispatched

vars == <<rt, dispatches, births, served>>

\* A dispatch, with the number of the Program it was made for.
DispatchRecord ==
    [key : Keys, generation : Nat, request : Nat, target : Targets,
     epoch : Nat, start : BOOLEAN, birth : Nat]

TypeOK ==
    /\ rt \in Runtime
    /\ dispatches \subseteq DispatchRecord
    /\ births \in [Keys -> Nat]
    /\ served \subseteq Nat

Init ==
    /\ rt = EmptyRuntime
    /\ dispatches = {}
    /\ births = [k \in Keys |-> 0]
    /\ served = {}

RetainRequest(k) ==
    /\ rt.nextRequestId < MaxRequests
    /\ rt' = Retain(rt, k)
    /\ births' = [births EXCEPT ![k] = IF Live(rt, k) THEN @ ELSE @ + 1]
    /\ UNCHANGED <<dispatches, served>>

\* commit_admission reaches activate for a paused Program with a waiter.
ActivateProgram(k, t) ==
    /\ rt.nextEpoch < MaxEpochs
    /\ CanActivate(rt, k)
    /\ rt' = Activate(rt, k, t)
    /\ UNCHANGED <<dispatches, births, served>>

\* claim_dispatch: every waiting request of a placed Program may try.
ClaimDispatch(k, r) ==
    /\ Live(rt, k) /\ Retained(rt, k, r)
    /\ rt.programs[k].placement # None
    /\ rt' = AdmitFront(rt, k, r)
    /\ IF IsFront(rt, k, r)
       THEN /\ dispatches' = dispatches \cup {Dispatch(rt, k, r, births[k])}
            /\ served' = served \cup {rt.programs[k].epoch}
       ELSE UNCHANGED <<dispatches, served>>
    /\ UNCHANGED births

CompleteRequest(d) ==
    /\ dispatches' = dispatches \ {d}
    /\ rt' = IF CompletionIsCurrent(rt, d) THEN Complete(rt, d) ELSE rt
    /\ UNCHANGED <<births, served>>

CancelRequest(k, r) ==
    /\ Live(rt, k) /\ Retained(rt, k, r)
    /\ rt' = Cancel(rt, k, r)
    /\ UNCHANGED <<dispatches, births, served>>

\* Every caller of pause_idle has found the Program without demand.
PauseProgram(k) ==
    /\ CanPauseIdle(rt, k) /\ rt.programs[k].status = "Acting"
    /\ rt' = PauseIdle(rt, k)
    /\ UNCHANGED <<dispatches, births, served>>

ReleaseProgram(k) ==
    /\ CanReleaseIdle(rt, k)
    /\ rt' = ReleaseIdle(rt, k)
    /\ UNCHANGED <<dispatches, births, served>>

PruneGenerations(k) ==
    /\ CanPrune(rt, k)
    /\ rt' = Prune(rt, k)
    /\ UNCHANGED <<dispatches, births, served>>

LoseTarget(k, t) ==
    /\ rt.nextEpoch < MaxEpochs
    /\ CanInvalidate(rt, k, {t})
    /\ rt' = Invalidate(rt, k)
    /\ UNCHANGED <<dispatches, births, served>>

Next ==
    \/ \E k \in Keys :
          \/ RetainRequest(k)
          \/ \E t \in Targets : ActivateProgram(k, t)
          \/ \E i \in DOMAIN rt.pool[k] : ClaimDispatch(k, rt.pool[k][i])
          \/ \E i \in DOMAIN rt.pool[k] : CancelRequest(k, rt.pool[k][i])
          \/ PauseProgram(k)
          \/ ReleaseProgram(k)
          \/ PruneGenerations(k)
          \/ \E t \in Targets : LoseTarget(k, t)
    \/ \E d \in dispatches : CompleteRequest(d)

Spec == Init /\ [][Next]_vars
-----------------------------------------------------------------------------
\* The dispatches whose completion the live Program of k still counts.
Outstanding(k) ==
    {d \in dispatches : /\ d.key = k
                        /\ d.generation = rt.programs[k].generation
                        /\ d.epoch = rt.programs[k].epoch}

(***************************************************************************)
(* in_flight_requests (runtime.rs) is exactly the number of unfinished     *)
(* dispatches of the current placement: completions of an earlier epoch or *)
(* generation are never counted, and none of the current one is lost.      *)
(***************************************************************************)
InFlightExact ==
    \A k \in Keys : Live(rt, k) =>
        rt.programs[k].inFlight = Cardinality(Outstanding(k))

(***************************************************************************)
(* A dispatch that complete_request would still accept is running on the   *)
(* backend its Program is placed on now: no pause, move or release leaves  *)
(* a completion that could be charged to another placement.                *)
(***************************************************************************)
CurrentDispatchOnPlacement ==
    \A d \in dispatches : CompletionIsCurrent(rt, d) =>
        /\ rt.programs[d.key].state = "Active"
        /\ rt.programs[d.key].placement = d.target

(***************************************************************************)
(* ACTIVE and having a placement are the same thing (state and placement   *)
(* are separate fields that five operations write).                        *)
(***************************************************************************)
ActiveIffPlaced ==
    \A k \in Keys : Live(rt, k) =>
        (rt.programs[k].state = "Active" <=> rt.programs[k].placement # None)

(***************************************************************************)
(* ACTING Programs have no demand, so pausing one (TTL expiry, capacity    *)
(* repair, segment yield) or releasing it never strands a request.         *)
(***************************************************************************)
ActingHasNoDemand ==
    \A k \in Keys : Live(rt, k) /\ rt.programs[k].status = "Acting" => Idle(rt, k)

(***************************************************************************)
(* Requests of a Program are dispatched in the order they were retained:   *)
(* request_pool.rs is a FIFO whatever is cancelled from its middle, and    *)
(* take_front hands out nothing but its head.                              *)
(***************************************************************************)
DispatchInArrivalOrder ==
    \A d \in dispatches : \A i \in DOMAIN rt.pool[d.key] :
        d.request < rt.pool[d.key][i]

(***************************************************************************)
(* domain.rs, ProgramRef: "A later generation with the same external       *)
(* Program ID must not be mutated by a delayed completion".  Stated for    *)
(* the Program itself and not its generation number, which                 *)
(* prune_released_generations allows to be used again.                     *)
(***************************************************************************)
LateCompletionInert ==
    [][\A d \in dispatches \ dispatches' :
           d.birth # births[d.key] => rt' = rt]_vars

(***************************************************************************)
(* A placement epoch has at most one placement-start dispatch              *)
(* (domain.rs, placement_start_request; admit_front clears the mark).      *)
(***************************************************************************)
AtMostOneStart ==
    [][\A d \in dispatches' \ dispatches : d.start => d.epoch \notin served]_vars

(***************************************************************************)
(* Neither a completion of an earlier Program nor a second start disturbs a*)
(* placement epoch.                                                        *)
(***************************************************************************)
PlacementsAreFenced == LateCompletionInert /\ AtMostOneStart
-----------------------------------------------------------------------------
(***************************************************************************)
(* The inductive invariant behind the properties above.                    *)
(***************************************************************************)
\* Retained and dispatched requests carry ids already handed out, and every
\* queue is in the order of its ids.
RequestIds ==
    /\ \A d \in dispatches : d.request <= rt.nextRequestId
    /\ \A k \in Keys : \A i \in DOMAIN rt.pool[k] : rt.pool[k][i] <= rt.nextRequestId
    /\ \A k \in Keys : \A i, j \in DOMAIN rt.pool[k] :
           i < j => rt.pool[k][i] < rt.pool[k][j]

\* Epochs come from one counter: dispatches have a nonzero one, a Program has
\* zero only before its first placement, and no two Programs share another.
Epochs ==
    /\ \A d \in dispatches : d.epoch \in 1 .. rt.nextEpoch /\ d.birth <= births[d.key]
    /\ \A e \in served : e \in 1 .. rt.nextEpoch
    /\ \A k \in Keys : Live(rt, k) =>
           /\ rt.programs[k].epoch <= rt.nextEpoch
           /\ rt.programs[k].placement # None => rt.programs[k].epoch > 0
           /\ rt.programs[k].startPending => rt.programs[k].epoch > 0
           /\ rt.programs[k].startPending => rt.programs[k].epoch \notin served
    /\ \A k, m \in Keys :
           Live(rt, k) /\ Live(rt, m) /\ k # m /\ rt.programs[k].epoch > 0
               => rt.programs[k].epoch # rt.programs[m].epoch

\* A dispatch with its Program's current epoch belongs to the Program's
\* current life and placement.
EpochFences ==
    \A d \in dispatches :
        Live(rt, d.key) /\ d.epoch = rt.programs[d.key].epoch =>
            /\ d.generation = rt.programs[d.key].generation
            /\ d.birth = births[d.key]
            /\ d.target = rt.programs[d.key].placement

\* Requests are retained for live Programs only.
PoolIsLive == \A k \in Keys : ~Live(rt, k) => rt.pool[k] = << >>

IInv ==
    /\ TypeOK
    /\ IsFiniteSet(dispatches)
    /\ InFlightExact
    /\ ActiveIffPlaced
    /\ ActingHasNoDemand
    /\ DispatchInArrivalOrder
    /\ RequestIds
    /\ Epochs
    /\ EpochFences
    /\ PoolIsLive
-----------------------------------------------------------------------------
(***************************************************************************)
(* Under any policy the runtime is an AdmissionService: pauses, moves, lost*)
(* backends, releases and pruned generations are invisible to its callers, *)
(* whose requests are dispatched in their order of arrival, once each, and *)
(* not after they were cancelled (retain_request, admit_front,             *)
(* cancel_request, complete_request).                                      *)
(***************************************************************************)
Service ==
    INSTANCE AdmissionService WITH
        issued <- rt.nextRequestId, waiting <- rt.pool,
        running <- {<<d.key, d.request, d.target>> : d \in dispatches}

RuntimeIsService == Service!Spec
=============================================================================
