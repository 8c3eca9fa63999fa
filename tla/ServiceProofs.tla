---------------------------- MODULE ServiceProofs ----------------------------
(***************************************************************************)
(* That the Program runtime implements AdmissionService under any policy,  *)
(* for any Programs, backends and numbers of requests: every step of the   *)
(* runtime is the step of the service it stands for, or is not seen.       *)
(***************************************************************************)
EXTENDS ProgramRuntimeProofs

\* Every leaf has a minute of each prover, so that a busy machine fails none of them.
USE SMTT(60), ZenonT(60)

\* A request has one dispatch at most.
DispatchesAreUnique ==
    \A d, e \in dispatches : d.key = e.key /\ d.request = e.request => d = e

\* What the callers see of the dispatches, and the state they see.
SeenDispatches == {<<d.key, d.request, d.target>> : d \in dispatches}
ServiceVars == <<rt.nextRequestId, rt.pool, SeenDispatches>>

(***************************************************************************)
(* The request that admit_front dispatches is younger than every other one *)
(* of its Program that was, so no two dispatches are of one request.       *)
(***************************************************************************)
LEMMA UniqueKept ==
    ASSUME IInv, DispatchesAreUnique, [Next]_vars
    PROVE  DispatchesAreUnique'
<1>1. CASE \E k \in Keys : \E r : ClaimDispatch(k, r)
  <2>1. PICK k \in Keys : \E r : ClaimDispatch(k, r)
      BY <1>1
  <2>2. PICK r : ClaimDispatch(k, r)
      BY <2>1
  <2>3. CASE ~IsFront(rt, k, r)
    <3>1. dispatches' = dispatches
        BY <2>2, <2>3 DEF ClaimDispatch
    <3> QED
        BY <3>1 DEF DispatchesAreUnique
  <2>4. CASE IsFront(rt, k, r)
    <3> DEFINE new == Dispatch(rt, k, r, births[k])
    <3>1. dispatches' = dispatches \cup {new}
        BY <2>2, <2>4 DEF ClaimDispatch
    <3>2. new.key = k /\ new.request = r
        BY ZenonT(60) DEF Dispatch
    <3>3. rt.pool[k] \in Seq(Nat) /\ rt.pool[k] # << >> /\ r = Head(rt.pool[k])
        BY <2>4, FieldTypes DEF IInv, IsFront
    <3>4. 1 \in DOMAIN rt.pool[k] /\ rt.pool[k][1] = r /\ r \in Nat
        BY <3>3
    <3>5. \A d \in dispatches : d.request \in Nat
        BY ZenonT(60) DEF IInv, TypeOK, DispatchRecord
    <3>6. \A d \in dispatches : d.key = k => d.request # r
        BY <3>4, <3>5 DEF IInv, DispatchInArrivalOrder
    <3> HIDE DEF new
    <3> QED
        BY <3>1, <3>2, <3>6 DEF DispatchesAreUnique
  <2> QED
      BY <2>3, <2>4
<1>2. CASE ~\E k \in Keys : \E r : ClaimDispatch(k, r)
  <2>1. dispatches' \subseteq dispatches
      BY <1>2, ZenonT(60) DEF Next, vars, RetainRequest, ActivateProgram, CompleteRequest,
         CancelRequest, PauseProgram, ReleaseProgram, PruneGenerations, LoseTarget
  <2> QED
      BY <2>1 DEF DispatchesAreUnique
<1> QED
    BY <1>1, <1>2

(***************************************************************************)
(* A step that replaces a Program but not its queue is not seen.           *)
(***************************************************************************)
LEMMA InvisibleStep ==
    ASSUME TypeOK, NEW k \in Keys, NEW p, NEW e,
           Updated(rt, rt', k, p, rt.pool[k], rt.nextRequestId, e), dispatches' = dispatches
    PROVE  UNCHANGED ServiceVars
<1>1. rt.pool = [m \in Keys |-> rt.pool[m]]
    BY ZenonT(60) DEF TypeOK, Runtime
<1>2. rt'.pool = rt.pool /\ rt'.nextRequestId = rt.nextRequestId
    BY <1>1, ZenonT(60) DEF Updated
<1> QED
    BY <1>2 DEF ServiceVars, SeenDispatches

(***************************************************************************)
(* retain_request is Submit.                                               *)
(***************************************************************************)
LEMMA RetainSubmits ==
    ASSUME IInv, NEW k \in Keys, RetainRequest(k)
    PROVE  Service!Submit(k)
<1>1. PICK p \in Program : Updated(rt, rt', k, p, Append(rt.pool[k], rt.nextRequestId + 1),
                                   rt.nextRequestId + 1, rt.nextEpoch)
    BY RetainShape DEF IInv
<1>2. dispatches' = dispatches
    BY DEF RetainRequest
<1> QED
    BY <1>1, <1>2 DEF Service!Submit, Updated

(***************************************************************************)
(* admit_front of the front request is Dispatch to its placement.          *)
(***************************************************************************)
LEMMA ClaimDispatches ==
    ASSUME IInv, NEW k \in Keys, NEW r, ClaimDispatch(k, r), IsFront(rt, k, r)
    PROVE  \E t \in Targets : Service!Dispatch(k, t)
<1> DEFINE new == Dispatch(rt, k, r, births[k])
<1>1. PICK p \in Program : Updated(rt, rt', k, p, Tail(rt.pool[k]), rt.nextRequestId, rt.nextEpoch)
    BY ClaimFrontShape DEF IInv
<1>2. dispatches' = dispatches \cup {new} /\ rt.programs[k].placement # None /\ Live(rt, k)
    BY DEF ClaimDispatch
<1>3. PICK t \in Targets : t = rt.programs[k].placement
    BY <1>2, FieldTypes DEF IInv
<1>4. new.key = k /\ new.request = r /\ new.target = t
    BY <1>3, ZenonT(60) DEF Dispatch
<1>5. rt.pool[k] # << >> /\ r = Head(rt.pool[k])
    BY DEF IsFront
<1> HIDE DEF new
<1>6. SeenDispatches' = SeenDispatches \cup {<<k, Head(rt.pool[k]), t>>}
    BY <1>2, <1>4, <1>5 DEF SeenDispatches
<1>7. Service!Dispatch(k, t)
    BY <1>1, <1>5, <1>6 DEF Service!Dispatch, Updated, SeenDispatches
<1> QED
    BY <1>3, <1>7

(***************************************************************************)
(* cancel_request is GiveUp of the request where it is in its queue.       *)
(***************************************************************************)
LEMMA CancelGivesUp ==
    ASSUME IInv, NEW k \in Keys, NEW r, CancelRequest(k, r)
    PROVE  \E i \in DOMAIN rt.pool[k] : Service!GiveUp(k, i)
<1>1. PICK i \in DOMAIN rt.pool[k] : \E p \in Program :
         Updated(rt, rt', k, p, RemoveAt(rt.pool[k], i), rt.nextRequestId, rt.nextEpoch)
    BY CancelShape DEF IInv
<1>2. dispatches' = dispatches
    BY DEF CancelRequest
<1>3. /\ rt'.pool = [rt.pool EXCEPT ![k] = SubSeq(rt.pool[k], 1, i - 1)
                                              \o SubSeq(rt.pool[k], i + 1, Len(rt.pool[k]))]
      /\ rt'.nextRequestId = rt.nextRequestId
    BY <1>1 DEF Updated, RemoveAt
<1>4. Service!GiveUp(k, i)
    BY <1>2, <1>3 DEF Service!GiveUp
<1> QED
    BY <1>4

(***************************************************************************)
(* complete_request is Finish, accepted or not.                            *)
(***************************************************************************)
LEMMA CompletionFinishes ==
    ASSUME IInv, DispatchesAreUnique, NEW d \in dispatches, CompleteRequest(d)
    PROVE  \E r \in SeenDispatches : Service!Finish(r)
<1> DEFINE r == <<d.key, d.request, d.target>>
<1>1. dispatches' = dispatches \ {d} /\ r \in SeenDispatches
    BY DEF CompleteRequest, SeenDispatches
<1>2. \A e \in dispatches : <<e.key, e.request, e.target>> = r => e = d
    BY DEF DispatchesAreUnique
<1>3. SeenDispatches' = SeenDispatches \ {r}
    BY <1>1, <1>2 DEF SeenDispatches
<1>4. rt'.pool = rt.pool /\ rt'.nextRequestId = rt.nextRequestId
  <2>1. CASE ~CompletionIsCurrent(rt, d)
      BY <2>1 DEF CompleteRequest
  <2>2. CASE CompletionIsCurrent(rt, d)
    <3>1. d.key \in Keys
        BY ZenonT(60) DEF IInv, TypeOK, DispatchRecord
    <3>2. PICK p \in Program : Updated(rt, rt', d.key, p, rt.pool[d.key], rt.nextRequestId, rt.nextEpoch)
        BY <2>2, CompleteShape DEF IInv
    <3>3. rt.pool = [m \in Keys |-> rt.pool[m]]
        BY ZenonT(60) DEF IInv, TypeOK, Runtime
    <3> QED
        BY <3>1, <3>2, <3>3, ZenonT(60) DEF Updated
  <2> QED
      BY <2>1, <2>2
<1> HIDE DEF r
<1>5. Service!Finish(r)
    BY <1>3, <1>4 DEF Service!Finish, SeenDispatches
<1> QED
    BY <1>1, <1>5

(***************************************************************************)
(* Every step of the runtime is one of the service, or is not seen.        *)
(***************************************************************************)
LEMMA StepIsServed ==
    ASSUME IInv, DispatchesAreUnique, [Next]_vars
    PROVE  Service!Next \/ UNCHANGED ServiceVars
<1>0. TypeOK
    BY DEF IInv
<1>1. ASSUME NEW k \in Keys, RetainRequest(k) PROVE Service!Next
    BY <1>1, RetainSubmits DEF Service!Next
<1>2. ASSUME NEW k \in Keys, NEW t \in Targets, ActivateProgram(k, t) PROVE UNCHANGED ServiceVars
  <2>1. PICK p \in Program : Updated(rt, rt', k, p, rt.pool[k], rt.nextRequestId, rt.nextEpoch + 1)
      BY <1>0, <1>2, ActivateShape
  <2> QED
      BY <1>0, <1>2, <2>1, InvisibleStep DEF ActivateProgram
<1>3. ASSUME NEW k \in Keys, NEW r, ClaimDispatch(k, r) PROVE Service!Next \/ UNCHANGED ServiceVars
  <2>1. CASE IsFront(rt, k, r)
    <3>1. \E t \in Targets : Service!Dispatch(k, t)
        BY <1>3, <2>1, ClaimDispatches
    <3> QED
        BY <3>1 DEF Service!Next
  <2>2. CASE ~IsFront(rt, k, r)
    <3>1. PICK p \in Program : Updated(rt, rt', k, p, rt.pool[k], rt.nextRequestId, rt.nextEpoch)
        BY <1>0, <1>3, <2>2, ClaimOtherShape
    <3>2. dispatches' = dispatches
        BY <1>3, <2>2 DEF ClaimDispatch
    <3> QED
        BY <1>0, <3>1, <3>2, InvisibleStep
  <2> QED
      BY <2>1, <2>2
<1>4. ASSUME NEW k \in Keys, NEW r, CancelRequest(k, r) PROVE Service!Next
  <2>1. \E i \in DOMAIN rt.pool[k] : Service!GiveUp(k, i)
      BY <1>4, CancelGivesUp
  <2> QED
      BY <2>1 DEF Service!Next
<1>5. ASSUME NEW k \in Keys, PauseProgram(k) PROVE UNCHANGED ServiceVars
  <2>1. PICK p \in Program : Updated(rt, rt', k, p, rt.pool[k], rt.nextRequestId, rt.nextEpoch)
      BY <1>0, <1>5, PauseShape
  <2> QED
      BY <1>0, <1>5, <2>1, InvisibleStep DEF PauseProgram
<1>6. ASSUME NEW k \in Keys, ReleaseProgram(k) PROVE UNCHANGED ServiceVars
  <2>1. Updated(rt, rt', k, None, rt.pool[k], rt.nextRequestId, rt.nextEpoch)
      BY <1>0, <1>6, ReleaseShape
  <2> QED
      BY <1>0, <1>6, <2>1, InvisibleStep DEF ReleaseProgram
<1>7. ASSUME NEW k \in Keys, PruneGenerations(k) PROVE UNCHANGED ServiceVars
  <2>1. rt'.pool = rt.pool /\ rt'.nextRequestId = rt.nextRequestId /\ dispatches' = dispatches
      BY <1>0, <1>7, PruneShape DEF PruneGenerations
  <2> QED
      BY <2>1 DEF ServiceVars, SeenDispatches
<1>8. ASSUME NEW k \in Keys, NEW t \in Targets, LoseTarget(k, t) PROVE UNCHANGED ServiceVars
  <2>1. PICK p \in Program : Updated(rt, rt', k, p, rt.pool[k], rt.nextRequestId, rt.nextEpoch + 1)
      BY <1>0, <1>8, InvalidateShape
  <2> QED
      BY <1>0, <1>8, <2>1, InvisibleStep DEF LoseTarget
<1>9. ASSUME NEW d \in dispatches, CompleteRequest(d) PROVE Service!Next
  <2>1. \E r \in SeenDispatches : Service!Finish(r)
      BY <1>9, CompletionFinishes
  <2> QED
      BY <2>1 DEF Service!Next, SeenDispatches
<1>10. CASE UNCHANGED vars
    BY <1>10 DEF vars, ServiceVars, SeenDispatches
<1> QED
    BY <1>1, <1>2, <1>3, <1>4, <1>5, <1>6, <1>7, <1>8, <1>9, <1>10 DEF Next

(***************************************************************************)
(* The runtime implements the service its callers rely on, for any         *)
(* Programs, ranks and bounds: a request waits in the order it came, is    *)
(* dispatched once or given up, and a dispatch ends with its completion,   *)
(* whatever becomes of its Program meanwhile.                              *)
(***************************************************************************)
THEOREM RuntimeServesItsCallers == Spec => RuntimeIsService
<1>1. Init => Service!Init
  <2> SUFFICES ASSUME Init PROVE Service!Init
      OBVIOUS
  <2>1. rt.nextRequestId = 0 /\ rt.pool = [k \in Keys |-> << >>] /\ dispatches = {}
      BY DEF Init, EmptyRuntime
  <2> QED
      BY <2>1 DEF Service!Init
<1>2. Init => DispatchesAreUnique
    BY DEF Init, DispatchesAreUnique
<1>3. IInv /\ DispatchesAreUnique /\ [Next]_vars => DispatchesAreUnique'
    BY UniqueKept
<1>4. IInv /\ DispatchesAreUnique /\ [Next]_vars
         => [Service!Next]_<<rt.nextRequestId, rt.pool, {<<d.key, d.request, d.target>> : d \in dispatches}>>
    BY StepIsServed DEF ServiceVars, SeenDispatches
<1>5. Spec => Init /\ [][Next]_vars /\ []IInv
    BY RuntimeInvariant, PTL DEF Spec
<1> QED
    BY <1>1, <1>2, <1>3, <1>4, <1>5, PTL DEF RuntimeIsService, Service!Spec
=============================================================================
