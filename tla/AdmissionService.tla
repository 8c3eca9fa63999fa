-------------------------- MODULE AdmissionService --------------------------
(***************************************************************************)
(* What Program scheduling promises its callers, with no scheduling in it: *)
(* a request of a Program waits until it is either dispatched to a rank or *)
(* given up; the requests of one Program are dispatched in the order they  *)
(* came; a dispatched request runs, once, until it finishes.               *)
(***************************************************************************)
EXTENDS Naturals, Sequences

CONSTANTS Keys, Targets

VARIABLES issued,   \* requests submitted so far; they are numbered from 1
          waiting,  \* per Program, the requests waiting, oldest first
          running   \* <<program, request, rank>> of every unfinished dispatch

Init ==
    /\ issued = 0
    /\ waiting = [k \in Keys |-> << >>]
    /\ running = {}

Submit(k) ==
    /\ issued' = issued + 1
    /\ waiting' = [waiting EXCEPT ![k] = Append(@, issued + 1)]
    /\ UNCHANGED running

Dispatch(k, t) ==
    /\ waiting[k] # << >>
    /\ waiting' = [waiting EXCEPT ![k] = Tail(@)]
    /\ running' = running \cup {<<k, Head(waiting[k]), t>>}
    /\ UNCHANGED issued

GiveUp(k, i) ==
    /\ waiting' = [waiting EXCEPT ![k] = SubSeq(@, 1, i - 1) \o SubSeq(@, i + 1, Len(@))]
    /\ UNCHANGED <<issued, running>>

Finish(r) ==
    /\ running' = running \ {r}
    /\ UNCHANGED <<issued, waiting>>

Next ==
    \/ \E k \in Keys :
          \/ Submit(k)
          \/ \E t \in Targets : Dispatch(k, t)
          \/ \E i \in DOMAIN waiting[k] : GiveUp(k, i)
    \/ \E r \in running : Finish(r)

Spec == Init /\ [][Next]_<<issued, waiting, running>>
=============================================================================
