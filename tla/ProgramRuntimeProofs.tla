------------------------ MODULE ProgramRuntimeProofs ------------------------
(***************************************************************************)
(* Proofs of the properties of ProgramRuntime for any set of Programs, of  *)
(* backends, and any bounds.                                               *)
(***************************************************************************)
EXTENDS ProgramRuntime, FiniteSetTheorems, SequenceTheorems, TLAPS

\* Every leaf has a minute of each prover, so that a busy machine fails none of them.
USE SMTT(60), ZenonT(60)

(***************************************************************************)
(* VecDeque::remove (request_pool.rs, cancel): what removing one position  *)
(* leaves.                                                                 *)
(***************************************************************************)
LEMMA RemoveAtFacts ==
    ASSUME NEW s \in Seq(Nat), NEW i \in DOMAIN s
    PROVE  /\ RemoveAt(s, i) \in Seq(Nat)
           /\ DOMAIN RemoveAt(s, i) = 1 .. (Len(s) - 1)
           /\ \A j \in 1 .. (Len(s) - 1) :
                 RemoveAt(s, i)[j] = IF j < i THEN s[j] ELSE s[j + 1]
<1> DEFINE a == SubSeq(s, 1, i - 1)
           b == SubSeq(s, i + 1, Len(s))
<1>1. Len(s) \in Nat /\ i \in 1 .. Len(s) /\ \A j \in 1 .. Len(s) : s[j] \in Nat
    OBVIOUS
<1>2. /\ a \in Seq(Nat)
      /\ Len(a) = i - 1
      /\ \A j \in 1 .. (i - 1) : a[j] = s[j]
    BY <1>1
<1>3. /\ b \in Seq(Nat)
      /\ Len(b) = Len(s) - i
      /\ \A j \in 1 .. (Len(s) - i) : b[j] = s[j + i]
    BY <1>1, SMTT(60)
<1>4. RemoveAt(s, i) = a \o b
    BY DEF RemoveAt
<1> DEFINE c == a \o b
<1> HIDE DEF a, b
<1>5. /\ c \in Seq(Nat)
      /\ Len(c) = Len(a) + Len(b)
      /\ \A j \in 1 .. (Len(a) + Len(b)) :
            c[j] = IF j <= Len(a) THEN a[j] ELSE b[j - Len(a)]
    BY <1>2, <1>3, ConcatProperties, ZenonT(60)
<1> HIDE DEF c
<1>6. DOMAIN c = 1 .. Len(c)
    BY <1>5
<1>7. Len(c) = Len(s) - 1
    BY <1>1, <1>2, <1>3, <1>5
<1>8. ASSUME NEW j \in 1 .. (Len(s) - 1)
      PROVE  c[j] = IF j < i THEN s[j] ELSE s[j + 1]
  <2>0. j \in 1 .. (Len(a) + Len(b)) /\ (j < i <=> j <= Len(a)) /\ Len(a) = i - 1
      BY <1>1, <1>2, <1>3
  <2>1. CASE j < i
    <3>1. c[j] = a[j] /\ j \in 1 .. (i - 1)
        BY <1>1, <1>5, <2>0, <2>1
    <3> QED
        BY <1>2, <2>1, <3>1
  <2>2. CASE ~(j < i)
    <3>1. c[j] = b[j - (i - 1)]
        BY <1>5, <2>0, <2>2, ZenonT(60)
    <3>2. j - (i - 1) \in 1 .. (Len(s) - i) /\ (j - (i - 1)) + i = j + 1
        BY <1>1, <2>2
    <3>3. b[j - (i - 1)] = s[(j - (i - 1)) + i]
        BY <1>3, <3>2, ZenonT(60)
    <3> QED
        BY <2>2, <3>1, <3>2, <3>3
  <2> QED
      BY <2>1, <2>2
<1> QED
    BY <1>4, <1>5, <1>6, <1>7, <1>8 DEF c

(***************************************************************************)
(* VecDeque::push_back (request_pool.rs, retain): what appending adds.     *)
(***************************************************************************)
LEMMA AppendFacts ==
    ASSUME NEW s \in Seq(Nat), NEW n \in Nat
    PROVE  /\ Append(s, n) \in Seq(Nat)
           /\ \A i \in DOMAIN Append(s, n) :
                 \/ i \in DOMAIN s /\ i <= Len(s) /\ Append(s, n)[i] = s[i]
                 \/ i = Len(s) + 1 /\ Append(s, n)[i] = n
           /\ \A i \in DOMAIN s : s[i] \in Nat
           /\ Len(s) \in Nat
<1> DEFINE q == Append(s, n)
<1>1. /\ q \in Seq(Nat) /\ Len(q) = Len(s) + 1
      /\ \A i \in 1 .. Len(s) : q[i] = s[i]
      /\ q[Len(s) + 1] = n
    BY AppendProperties
<1>2. /\ Len(s) \in Nat /\ DOMAIN s = 1 .. Len(s)
      /\ \A i \in DOMAIN s : s[i] \in Nat
    BY LenProperties, ElementOfSeq
<1>3. DOMAIN q = 1 .. (Len(s) + 1)
    BY <1>1, LenProperties
<1> HIDE DEF q
<1>4. \A i \in DOMAIN q : \/ i \in DOMAIN s /\ i <= Len(s) /\ q[i] = s[i]
                          \/ i = Len(s) + 1 /\ q[i] = n
    BY <1>1, <1>2, <1>3
<1> QED
    BY <1>1, <1>2, <1>4 DEF q

(***************************************************************************)
(* The position found for a retained request is one of its queue.          *)
(***************************************************************************)
LEMMA PositionFacts ==
    ASSUME rt \in Runtime, NEW k \in Keys, NEW r, Retained(rt, k, r)
    PROVE  Position(rt, k, r) \in DOMAIN rt.pool[k] /\ rt.pool[k] \in Seq(Nat)
BY DEF Position, Retained, Runtime

(***************************************************************************)
(* The types of the runtime's parts.                                       *)
(***************************************************************************)
LEMMA FieldTypes ==
    ASSUME TypeOK
    PROVE  /\ rt.nextEpoch \in Nat /\ rt.nextRequestId \in Nat
           /\ \A k \in Keys :
                 /\ rt.pool[k] \in Seq(Nat)
                 /\ rt.lastGeneration[k] + 1 \in Nat
                 /\ Live(rt, k) => /\ rt.programs[k] \in Program
                                   /\ rt.programs[k].generation \in Nat
                                   /\ rt.programs[k].epoch \in Nat
                                   /\ rt.programs[k].inFlight \in Nat
                                   /\ rt.programs[k].placement \in Targets \cup {None}
<1>1. /\ rt.nextEpoch \in Nat /\ rt.nextRequestId \in Nat
      /\ \A k \in Keys : /\ rt.pool[k] \in Seq(Nat)
                         /\ rt.lastGeneration[k] \in Nat \cup {-1}
                         /\ rt.programs[k] \in Program \cup {None}
    BY ZenonT(60) DEF TypeOK, Runtime
<1>2. \A n \in Nat \cup {-1} : n + 1 \in Nat
    OBVIOUS
<1>3. \A p \in Program : /\ p.generation \in Nat /\ p.epoch \in Nat /\ p.inFlight \in Nat
                          /\ p.placement \in Targets \cup {None}
    BY ZenonT(60) DEF Program
<1> QED
    BY <1>1, <1>2, <1>3, ZenonT(60) DEF Live

(***************************************************************************)
(* A runtime value with one Program, its queue and the counters replaced.  *)
(***************************************************************************)
Updated(r, s, k, p, q, id, e) ==
    /\ s.programs = [r.programs EXCEPT ![k] = p]
    /\ s.pool = [r.pool EXCEPT ![k] = q]
    /\ s.nextRequestId = id
    /\ s.nextEpoch = e

(***************************************************************************)
(* retain_request, field by field.                                         *)
(***************************************************************************)
LEMMA RetainShape ==
    ASSUME TypeOK, NEW k \in Keys, RetainRequest(k)
    PROVE  /\ TypeOK'
           /\ \E p \in Program :
                 /\ Updated(rt, rt', k, p, Append(rt.pool[k], rt.nextRequestId + 1),
                            rt.nextRequestId + 1, rt.nextEpoch)
                 /\ p.status = "Reasoning"
                 /\ p.state = IF Live(rt, k) THEN rt.programs[k].state ELSE "Paused"
                 /\ p.epoch = IF Live(rt, k) THEN rt.programs[k].epoch ELSE 0
                 /\ p.inFlight = IF Live(rt, k) THEN rt.programs[k].inFlight ELSE 0
                 /\ p.placement = IF Live(rt, k) THEN rt.programs[k].placement ELSE None
                 /\ Live(rt, k) => p.generation = rt.programs[k].generation
                 /\ p.startPending => Live(rt, k) /\ rt.programs[k].startPending
<1> DEFINE g == rt.lastGeneration[k] + 1
           old == IF ~Live(rt, k) THEN FreshProgram(g) ELSE rt.programs[k]
           p == [old EXCEPT !.status = "Reasoning"]
           q == Append(rt.pool[k], rt.nextRequestId + 1)
           id == rt.nextRequestId + 1
<1>1. g \in Nat /\ q \in Seq(Nat) /\ id \in Nat
    BY FieldTypes
<1>2. FreshProgram(g) \in Program
    BY <1>1 DEF FreshProgram, Program
<1>3. old \in Program
    BY <1>2, FieldTypes
<1>4. p \in Program
    BY <1>3, ZenonT(60) DEF Program
<1>5. rt' = [rt EXCEPT !.programs[k] = p,
                       !.lastGeneration[k] = IF ~Live(rt, k) THEN g ELSE @,
                       !.released[k] = FALSE, !.pool[k] = q, !.nextRequestId = id]
    BY ZenonT(60) DEF RetainRequest, Retain
<1> HIDE DEF q, id
<1>6. rt' \in Runtime /\ Updated(rt, rt', k, p, q, id, rt.nextEpoch)
  <2> HIDE DEF g, p
  <2> QED BY <1>1, <1>4, <1>5, ZenonT(60) DEF Updated, TypeOK, Runtime
<1>7. births' \in [Keys -> Nat] /\ dispatches' = dispatches /\ served' = served
    BY DEF RetainRequest, TypeOK
<1>8. TypeOK'
    BY <1>6, <1>7, ZenonT(60) DEF TypeOK
<1>9. /\ p.status = "Reasoning"
      /\ p.state = old.state /\ p.epoch = old.epoch /\ p.inFlight = old.inFlight
      /\ p.placement = old.placement /\ p.generation = old.generation
      /\ p.startPending = old.startPending
    BY <1>3, ZenonT(60) DEF Program
<1>10. ~Live(rt, k) => /\ old.state = "Paused" /\ old.epoch = 0 /\ old.inFlight = 0
                       /\ old.placement = None /\ ~old.startPending
    BY ZenonT(60) DEF FreshProgram
<1> HIDE DEF p
<1> QED
    BY <1>4, <1>6, <1>8, <1>9, <1>10, ZenonT(60) DEF q, id

(***************************************************************************)
(* activate, field by field.                                               *)
(***************************************************************************)
LEMMA ActivateShape ==
    ASSUME TypeOK, NEW k \in Keys, NEW t \in Targets, ActivateProgram(k, t)
    PROVE  /\ TypeOK'
           /\ \E p \in Program :
                 /\ Updated(rt, rt', k, p, rt.pool[k], rt.nextRequestId, rt.nextEpoch + 1)
                 /\ p.status = "Reasoning" /\ p.state = "Active" /\ p.placement = t
                 /\ p.epoch = rt.nextEpoch + 1
                 /\ p.inFlight = rt.programs[k].inFlight
                 /\ p.generation = rt.programs[k].generation
<1> DEFINE e == rt.nextEpoch + 1
           old == rt.programs[k]
           p == [old EXCEPT !.state = "Active", !.status = "Reasoning",
                            !.placement = t, !.epoch = e, !.startPending = TRUE]
<1>1. e \in Nat /\ old \in Program
    BY FieldTypes DEF ActivateProgram, CanActivate
<1>2. rt' = [rt EXCEPT !.nextEpoch = e, !.programs[k] = p]
    BY ZenonT(60) DEF ActivateProgram, Activate
<1> HIDE DEF e, old
<1>3. p \in Program
    BY <1>1, ZenonT(60) DEF Program
<1>4. /\ p.status = "Reasoning" /\ p.state = "Active" /\ p.placement = t
      /\ p.epoch = e /\ p.inFlight = old.inFlight /\ p.generation = old.generation
    BY <1>1, ZenonT(60) DEF Program
<1> HIDE DEF p
<1>5. rt' \in Runtime /\ Updated(rt, rt', k, p, rt.pool[k], rt.nextRequestId, e)
    BY <1>1, <1>2, <1>3, ZenonT(60) DEF Updated, TypeOK, Runtime
<1>6. TypeOK'
    BY <1>5, ZenonT(60) DEF ActivateProgram, TypeOK
<1> QED
    BY <1>3, <1>4, <1>5, <1>6, ZenonT(60) DEF e, old

(***************************************************************************)
(* admit_front for a request that is not the front: only the mark changes. *)
(***************************************************************************)
LEMMA ClaimOtherShape ==
    ASSUME TypeOK, NEW k \in Keys, NEW r, ClaimDispatch(k, r), ~IsFront(rt, k, r)
    PROVE  /\ TypeOK'
           /\ \E p \in Program :
                 /\ Updated(rt, rt', k, p, rt.pool[k], rt.nextRequestId, rt.nextEpoch)
                 /\ p.status = rt.programs[k].status /\ p.state = rt.programs[k].state
                 /\ p.placement = rt.programs[k].placement
                 /\ p.epoch = rt.programs[k].epoch
                 /\ p.inFlight = rt.programs[k].inFlight
                 /\ p.generation = rt.programs[k].generation
                 /\ ~p.startPending
<1> DEFINE old == rt.programs[k]
           p == [old EXCEPT !.startPending = FALSE]
<1>1. old \in Program
    BY FieldTypes DEF ClaimDispatch
<1>2. rt' = [rt EXCEPT !.pool[k] = @, !.programs[k] = p]
    BY DEF ClaimDispatch, AdmitFront
<1> HIDE DEF old
<1>3. p \in Program
    BY <1>1, ZenonT(60) DEF Program
<1>4. /\ p.status = old.status /\ p.state = old.state /\ p.placement = old.placement
      /\ p.epoch = old.epoch /\ p.inFlight = old.inFlight
      /\ p.generation = old.generation /\ ~p.startPending
    BY <1>1, ZenonT(60) DEF Program
<1> HIDE DEF p
<1>5. rt' \in Runtime /\ Updated(rt, rt', k, p, rt.pool[k], rt.nextRequestId, rt.nextEpoch)
    BY <1>2, <1>3, ZenonT(60) DEF Updated, TypeOK, Runtime
<1>6. TypeOK'
    BY <1>5, ZenonT(60) DEF ClaimDispatch, TypeOK
<1> QED
    BY <1>3, <1>4, <1>5, <1>6, ZenonT(60) DEF old

(***************************************************************************)
(* admit_front for the front request, field by field.                      *)
(***************************************************************************)
LEMMA ClaimFrontShape ==
    ASSUME TypeOK, ActiveIffPlaced, NEW k \in Keys, NEW r,
           ClaimDispatch(k, r), IsFront(rt, k, r)
    PROVE  /\ TypeOK'
           /\ dispatches' = dispatches \cup {Dispatch(rt, k, r, births[k])}
           /\ Dispatch(rt, k, r, births[k]) \in DispatchRecord
           /\ \E p \in Program :
                 /\ Updated(rt, rt', k, p, Tail(rt.pool[k]), rt.nextRequestId, rt.nextEpoch)
                 /\ p.status = "Reasoning" /\ p.state = rt.programs[k].state
                 /\ p.placement = rt.programs[k].placement
                 /\ p.epoch = rt.programs[k].epoch
                 /\ p.inFlight = rt.programs[k].inFlight + 1
                 /\ p.generation = rt.programs[k].generation
                 /\ ~p.startPending
<1> DEFINE old == rt.programs[k]
           n == old.inFlight + 1
           q == Tail(rt.pool[k])
           p == [[old EXCEPT !.startPending = FALSE]
                    EXCEPT !.status = "Reasoning", !.inFlight = n]
           p1 == [old EXCEPT !.startPending = FALSE]
           d == Dispatch(rt, k, r, births[k])
<1>1. old \in Program /\ n \in Nat /\ old.placement \in Targets
    BY FieldTypes DEF ClaimDispatch
<1>2. q \in Seq(Nat) /\ r \in Nat
    BY FieldTypes, HeadTailProperties DEF IsFront
<1>3. p1 \in Program /\ p1.inFlight = old.inFlight
    BY <1>1, ZenonT(60) DEF Program
<1>6. rt' = [rt EXCEPT !.pool[k] = q, !.programs[k] = p]
    BY <1>3 DEF ClaimDispatch, AdmitFront
<1> HIDE DEF n, q, old
<1>7. p \in Program
    BY <1>1, ZenonT(60) DEF Program
<1>8. /\ p.status = "Reasoning" /\ p.state = old.state /\ p.placement = old.placement
      /\ p.epoch = old.epoch /\ p.inFlight = n /\ p.generation = old.generation
      /\ ~p.startPending
    BY <1>1, ZenonT(60) DEF Program
<1> HIDE DEF p
<1>9. rt' \in Runtime /\ Updated(rt, rt', k, p, q, rt.nextRequestId, rt.nextEpoch)
    BY <1>2, <1>6, <1>7, ZenonT(60) DEF Updated, TypeOK, Runtime
<1>10. d \in DispatchRecord
    BY <1>1, <1>2, ZenonT(60) DEF old, Dispatch, DispatchRecord, Program, TypeOK
<1>11. dispatches' = dispatches \cup {d} /\ served' = served \cup {old.epoch}
    BY ZenonT(60) DEF ClaimDispatch, old
<1>12. old.epoch \in Nat
    BY <1>1, ZenonT(60) DEF Program
<1> HIDE DEF d
<1>13. TypeOK'
    BY <1>9, <1>10, <1>11, <1>12, ZenonT(60) DEF ClaimDispatch, TypeOK
<1> QED
    BY <1>7, <1>8, <1>9, <1>10, <1>11, <1>13, ZenonT(60) DEF old, n, q, d

(***************************************************************************)
(* complete_request for a current dispatch, field by field.                *)
(***************************************************************************)
LEMMA CompleteShape ==
    ASSUME TypeOK, NEW d \in dispatches, CompleteRequest(d), CompletionIsCurrent(rt, d)
    PROVE  /\ TypeOK'
           /\ \E p \in Program :
                 /\ Updated(rt, rt', d.key, p, rt.pool[d.key], rt.nextRequestId, rt.nextEpoch)
                 /\ p.inFlight = rt.programs[d.key].inFlight - 1
                 /\ p.status = IF p.inFlight = 0 /\ rt.pool[d.key] = << >>
                               THEN "Acting" ELSE rt.programs[d.key].status
                 /\ p.state = rt.programs[d.key].state
                 /\ p.placement = rt.programs[d.key].placement
                 /\ p.epoch = rt.programs[d.key].epoch
                 /\ p.generation = rt.programs[d.key].generation
                 /\ p.startPending = rt.programs[d.key].startPending
<1> DEFINE k == d.key
           old == rt.programs[k]
           n == old.inFlight - 1
           idle == n = 0 /\ rt.pool[k] = << >>
           p == [old EXCEPT !.inFlight = n, !.status = IF idle THEN "Acting" ELSE old.status]
<1>0. k \in Keys
    BY ZenonT(60) DEF TypeOK, DispatchRecord
<1>1. old \in Program /\ n \in Nat
    BY <1>0, FieldTypes DEF CompletionIsCurrent
<1>2. rt' = [rt EXCEPT !.programs[k] = p]
    BY ZenonT(60) DEF CompleteRequest, Complete
<1> HIDE DEF n, k, old, idle
<1>3. p \in Program
    BY <1>1, ZenonT(60) DEF Program
<1>4. /\ p.inFlight = n /\ p.status = (IF idle THEN "Acting" ELSE old.status)
      /\ p.state = old.state /\ p.placement = old.placement /\ p.epoch = old.epoch
      /\ p.generation = old.generation /\ p.startPending = old.startPending
    BY <1>1, ZenonT(60) DEF Program
<1> HIDE DEF p
<1>5. rt' \in Runtime /\ Updated(rt, rt', k, p, rt.pool[k], rt.nextRequestId, rt.nextEpoch)
    BY <1>0, <1>2, <1>3, ZenonT(60) DEF Updated, TypeOK, Runtime
<1>6. TypeOK'
    BY <1>5, ZenonT(60) DEF CompleteRequest, TypeOK
<1> QED
    BY <1>3, <1>4, <1>5, <1>6, ZenonT(60) DEF old, n, k, idle

(***************************************************************************)
(* cancel_request, field by field.                                         *)
(***************************************************************************)
LEMMA CancelShape ==
    ASSUME TypeOK, NEW k \in Keys, NEW r, CancelRequest(k, r)
    PROVE  /\ TypeOK'
           /\ \E i \in DOMAIN rt.pool[k] : \E p \in Program :
                 /\ Updated(rt, rt', k, p, RemoveAt(rt.pool[k], i),
                            rt.nextRequestId, rt.nextEpoch)
                 /\ p.inFlight = rt.programs[k].inFlight
                 /\ p.epoch = rt.programs[k].epoch
                 /\ p.generation = rt.programs[k].generation
                 /\ p.startPending = rt.programs[k].startPending
                 /\ IF p.inFlight = 0 /\ RemoveAt(rt.pool[k], i) = << >>
                    THEN /\ p.status = "Acting" /\ p.state = "Paused"
                         /\ p.placement = None
                    ELSE p = rt.programs[k]
<1> DEFINE old == rt.programs[k]
           i == Position(rt, k, r)
           q == RemoveAt(rt.pool[k], i)
           idle == old.inFlight = 0 /\ q = << >>
           p1 == [old EXCEPT !.status = "Acting", !.state = "Paused", !.placement = None]
           p == IF idle THEN p1 ELSE old
<1>1. old \in Program
    BY FieldTypes DEF CancelRequest
<1>2. i \in DOMAIN rt.pool[k] /\ q \in Seq(Nat)
    BY PositionFacts, RemoveAtFacts, ZenonT(60) DEF CancelRequest, TypeOK
<1>3. rt' = [rt EXCEPT !.pool[k] = q, !.programs[k] = p]
    BY ZenonT(60) DEF CancelRequest, Cancel
<1> HIDE DEF old, i, q, idle
<1>4. /\ p1 \in Program
      /\ p1.inFlight = old.inFlight /\ p1.epoch = old.epoch
      /\ p1.generation = old.generation /\ p1.startPending = old.startPending
      /\ p1.status = "Acting" /\ p1.state = "Paused" /\ p1.placement = None
    BY <1>1, ZenonT(60) DEF Program
<1> HIDE DEF p1
<1>5. /\ p \in Program
      /\ p.inFlight = old.inFlight /\ p.epoch = old.epoch
      /\ p.generation = old.generation /\ p.startPending = old.startPending
      /\ IF idle THEN /\ p.status = "Acting" /\ p.state = "Paused" /\ p.placement = None
                 ELSE p = old
    BY <1>1, <1>4, ZenonT(60)
<1> HIDE DEF p
<1>6. rt' \in Runtime /\ Updated(rt, rt', k, p, q, rt.nextRequestId, rt.nextEpoch)
    BY <1>2, <1>3, <1>5, ZenonT(60) DEF Updated, TypeOK, Runtime
<1>7. TypeOK'
    BY <1>6, ZenonT(60) DEF CancelRequest, TypeOK
<1> QED
    BY <1>2, <1>5, <1>6, <1>7, ZenonT(60) DEF old, q, idle

(***************************************************************************)
(* pause_idle, field by field.                                             *)
(***************************************************************************)
LEMMA PauseShape ==
    ASSUME TypeOK, NEW k \in Keys, PauseProgram(k)
    PROVE  /\ TypeOK'
           /\ \E p \in Program :
                 /\ Updated(rt, rt', k, p, rt.pool[k], rt.nextRequestId, rt.nextEpoch)
                 /\ p.state = "Paused" /\ p.placement = None
                 /\ p.status = rt.programs[k].status
                 /\ p.inFlight = rt.programs[k].inFlight
                 /\ p.epoch = rt.programs[k].epoch
                 /\ p.generation = rt.programs[k].generation
                 /\ p.startPending = rt.programs[k].startPending
<1> DEFINE old == rt.programs[k]
           p == [old EXCEPT !.state = "Paused", !.placement = None]
<1>1. old \in Program
    BY FieldTypes DEF PauseProgram, CanPauseIdle
<1>2. rt' = [rt EXCEPT !.programs[k] = p]
    BY ZenonT(60) DEF PauseProgram, PauseIdle
<1> HIDE DEF old
<1>3. /\ p \in Program
      /\ p.state = "Paused" /\ p.placement = None /\ p.status = old.status
      /\ p.inFlight = old.inFlight /\ p.epoch = old.epoch
      /\ p.generation = old.generation /\ p.startPending = old.startPending
    BY <1>1, ZenonT(60) DEF Program
<1> HIDE DEF p
<1>4. rt' \in Runtime /\ Updated(rt, rt', k, p, rt.pool[k], rt.nextRequestId, rt.nextEpoch)
    BY <1>2, <1>3, ZenonT(60) DEF Updated, TypeOK, Runtime
<1>5. TypeOK'
    BY <1>4, ZenonT(60) DEF PauseProgram, TypeOK
<1> QED
    BY <1>3, <1>4, <1>5, ZenonT(60) DEF old

(***************************************************************************)
(* release_idle and prune_released_generations keep the types; the first   *)
(* removes its Program and the second touches none.                        *)
(***************************************************************************)
LEMMA ReleaseShape ==
    ASSUME TypeOK, NEW k \in Keys, ReleaseProgram(k)
    PROVE  /\ TypeOK'
           /\ Updated(rt, rt', k, None, rt.pool[k], rt.nextRequestId, rt.nextEpoch)
<1>1. rt.programs[k].generation \in Nat
    BY FieldTypes DEF ReleaseProgram, CanReleaseIdle
<1>2. rt' \in Runtime /\ Updated(rt, rt', k, None, rt.pool[k], rt.nextRequestId, rt.nextEpoch)
    BY <1>1, ZenonT(60) DEF ReleaseProgram, ReleaseIdle, Updated, TypeOK, Runtime
<1> QED
    BY <1>2, ZenonT(60) DEF ReleaseProgram, TypeOK

(***************************************************************************)
(* prune_released_generations forgets a generation and touches no Program. *)
(***************************************************************************)
LEMMA PruneShape ==
    ASSUME TypeOK, NEW k \in Keys, PruneGenerations(k)
    PROVE  /\ TypeOK'
           /\ rt'.programs = rt.programs /\ rt'.pool = rt.pool
           /\ rt'.nextRequestId = rt.nextRequestId /\ rt'.nextEpoch = rt.nextEpoch
<1>1. /\ rt' \in Runtime
      /\ rt'.programs = rt.programs /\ rt'.pool = rt.pool
      /\ rt'.nextRequestId = rt.nextRequestId /\ rt'.nextEpoch = rt.nextEpoch
    BY ZenonT(60) DEF PruneGenerations, Prune, TypeOK, Runtime
<1> QED
    BY <1>1, ZenonT(60) DEF PruneGenerations, TypeOK

(***************************************************************************)
(* invalidate_placement, field by field.                                   *)
(***************************************************************************)
LEMMA InvalidateShape ==
    ASSUME TypeOK, NEW k \in Keys, NEW t \in Targets, LoseTarget(k, t)
    PROVE  /\ TypeOK'
           /\ \E p \in Program :
                 /\ Updated(rt, rt', k, p, rt.pool[k], rt.nextRequestId, rt.nextEpoch + 1)
                 /\ p.state = "Paused" /\ p.placement = None /\ p.inFlight = 0
                 /\ p.epoch = rt.nextEpoch + 1
                 /\ p.status = rt.programs[k].status
                 /\ p.generation = rt.programs[k].generation
                 /\ ~p.startPending
<1> DEFINE e == rt.nextEpoch + 1
           old == rt.programs[k]
           p == [old EXCEPT !.state = "Paused", !.placement = None, !.epoch = e,
                            !.startPending = FALSE, !.inFlight = 0]
<1>1. e \in Nat /\ old \in Program /\ 0 \in Nat
    BY FieldTypes DEF LoseTarget, CanInvalidate
<1>2. rt' = [rt EXCEPT !.nextEpoch = e, !.programs[k] = p]
    BY ZenonT(60) DEF LoseTarget, Invalidate
<1> HIDE DEF e, old
<1>3. /\ p \in Program
      /\ p.state = "Paused" /\ p.placement = None /\ p.inFlight = 0 /\ p.epoch = e
      /\ p.status = old.status /\ p.generation = old.generation /\ ~p.startPending
    BY <1>1, ZenonT(60) DEF Program
<1> HIDE DEF p
<1>4. rt' \in Runtime /\ Updated(rt, rt', k, p, rt.pool[k], rt.nextRequestId, e)
    BY <1>1, <1>2, <1>3, ZenonT(60) DEF Updated, TypeOK, Runtime
<1>5. TypeOK'
    BY <1>4, ZenonT(60) DEF LoseTarget, TypeOK
<1> QED
    BY <1>3, <1>4, <1>5, ZenonT(60) DEF e, old
-----------------------------------------------------------------------------
(***************************************************************************)
(* The inductive invariant again, one Program at a time: an operation on   *)
(* one Program cannot disturb what the invariant says of another.          *)
(***************************************************************************)
DispatchesOf(k) == {d \in dispatches : d.key = k}

DispatchFacts(k) ==
    \A d \in DispatchesOf(k) :
        /\ d.request <= rt.nextRequestId
        /\ d.epoch > 0 /\ d.epoch <= rt.nextEpoch
        /\ d.birth <= births[k]
        /\ \A i \in DOMAIN rt.pool[k] : d.request < rt.pool[k][i]
        /\ Live(rt, k) /\ d.epoch = rt.programs[k].epoch =>
              /\ d.generation = rt.programs[k].generation
              /\ d.birth = births[k]
              /\ d.target = rt.programs[k].placement

PoolFacts(k) ==
    /\ \A i \in DOMAIN rt.pool[k] : rt.pool[k][i] <= rt.nextRequestId
    /\ \A i, j \in DOMAIN rt.pool[k] : i < j => rt.pool[k][i] < rt.pool[k][j]
    /\ ~Live(rt, k) => rt.pool[k] = << >>

ProgramFacts(k) ==
    Live(rt, k) =>
        /\ rt.programs[k].state = "Active" <=> rt.programs[k].placement # None
        /\ rt.programs[k].status = "Acting" => Idle(rt, k)
        /\ rt.programs[k].epoch <= rt.nextEpoch
        /\ rt.programs[k].placement # None => rt.programs[k].epoch > 0
        /\ rt.programs[k].startPending => rt.programs[k].epoch > 0
        /\ rt.programs[k].startPending => rt.programs[k].epoch \notin served

CountFact(k) == Live(rt, k) => rt.programs[k].inFlight = Cardinality(Outstanding(k))

KeyInv(k) == DispatchFacts(k) /\ PoolFacts(k) /\ ProgramFacts(k) /\ CountFact(k)

EpochsDistinct ==
    \A k, m \in Keys :
        Live(rt, k) /\ Live(rt, m) /\ k # m /\ rt.programs[k].epoch > 0
            => rt.programs[k].epoch # rt.programs[m].epoch

ServedBound == \A e \in served : e > 0 /\ e <= rt.nextEpoch

SplitInv == /\ TypeOK /\ IsFiniteSet(dispatches) /\ EpochsDistinct /\ ServedBound
            /\ \A k \in Keys : KeyInv(k)

(***************************************************************************)
(* The two forms of the invariant are the same.                            *)
(***************************************************************************)
LEMMA SplitIsIInv == SplitInv <=> IInv
<1>1. ASSUME TypeOK
      PROVE  /\ \A d \in dispatches : d.key \in Keys /\ d.epoch \in Nat
             /\ \A e \in served : e \in Nat
             /\ rt.nextEpoch \in Nat
    BY <1>1, FieldTypes DEF TypeOK, DispatchRecord
<1>2. ASSUME SplitInv PROVE IInv
  <2>1. InFlightExact /\ ActiveIffPlaced /\ ActingHasNoDemand /\ PoolIsLive
      BY <1>2, ZenonT(60) DEF SplitInv, KeyInv, ProgramFacts, CountFact, PoolFacts,
         InFlightExact, ActiveIffPlaced, ActingHasNoDemand, PoolIsLive
  <2>2. DispatchInArrivalOrder /\ RequestIds /\ EpochFences
      BY <1>1, <1>2, ZenonT(60) DEF SplitInv, KeyInv, DispatchFacts, DispatchesOf, PoolFacts,
         DispatchInArrivalOrder, RequestIds, EpochFences
  <2>3. \A d \in dispatches : d.epoch > 0 /\ d.epoch <= rt.nextEpoch /\ d.birth <= births[d.key]
      BY <1>1, <1>2, ZenonT(60) DEF SplitInv, KeyInv, DispatchFacts, DispatchesOf
  <2>4. \A e \in served : e > 0 /\ e <= rt.nextEpoch
      BY <1>2, ZenonT(60) DEF SplitInv, ServedBound
  <2>5. /\ \A d \in dispatches : d.epoch \in 1 .. rt.nextEpoch
        /\ \A e \in served : e \in 1 .. rt.nextEpoch
    <3>1. TypeOK
        BY <1>2 DEF SplitInv
    <3> QED
        BY <1>1, <2>3, <2>4, <3>1
  <2>6. Epochs
      BY <1>2, <2>3, <2>5, ZenonT(60) DEF Epochs, SplitInv, KeyInv, ProgramFacts, EpochsDistinct
  <2> QED
      BY <1>2, <2>1, <2>2, <2>6, ZenonT(60) DEF SplitInv, IInv
<1>3. ASSUME IInv PROVE SplitInv
  <2>1. /\ \A d \in dispatches : d.epoch > 0 /\ d.epoch <= rt.nextEpoch
        /\ \A e \in served : e > 0 /\ e <= rt.nextEpoch
    <3>1. TypeOK /\ \A d \in dispatches : d.epoch \in 1 .. rt.nextEpoch
        BY <1>3, ZenonT(60) DEF IInv, Epochs
    <3>2. \A e \in served : e \in 1 .. rt.nextEpoch
        BY <1>3, ZenonT(60) DEF IInv, Epochs
    <3> QED
        BY <1>1, <3>1, <3>2
  <2>2. ASSUME NEW k \in Keys PROVE DispatchFacts(k)
      BY <1>3, <2>1, ZenonT(60) DEF IInv, DispatchFacts, DispatchesOf, RequestIds, Epochs,
         EpochFences, DispatchInArrivalOrder
  <2>3. ASSUME NEW k \in Keys PROVE PoolFacts(k) /\ ProgramFacts(k) /\ CountFact(k)
      BY <1>3, ZenonT(60) DEF IInv, PoolFacts, ProgramFacts, CountFact, RequestIds, Epochs,
         ActiveIffPlaced, ActingHasNoDemand, InFlightExact, PoolIsLive
  <2> QED
      BY <1>3, <2>1, <2>2, <2>3, ZenonT(60) DEF IInv, SplitInv, KeyInv, EpochsDistinct,
         ServedBound, Epochs
<1> QED
    BY <1>2, <1>3

(***************************************************************************)
(* What an update of Program k does to each Program.                       *)
(***************************************************************************)
LEMMA UpdateFacts ==
    ASSUME TypeOK, NEW k \in Keys, NEW p, NEW q, NEW id, NEW e,
           Updated(rt, rt', k, p, q, id, e)
    PROVE  /\ \A m \in Keys :
                 /\ rt'.programs[m] = IF m = k THEN p ELSE rt.programs[m]
                 /\ rt'.pool[m] = IF m = k THEN q ELSE rt.pool[m]
           /\ rt'.nextRequestId = id
           /\ rt'.nextEpoch = e
<1>1. DOMAIN rt.programs = Keys /\ DOMAIN rt.pool = Keys
    BY ZenonT(60) DEF TypeOK, Runtime
<1> QED
    BY <1>1, SMTT(60) DEF Updated

(***************************************************************************)
(* An operation that keeps the facts of its own Program keeps the whole    *)
(* invariant, as long as the counters only grow and an epoch it gives its  *)
(* Program is new or the one it had.                                       *)
(***************************************************************************)
LEMMA Frame ==
    ASSUME SplitInv, TypeOK', NEW k \in Keys, NEW p \in Program \cup {None},
           NEW q, NEW id \in Nat, NEW e \in Nat,
           Updated(rt, rt', k, p, q, id, e),
           rt.nextRequestId <= id, rt.nextEpoch <= e,
           \A m \in Keys : m # k => DispatchesOf(m)' = DispatchesOf(m),
           \A m \in Keys : m # k => births'[m] = births[m],
           \A x \in served' : x \in served \/ (p # None /\ x = p.epoch /\ x > 0),
           p # None => \/ p.epoch = 0
                       \/ p.epoch = e /\ rt.nextEpoch < e
                       \/ Live(rt, k) /\ p.epoch = rt.programs[k].epoch,
           IsFiniteSet(dispatches)', KeyInv(k)'
    PROVE  SplitInv'
<1>0. TypeOK
    BY DEF SplitInv
<1>1. /\ \A m \in Keys :
            /\ rt'.programs[m] = IF m = k THEN p ELSE rt.programs[m]
            /\ rt'.pool[m] = IF m = k THEN q ELSE rt.pool[m]
      /\ rt'.nextRequestId = id
      /\ rt'.nextEpoch = e
    BY <1>0, UpdateFacts
<1>2. /\ rt.nextEpoch \in Nat /\ rt.nextRequestId \in Nat
      /\ \A m \in Keys : Live(rt, m) => rt.programs[m].epoch \in Nat
      /\ \A m \in Keys : Live(rt, m) => rt.programs[m].epoch <= rt.nextEpoch
    BY FieldTypes DEF SplitInv, KeyInv, ProgramFacts
<1>3. p # None => p.epoch \in Nat
    BY ZenonT(60) DEF Program
<1>4. ASSUME NEW m \in Keys, m # k, p # None, Live(rt, m), p.epoch > 0
      PROVE  p.epoch # rt.programs[m].epoch
  <2>1. CASE p.epoch = e /\ rt.nextEpoch < e
      BY <1>2, <1>4, <2>1
  <2>2. CASE Live(rt, k) /\ p.epoch = rt.programs[k].epoch
      BY <1>4, <2>2 DEF SplitInv, EpochsDistinct
  <2>3. p.epoch # 0
      BY <1>3, <1>4
  <2> QED
      BY <1>4, <2>1, <2>2, <2>3
<1>5. EpochsDistinct'
  <2> SUFFICES ASSUME NEW a \in Keys, NEW b \in Keys, Live(rt', a), Live(rt', b), a # b,
                      rt'.programs[a].epoch > 0
               PROVE  rt'.programs[a].epoch # rt'.programs[b].epoch
      BY DEF EpochsDistinct, Live
  <2>1. CASE a = k
      BY <1>1, <1>4, <2>1 DEF Live
  <2>2. CASE b = k /\ p.epoch > 0
      BY <1>1, <1>4, <2>2 DEF Live
  <2>3. CASE b = k /\ ~(p.epoch > 0)
      BY <1>1, <2>3 DEF Live
  <2>4. CASE a # k /\ b # k
      BY <1>1, <2>4 DEF Live, SplitInv, EpochsDistinct
  <2> QED
      BY <2>1, <2>2, <2>3, <2>4
<1>6. ServedBound'
  <2> SUFFICES ASSUME NEW x \in served' PROVE x > 0 /\ x <= e
      BY <1>1 DEF ServedBound
  <2>1. CASE x \in served
    <3>1. x \in Nat
        BY <2>1 DEF SplitInv, TypeOK
    <3> QED
        BY <1>2, <2>1, <3>1 DEF SplitInv, ServedBound
  <2>2. CASE p # None /\ x = p.epoch /\ x > 0
    <3>1. Live(rt, k)' /\ rt'.programs[k] = p
        BY <1>1, <2>2 DEF Live
    <3> QED
        BY <1>1, <2>2, <3>1 DEF KeyInv, ProgramFacts
  <2> QED
      BY <2>1, <2>2
<1>7. ASSUME NEW m \in Keys, m # k PROVE KeyInv(m)'
  <2>1. /\ rt'.programs[m] = rt.programs[m] /\ rt'.pool[m] = rt.pool[m]
        /\ births'[m] = births[m] /\ DispatchesOf(m)' = DispatchesOf(m)
        /\ KeyInv(m)
      BY <1>1, <1>7 DEF SplitInv
  <2>2. /\ \A d \in DispatchesOf(m) : d.request \in Nat /\ d.epoch \in Nat
        /\ \A i \in DOMAIN rt.pool[m] : rt.pool[m][i] \in Nat
    <3>1. \A d \in DispatchesOf(m) : d.request \in Nat /\ d.epoch \in Nat
        BY <1>0, ZenonT(60) DEF TypeOK, DispatchesOf, DispatchRecord
    <3>2. rt.pool[m] \in Seq(Nat)
        BY <1>0, FieldTypes
    <3> QED
        BY <3>1, <3>2
  <2>3. /\ \A n \in Nat : n <= rt.nextRequestId => n <= rt'.nextRequestId
        /\ \A n \in Nat : n <= rt.nextEpoch => n <= rt'.nextEpoch
      BY <1>1, <1>2
  <2>4. DispatchFacts(m)'
      BY <2>1, <2>2, <2>3, ZenonT(60) DEF KeyInv, DispatchFacts, Live
  <2>5. PoolFacts(m)'
      BY <2>1, <2>2, <2>3, ZenonT(60) DEF KeyInv, PoolFacts, Live
  <2>6. Live(rt, m) /\ rt.programs[m].startPending => rt.programs[m].epoch \notin served'
    <3> SUFFICES ASSUME Live(rt, m), rt.programs[m].startPending,
                        rt.programs[m].epoch \in served'
                 PROVE  FALSE
        OBVIOUS
    <3>1. rt.programs[m].epoch > 0 /\ rt.programs[m].epoch \notin served
        BY <2>1 DEF KeyInv, ProgramFacts
    <3>2. p # None /\ rt.programs[m].epoch = p.epoch /\ p.epoch > 0
        BY <3>1
    <3> QED
        BY <1>4, <1>7, <3>2
  <2>7. ProgramFacts(m)'
      BY <1>2, <2>1, <2>3, <2>6, ZenonT(60) DEF KeyInv, ProgramFacts, Live, Idle
  <2>8. Outstanding(m)' = Outstanding(m)
      BY <2>1, ZenonT(60) DEF Outstanding, DispatchesOf
  <2>9. CountFact(m)'
      BY <2>1, <2>8, ZenonT(60) DEF KeyInv, CountFact, Live
  <2> QED
      BY <2>4, <2>5, <2>7, <2>9 DEF KeyInv
<1>8. \A m \in Keys : KeyInv(m)'
    BY <1>7, ZenonT(60)
<1> QED
    BY <1>5, <1>6, <1>8, ZenonT(60) DEF SplitInv

(***************************************************************************)
(* What the invariant says of one Program's numbers, with their types.     *)
(***************************************************************************)
LEMMA KeyTypes ==
    ASSUME SplitInv, NEW k \in Keys
    PROVE  /\ TypeOK /\ KeyInv(k)
           /\ rt.nextEpoch \in Nat /\ rt.nextRequestId \in Nat
           /\ births[k] \in Nat
           /\ rt.pool[k] \in Seq(Nat)
           /\ Live(rt, k) => /\ rt.programs[k] \in Program
                             /\ rt.programs[k].epoch \in Nat
                             /\ rt.programs[k].inFlight \in Nat
           /\ \A d \in DispatchesOf(k) :
                 d.request \in Nat /\ d.epoch \in Nat /\ d.birth \in Nat
           /\ IsFiniteSet(Outstanding(k))
<1>1. TypeOK /\ KeyInv(k) /\ IsFiniteSet(dispatches)
    BY DEF SplitInv
<1>2. /\ births[k] \in Nat
      /\ \A d \in DispatchesOf(k) : d.request \in Nat /\ d.epoch \in Nat /\ d.birth \in Nat
    BY <1>1, ZenonT(60) DEF TypeOK, DispatchesOf, DispatchRecord
<1>3. Outstanding(k) \subseteq dispatches
    BY DEF Outstanding
<1>4. IsFiniteSet(Outstanding(k))
    BY <1>1, <1>3, FS_Subset
<1> QED
    BY <1>1, <1>2, <1>4, FieldTypes

(***************************************************************************)
(* retain_request keeps the invariant: the new id is the largest, and a    *)
(* new Program has epoch 0, which no dispatch has.                         *)
(***************************************************************************)
LEMMA RetainKeeps ==
    ASSUME SplitInv, NEW k \in Keys, RetainRequest(k)
    PROVE  SplitInv'
<1> DEFINE id == rt.nextRequestId + 1
           q == Append(rt.pool[k], id)
           old == rt.programs[k]
<1>0. TypeOK /\ KeyInv(k)
    BY KeyTypes
<1>1. PICK p \in Program :
         /\ Updated(rt, rt', k, p, q, id, rt.nextEpoch)
         /\ p.status = "Reasoning"
         /\ p.state = IF Live(rt, k) THEN old.state ELSE "Paused"
         /\ p.epoch = IF Live(rt, k) THEN old.epoch ELSE 0
         /\ p.inFlight = IF Live(rt, k) THEN old.inFlight ELSE 0
         /\ p.placement = IF Live(rt, k) THEN old.placement ELSE None
         /\ Live(rt, k) => p.generation = old.generation
         /\ p.startPending => Live(rt, k) /\ old.startPending
    BY <1>0, RetainShape
<1>2. /\ rt'.programs[k] = p /\ rt'.pool[k] = q
      /\ rt'.nextRequestId = id /\ rt'.nextEpoch = rt.nextEpoch
  <2> HIDE DEF q, id
  <2> QED
      BY <1>0, <1>1, UpdateFacts
<1>3. TypeOK' /\ dispatches' = dispatches /\ served' = served
    BY <1>0, RetainShape, ZenonT(60) DEF RetainRequest
<1>4. /\ births'[k] = IF Live(rt, k) THEN births[k] ELSE births[k] + 1
      /\ \A m \in Keys : m # k => births'[m] = births[m]
    BY <1>0 DEF RetainRequest, TypeOK
<1>5. Live(rt, k)' /\ p # None
    BY <1>2, NoneAssumption DEF Live
<1>6. /\ q \in Seq(Nat) /\ id \in Nat /\ Len(rt.pool[k]) \in Nat
      /\ \A i \in DOMAIN q :
            \/ i \in DOMAIN rt.pool[k] /\ i <= Len(rt.pool[k]) /\ q[i] = rt.pool[k][i]
            \/ i = Len(rt.pool[k]) + 1 /\ q[i] = id
      /\ \A i \in DOMAIN rt.pool[k] : rt.pool[k][i] \in Nat
  <2>1. rt.pool[k] \in Seq(Nat) /\ id \in Nat
      BY KeyTypes
  <2> HIDE DEF id
  <2> QED
      BY <2>1, AppendFacts
<1>7. DispatchesOf(k)' = DispatchesOf(k)
    BY <1>3 DEF DispatchesOf
<1>8. DispatchFacts(k)'
  <2> SUFFICES ASSUME NEW d \in DispatchesOf(k)
               PROVE  /\ d.request <= id
                      /\ d.epoch > 0 /\ d.epoch <= rt.nextEpoch
                      /\ d.birth <= births'[k]
                      /\ \A i \in DOMAIN q : d.request < q[i]
                      /\ d.epoch = p.epoch => /\ d.generation = p.generation
                                              /\ d.birth = births'[k]
                                              /\ d.target = p.placement
      BY <1>2, <1>7, ZenonT(60) DEF DispatchFacts
  <2>1. /\ d.request <= rt.nextRequestId
        /\ d.epoch > 0 /\ d.epoch <= rt.nextEpoch /\ d.birth <= births[k]
        /\ \A i \in DOMAIN rt.pool[k] : d.request < rt.pool[k][i]
        /\ Live(rt, k) /\ d.epoch = old.epoch =>
              /\ d.generation = old.generation /\ d.birth = births[k]
              /\ d.target = old.placement
      BY <1>0 DEF KeyInv, DispatchFacts
  <2>2. /\ d.request \in Nat /\ d.epoch \in Nat /\ d.birth \in Nat
        /\ births[k] \in Nat /\ rt.nextRequestId \in Nat
      BY KeyTypes
  <2> HIDE DEF q
  <2>3. ASSUME NEW i \in DOMAIN q PROVE d.request < q[i]
    <3>1. CASE i \in DOMAIN rt.pool[k] /\ q[i] = rt.pool[k][i]
        BY <2>1, <3>1
    <3>2. CASE q[i] = id
        BY <2>1, <2>2, <3>2
    <3> QED
        BY <1>6, <3>1, <3>2
  <2>4. d.request <= id /\ d.birth <= births'[k]
      BY <1>4, <2>1, <2>2
  <2>5. d.epoch = p.epoch => /\ d.generation = p.generation
                             /\ d.birth = births'[k] /\ d.target = p.placement
      BY <1>1, <1>4, <2>1, <2>2
  <2> QED
      BY <2>1, <2>3, <2>4, <2>5
<1>9. PoolFacts(k)'
  <2> HIDE DEF q
  <2>1. /\ \A i \in DOMAIN rt.pool[k] : rt.pool[k][i] <= rt.nextRequestId
        /\ \A i, j \in DOMAIN rt.pool[k] : i < j => rt.pool[k][i] < rt.pool[k][j]
        /\ rt.nextRequestId \in Nat
      BY <1>0, KeyTypes DEF KeyInv, PoolFacts
  <2>2. \A i \in DOMAIN q : q[i] <= id
      BY <1>6, <2>1
  <2>3. ASSUME NEW i \in DOMAIN q, NEW j \in DOMAIN q, i < j PROVE q[i] < q[j]
    <3>1. i \in DOMAIN rt.pool[k] /\ q[i] = rt.pool[k][i]
      <4>1. i \in Nat /\ j \in Nat
          BY <1>6
      <4> QED
          BY <1>6, <2>3, <4>1
    <3>2. CASE j \in DOMAIN rt.pool[k] /\ q[j] = rt.pool[k][j]
        BY <2>1, <2>3, <3>1, <3>2
    <3>3. CASE q[j] = id
        BY <1>6, <2>1, <3>1, <3>3
    <3> QED
        BY <1>6, <3>2, <3>3
  <2> QED
      BY <1>2, <1>5, <2>2, <2>3, ZenonT(60) DEF PoolFacts
<1>10. ProgramFacts(k)'
  <2>1. /\ p.state = "Active" <=> p.placement # None
        /\ p.epoch <= rt.nextEpoch
        /\ p.placement # None => p.epoch > 0
        /\ p.startPending => p.epoch > 0
        /\ p.startPending => p.epoch \notin served
    <3>1. CASE Live(rt, k)
        BY <1>0, <1>1, <3>1, ZenonT(60) DEF KeyInv, ProgramFacts
    <3>2. CASE ~Live(rt, k)
      <4>1. /\ p.state = "Paused" /\ p.placement = None /\ p.epoch = 0 /\ ~p.startPending
          BY <1>1, <3>2, ZenonT(60)
      <4>2. 0 <= rt.nextEpoch
          BY KeyTypes
      <4> QED
          BY <4>1, <4>2, ZenonT(60)
    <3> QED
        BY <3>1, <3>2
  <2> QED
      BY <1>1, <1>2, <1>3, <2>1, ZenonT(60) DEF ProgramFacts
<1>11. CountFact(k)'
  <2>1. CASE Live(rt, k)
    <3>1. Outstanding(k)' = Outstanding(k)
        BY <1>1, <1>2, <1>3, <2>1 DEF Outstanding
    <3> QED
        BY <1>0, <1>1, <1>2, <2>1, <3>1 DEF KeyInv, CountFact
  <2>2. CASE ~Live(rt, k)
    <3>1. Outstanding(k)' = {}
      <4>1. ASSUME NEW d \in DispatchesOf(k) PROVE d.epoch # 0
          BY <1>0, KeyTypes DEF KeyInv, DispatchFacts
      <4>2. p.epoch = 0
          BY <1>1, <2>2
      <4> QED
          BY <1>2, <1>3, <4>1, <4>2, ZenonT(60) DEF Outstanding, DispatchesOf
    <3> QED
        BY <1>1, <1>2, <2>2, <3>1, FS_EmptySet DEF CountFact
  <2> QED
      BY <2>1, <2>2
<1>12. KeyInv(k)'
    BY <1>8, <1>9, <1>10, <1>11 DEF KeyInv
<1>13. /\ \A m \in Keys : m # k => DispatchesOf(m)' = DispatchesOf(m)
       /\ IsFiniteSet(dispatches)'
    BY <1>3 DEF SplitInv, DispatchesOf
<1>14. rt.nextRequestId <= id /\ id \in Nat /\ rt.nextEpoch \in Nat /\ rt.nextEpoch <= rt.nextEpoch
    BY KeyTypes
<1>15. p.epoch = 0 \/ (Live(rt, k) /\ p.epoch = rt.programs[k].epoch)
    BY <1>1
<1> HIDE DEF id, q
<1> QED
    BY <1>1, <1>3, <1>4, <1>5, <1>12, <1>13, <1>14, <1>15, Frame

(***************************************************************************)
(* An unfinished dispatch of the current placement is counted, so a        *)
(* Program without placement has nothing in flight.                        *)
(***************************************************************************)
LEMMA OutstandingCounted ==
    ASSUME SplitInv, NEW k \in Keys, Live(rt, k)
    PROVE  /\ \A d \in DispatchesOf(k) :
                 d.epoch = rt.programs[k].epoch =>
                     d \in Outstanding(k) /\ rt.programs[k].inFlight > 0
           /\ rt.programs[k].placement = None => rt.programs[k].inFlight = 0
<1>1. /\ rt.programs[k].inFlight = Cardinality(Outstanding(k))
      /\ IsFiniteSet(Outstanding(k)) /\ rt.programs[k].inFlight \in Nat
      /\ TypeOK /\ DispatchFacts(k)
    BY KeyTypes DEF KeyInv, CountFact
<1>2. ASSUME NEW d \in DispatchesOf(k), d.epoch = rt.programs[k].epoch
      PROVE  d \in Outstanding(k)
    BY <1>1, <1>2 DEF DispatchFacts, Outstanding, DispatchesOf
<1>3. Outstanding(k) # {} => rt.programs[k].inFlight > 0
    BY <1>1, FS_EmptySet
<1>4. ASSUME rt.programs[k].placement = None, NEW d \in Outstanding(k) PROVE FALSE
  <2>1. d \in DispatchesOf(k) /\ d.epoch = rt.programs[k].epoch
      BY <1>4 DEF Outstanding, DispatchesOf
  <2>2. d.target = None
      BY <1>1, <1>4, <2>1 DEF DispatchFacts
  <2>3. d.target \in Targets
      BY <1>1, <2>1, ZenonT(60) DEF TypeOK, DispatchesOf, DispatchRecord
  <2> QED
      BY <2>2, <2>3, NoneAssumption
<1>5. rt.programs[k].placement = None => rt.programs[k].inFlight = 0
    BY <1>1, <1>4, FS_EmptySet
<1> QED
    BY <1>2, <1>3, <1>5

(***************************************************************************)
(* Operations that create and finish no dispatch keep the invariant if     *)
(* they keep the epoch and the count (and the placement of what is in      *)
(* flight), or take a new epoch with nothing in flight.                    *)
(***************************************************************************)
LEMMA QuietKeeps ==
    ASSUME SplitInv, TypeOK', NEW k \in Keys, Live(rt, k),
           NEW p \in Program, NEW q, NEW e \in Nat,
           Updated(rt, rt', k, p, q, rt.nextRequestId, e), rt.nextEpoch <= e,
           UNCHANGED <<dispatches, births, served>>,
           \A i \in DOMAIN q : \E j \in DOMAIN rt.pool[k] : q[i] = rt.pool[k][j],
           \A i, j \in DOMAIN q : i < j => q[i] < q[j],
           \/ /\ p.epoch = rt.programs[k].epoch
              /\ p.generation = rt.programs[k].generation
              /\ p.inFlight = rt.programs[k].inFlight
              /\ p.inFlight > 0 => p.placement = rt.programs[k].placement
           \/ p.epoch = e /\ rt.nextEpoch < e /\ p.inFlight = 0,
           p.state = "Active" <=> p.placement # None,
           p.status = "Acting" => p.inFlight = 0 /\ q = << >>,
           p.placement # None => p.epoch > 0,
           p.startPending => p.epoch > 0 /\ p.epoch \notin served
    PROVE  SplitInv'
<1> DEFINE old == rt.programs[k]
<1>1. /\ TypeOK /\ KeyInv(k) /\ rt.nextEpoch \in Nat /\ rt.nextRequestId \in Nat
      /\ \A d \in DispatchesOf(k) : d.epoch \in Nat
      /\ old.epoch \in Nat
    BY KeyTypes
<1>2. /\ rt'.programs[k] = p /\ rt'.pool[k] = q
      /\ rt'.nextRequestId = rt.nextRequestId /\ rt'.nextEpoch = e
    BY <1>1, UpdateFacts
<1>3. p # None /\ Live(rt, k)'
    BY <1>2, NoneAssumption DEF Live
<1>4. /\ dispatches' = dispatches /\ births' = births /\ served' = served
      /\ \A m \in Keys : DispatchesOf(m)' = DispatchesOf(m)
    BY DEF DispatchesOf
<1>5. \/ p.epoch = old.epoch
      \/ p.epoch = e /\ rt.nextEpoch < e
    OBVIOUS
<1>6. \A d \in DispatchesOf(k) :
         /\ d.request <= rt.nextRequestId
         /\ d.epoch > 0 /\ d.epoch <= rt.nextEpoch /\ d.birth <= births[k]
         /\ \A i \in DOMAIN rt.pool[k] : d.request < rt.pool[k][i]
         /\ d.epoch = old.epoch =>
               d.generation = old.generation /\ d.birth = births[k] /\ d.target = old.placement
    BY <1>1 DEF KeyInv, DispatchFacts
<1>7. ASSUME NEW d \in DispatchesOf(k), d.epoch = p.epoch
      PROVE  /\ p.epoch = old.epoch /\ p.inFlight > 0
             /\ p.generation = old.generation /\ p.placement = old.placement
  <2>1. ~(p.epoch = e /\ rt.nextEpoch < e)
      BY <1>1, <1>6, <1>7
  <2>2. old.inFlight > 0
      BY <1>7, <2>1, OutstandingCounted
  <2> QED
      BY <2>1, <2>2
<1>8. DispatchFacts(k)'
  <2> SUFFICES ASSUME NEW d \in DispatchesOf(k)
               PROVE  /\ d.request <= rt.nextRequestId
                      /\ d.epoch > 0 /\ d.epoch <= e /\ d.birth <= births[k]
                      /\ \A i \in DOMAIN q : d.request < q[i]
                      /\ d.epoch = p.epoch => /\ d.generation = p.generation
                                              /\ d.birth = births[k]
                                              /\ d.target = p.placement
      BY <1>2, <1>4, ZenonT(60) DEF DispatchFacts
  <2>1. d.epoch <= e
      BY <1>1, <1>6
  <2>2. \A i \in DOMAIN q : d.request < q[i]
      BY <1>6, ZenonT(60)
  <2>3. d.epoch = p.epoch => /\ d.generation = p.generation /\ d.birth = births[k]
                             /\ d.target = p.placement
      BY <1>6, <1>7, ZenonT(60)
  <2> QED
      BY <1>6, <2>1, <2>2, <2>3, ZenonT(60)
<1>9. PoolFacts(k)'
  <2>1. \A i \in DOMAIN q : q[i] <= rt.nextRequestId
      BY <1>1, ZenonT(60) DEF KeyInv, PoolFacts
  <2> QED
      BY <1>2, <1>3, <2>1, ZenonT(60) DEF PoolFacts
<1>10. ProgramFacts(k)'
  <2>1. p.epoch <= e
    <3>1. old.epoch <= rt.nextEpoch
        BY <1>1 DEF KeyInv, ProgramFacts
    <3> QED
        BY <1>1, <1>5, <3>1
  <2> QED
      BY <1>2, <1>4, <2>1, ZenonT(60) DEF ProgramFacts, Idle
<1>11. CountFact(k)'
  <2>1. CASE p.epoch = old.epoch /\ p.generation = old.generation /\ p.inFlight = old.inFlight
    <3>1. Outstanding(k)' = Outstanding(k)
        BY <1>2, <1>4, <2>1 DEF Outstanding
    <3> QED
        BY <1>1, <1>2, <2>1, <3>1 DEF KeyInv, CountFact
  <2>2. CASE p.epoch = e /\ rt.nextEpoch < e /\ p.inFlight = 0
    <3>1. \A d \in DispatchesOf(k) : d.epoch # p.epoch
        BY <1>1, <1>6, <2>2
    <3>2. Outstanding(k)' = {}
        BY <1>2, <1>4, <3>1, ZenonT(60) DEF Outstanding, DispatchesOf
    <3> QED
        BY <1>2, <2>2, <3>2, FS_EmptySet DEF CountFact
  <2> QED
      BY <2>1, <2>2
<1>12. KeyInv(k)'
    BY <1>8, <1>9, <1>10, <1>11 DEF KeyInv
<1>13. IsFiniteSet(dispatches)' /\ rt.nextRequestId <= rt.nextRequestId
    BY <1>1, <1>4, SMTT(60) DEF SplitInv
<1>14. /\ \A m \in Keys : m # k => DispatchesOf(m)' = DispatchesOf(m)
       /\ \A m \in Keys : m # k => births'[m] = births[m]
       /\ \A x \in served' : x \in served
    BY <1>4
<1> QED
    BY <1>1, <1>3, <1>5, <1>12, <1>13, <1>14, Frame

(***************************************************************************)
(* activate keeps the invariant: the epoch is new, and a paused Program    *)
(* has nothing in flight.                                                  *)
(***************************************************************************)
LEMMA ActivateKeeps ==
    ASSUME SplitInv, NEW k \in Keys, NEW t \in Targets, ActivateProgram(k, t)
    PROVE  SplitInv'
<1> DEFINE e == rt.nextEpoch + 1
           q == rt.pool[k]
<1>0. TypeOK /\ KeyInv(k) /\ Live(rt, k) /\ rt.programs[k].state = "Paused"
    BY KeyTypes DEF ActivateProgram, CanActivate
<1>1. PICK p \in Program :
         /\ Updated(rt, rt', k, p, q, rt.nextRequestId, e)
         /\ p.status = "Reasoning" /\ p.state = "Active" /\ p.placement = t
         /\ p.epoch = e /\ p.inFlight = rt.programs[k].inFlight
    BY <1>0, ActivateShape
<1>2. TypeOK' /\ UNCHANGED <<dispatches, births, served>>
    BY <1>0, ActivateShape DEF ActivateProgram
<1>3. rt.programs[k].placement = None
    BY <1>0 DEF KeyInv, ProgramFacts
<1>4. p.inFlight = 0
    BY <1>0, <1>1, <1>3, OutstandingCounted
<1>5. e \in Nat /\ rt.nextEpoch < e /\ rt.nextEpoch <= e /\ e > 0 /\ rt.nextEpoch \in Nat
    BY KeyTypes
<1>6. t # None
    BY NoneAssumption
<1>7. e \notin served
  <2>1. \A x \in served : x \in Nat /\ x <= rt.nextEpoch
      BY DEF SplitInv, TypeOK, ServedBound
  <2> QED
      BY <1>5, <2>1
<1>8. \A i, j \in DOMAIN q : i < j => q[i] < q[j]
    BY <1>0 DEF KeyInv, PoolFacts
<1> HIDE DEF e, q
<1>9. \A i \in DOMAIN q : \E j \in DOMAIN rt.pool[k] : q[i] = rt.pool[k][j]
    BY DEF q
<1> QED
    BY <1>0, <1>1, <1>2, <1>4, <1>5, <1>6, <1>7, <1>8, <1>9, QuietKeeps

(***************************************************************************)
(* A claim by a request that is not the front keeps the invariant.         *)
(***************************************************************************)
LEMMA ClaimOtherKeeps ==
    ASSUME SplitInv, NEW k \in Keys, NEW r, ClaimDispatch(k, r), ~IsFront(rt, k, r)
    PROVE  SplitInv'
<1> DEFINE q == rt.pool[k]
           old == rt.programs[k]
<1>0. TypeOK /\ KeyInv(k) /\ Live(rt, k)
    BY KeyTypes DEF ClaimDispatch
<1>1. PICK p \in Program :
         /\ Updated(rt, rt', k, p, q, rt.nextRequestId, rt.nextEpoch)
         /\ p.status = old.status /\ p.state = old.state /\ p.placement = old.placement
         /\ p.epoch = old.epoch /\ p.inFlight = old.inFlight
         /\ p.generation = old.generation /\ ~p.startPending
    BY <1>0, ClaimOtherShape
<1>2. TypeOK' /\ UNCHANGED <<dispatches, births, served>>
    BY <1>0, ClaimOtherShape DEF ClaimDispatch
<1>3. /\ p.state = "Active" <=> p.placement # None
      /\ p.status = "Acting" => p.inFlight = 0 /\ q = << >>
      /\ p.placement # None => p.epoch > 0
    BY <1>0, <1>1, ZenonT(60) DEF KeyInv, ProgramFacts, Idle
<1>4. \A i, j \in DOMAIN q : i < j => q[i] < q[j]
    BY <1>0 DEF KeyInv, PoolFacts
<1>5. rt.nextEpoch \in Nat /\ rt.nextEpoch <= rt.nextEpoch
    BY KeyTypes
<1> HIDE DEF q
<1>6. \A i \in DOMAIN q : \E j \in DOMAIN rt.pool[k] : q[i] = rt.pool[k][j]
    BY DEF q
<1> QED
    BY <1>0, <1>1, <1>2, <1>3, <1>4, <1>5, <1>6, QuietKeeps

(***************************************************************************)
(* cancel_request keeps the invariant: it thins a queue, and drops the     *)
(* placement only when nothing is in flight.                               *)
(***************************************************************************)
LEMMA CancelKeeps ==
    ASSUME SplitInv, NEW k \in Keys, NEW r, CancelRequest(k, r)
    PROVE  SplitInv'
<1> DEFINE old == rt.programs[k]
<1>0. TypeOK /\ KeyInv(k) /\ Live(rt, k)
    BY KeyTypes DEF CancelRequest
<1>1. PICK n \in DOMAIN rt.pool[k] : \E p \in Program :
         /\ Updated(rt, rt', k, p, RemoveAt(rt.pool[k], n), rt.nextRequestId, rt.nextEpoch)
         /\ p.inFlight = old.inFlight /\ p.epoch = old.epoch
         /\ p.generation = old.generation /\ p.startPending = old.startPending
         /\ IF p.inFlight = 0 /\ RemoveAt(rt.pool[k], n) = << >>
            THEN p.status = "Acting" /\ p.state = "Paused" /\ p.placement = None
            ELSE p = old
    BY <1>0, CancelShape
<1> DEFINE q == RemoveAt(rt.pool[k], n)
<1>2. PICK p \in Program :
         /\ Updated(rt, rt', k, p, q, rt.nextRequestId, rt.nextEpoch)
         /\ p.inFlight = old.inFlight /\ p.epoch = old.epoch
         /\ p.generation = old.generation /\ p.startPending = old.startPending
         /\ IF p.inFlight = 0 /\ q = << >>
            THEN p.status = "Acting" /\ p.state = "Paused" /\ p.placement = None
            ELSE p = old
    BY <1>1
<1>3. TypeOK' /\ UNCHANGED <<dispatches, births, served>>
    BY <1>0, CancelShape DEF CancelRequest
<1>4. /\ q \in Seq(Nat)
      /\ DOMAIN q = 1 .. (Len(rt.pool[k]) - 1)
      /\ \A j \in 1 .. (Len(rt.pool[k]) - 1) :
            q[j] = IF j < n THEN rt.pool[k][j] ELSE rt.pool[k][j + 1]
      /\ DOMAIN rt.pool[k] = 1 .. Len(rt.pool[k]) /\ Len(rt.pool[k]) \in Nat
      /\ \A i \in DOMAIN rt.pool[k] : rt.pool[k][i] \in Nat
    BY KeyTypes, RemoveAtFacts, LenProperties, ElementOfSeq, ZenonT(60)
<1> HIDE DEF q
<1>5. \A i \in DOMAIN q : \E j \in DOMAIN rt.pool[k] : q[i] = rt.pool[k][j]
  <2> SUFFICES ASSUME NEW i \in DOMAIN q PROVE \E j \in DOMAIN rt.pool[k] : q[i] = rt.pool[k][j]
      OBVIOUS
  <2>1. i \in DOMAIN rt.pool[k] /\ i + 1 \in DOMAIN rt.pool[k]
      BY <1>4
  <2>2. q[i] = rt.pool[k][i] \/ q[i] = rt.pool[k][i + 1]
      BY <1>4, ZenonT(60)
  <2> QED
      BY <2>1, <2>2
<1>6. \A i, j \in DOMAIN q : i < j => q[i] < q[j]
  <2> SUFFICES ASSUME NEW i \in DOMAIN q, NEW j \in DOMAIN q, i < j PROVE q[i] < q[j]
      OBVIOUS
  <2> DEFINE a == IF i < n THEN i ELSE i + 1
             b == IF j < n THEN j ELSE j + 1
             m == Len(rt.pool[k])
  <2>0. m \in Nat /\ n \in 1 .. m /\ i \in 1 .. (m - 1) /\ j \in 1 .. (m - 1)
      BY <1>4
  <2>1. a \in DOMAIN rt.pool[k] /\ b \in DOMAIN rt.pool[k] /\ a < b
    <3> HIDE DEF m
    <3>1. a \in 1 .. m /\ b \in 1 .. m /\ a < b
        BY <2>0
    <3>2. DOMAIN rt.pool[k] = 1 .. m
        BY <1>4 DEF m
    <3> QED
        BY <3>1, <3>2
  <2>2. q[i] = rt.pool[k][a] /\ q[j] = rt.pool[k][b]
    <3>1. q[i] = IF i < n THEN rt.pool[k][i] ELSE rt.pool[k][i + 1]
        BY <1>4, ZenonT(60)
    <3>2. q[j] = IF j < n THEN rt.pool[k][j] ELSE rt.pool[k][j + 1]
        BY <1>4, ZenonT(60)
    <3> QED
        BY <3>1, <3>2
  <2> HIDE DEF a, b
  <2> QED
      BY <1>0, <2>1, <2>2 DEF KeyInv, PoolFacts
<1>7. /\ old.state = "Active" <=> old.placement # None
      /\ old.status = "Acting" => old.inFlight = 0 /\ rt.pool[k] = << >>
      /\ old.placement # None => old.epoch > 0
      /\ old.startPending => old.epoch > 0 /\ old.epoch \notin served
    BY <1>0, ZenonT(60) DEF KeyInv, ProgramFacts, Idle
<1>8. old.status # "Acting"
    BY <1>4, <1>7
<1>9. /\ p.state = "Active" <=> p.placement # None
      /\ p.status = "Acting" => p.inFlight = 0 /\ q = << >>
      /\ p.placement # None => p.epoch > 0
      /\ p.startPending => p.epoch > 0 /\ p.epoch \notin served
    BY <1>2, <1>7, <1>8, ZenonT(60)
<1>10. rt.nextEpoch \in Nat /\ rt.nextEpoch <= rt.nextEpoch
    BY KeyTypes
<1>11. p.inFlight > 0 => p.placement = old.placement
    BY <1>2
<1> QED
    BY <1>0, <1>2, <1>3, <1>5, <1>6, <1>9, <1>10, <1>11, QuietKeeps

(***************************************************************************)
(* pause_idle keeps the invariant: nothing is in flight and the epoch      *)
(* stays, so no dispatch has it.                                           *)
(***************************************************************************)
LEMMA PauseKeeps ==
    ASSUME SplitInv, NEW k \in Keys, PauseProgram(k)
    PROVE  SplitInv'
<1> DEFINE q == rt.pool[k]
           old == rt.programs[k]
<1>0. TypeOK /\ KeyInv(k) /\ Live(rt, k) /\ old.inFlight = 0
    BY KeyTypes DEF PauseProgram, CanPauseIdle
<1>1. PICK p \in Program :
         /\ Updated(rt, rt', k, p, q, rt.nextRequestId, rt.nextEpoch)
         /\ p.state = "Paused" /\ p.placement = None /\ p.status = old.status
         /\ p.inFlight = old.inFlight /\ p.epoch = old.epoch
         /\ p.generation = old.generation /\ p.startPending = old.startPending
    BY <1>0, PauseShape
<1>2. TypeOK' /\ UNCHANGED <<dispatches, births, served>>
    BY <1>0, PauseShape DEF PauseProgram
<1>3. /\ p.status = "Acting" => p.inFlight = 0 /\ q = << >>
      /\ p.startPending => p.epoch > 0 /\ p.epoch \notin served
    BY <1>0, <1>1, ZenonT(60) DEF KeyInv, ProgramFacts, Idle
<1>4. \A i, j \in DOMAIN q : i < j => q[i] < q[j]
    BY <1>0 DEF KeyInv, PoolFacts
<1>5. rt.nextEpoch \in Nat /\ rt.nextEpoch <= rt.nextEpoch /\ ~(p.inFlight > 0)
    BY <1>0, <1>1, KeyTypes
<1> HIDE DEF q
<1>6. \A i \in DOMAIN q : \E j \in DOMAIN rt.pool[k] : q[i] = rt.pool[k][j]
    BY DEF q
<1> QED
    BY <1>0, <1>1, <1>2, <1>3, <1>4, <1>5, <1>6, QuietKeeps

(***************************************************************************)
(* invalidate_placement keeps the invariant: the new epoch is no           *)
(* dispatch's, so zero is the right count.                                 *)
(***************************************************************************)
LEMMA InvalidateKeeps ==
    ASSUME SplitInv, NEW k \in Keys, NEW t \in Targets, LoseTarget(k, t)
    PROVE  SplitInv'
<1> DEFINE e == rt.nextEpoch + 1
           q == rt.pool[k]
<1>0. TypeOK /\ KeyInv(k) /\ Live(rt, k)
    BY KeyTypes DEF LoseTarget, CanInvalidate
<1>1. PICK p \in Program :
         /\ Updated(rt, rt', k, p, q, rt.nextRequestId, e)
         /\ p.state = "Paused" /\ p.placement = None /\ p.inFlight = 0
         /\ p.epoch = e /\ p.status = rt.programs[k].status /\ ~p.startPending
    BY <1>0, InvalidateShape
<1>2. TypeOK' /\ UNCHANGED <<dispatches, births, served>>
    BY <1>0, InvalidateShape DEF LoseTarget
<1>3. p.status = "Acting" => p.inFlight = 0 /\ q = << >>
    BY <1>0, <1>1, ZenonT(60) DEF KeyInv, ProgramFacts, Idle
<1>4. \A i, j \in DOMAIN q : i < j => q[i] < q[j]
    BY <1>0 DEF KeyInv, PoolFacts
<1>5. e \in Nat /\ rt.nextEpoch < e /\ rt.nextEpoch <= e /\ rt.nextEpoch \in Nat
    BY KeyTypes
<1> HIDE DEF e, q
<1>6. \A i \in DOMAIN q : \E j \in DOMAIN rt.pool[k] : q[i] = rt.pool[k][j]
    BY DEF q
<1> QED
    BY <1>0, <1>1, <1>2, <1>3, <1>4, <1>5, <1>6, QuietKeeps

(***************************************************************************)
(* admit_front for the front request keeps the invariant: its id is above  *)
(* every dispatched one, so the set of unfinished dispatches grows by one, *)
(* as the count does.                                                      *)
(***************************************************************************)
LEMMA ClaimFrontKeeps ==
    ASSUME SplitInv, NEW k \in Keys, NEW r, ClaimDispatch(k, r), IsFront(rt, k, r)
    PROVE  SplitInv'
<1> DEFINE old == rt.programs[k]
           q == Tail(rt.pool[k])
           new == Dispatch(rt, k, r, births[k])
<1>0. TypeOK /\ KeyInv(k) /\ Live(rt, k) /\ old.placement # None
    BY KeyTypes DEF ClaimDispatch
<1>1. ActiveIffPlaced
    BY ZenonT(60) DEF SplitInv, KeyInv, ProgramFacts, ActiveIffPlaced
<1>2. /\ TypeOK' /\ dispatches' = dispatches \cup {new}
      /\ births' = births /\ served' = served \cup {old.epoch}
    BY <1>0, <1>1, ClaimFrontShape DEF ClaimDispatch
<1>3. PICK p \in Program :
         /\ Updated(rt, rt', k, p, q, rt.nextRequestId, rt.nextEpoch)
         /\ p.status = "Reasoning" /\ p.state = old.state
         /\ p.placement = old.placement /\ p.epoch = old.epoch
         /\ p.inFlight = old.inFlight + 1 /\ p.generation = old.generation
         /\ ~p.startPending
    BY <1>0, <1>1, ClaimFrontShape
<1>4. /\ new.key = k /\ new.generation = old.generation /\ new.request = r
      /\ new.target = old.placement /\ new.epoch = old.epoch /\ new.birth = births[k]
    BY ZenonT(60) DEF Dispatch
<1>5. /\ rt.pool[k] \in Seq(Nat) /\ rt.pool[k] # << >> /\ r = rt.pool[k][1]
      /\ 1 \in DOMAIN rt.pool[k] /\ r \in Nat
      /\ \A i \in DOMAIN q : i \in Nat /\ i >= 1 /\ i + 1 \in DOMAIN rt.pool[k]
                              /\ q[i] = rt.pool[k][i + 1]
      /\ births[k] \in Nat /\ rt.nextEpoch \in Nat /\ rt.nextRequestId \in Nat
      /\ old.epoch \in Nat /\ old.inFlight \in Nat
    BY <1>0, KeyTypes DEF IsFront
<1> HIDE DEF q, new
<1>6. /\ rt'.programs[k] = p /\ rt'.pool[k] = q
      /\ rt'.nextRequestId = rt.nextRequestId /\ rt'.nextEpoch = rt.nextEpoch
    BY <1>0, <1>3, UpdateFacts
<1>7. p # None /\ Live(rt, k)'
    BY <1>6, NoneAssumption DEF Live
<1>8. \A i \in DOMAIN q : r < q[i]
  <2>1. \A i \in DOMAIN rt.pool[k] : 1 < i => rt.pool[k][1] < rt.pool[k][i]
      BY <1>0, <1>5 DEF KeyInv, PoolFacts
  <2> QED
      BY <1>5, <2>1
<1>9. /\ old.epoch > 0 /\ old.epoch <= rt.nextEpoch /\ r <= rt.nextRequestId
      /\ old.state = "Active" <=> old.placement # None
  <2>1. old.epoch > 0 /\ old.epoch <= rt.nextEpoch /\ (old.state = "Active" <=> old.placement # None)
      BY <1>0, ZenonT(60) DEF KeyInv, ProgramFacts
  <2>2. r <= rt.nextRequestId
      BY <1>0, <1>5 DEF KeyInv, PoolFacts
  <2> QED
      BY <2>1, <2>2
<1>10. DispatchesOf(k)' = DispatchesOf(k) \cup {new}
    BY <1>2, <1>4 DEF DispatchesOf
<1>11. DispatchFacts(k)'
  <2> SUFFICES ASSUME NEW d \in DispatchesOf(k) \cup {new}
               PROVE  /\ d.request <= rt.nextRequestId
                      /\ d.epoch > 0 /\ d.epoch <= rt.nextEpoch /\ d.birth <= births[k]
                      /\ \A i \in DOMAIN q : d.request < q[i]
                      /\ d.epoch = p.epoch => /\ d.generation = p.generation
                                              /\ d.birth = births[k]
                                              /\ d.target = p.placement
      BY <1>2, <1>6, <1>10, ZenonT(60) DEF DispatchFacts
  <2>1. CASE d = new
      BY <1>3, <1>4, <1>5, <1>8, <1>9, <2>1, SMTT(60)
  <2>2. CASE d \in DispatchesOf(k)
    <3>1. /\ d.request <= rt.nextRequestId
          /\ d.epoch > 0 /\ d.epoch <= rt.nextEpoch /\ d.birth <= births[k]
          /\ \A i \in DOMAIN rt.pool[k] : d.request < rt.pool[k][i]
          /\ d.epoch = old.epoch => /\ d.generation = old.generation
                                    /\ d.birth = births[k] /\ d.target = old.placement
        BY <1>0, <2>2 DEF KeyInv, DispatchFacts
    <3> QED
        BY <1>3, <1>5, <3>1
  <2> QED
      BY <2>1, <2>2
<1>12. PoolFacts(k)'
  <2>1. /\ \A i \in DOMAIN rt.pool[k] : rt.pool[k][i] <= rt.nextRequestId
        /\ \A i, j \in DOMAIN rt.pool[k] : i < j => rt.pool[k][i] < rt.pool[k][j]
      BY <1>0 DEF KeyInv, PoolFacts
  <2>2. \A i, j \in DOMAIN q : i < j => q[i] < q[j]
    <3> SUFFICES ASSUME NEW i \in DOMAIN q, NEW j \in DOMAIN q, i < j PROVE q[i] < q[j]
        OBVIOUS
    <3>1. i + 1 < j + 1
        BY <1>5
    <3> QED
        BY <1>5, <2>1, <3>1
  <2>3. \A i \in DOMAIN q : q[i] <= rt.nextRequestId
      BY <1>5, <2>1
  <2> QED
      BY <1>6, <1>7, <2>2, <2>3, ZenonT(60) DEF PoolFacts
<1>13. ProgramFacts(k)'
    BY <1>3, <1>6, <1>9, ZenonT(60) DEF ProgramFacts
<1>14. CountFact(k)'
  <2>1. Outstanding(k)' = Outstanding(k) \cup {new}
      BY <1>2, <1>3, <1>4, <1>6 DEF Outstanding
  <2>2. new \notin Outstanding(k)
    <3>1. ASSUME new \in Outstanding(k) PROVE FALSE
      <4>1. new \in DispatchesOf(k)
          BY <3>1 DEF Outstanding, DispatchesOf
      <4>2. new.request < rt.pool[k][1]
          BY <1>0, <1>5, <4>1 DEF KeyInv, DispatchFacts
      <4> QED
          BY <1>4, <1>5, <4>2
    <3> QED
        BY <3>1
  <2>3. IsFiniteSet(Outstanding(k)) /\ old.inFlight = Cardinality(Outstanding(k))
      BY <1>0, KeyTypes DEF KeyInv, CountFact
  <2>4. Cardinality(Outstanding(k) \cup {new}) = old.inFlight + 1
      BY <2>2, <2>3, FS_AddElement, ZenonT(60)
  <2> QED
      BY <1>3, <1>6, <2>1, <2>4 DEF CountFact
<1>15. KeyInv(k)'
    BY <1>11, <1>12, <1>13, <1>14 DEF KeyInv
<1>16. IsFiniteSet(dispatches)'
    BY <1>2, FS_AddElement DEF SplitInv
<1>17. /\ \A m \in Keys : m # k => DispatchesOf(m)' = DispatchesOf(m)
       /\ \A m \in Keys : m # k => births'[m] = births[m]
       /\ \A x \in served' : x \in served \/ (x = p.epoch /\ x > 0)
    BY <1>2, <1>3, <1>4, <1>9 DEF DispatchesOf
<1>18. rt.nextRequestId <= rt.nextRequestId /\ rt.nextEpoch <= rt.nextEpoch
    BY <1>5
<1> QED
    BY <1>0, <1>2, <1>3, <1>5, <1>7, <1>15, <1>16, <1>17, <1>18, Frame, ZenonT(60)

(***************************************************************************)
(* Forgetting a dispatch that its Program does not count, with the runtime *)
(* as it was, keeps the invariant.                                         *)
(***************************************************************************)
LEMMA StaleCompletionKeeps ==
    ASSUME SplitInv, NEW d \in dispatches, CompleteRequest(d), ~CompletionIsCurrent(rt, d)
    PROVE  SplitInv'
<1>1. rt' = rt /\ births' = births /\ served' = served /\ dispatches' = dispatches \ {d}
    BY DEF CompleteRequest
<1>2. TypeOK' /\ IsFiniteSet(dispatches)' /\ EpochsDistinct' /\ ServedBound'
  <2>1. TypeOK /\ IsFiniteSet(dispatches) /\ EpochsDistinct /\ ServedBound
      BY DEF SplitInv
  <2>2. TypeOK'
      BY <1>1, <2>1, ZenonT(60) DEF TypeOK
  <2>3. IsFiniteSet(dispatches)'
      BY <1>1, <2>1, FS_RemoveElement
  <2> QED
      BY <1>1, <2>1, <2>2, <2>3, ZenonT(60) DEF EpochsDistinct, ServedBound
<1>3. ASSUME NEW k \in Keys PROVE KeyInv(k)'
  <2>1. KeyInv(k)
      BY DEF SplitInv
  <2>2. DispatchFacts(k)'
    <3>1. DispatchesOf(k)' \subseteq DispatchesOf(k)
        BY <1>1 DEF DispatchesOf
    <3> QED
        BY <1>1, <2>1, <3>1, ZenonT(60) DEF KeyInv, DispatchFacts
  <2>3. PoolFacts(k)' /\ ProgramFacts(k)'
      BY <1>1, <2>1, ZenonT(60) DEF KeyInv, PoolFacts, ProgramFacts
  <2>4. Live(rt, k) => d \notin Outstanding(k)
    <3>1. ASSUME Live(rt, k), d \in Outstanding(k) PROVE FALSE
      <4>1. /\ d \in DispatchesOf(k) /\ d.key = k
            /\ d.epoch = rt.programs[k].epoch /\ d.generation = rt.programs[k].generation
          BY <3>1 DEF Outstanding, DispatchesOf
      <4>2. rt.programs[k].inFlight > 0
          BY <3>1, <4>1, OutstandingCounted
      <4> QED
          BY <3>1, <4>1, <4>2 DEF CompletionIsCurrent
    <3> QED
        BY <3>1
  <2>5. Live(rt, k) => Outstanding(k)' = Outstanding(k)
      BY <1>1, <2>4 DEF Outstanding
  <2>6. CountFact(k)'
      BY <1>1, <2>1, <2>5, ZenonT(60) DEF KeyInv, CountFact
  <2> QED
      BY <2>2, <2>3, <2>6 DEF KeyInv
<1> QED
    BY <1>2, <1>3, ZenonT(60) DEF SplitInv

(***************************************************************************)
(* complete_request for a current dispatch keeps the invariant: the set of *)
(* unfinished dispatches and the count shrink together.                    *)
(***************************************************************************)
LEMMA CompletionKeeps ==
    ASSUME SplitInv, NEW d \in dispatches, CompleteRequest(d), CompletionIsCurrent(rt, d)
    PROVE  SplitInv'
<1> DEFINE k == d.key
           old == rt.programs[k]
           q == rt.pool[k]
<1>a. TypeOK
    BY DEF SplitInv
<1>0. k \in Keys
    BY <1>a, ZenonT(60) DEF TypeOK, DispatchRecord
<1>1. PICK p \in Program :
         /\ Updated(rt, rt', k, p, q, rt.nextRequestId, rt.nextEpoch)
         /\ p.inFlight = old.inFlight - 1
         /\ p.status = IF p.inFlight = 0 /\ q = << >> THEN "Acting" ELSE old.status
         /\ p.state = old.state /\ p.placement = old.placement
         /\ p.epoch = old.epoch /\ p.generation = old.generation
         /\ p.startPending = old.startPending
    BY <1>a, CompleteShape
<1>2. /\ TypeOK' /\ dispatches' = dispatches \ {d}
      /\ births' = births /\ served' = served
    BY <1>a, CompleteShape DEF CompleteRequest
<1>3. /\ Live(rt, k) /\ d.generation = old.generation /\ d.epoch = old.epoch
      /\ old.inFlight > 0
    BY DEF CompletionIsCurrent
<1> HIDE DEF k, q
<1>4. /\ KeyInv(k) /\ rt.nextEpoch \in Nat /\ rt.nextRequestId \in Nat
      /\ old.inFlight \in Nat /\ IsFiniteSet(Outstanding(k))
    BY <1>0, <1>3, KeyTypes
<1>5. /\ rt'.programs[k] = p /\ rt'.pool[k] = q
      /\ rt'.nextRequestId = rt.nextRequestId /\ rt'.nextEpoch = rt.nextEpoch
    BY <1>0, <1>1, <1>a, UpdateFacts
<1>6. p # None /\ Live(rt, k)'
    BY <1>5, NoneAssumption DEF Live
<1>7. DispatchFacts(k)'
  <2>1. DispatchesOf(k)' \subseteq DispatchesOf(k)
      BY <1>2 DEF DispatchesOf
  <2> QED
      BY <1>1, <1>2, <1>3, <1>4, <1>5, <2>1, ZenonT(60) DEF KeyInv, DispatchFacts, q
<1>8. PoolFacts(k)'
    BY <1>4, <1>5, <1>6, ZenonT(60) DEF KeyInv, PoolFacts, q
<1>9. ProgramFacts(k)'
  <2>1. /\ p.state = "Active" <=> p.placement # None
        /\ p.epoch <= rt.nextEpoch
        /\ p.placement # None => p.epoch > 0
        /\ p.startPending => p.epoch > 0
        /\ p.startPending => p.epoch \notin served
      BY <1>1, <1>3, <1>4, ZenonT(60) DEF KeyInv, ProgramFacts
  <2>2. old.status # "Acting"
    <3>1. old.status = "Acting" => old.inFlight = 0
        BY <1>3, <1>4, ZenonT(60) DEF KeyInv, ProgramFacts, Idle
    <3> QED
        BY <1>3, <3>1
  <2>3. p.status = "Acting" => p.inFlight = 0 /\ q = << >>
      BY <1>1, <2>2, ZenonT(60)
  <2> QED
      BY <1>2, <1>5, <2>1, <2>3, ZenonT(60) DEF ProgramFacts, Idle
<1>10. CountFact(k)'
  <2>1. Outstanding(k)' = Outstanding(k) \ {d}
      BY <1>1, <1>2, <1>5 DEF Outstanding
  <2>2. d \in Outstanding(k)
      BY <1>3 DEF Outstanding, k
  <2>3. old.inFlight = Cardinality(Outstanding(k))
      BY <1>3, <1>4 DEF KeyInv, CountFact
  <2>4. Cardinality(Outstanding(k) \ {d}) = old.inFlight - 1
      BY <1>4, <2>2, <2>3, FS_RemoveElement, ZenonT(60)
  <2> QED
      BY <1>1, <1>5, <2>1, <2>4 DEF CountFact
<1>11. KeyInv(k)'
    BY <1>7, <1>8, <1>9, <1>10 DEF KeyInv
<1>12. IsFiniteSet(dispatches)'
    BY <1>2, FS_RemoveElement DEF SplitInv
<1>13. /\ \A m \in Keys : m # k => DispatchesOf(m)' = DispatchesOf(m)
       /\ \A m \in Keys : m # k => births'[m] = births[m]
       /\ \A x \in served' : x \in served
    BY <1>2 DEF DispatchesOf, k
<1>14. rt.nextRequestId <= rt.nextRequestId /\ rt.nextEpoch <= rt.nextEpoch
    BY <1>4
<1> QED
    BY <1>0, <1>1, <1>2, <1>3, <1>4, <1>6, <1>11, <1>12, <1>13, <1>14, Frame, ZenonT(60)

(***************************************************************************)
(* release_idle keeps the invariant: the Program it forgets has an empty   *)
(* queue, and later lives start again from epoch 0.                        *)
(***************************************************************************)
LEMMA ReleaseKeeps ==
    ASSUME SplitInv, NEW k \in Keys, ReleaseProgram(k)
    PROVE  SplitInv'
<1> DEFINE q == rt.pool[k]
<1>0. /\ TypeOK /\ KeyInv(k) /\ q = << >>
      /\ rt.nextEpoch \in Nat /\ rt.nextRequestId \in Nat
    BY KeyTypes DEF ReleaseProgram, CanReleaseIdle, Idle
<1>1. /\ Updated(rt, rt', k, None, q, rt.nextRequestId, rt.nextEpoch) /\ TypeOK'
      /\ dispatches' = dispatches /\ births' = births /\ served' = served
    BY <1>0, ReleaseShape DEF ReleaseProgram
<1> HIDE DEF q
<1>2. /\ rt'.programs[k] = None /\ rt'.pool[k] = q
      /\ rt'.nextRequestId = rt.nextRequestId /\ rt'.nextEpoch = rt.nextEpoch
    BY <1>0, <1>1, UpdateFacts
<1>3. ~Live(rt, k)'
    BY <1>2 DEF Live
<1>4. \A m \in Keys : DispatchesOf(m)' = DispatchesOf(m)
    BY <1>1 DEF DispatchesOf
<1>5. DispatchFacts(k)'
    BY <1>0, <1>1, <1>2, <1>3, <1>4, ZenonT(60) DEF KeyInv, DispatchFacts, q
<1>6. PoolFacts(k)' /\ ProgramFacts(k)' /\ CountFact(k)'
    BY <1>0, <1>2, <1>3, ZenonT(60) DEF KeyInv, PoolFacts, ProgramFacts, CountFact, q
<1>7. KeyInv(k)'
    BY <1>5, <1>6 DEF KeyInv
<1>8. /\ IsFiniteSet(dispatches)' /\ \A m \in Keys : m # k => births'[m] = births[m]
      /\ \A x \in served' : x \in served
      /\ rt.nextRequestId <= rt.nextRequestId /\ rt.nextEpoch <= rt.nextEpoch
    BY <1>0, <1>1 DEF SplitInv
<1> QED
    BY <1>0, <1>1, <1>4, <1>7, <1>8, Frame, ZenonT(60)

(***************************************************************************)
(* A step that changes none of what the invariant reads keeps it; pruning  *)
(* a generation and stuttering are such steps.                             *)
(***************************************************************************)
LEMMA SameKeeps ==
    ASSUME SplitInv, TypeOK', rt'.programs = rt.programs, rt'.pool = rt.pool,
           rt'.nextRequestId = rt.nextRequestId, rt'.nextEpoch = rt.nextEpoch,
           UNCHANGED <<dispatches, births, served>>
    PROVE  SplitInv'
<1>1. IsFiniteSet(dispatches)' /\ EpochsDistinct' /\ ServedBound'
    BY ZenonT(60) DEF SplitInv, EpochsDistinct, ServedBound, Live
<1>2. ASSUME NEW k \in Keys PROVE KeyInv(k)'
  <2>1. KeyInv(k)
      BY DEF SplitInv
  <2>2. DispatchesOf(k)' = DispatchesOf(k) /\ Outstanding(k)' = Outstanding(k)
      BY ZenonT(60) DEF DispatchesOf, Outstanding
  <2> QED
      BY <2>1, <2>2, ZenonT(60) DEF KeyInv, DispatchFacts, PoolFacts, ProgramFacts, CountFact,
         Live, Idle
<1> QED
    BY <1>1, <1>2, ZenonT(60) DEF SplitInv

-----------------------------------------------------------------------------
(***************************************************************************)
(* The empty runtime satisfies the invariant.                              *)
(***************************************************************************)
LEMMA InitIInv == Init => SplitInv
<1> SUFFICES ASSUME Init PROVE SplitInv
    OBVIOUS
<1>1. /\ rt.programs = [k \in Keys |-> None] /\ rt.pool = [k \in Keys |-> << >>]
      /\ dispatches = {} /\ served = {} /\ births = [k \in Keys |-> 0]
    BY ZenonT(60) DEF Init, EmptyRuntime
<1>2. rt \in Runtime
  <2>1. /\ << >> \in Seq(Nat) /\ 0 \in Nat /\ -1 \in Nat \cup {-1}
      OBVIOUS
  <2>2. /\ [k \in Keys |-> None] \in [Keys -> Program \cup {None}]
        /\ [k \in Keys |-> -1] \in [Keys -> Nat \cup {-1}]
        /\ [k \in Keys |-> FALSE] \in [Keys -> BOOLEAN]
        /\ [k \in Keys |-> << >>] \in [Keys -> Seq(Nat)]
      BY <2>1, ZenonT(60)
  <2> QED
      BY <2>1, <2>2, ZenonT(60) DEF Init, EmptyRuntime, Runtime
<1>3. TypeOK
    BY <1>1, <1>2 DEF TypeOK
<1>4. \A k \in Keys : ~Live(rt, k) /\ rt.pool[k] = << >>
    BY <1>1 DEF Live
<1>5. IsFiniteSet(dispatches) /\ EpochsDistinct /\ ServedBound
    BY <1>1, <1>4, FS_EmptySet DEF EpochsDistinct, ServedBound
<1>6. ASSUME NEW k \in Keys PROVE KeyInv(k)
  <2>1. DispatchFacts(k)
      BY <1>1 DEF DispatchFacts, DispatchesOf
  <2>2. PoolFacts(k)
      BY <1>4 DEF PoolFacts
  <2> QED
      BY <1>4, <2>1, <2>2, ZenonT(60) DEF KeyInv, ProgramFacts, CountFact
<1> QED
    BY <1>3, <1>5, <1>6 DEF SplitInv

(***************************************************************************)
(* Every step keeps the invariant.                                         *)
(***************************************************************************)
LEMMA NextIInv == SplitInv /\ [Next]_vars => SplitInv'
<1> SUFFICES ASSUME SplitInv, [Next]_vars PROVE SplitInv'
    OBVIOUS
<1>0. TypeOK
    BY DEF SplitInv
<1>1. CASE UNCHANGED vars
  <2>1. UNCHANGED <<dispatches, births, served>> /\ rt' = rt
      BY <1>1 DEF vars
  <2>2. TypeOK'
      BY <1>0, <2>1, ZenonT(60) DEF TypeOK
  <2> QED
      BY <2>1, <2>2, SameKeeps
<1>2. ASSUME NEW k \in Keys, RetainRequest(k) PROVE SplitInv'
    BY <1>2, RetainKeeps
<1>3. ASSUME NEW k \in Keys, NEW t \in Targets, ActivateProgram(k, t) PROVE SplitInv'
    BY <1>3, ActivateKeeps
<1>4. ASSUME NEW k \in Keys, NEW r, ClaimDispatch(k, r) PROVE SplitInv'
    BY <1>4, ClaimFrontKeeps, ClaimOtherKeeps
<1>5. ASSUME NEW k \in Keys, NEW r, CancelRequest(k, r) PROVE SplitInv'
    BY <1>5, CancelKeeps
<1>6. ASSUME NEW k \in Keys, PauseProgram(k) PROVE SplitInv'
    BY <1>6, PauseKeeps
<1>7. ASSUME NEW k \in Keys, ReleaseProgram(k) PROVE SplitInv'
    BY <1>7, ReleaseKeeps
<1>8. ASSUME NEW k \in Keys, PruneGenerations(k) PROVE SplitInv'
  <2>1. UNCHANGED <<dispatches, births, served>>
      BY <1>8 DEF PruneGenerations
  <2>2. /\ TypeOK' /\ rt'.programs = rt.programs /\ rt'.pool = rt.pool
        /\ rt'.nextRequestId = rt.nextRequestId /\ rt'.nextEpoch = rt.nextEpoch
      BY <1>0, <1>8, PruneShape
  <2> QED
      BY <2>1, <2>2, SameKeeps
<1>9. ASSUME NEW k \in Keys, NEW t \in Targets, LoseTarget(k, t) PROVE SplitInv'
    BY <1>9, InvalidateKeeps
<1>10. ASSUME NEW d \in dispatches, CompleteRequest(d) PROVE SplitInv'
    BY <1>10, CompletionKeeps, StaleCompletionKeeps
<1> QED
    BY <1>1, <1>2, <1>3, <1>4, <1>5, <1>6, <1>7, <1>8, <1>9, <1>10, ZenonT(60) DEF Next

(***************************************************************************)
(* The inductive invariant holds of every reachable runtime.               *)
(***************************************************************************)
THEOREM RuntimeInvariant == Spec => []IInv
<1>1. Spec => []SplitInv
    BY InitIInv, NextIInv, PTL DEF Spec
<1> QED
    BY <1>1, SplitIsIInv, PTL

(***************************************************************************)
(* Every field of the runtime keeps its type, in particular a count never  *)
(* goes below zero (usize arithmetic in runtime.rs).                       *)
(***************************************************************************)
THEOREM RuntimeTypes == Spec => []TypeOK
<1>1. IInv => TypeOK
    BY DEF IInv
<1> QED
    BY <1>1, RuntimeInvariant, PTL

(***************************************************************************)
(* The in-flight count of a Program is the number of its unfinished        *)
(* dispatches of the current placement.                                    *)
(***************************************************************************)
THEOREM InFlightIsExact == Spec => []InFlightExact
<1>1. IInv => InFlightExact
    BY DEF IInv
<1> QED
    BY <1>1, RuntimeInvariant, PTL

(***************************************************************************)
(* Placement, demand and FIFO order of every Program stay coherent.        *)
(***************************************************************************)
THEOREM LifecycleCoherent ==
    Spec => [](ActiveIffPlaced /\ ActingHasNoDemand /\ DispatchInArrivalOrder)
<1>1. IInv => ActiveIffPlaced /\ ActingHasNoDemand /\ DispatchInArrivalOrder
    BY DEF IInv
<1> QED
    BY <1>1, RuntimeInvariant, PTL

(***************************************************************************)
(* An accepted completion is charged to the backend that ran the request.  *)
(***************************************************************************)
THEOREM CompletionsChargeTheirBackend == Spec => []CurrentDispatchOnPlacement
<1>1. ASSUME IInv PROVE CurrentDispatchOnPlacement
  <2> SUFFICES ASSUME NEW d \in dispatches, CompletionIsCurrent(rt, d)
               PROVE  /\ rt.programs[d.key].state = "Active"
                      /\ rt.programs[d.key].placement = d.target
      BY DEF CurrentDispatchOnPlacement
  <2>1. d.target \in Targets /\ d.key \in Keys
      BY <1>1, ZenonT(60) DEF IInv, TypeOK, DispatchRecord
  <2>2. Live(rt, d.key) /\ d.epoch = rt.programs[d.key].epoch
      BY DEF CompletionIsCurrent
  <2>3. d.target = rt.programs[d.key].placement
      BY <1>1, <2>2 DEF IInv, EpochFences
  <2>4. rt.programs[d.key].placement # None
      BY <2>1, <2>3, NoneAssumption
  <2> QED
      BY <1>1, <2>1, <2>2, <2>3, <2>4, ZenonT(60) DEF IInv, ActiveIffPlaced
<1> QED
    BY <1>1, RuntimeInvariant, PTL

(***************************************************************************)
(* A completion that outlives its Program changes nothing, even when       *)
(* pruning has let a later Program take the same generation number.        *)
(***************************************************************************)
THEOREM LateCompletionsAreInert == Spec => LateCompletionInert
<1> DEFINE A == \A d \in dispatches \ dispatches' : d.birth # births[d.key] => rt' = rt
<1>1. ASSUME IInv, [Next]_vars PROVE [A]_vars
  <2>1. CASE \E c \in dispatches : CompleteRequest(c)
    <3>1. PICK c \in dispatches : CompleteRequest(c)
        BY <2>1
    <3>2. c.birth # births[c.key] => ~CompletionIsCurrent(rt, c)
        BY <1>1 DEF IInv, EpochFences, CompletionIsCurrent
    <3> QED
        BY <3>1, <3>2 DEF CompleteRequest
  <2>2. CASE ~\E c \in dispatches : CompleteRequest(c)
    <3>1. dispatches \subseteq dispatches'
        BY <1>1, <2>2, ZenonT(60) DEF Next, vars, RetainRequest, ActivateProgram, ClaimDispatch,
           CancelRequest, PauseProgram, ReleaseProgram, PruneGenerations, LoseTarget
    <3> QED
        BY <3>1
  <2> QED
      BY <2>1, <2>2
<1>2. Spec => [][Next]_vars
    BY PTL DEF Spec
<1> QED
    BY <1>1, <1>2, RuntimeInvariant, PTL DEF LateCompletionInert

(***************************************************************************)
(* No placement epoch has two placement-start dispatches.                  *)
(***************************************************************************)
THEOREM StartsAreUnique == Spec => AtMostOneStart
<1> DEFINE A == \A d \in dispatches' \ dispatches : d.start => d.epoch \notin served
<1>1. ASSUME IInv, [Next]_vars PROVE [A]_vars
  <2>1. CASE \E k \in Keys : \E r : ClaimDispatch(k, r)
    <3>1. PICK k \in Keys : \E r : ClaimDispatch(k, r)
        BY <2>1
    <3> PICK r : ClaimDispatch(k, r)
        BY <3>1
    <3> DEFINE new == Dispatch(rt, k, r, births[k])
    <3>2. /\ Live(rt, k)
          /\ dispatches' \subseteq dispatches \cup {new}
        BY DEF ClaimDispatch
    <3>3. rt.programs[k].startPending => rt.programs[k].epoch \notin served
        BY <1>1, <3>2, ZenonT(60) DEF IInv, Epochs
    <3>4. new.start = rt.programs[k].startPending /\ new.epoch = rt.programs[k].epoch
        BY ZenonT(60) DEF Dispatch
    <3> HIDE DEF new
    <3>5. A
        BY <3>2, <3>3, <3>4, ZenonT(60)
    <3> QED
        BY <3>5
  <2>2. CASE ~\E k \in Keys : \E r : ClaimDispatch(k, r)
    <3>1. dispatches' \subseteq dispatches
        BY <1>1, <2>2, ZenonT(60) DEF Next, vars, RetainRequest, ActivateProgram, CompleteRequest,
           CancelRequest, PauseProgram, ReleaseProgram, PruneGenerations, LoseTarget
    <3> QED
        BY <3>1
  <2> QED
      BY <2>1, <2>2
<1>2. Spec => [][Next]_vars
    BY PTL DEF Spec
<1> QED
    BY <1>1, <1>2, RuntimeInvariant, PTL DEF AtMostOneStart

(***************************************************************************)
(* Together: a completion and a placement start count only in the placement*)
(* epoch they belong to (complete_request, admit_front).                   *)
(***************************************************************************)
THEOREM PlacementsStayFenced == Spec => PlacementsAreFenced
  BY LateCompletionsAreInert, StartsAreUnique DEF PlacementsAreFenced
=============================================================================
