----------------------------- MODULE WasmProofs -----------------------------
(***************************************************************************)
(* That the WASM middleware loses no permit and lets nothing past a guest  *)
(* that did not let it, for any number of requests and guest workers and   *)
(* any queue capacity.  A permit means a place in the queue because every  *)
(* job in it is of another request, which holds a permit unless it left.   *)
(***************************************************************************)
EXTENDS WasmMiddleware, FiniteSetTheorems, SequenceTheorems, TLAPS

\* Every leaf has a minute of each prover, so that a busy machine fails none of them.
USE SMTT(60), ZenonT(60)

\* The requests that hold a permit.
Holders == {c \in WasmCallers : HoldsPermit(c)}

\* Every job is of another request, which waits or has left; the guest runs on requests
\* that were sent and are no longer in the queue.
WasmInv ==
    /\ WasmTypeOK /\ FailsClosed /\ PermitsComeBack
    /\ \A i, j \in 1 .. Len(jobs) : i # j => jobs[i] # jobs[j]
    /\ \A i \in 1 .. Len(jobs) : wasm[jobs[i]].at \in {"waiting", "left"}
    /\ \A g \in GuestWorkers :
          guest[g] \in WasmCallers =>
             /\ wasm[guest[g]].at \in {"waiting", "answered", "forwarded", "refused", "left"}
             /\ \A i \in 1 .. Len(jobs) : jobs[i] # guest[g]

\* One request takes a permit, gives it back, or neither.
LEMMA PermitsFollowHolders ==
    ASSUME WasmInv, NEW c \in WasmCallers, NEW w,
           wasm' = [wasm EXCEPT ![c] = w],
           \/ HoldsPermit(c) /\ ~HoldsPermit(c)' /\ permits' = permits + 1
           \/ ~HoldsPermit(c) /\ HoldsPermit(c)' /\ permits' = permits - 1
           \/ (HoldsPermit(c) <=> HoldsPermit(c)') /\ permits' = permits
    PROVE  PermitsComeBack'
<1>1. wasm = [x \in WasmCallers |-> wasm[x]] /\ permits \in Nat /\ QueueCapacity \in Nat
    BY WasmConfigIsValid DEF WasmInv, WasmTypeOK
<1>2. \A x \in WasmCallers \ {c} : HoldsPermit(x)' <=> HoldsPermit(x)
    BY <1>1 DEF HoldsPermit
<1>3. IsFiniteSet(Holders) /\ Cardinality(Holders) \in Nat
    BY FS_Subset, FS_CardinalityType, WasmConfigIsValid DEF Holders
<1>4. permits + Cardinality(Holders) = QueueCapacity
    BY ZenonT(60) DEF WasmInv, PermitsComeBack, Holders
<1>5. CASE HoldsPermit(c) /\ ~HoldsPermit(c)' /\ permits' = permits + 1
  <2>1. Holders' = Holders \ {c} /\ c \in Holders
      BY <1>2, <1>5 DEF Holders
  <2>2. Cardinality(Holders \ {c}) = Cardinality(Holders) - 1
      BY <1>3, <2>1, FS_RemoveElement
  <2>3. Cardinality(Holders') = Cardinality(Holders) - 1
      BY <2>1, <2>2
  <2>4. permits' + Cardinality(Holders') = QueueCapacity
      BY <1>1, <1>3, <1>4, <1>5, <2>3
  <2> QED
      BY <2>4, ZenonT(60) DEF PermitsComeBack, Holders
<1>6. CASE ~HoldsPermit(c) /\ HoldsPermit(c)' /\ permits' = permits - 1
  <2>1. Holders' = Holders \cup {c} /\ c \notin Holders
      BY <1>2, <1>6 DEF Holders
  <2>2. Cardinality(Holders \cup {c}) = Cardinality(Holders) + 1
      BY <1>3, <2>1, FS_AddElement
  <2>3. Cardinality(Holders') = Cardinality(Holders) + 1
      BY <2>1, <2>2
  <2>4. permits' + Cardinality(Holders') = QueueCapacity
      BY <1>1, <1>3, <1>4, <1>6, <2>3
  <2> QED
      BY <2>4, ZenonT(60) DEF PermitsComeBack, Holders
<1>7. CASE (HoldsPermit(c) <=> HoldsPermit(c)') /\ permits' = permits
  <2>1. Holders' = Holders
      BY <1>2, <1>7 DEF Holders
  <2>2. permits' + Cardinality(Holders') = QueueCapacity
      BY <1>4, <1>7, <2>1
  <2> QED
      BY <2>2, ZenonT(60) DEF PermitsComeBack, Holders
<1> QED
    BY <1>5, <1>6, <1>7

\* A step that moves one request from where it is to another place, without the queue.
LEMMA MovedKeeps ==
    ASSUME WasmInv, NEW c \in WasmCallers, NEW where,
           where \in {"passed", "read", "acquired", "waiting", "answered", "forwarded", "refused", "left"},
           wasm' = Moved(c, where), jobs' = jobs, guest' = guest, permits' \in Nat,
           wasm[c].at = "waiting" => where = "left",
           wasm[c].at # "left",
           where = "forwarded" => wasm[c].verdict \in {"continue", "modify"},
           wasm[c].at \in {"waiting", "answered", "forwarded", "refused", "left"} =>
              where \in {"waiting", "answered", "forwarded", "refused", "left"},
           \/ HoldsPermit(c) /\ ~HoldsPermit(c)' /\ permits' = permits + 1
           \/ ~HoldsPermit(c) /\ HoldsPermit(c)' /\ permits' = permits - 1
           \/ (HoldsPermit(c) <=> HoldsPermit(c)') /\ permits' = permits
    PROVE  WasmInv'
<1>1. wasm' = [wasm EXCEPT ![c] = [wasm[c] EXCEPT !.at = where]]
    BY DEF WasmInv, WasmTypeOK, Moved
<1>2. PermitsComeBack'
    BY <1>1, PermitsFollowHolders, ZenonT(60)
<1>3. wasm'[c] = [wasm[c] EXCEPT !.at = where] /\ \A x \in WasmCallers \ {c} : wasm'[x] = wasm[x]
    BY <1>1 DEF WasmInv, WasmTypeOK
<1>4. wasm'[c].at = where /\ wasm'[c].verdict = wasm[c].verdict
    BY <1>3 DEF WasmInv, WasmTypeOK
<1>5. WasmTypeOK'
    BY <1>1 DEF WasmInv, WasmTypeOK
<1>6. FailsClosed'
    BY <1>3, <1>4, ZenonT(60) DEF WasmInv, FailsClosed
<1>7. \A i \in 1 .. Len(jobs) : jobs[i] \in WasmCallers
    BY DEF WasmInv, WasmTypeOK
<1>8. \A i \in 1 .. Len(jobs) : wasm'[jobs[i]].at \in {"waiting", "left"}
    BY <1>3, <1>4, <1>7, ZenonT(60) DEF WasmInv
<1>9. \A g \in GuestWorkers :
         guest[g] \in WasmCallers =>
            wasm'[guest[g]].at \in {"waiting", "answered", "forwarded", "refused", "left"}
    BY <1>3, <1>4, ZenonT(60) DEF WasmInv
<1> QED
    BY <1>2, <1>5, <1>6, <1>8, <1>9 DEF WasmInv

\* handle_request, up to the answer, and a client that leaves.
LEMMA HandlingKeeps ==
    ASSUME WasmInv, NEW c \in WasmCallers,
           ReadBody(c) \/ AcquirePermit(c) \/ Conclude(c) \/ LeaveMiddleware(c)
    PROVE  WasmInv'
<1>0. permits \in Nat /\ DOMAIN wasm = WasmCallers /\ wasm[c] = [wasm[c] EXCEPT !.at = wasm[c].at]
      /\ \A where : Moved(c, where)[c].at = where
    BY DEF WasmInv, WasmTypeOK, Moved
<1>1. CASE ReadBody(c)
  <2>1. PICK where \in {"passed", "refused", "read"} : wasm' = Moved(c, where)
      BY <1>1 DEF ReadBody
  <2>2. wasm'[c].at = where /\ wasm[c].at = "new"
      BY <1>0, <1>1, <2>1 DEF ReadBody
  <2> QED
      BY <1>0, <1>1, <2>1, <2>2, MovedKeeps DEF ReadBody, HoldsPermit
<1>2. CASE AcquirePermit(c)
  <2>1. CASE permits = 0
    <3>1. wasm' = Moved(c, "refused") /\ wasm'[c].at = "refused" /\ wasm[c].at = "read"
        BY <1>0, <1>2, <2>1 DEF AcquirePermit
    <3> QED
        BY <1>0, <1>2, <2>1, <3>1, MovedKeeps DEF AcquirePermit, HoldsPermit
  <2>2. CASE permits # 0
    <3>1. wasm' = Moved(c, "acquired") /\ wasm'[c].at = "acquired" /\ wasm[c].at = "read"
        BY <1>0, <1>2, <2>2 DEF AcquirePermit
    <3>2. permits' = permits - 1 /\ permits' \in Nat
        BY <1>0, <1>2, <2>2 DEF AcquirePermit
    <3> QED
        BY <1>2, <3>1, <3>2, MovedKeeps DEF AcquirePermit, HoldsPermit
  <2> QED
      BY <2>1, <2>2
<1>3. CASE Conclude(c)
  <2>1. PICK where \in {"forwarded", "refused"} :
           /\ wasm' = Moved(c, where)
           /\ where = "forwarded" => wasm[c].verdict \in {"continue", "modify"}
      BY <1>3 DEF Conclude, Outcome
  <2>2. wasm'[c].at = where /\ wasm[c].at = "answered"
      BY <1>0, <1>3, <2>1 DEF Conclude
  <2> QED
      BY <1>0, <1>3, <2>1, <2>2, MovedKeeps DEF Conclude, HoldsPermit
<1>4. CASE LeaveMiddleware(c)
  <2>1. wasm' = Moved(c, "left") /\ wasm'[c].at = "left" /\ wasm[c].at \in {"new", "waiting", "answered"}
      BY <1>0, <1>4 DEF LeaveMiddleware
  <2>2. permits' \in Nat /\ permits' = IF wasm[c].at = "new" THEN permits ELSE permits + 1
      BY <1>0, <1>4 DEF LeaveMiddleware
  <2> QED
      BY <1>4, <2>1, <2>2, MovedKeeps DEF LeaveMiddleware, HoldsPermit
<1> QED
    BY <1>1, <1>2, <1>3, <1>4

\* try_send: the job goes to the end of the queue, or the permit comes back.
LEMMA SendKeeps ==
    ASSUME WasmInv, NEW c \in WasmCallers, SendJob(c)
    PROVE  WasmInv'
<1>0. /\ permits \in Nat /\ \A where : Moved(c, where)[c].at = where
      /\ wasm[c].at = "acquired" /\ guest' = guest
    BY DEF WasmInv, WasmTypeOK, Moved, SendJob
<1>1. CASE Len(jobs) = QueueCapacity
  <2>1. wasm' = Moved(c, "refused") /\ wasm'[c].at = "refused" /\ permits' = permits + 1 /\ jobs' = jobs
      BY <1>0, <1>1 DEF SendJob
  <2> QED
      BY <1>0, <2>1, MovedKeeps DEF HoldsPermit
<1>2. CASE Len(jobs) # QueueCapacity
  <2>1. wasm' = Moved(c, "waiting") /\ jobs' = Append(jobs, c) /\ permits' = permits
      BY <1>2 DEF SendJob
  <2>2. wasm' = [wasm EXCEPT ![c] = [wasm[c] EXCEPT !.at = "waiting"]]
      BY <2>1 DEF WasmInv, WasmTypeOK, Moved
  <2>3. /\ wasm'[c].at = "waiting" /\ wasm'[c].verdict = wasm[c].verdict
        /\ \A x \in WasmCallers \ {c} : wasm'[x] = wasm[x]
      BY <2>2 DEF WasmInv, WasmTypeOK
  <2>4. PermitsComeBack'
      BY <1>0, <2>1, <2>2, <2>3, PermitsFollowHolders DEF HoldsPermit
  <2>5. jobs \in Seq(WasmCallers)
      BY DEF WasmInv, WasmTypeOK
  <2>6. WasmTypeOK'
    <3>1. jobs' \in Seq(WasmCallers)
        BY <2>1, <2>5
    <3> QED
        BY <1>0, <2>1, <2>2, <3>1, ZenonT(60) DEF WasmInv, WasmTypeOK
  <2>7. FailsClosed'
      BY <2>3 DEF WasmInv, FailsClosed
  <2>8. /\ Len(jobs') = Len(jobs) + 1 /\ jobs'[Len(jobs) + 1] = c /\ Len(jobs) \in Nat
        /\ \A i \in 1 .. Len(jobs) : jobs'[i] = jobs[i] /\ jobs[i] \in WasmCallers
      BY <2>1, <2>5
  <2>9. \A i \in 1 .. Len(jobs) : jobs[i] # c /\ wasm'[jobs[i]] = wasm[jobs[i]]
      BY <1>0, <2>3, <2>8 DEF WasmInv
  <2>10. \A i \in 1 .. Len(jobs') : i \in 1 .. Len(jobs) \/ i = Len(jobs) + 1
      BY <2>8
  <2>11. \A i, j \in 1 .. Len(jobs') : i # j => jobs'[i] # jobs'[j]
      BY <2>8, <2>9, <2>10 DEF WasmInv
  <2>12. \A i \in 1 .. Len(jobs') : wasm'[jobs'[i]].at \in {"waiting", "left"}
      BY <2>3, <2>8, <2>9, <2>10 DEF WasmInv
  <2>13. ASSUME NEW g \in GuestWorkers, guest[g] \in WasmCallers
         PROVE  /\ wasm'[guest[g]].at \in {"waiting", "answered", "forwarded", "refused", "left"}
                /\ \A i \in 1 .. Len(jobs') : jobs'[i] # guest[g]
    <3>1. guest[g] # c
        BY <1>0, <2>13 DEF WasmInv
    <3> QED
        BY <2>3, <2>8, <2>10, <2>13, <3>1 DEF WasmInv
  <2> QED
      BY <1>0, <2>4, <2>6, <2>7, <2>11, <2>12, <2>13 DEF WasmInv
<1> QED
    BY <1>1, <1>2

\* recv_blocking: the first job leaves the queue.
LEMMA TakeKeeps ==
    ASSUME WasmInv, NEW g \in GuestWorkers, TakeJob(g)
    PROVE  WasmInv'
<1>1. /\ jobs # << >> /\ guest' = [guest EXCEPT ![g] = Head(jobs)] /\ jobs' = Tail(jobs)
      /\ wasm' = wasm /\ permits' = permits /\ jobs \in Seq(WasmCallers)
    BY DEF TakeJob, WasmInv, WasmTypeOK
<1>2. /\ Len(jobs) \in Nat /\ Len(jobs) > 0 /\ Len(jobs') = Len(jobs) - 1 /\ Head(jobs) = jobs[1]
      /\ \A i \in 1 .. Len(jobs') : jobs'[i] = jobs[i + 1] /\ i + 1 \in 1 .. Len(jobs)
      /\ 1 \in 1 .. Len(jobs) /\ Head(jobs) \in WasmCallers /\ jobs' \in Seq(WasmCallers)
    BY <1>1
<1>3. WasmTypeOK'
    BY <1>1, <1>2 DEF WasmInv, WasmTypeOK
<1>4. FailsClosed' /\ PermitsComeBack'
    BY <1>1 DEF WasmInv, FailsClosed, PermitsComeBack, HoldsPermit
<1>5. /\ \A i, j \in 1 .. Len(jobs') : i # j => jobs'[i] # jobs'[j]
      /\ \A i \in 1 .. Len(jobs') : wasm'[jobs'[i]].at \in {"waiting", "left"}
    BY <1>1, <1>2 DEF WasmInv
<1>6. \A i \in 1 .. Len(jobs') : jobs'[i] # jobs[1]
    BY <1>2 DEF WasmInv
<1>7. ASSUME NEW h \in GuestWorkers, guest'[h] \in WasmCallers
      PROVE  /\ wasm'[guest'[h]].at \in {"waiting", "answered", "forwarded", "refused", "left"}
             /\ \A i \in 1 .. Len(jobs') : jobs'[i] # guest'[h]
  <2>1. CASE h = g
    <3>1. guest'[h] = jobs[1]
        BY <1>1, <1>2, <2>1 DEF WasmInv, WasmTypeOK
    <3> QED
        BY <1>1, <1>2, <1>6, <3>1 DEF WasmInv
  <2>2. CASE h # g
    <3>1. guest'[h] = guest[h]
        BY <1>1, <2>2 DEF WasmInv, WasmTypeOK
    <3> QED
        BY <1>1, <1>2, <1>7, <3>1 DEF WasmInv
  <2> QED
      BY <2>1, <2>2
<1> QED
    BY <1>3, <1>4, <1>5, <1>7 DEF WasmInv

\* The guest ends, and its request, if it still waits, is answered.
LEMMA RunKeeps ==
    ASSUME WasmInv, NEW g \in GuestWorkers, RunGuest(g)
    PROVE  WasmInv'
<1>1. PICK c \in WasmCallers, verdict \in Verdicts : c = guest[g] /\ wasm' = Reply(c, verdict)
    BY DEF RunGuest
<1>2. guest' = [guest EXCEPT ![g] = NoJob] /\ permits' = permits /\ jobs' = jobs
    BY DEF RunGuest
<1>3. /\ \A i \in 1 .. Len(jobs) : jobs[i] # c /\ jobs[i] \in WasmCallers
      /\ wasm[c].at \in {"waiting", "answered", "forwarded", "refused", "left"}
    BY <1>1 DEF WasmInv, WasmTypeOK
<1>4. /\ \A x \in WasmCallers \ {c} : wasm'[x] = wasm[x]
      /\ wasm' \in [WasmCallers ->
                   [at : {"new", "passed", "read", "acquired", "waiting", "answered",
                          "forwarded", "refused", "left"},
                    verdict : Verdicts \cup {Pending}]]
      /\ wasm'[c].at \in {"answered", "forwarded", "refused", "left"}
      /\ wasm'[c].at = "forwarded" => wasm'[c] = wasm[c]
    BY <1>1, <1>3 DEF WasmInv, WasmTypeOK, Reply
<1>5. WasmTypeOK'
    BY <1>2, <1>4 DEF WasmInv, WasmTypeOK
<1>6. FailsClosed'
    BY <1>4 DEF WasmInv, FailsClosed
<1>7. PermitsComeBack'
  <2>1. CASE wasm[c].at = "waiting"
    <3>1. wasm' = [wasm EXCEPT ![c] = [wasm[c] EXCEPT !.at = "answered", !.verdict = verdict]]
        BY <1>1, <2>1, ZenonT(60) DEF Reply, WasmInv, WasmTypeOK
    <3>2. wasm'[c].at = "answered"
        BY <3>1 DEF WasmInv, WasmTypeOK
    <3> QED
        BY <1>2, <2>1, <3>1, <3>2, PermitsFollowHolders, ZenonT(60) DEF HoldsPermit
  <2>2. CASE wasm[c].at # "waiting"
    <3>1. wasm' = wasm
        BY <1>1, <2>2 DEF Reply
    <3> QED
        BY <1>2, <3>1 DEF WasmInv, PermitsComeBack, HoldsPermit
  <2> QED
      BY <2>1, <2>2
<1>8. \A i \in 1 .. Len(jobs) : wasm'[jobs[i]].at \in {"waiting", "left"}
    BY <1>3, <1>4 DEF WasmInv
<1>9. ASSUME NEW h \in GuestWorkers, guest'[h] \in WasmCallers
      PROVE  /\ wasm'[guest'[h]].at \in {"waiting", "answered", "forwarded", "refused", "left"}
             /\ \A i \in 1 .. Len(jobs) : jobs[i] # guest'[h]
  <2>1. CASE guest'[h] = guest[h]
      BY <1>4, <1>9, <2>1 DEF WasmInv
  <2>2. CASE guest'[h] # guest[h]
    <3>1. h = g /\ guest'[h] = NoJob
        BY <1>2, <2>2 DEF WasmInv, WasmTypeOK
    <3> QED
        BY <1>2, <1>9, <3>1, WasmConfigIsValid
  <2> QED
      BY <2>1, <2>2
<1> QED
    BY <1>2, <1>5, <1>6, <1>7, <1>8, <1>9 DEF WasmInv

\* Every step keeps the invariant.
LEMMA WasmStep ==
    ASSUME WasmInv, [WasmNext]_wasmVars
    PROVE  WasmInv'
<1>1. CASE UNCHANGED wasmVars
    BY <1>1 DEF wasmVars, WasmInv, WasmTypeOK, FailsClosed, PermitsComeBack, HoldsPermit
<1> QED
    BY <1>1, HandlingKeeps, SendKeeps, TakeKeeps, RunKeeps DEF WasmNext

\* A request that has a permit and finds the queue full: as many requests as there are
\* permits are in the queue, and would all hold one if none of them had left.
LEMMA FullQueueHasLeavers ==
    ASSUME WasmInv, NEW c \in WasmCallers, wasm[c].at = "acquired", Len(jobs) = QueueCapacity,
           \A i \in 1 .. Len(jobs) : wasm[jobs[i]].at # "left"
    PROVE  FALSE
<1>1. jobs \in Seq(WasmCallers) /\ permits \in Nat /\ QueueCapacity \in Nat
    BY WasmConfigIsValid DEF WasmInv, WasmTypeOK
<1>2. PICK n \in Nat : n = Len(jobs) /\ n = QueueCapacity
    BY <1>1
<1> DEFINE Queued == {jobs[i] : i \in 1 .. n}
<1>3. Queued \subseteq Holders /\ c \in Holders /\ c \notin Queued
    BY <1>1, <1>2 DEF WasmInv, Holders, HoldsPermit
<1>4. IsFiniteSet(Holders) /\ Cardinality(Holders) \in Nat
    BY FS_Subset, FS_CardinalityType, WasmConfigIsValid DEF Holders
<1>5. IsFiniteSet(Queued)
    BY <1>3, <1>4, FS_Subset
<1>6. Cardinality(Queued) = n
  <2>1. [i \in 1 .. n |-> jobs[i]] \in Bijection(1 .. n, Queued)
      BY <1>2 DEF WasmInv, Bijection, Injection, IsInjective, Surjection
  <2>2. ExistsBijection(1 .. n, Queued)
      BY <2>1 DEF ExistsBijection
  <2> HIDE DEF Queued
  <2> QED
      BY <1>5, <2>2, FS_CountingElements
<1>7. Cardinality(Queued \cup {c}) = n + 1 /\ IsFiniteSet(Queued \cup {c})
    BY <1>3, <1>5, <1>6, FS_AddElement, ZenonT(60)
<1>8. Cardinality(Queued \cup {c}) <= Cardinality(Holders)
    BY <1>3, <1>4, FS_Subset
<1>9. permits + Cardinality(Holders) = QueueCapacity
    BY ZenonT(60) DEF WasmInv, PermitsComeBack, Holders
<1> QED
    BY <1>1, <1>2, <1>4, <1>7, <1>8, <1>9

(***************************************************************************)
(* wasm_middleware.rs: a request goes on only when the guest let it; every *)
(* permit comes back, also when a send fails or a client leaves; and a     *)
(* request with a permit is turned away only by jobs of clients that left. *)
(* For any number of requests and guest workers and any queue capacity.    *)
(***************************************************************************)
THEOREM WasmStaysSafe == WasmSpec => WasmIsSafe
<1>1. WasmInit => WasmInv
  <2> SUFFICES ASSUME WasmInit PROVE WasmInv
      OBVIOUS
  <2>1. WasmTypeOK /\ FailsClosed
      BY WasmConfigIsValid DEF WasmInit, WasmTypeOK, FailsClosed
  <2>2. {c \in WasmCallers : HoldsPermit(c)} = {}
      BY DEF WasmInit, HoldsPermit
  <2>3. Cardinality({c \in WasmCallers : HoldsPermit(c)}) = 0
      BY <2>2, FS_EmptySet
  <2>4. PermitsComeBack
      BY <2>3, WasmConfigIsValid DEF WasmInit, PermitsComeBack
  <2> QED
      BY <2>1, <2>4, WasmConfigIsValid DEF WasmInit, WasmInv
<1>2. WasmInv /\ [WasmNext]_wasmVars => WasmInv'
    BY WasmStep
<1>3. WasmInv /\ [WasmNext]_wasmVars =>
         [\A c \in WasmCallers :
             wasm[c].at = "acquired" /\ wasm'[c].at = "refused" =>
                 \E i \in 1 .. Len(jobs) : wasm[jobs[i]].at = "left"]_wasmVars
  <2> SUFFICES ASSUME WasmInv, WasmNext, NEW c \in WasmCallers,
                      wasm[c].at = "acquired", wasm'[c].at = "refused"
               PROVE  \E i \in 1 .. Len(jobs) : wasm[jobs[i]].at = "left"
      OBVIOUS
  <2>1. Len(jobs) = QueueCapacity
      BY ZenonT(60) DEF WasmInv, WasmTypeOK, WasmNext, Moved, ReadBody, AcquirePermit, SendJob, Conclude,
             LeaveMiddleware, TakeJob, RunGuest, Reply
  <2> QED
      BY <2>1, FullQueueHasLeavers
<1>4. WasmInv => WasmTypeOK /\ FailsClosed /\ PermitsComeBack
    BY DEF WasmInv
<1> QED
    BY <1>1, <1>2, <1>3, <1>4, PTL DEF WasmSpec, WasmIsSafe, PermitsMeanRoom
=============================================================================
