------------------------------ MODULE PdProofs ------------------------------
(***************************************************************************)
(* The prefill/decode router keeps its accounts for any workers, requests, *)
(* deployments and instances.                                              *)
(*                                                                         *)
(* A request has at most one leg on a worker, and each step moves one      *)
(* request: what the step adds to a worker's charge or load is what the    *)
(* request gains there.  A load that is lowered is not zero, because the   *)
(* leg that ends has been counted.                                         *)
(***************************************************************************)
EXTENDS PdRequest, FiniteSetTheorems, TLAPS

\* Every leaf has a minute of each prover, so that a busy machine fails none of them.
USE SMTT(60), ZenonT(60)

(***************************************************************************)
(* The service registry: the seconds an instance has left are those of its *)
(* silence that remain.                                                    *)
(***************************************************************************)
DiscoveryInv ==
    /\ DiscoveryTypeOK /\ ModeIsShared
    /\ \A k \in Keys : /\ silent[k] < PingTime => instances[k] = PingTime - silent[k]
                       /\ silent[k] = PingTime => instances[k] \in {0, Absent}
                       /\ silent[k] > PingTime => instances[k] = Absent

\* cleanup_expired_instances removes what has no seconds left.
LEMMA CleanedFacts ==
    ASSUME NEW L \in [Keys -> 0 .. PingTime \cup {Absent}]
    PROVE  /\ Cleaned(L) \in [Keys -> 0 .. PingTime \cup {Absent}]
           /\ \A k \in Keys : /\ L[k] # 0 => Cleaned(L)[k] = L[k]
                              /\ L[k] = 0 => Cleaned(L)[k] = Absent
    BY DEF Cleaned

\* An instance announces itself.
LEMMA RegistrationKeeps ==
    ASSUME DiscoveryInv, NEW type, NEW host, NEW mode \in SentModes,
           type \in Types => <<type, host>> \in Keys,
           HandleRegistration(type, host, mode)
    PROVE  DiscoveryInv'
<1> DEFINE k == <<type, host>>
           ok == Accepted(mode)
           stored == ok /\ type \in Types
           L == IF stored THEN [instances EXCEPT ![k] = PingTime] ELSE instances
<1>1. /\ transfer_mode' = IF ok THEN Committed(type, mode) ELSE transfer_mode
      /\ instances' = Cleaned(L)
      /\ silent' = IF stored THEN [silent EXCEPT ![k] = 0] ELSE silent
      /\ seen' = IF stored THEN seen \cup {mode} ELSE seen
      /\ connector' = connector
    BY DEF HandleRegistration
<1>2. PingTime \in Nat /\ Absent \notin Nat /\ Absent \notin Modes
    BY PdConfigIsValid
<1>3. /\ instances \in [Keys -> 0 .. PingTime \cup {Absent}]
      /\ silent \in [Keys -> 0 .. PingTime + 1]
      /\ transfer_mode \in Modes \cup {Absent} /\ connector \in Connectors
    BY DEF DiscoveryInv, DiscoveryTypeOK
<1>4. /\ L \in [Keys -> 0 .. PingTime \cup {Absent}]
      /\ stored => k \in Keys /\ L[k] = PingTime /\ \A j \in Keys : j # k => L[j] = instances[j]
      /\ ~stored => L = instances
  <2>1. CASE stored
    <3>1. k \in Keys
        BY <2>1
    <3> HIDE DEF k
    <3> QED
        BY <1>2, <1>3, <2>1, <3>1
  <2>2. CASE ~stored
      BY <1>3, <2>2
  <2> QED
      BY <2>1, <2>2
<1>5. /\ silent' \in [Keys -> 0 .. PingTime + 1]
      /\ stored => silent'[k] = 0 /\ \A j \in Keys : j # k => silent'[j] = silent[j]
      /\ ~stored => silent' = silent
  <2> HIDE DEF k, ok
  <2> QED
      BY <1>1, <1>2, <1>3, <1>4
<1>6. /\ instances' \in [Keys -> 0 .. PingTime \cup {Absent}]
      /\ \A j \in Keys : /\ L[j] # 0 => instances'[j] = L[j]
                         /\ L[j] = 0 => instances'[j] = Absent
  <2> HIDE DEF L
  <2> QED
      BY <1>1, <1>4, CleanedFacts
<1>7. ASSUME NEW j \in Keys
      PROVE  /\ silent'[j] < PingTime => instances'[j] = PingTime - silent'[j]
             /\ silent'[j] = PingTime => instances'[j] \in {0, Absent}
             /\ silent'[j] > PingTime => instances'[j] = Absent
  <2> HIDE DEF L, k, stored
  <2>1. CASE stored /\ j = k
    <3>1. silent'[j] = 0 /\ L[j] = PingTime
        BY <1>4, <1>5, <2>1
    <3> QED
        BY <1>2, <1>6, <3>1
  <2>2. CASE ~(stored /\ j = k)
    <3>1. silent'[j] = silent[j] /\ L[j] = instances[j]
        BY <1>4, <1>5, <2>2
    <3>2. /\ silent[j] < PingTime => instances[j] = PingTime - silent[j]
          /\ silent[j] = PingTime => instances[j] \in {0, Absent}
          /\ silent[j] > PingTime => instances[j] = Absent
        BY DEF DiscoveryInv
    <3> QED
        BY <1>2, <1>3, <1>6, <3>1, <3>2
  <2> QED
      BY <2>1, <2>2
<1>8. transfer_mode' \in Modes \cup {Absent} /\ ModeIsShared'
  <2>1. ModeIsShared
      BY DEF DiscoveryInv
  <2>2. CASE connector # "moriio"
      BY <1>1, <1>3, <2>2 DEF Committed, ModeIsShared
  <2>3. CASE connector = "moriio" /\ ~stored
    <3>1. transfer_mode' = transfer_mode /\ seen' = seen
        BY <1>1, <2>3 DEF Committed
    <3> QED
        BY <1>1, <1>3, <2>1, <3>1 DEF ModeIsShared
  <2>4. CASE connector = "moriio" /\ stored
    <3>1. mode \in Modes /\ transfer_mode \in {Absent, mode} /\ transfer_mode' = mode
        BY <1>1, <2>4 DEF Accepted, Committed
    <3>2. seen' = {mode}
        BY <1>1, <1>2, <2>1, <2>4, <3>1 DEF ModeIsShared
    <3> QED
        BY <1>1, <1>2, <3>1, <3>2 DEF ModeIsShared
  <2> QED
      BY <2>2, <2>3, <2>4
<1> QED
    BY <1>1, <1>3, <1>5, <1>6, <1>7, <1>8, ZenonT(60) DEF DiscoveryInv, DiscoveryTypeOK

\* Every turn of the listener's loop, and the clock, keep it.
LEMMA DiscoveryStep ==
    ASSUME DiscoveryInv, DiscoveryNext \/ UNCHANGED discoveryVars
    PROVE  DiscoveryInv'
<1>0. PingTime \in Nat /\ Absent \notin Nat /\ Absent \notin Modes /\ Keys \subseteq Types \X Hosts
    BY PdConfigIsValid
<1>1. CASE UNCHANGED discoveryVars
    BY <1>1 DEF DiscoveryInv, DiscoveryTypeOK, ModeIsShared, discoveryVars
<1>2. ASSUME NEW k \in Keys, NEW mode \in SentModes, HandleRegistration(k[1], k[2], mode)
      PROVE  DiscoveryInv'
  <2>1. <<k[1], k[2]>> \in Keys
      BY <1>0
  <2> QED
      BY <1>2, <2>1, RegistrationKeeps
<1>3. ASSUME NEW h \in Hosts, NEW mode \in SentModes, HandleRegistration("other", h, mode)
      PROVE  DiscoveryInv'
  <2>1. "other" \notin Types
      BY DEF Types
  <2> QED
      BY <1>3, <2>1, RegistrationKeeps, ZenonT(60)
<1>4. /\ instances \in [Keys -> 0 .. PingTime \cup {Absent}]
      /\ silent \in [Keys -> 0 .. PingTime + 1]
      /\ \A k \in Keys : /\ silent[k] < PingTime => instances[k] = PingTime - silent[k]
                         /\ silent[k] = PingTime => instances[k] \in {0, Absent}
                         /\ silent[k] > PingTime => instances[k] = Absent
    BY DEF DiscoveryInv, DiscoveryTypeOK
<1>5. /\ Cleaned(instances) \in [Keys -> 0 .. PingTime \cup {Absent}]
      /\ \A k \in Keys : /\ instances[k] # 0 => Cleaned(instances)[k] = instances[k]
                         /\ instances[k] = 0 => Cleaned(instances)[k] = Absent
    BY <1>4, CleanedFacts
<1>6. CASE CleanUp
  <2>1. instances' = Cleaned(instances) /\ silent' = silent /\ transfer_mode' = transfer_mode
        /\ seen' = seen /\ connector' = connector
      BY <1>6 DEF CleanUp
  <2>2. \A k \in Keys : /\ silent'[k] < PingTime => instances'[k] = PingTime - silent'[k]
                        /\ silent'[k] = PingTime => instances'[k] \in {0, Absent}
                        /\ silent'[k] > PingTime => instances'[k] = Absent
      BY <1>0, <1>4, <1>5, <2>1
  <2> QED
      BY <1>4, <1>5, <2>1, <2>2 DEF DiscoveryInv, DiscoveryTypeOK, ModeIsShared
<1>7. CASE Second
  <2>1. /\ instances' = [k \in Keys |-> IF instances[k] = Absent THEN Absent ELSE instances[k] - 1]
        /\ silent' = [k \in Keys |-> IF silent[k] <= PingTime THEN silent[k] + 1 ELSE silent[k]]
        /\ transfer_mode' = transfer_mode /\ seen' = seen /\ connector' = connector
        /\ Cleaned(instances) = instances
      BY <1>7 DEF Second
  <2>2. ASSUME NEW k \in Keys
        PROVE  /\ instances'[k] \in 0 .. PingTime \cup {Absent} /\ silent'[k] \in 0 .. PingTime + 1
               /\ silent'[k] < PingTime => instances'[k] = PingTime - silent'[k]
               /\ silent'[k] = PingTime => instances'[k] \in {0, Absent}
               /\ silent'[k] > PingTime => instances'[k] = Absent
    <3>1. instances[k] # 0
        BY <1>0, <1>5, <2>1
    <3>2. /\ instances[k] = Absent => instances'[k] = Absent
          /\ instances[k] # Absent => instances'[k] = instances[k] - 1
          /\ silent[k] <= PingTime => silent'[k] = silent[k] + 1
          /\ silent[k] > PingTime => silent'[k] = silent[k]
        BY <1>0, <1>4, <2>1
    <3> QED
        BY <1>0, <1>4, <3>1, <3>2
  <2>3. /\ instances' \in [Keys -> 0 .. PingTime \cup {Absent}]
        /\ silent' \in [Keys -> 0 .. PingTime + 1]
      BY <2>1, <2>2
  <2> QED
      BY <2>1, <2>2, <2>3 DEF DiscoveryInv, DiscoveryTypeOK, ModeIsShared
<1> QED
    BY <1>1, <1>2, <1>3, <1>6, <1>7 DEF DiscoveryNext

-----------------------------------------------------------------------------
(***************************************************************************)
(* The requests and the accounts of the workers.                           *)
(***************************************************************************)

PdAnswers == {"failed", "error", "bare", "push", "pull", Absent}
PdRecord ==
    [pc : {"idle", "prefill", "decode", "both"}, p : PdObjects \cup {Absent}, d : PdObjects \cup {Absent},
     tracker : BOOLEAN, engine : 0 .. MaxEngines, prefill : PdAnswers, decode : BOOLEAN \cup {Absent}]

\* The legs of a request, and whether its prefill is charged.
OnP(q, w) == q.pc \in {"prefill", "both"} /\ q.p = w
OnD(q, w) == q.pc \in {"decode", "both"} /\ q.d = w
Holds(q, w) == OnP(q, w) /\ q.tracker

\* A request that runs has its workers, and only one that runs its prefill in
\* direct mode has a tracker.
RequestIsPlaced(q) ==
    /\ q.pc # "idle" => /\ q.p \in Prefills \X (1 .. MaxObjects)
                        /\ q.d \in Decodes \X (1 .. MaxObjects)
                        /\ q.engine \in 1 .. MaxEngines
    /\ q.tracker => ~deployment.discovery /\ q.pc \in {"prefill", "both"} /\ q.prefill = Absent

WorkersAreTyped ==
    /\ registered \in [Hosts -> 0 .. MaxObjects] /\ objects \in [Hosts -> 1 .. MaxObjects]
    /\ adding \in Hosts \cup {Absent} /\ (adding # Absent => objects[adding] < MaxObjects)
    /\ engine \in [Hosts -> 1 .. MaxEngines]
    /\ identity \in [Prefills -> 1 .. MaxEngines \cup {Absent}]

RequestsAreTyped ==
    /\ requests \in [PdRequests -> PdRecord] /\ \A r \in PdRequests : RequestIsPlaced(requests[r])
    /\ pd_load \in [PdObjects -> Nat] /\ charge \in [PdObjects -> Nat]
    /\ history \in [left : Nat, refused : BOOLEAN, reset : BOOLEAN]

PdInv ==
    /\ DiscoveryInv /\ deployment \in Deployments
    /\ WorkersAreTyped /\ RequestsAreTyped
    /\ ChargesAreHeld /\ LegsAreCounted

\* One element makes the difference between two finite sets.
One(b) == IF b THEN 1 ELSE 0
Held(q, w) == IF Holds(q, w) THEN 1 ELSE 0

\* Two finite sets that agree except on r differ in size by whether r is in them.
LEMMA OneElement ==
    ASSUME NEW S, NEW T, NEW r, IsFiniteSet(S), IsFiniteSet(T),
           \A q : q # r => (q \in S <=> q \in T)
    PROVE  /\ Cardinality(S) \in Nat /\ Cardinality(T) \in Nat
           /\ Cardinality(S) + One(r \in T) = Cardinality(T) + One(r \in S)
<1>0. Cardinality(S) \in Nat /\ Cardinality(T) \in Nat
    BY FS_CardinalityType
<1>1. CASE r \in S /\ r \in T
  <2>1. S = T
      BY <1>1
  <2> QED
      BY <1>0, <1>1, <2>1 DEF One
<1>2. CASE r \notin S /\ r \notin T
  <2>1. S = T
      BY <1>2
  <2> QED
      BY <1>0, <1>2, <2>1 DEF One
<1>3. CASE r \in S /\ r \notin T
  <2>1. S = T \cup {r}
      BY <1>3
  <2>2. Cardinality(T \cup {r}) = Cardinality(T) + 1
      BY <1>3, FS_AddElement
  <2>3. Cardinality(S) = Cardinality(T \cup {r})
      BY <2>1, ZenonT(60)
  <2> QED
      BY <1>0, <1>3, <2>2, <2>3 DEF One
<1>4. CASE r \notin S /\ r \in T
  <2>1. T = S \cup {r}
      BY <1>4
  <2>2. Cardinality(S \cup {r}) = Cardinality(S) + 1
      BY <1>4, FS_AddElement
  <2>3. Cardinality(T) = Cardinality(S \cup {r})
      BY <2>1, ZenonT(60)
  <2> QED
      BY <1>0, <1>4, <2>2, <2>3 DEF One
<1> QED
    BY <1>1, <1>2, <1>3, <1>4

\* Requests in a set given by their state, when one of them moves.
OnPrefillNow(w, q) == {x \in PdRequests : OnP(q[x], w)}
OnDecodeNow(w, q) == {x \in PdRequests : OnD(q[x], w)}
HoldingNow(w, q) == {x \in PdRequests : Holds(q[x], w)}

\* The requests that hold a worker are finitely many.
LEMMA SetsAreFinite ==
    ASSUME NEW w, NEW q
    PROVE  /\ IsFiniteSet(OnPrefillNow(w, q)) /\ IsFiniteSet(OnDecodeNow(w, q)) /\ IsFiniteSet(HoldingNow(w, q))
           /\ Cardinality(OnPrefillNow(w, q)) \in Nat /\ Cardinality(OnDecodeNow(w, q)) \in Nat
           /\ Cardinality(HoldingNow(w, q)) \in Nat
<1>1. \A S \in SUBSET PdRequests : IsFiniteSet(S)
    BY PdConfigIsValid, FS_Subset
<1>2. /\ OnPrefillNow(w, q) \in SUBSET PdRequests /\ OnDecodeNow(w, q) \in SUBSET PdRequests
      /\ HoldingNow(w, q) \in SUBSET PdRequests
    BY DEF OnPrefillNow, OnDecodeNow, HoldingNow
<1> QED
    BY <1>1, <1>2, FS_CardinalityType

\* What is charged follows from what the request that moves holds.
LEMMA ChargesFollow ==
    ASSUME ChargesAreHeld, NEW r \in PdRequests,
           \A x \in PdRequests : x # r => requests'[x] = requests[x],
           \A w \in PdObjects :
               /\ charge[w] \in Nat /\ charge'[w] \in Nat
               /\ charge'[w] + Held(requests[r], w) = charge[w] + Held(requests'[r], w)
    PROVE  ChargesAreHeld'
<1> SUFFICES ASSUME NEW w \in PdObjects
             PROVE  charge'[w] = Cardinality({x \in OnPrefill(w)' : requests'[x].tracker})
    BY DEF ChargesAreHeld
<1>1. PICK Q, R : Q = requests /\ R = requests'
    OBVIOUS
<1>2. {x \in OnPrefill(w) : requests[x].tracker} = HoldingNow(w, Q)
    BY <1>1 DEF OnPrefill, HoldingNow, Holds, OnP
<1>3. {x \in OnPrefill(w)' : requests'[x].tracker} = HoldingNow(w, R)
    BY <1>1 DEF OnPrefill, HoldingNow, Holds, OnP
<1>4. /\ Cardinality(HoldingNow(w, Q)) \in Nat /\ Cardinality(HoldingNow(w, R)) \in Nat
      /\ Cardinality(HoldingNow(w, R)) + Held(Q[r], w) = Cardinality(HoldingNow(w, Q)) + Held(R[r], w)
  <2>1. \A x : x # r => (x \in HoldingNow(w, R) <=> x \in HoldingNow(w, Q))
      BY <1>1 DEF HoldingNow
  <2>2. Cardinality(HoldingNow(w, R)) + One(r \in HoldingNow(w, Q))
            = Cardinality(HoldingNow(w, Q)) + One(r \in HoldingNow(w, R))
      BY <2>1, SetsAreFinite, OneElement
  <2>3. One(r \in HoldingNow(w, Q)) = Held(Q[r], w) /\ One(r \in HoldingNow(w, R)) = Held(R[r], w)
      BY DEF HoldingNow, One, Held
  <2> QED
      BY <2>2, <2>3, SetsAreFinite
<1>5. charge[w] = Cardinality(HoldingNow(w, Q))
  <2>1. charge[w] = Cardinality({x \in OnPrefill(w) : requests[x].tracker})
      BY DEF ChargesAreHeld
  <2> QED
      BY <1>2, <2>1, ZenonT(60)
<1>6. /\ charge[w] \in Nat /\ charge'[w] \in Nat
      /\ charge'[w] + Held(Q[r], w) = charge[w] + Held(R[r], w)
    BY <1>1
<1>7. charge'[w] = Cardinality(HoldingNow(w, R))
  <2>1. Held(Q[r], w) \in Nat /\ Held(R[r], w) \in Nat
      BY DEF Held
  <2> QED
      BY <1>4, <1>5, <1>6, <2>1
<1> QED
    BY <1>3, <1>7, ZenonT(60)

\* The load a step moves is that of the legs it moves, or more.
MovesLoad(r, q, w) ==
    LET was == One(OnP(requests[r], w)) + One(OnD(requests[r], w))
        is == One(OnP(q, w)) + One(OnD(q, w))
    IN  /\ pd_load'[w] + was >= pd_load[w] + is
        /\ history'.left = 0 /\ ~history'.refused => pd_load'[w] + was = pd_load[w] + is

\* Where a request changes its legs and the load follows, the legs stay counted.
LEMMA LegsFollow ==
    ASSUME LegsAreCounted, NEW r \in PdRequests,
           \A x \in PdRequests : x # r => requests'[x] = requests[x],
           \A w \in PdObjects : pd_load[w] \in Nat /\ pd_load'[w] \in Nat,
           deployment' = deployment, ~history'.reset => ~history.reset,
           history'.left = 0 /\ ~history'.refused => history.left = 0 /\ ~history.refused,
           Counted /\ ~history.reset => \A w \in PdObjects : MovesLoad(r, requests'[r], w)
    PROVE  LegsAreCounted'
<1> SUFFICES ASSUME Counted', ~history'.reset, NEW w \in PdObjects
             PROVE  /\ pd_load'[w] >= Legs(w)'
                    /\ history'.left = 0 /\ ~history'.refused => pd_load'[w] = Legs(w)'
    BY DEF LegsAreCounted
<1>1. PICK Q, R : Q = requests /\ R = requests'
    OBVIOUS
<1>2. OnPrefill(w) = OnPrefillNow(w, Q) /\ OnDecode(w) = OnDecodeNow(w, Q)
    BY <1>1 DEF OnPrefill, OnDecode, OnPrefillNow, OnDecodeNow, OnP, OnD
<1>3. OnPrefill(w)' = OnPrefillNow(w, R) /\ OnDecode(w)' = OnDecodeNow(w, R)
    BY <1>1 DEF OnPrefill, OnDecode, OnPrefillNow, OnDecodeNow, OnP, OnD
<1>4. /\ Cardinality(OnPrefillNow(w, Q)) \in Nat /\ Cardinality(OnPrefillNow(w, R)) \in Nat
      /\ Cardinality(OnDecodeNow(w, Q)) \in Nat /\ Cardinality(OnDecodeNow(w, R)) \in Nat
      /\ Cardinality(OnPrefillNow(w, R)) + One(OnP(Q[r], w)) = Cardinality(OnPrefillNow(w, Q)) + One(OnP(R[r], w))
      /\ Cardinality(OnDecodeNow(w, R)) + One(OnD(Q[r], w)) = Cardinality(OnDecodeNow(w, Q)) + One(OnD(R[r], w))
  <2>1. \A x : x # r => /\ x \in OnPrefillNow(w, R) <=> x \in OnPrefillNow(w, Q)
                        /\ x \in OnDecodeNow(w, R) <=> x \in OnDecodeNow(w, Q)
      BY <1>1 DEF OnPrefillNow, OnDecodeNow
  <2>2. Cardinality(OnPrefillNow(w, R)) + One(r \in OnPrefillNow(w, Q))
            = Cardinality(OnPrefillNow(w, Q)) + One(r \in OnPrefillNow(w, R))
      BY <2>1, SetsAreFinite, OneElement
  <2>3. Cardinality(OnDecodeNow(w, R)) + One(r \in OnDecodeNow(w, Q))
            = Cardinality(OnDecodeNow(w, Q)) + One(r \in OnDecodeNow(w, R))
      BY <2>1, SetsAreFinite, OneElement
  <2>4. /\ One(r \in OnPrefillNow(w, Q)) = One(OnP(Q[r], w)) /\ One(r \in OnPrefillNow(w, R)) = One(OnP(R[r], w))
        /\ One(r \in OnDecodeNow(w, Q)) = One(OnD(Q[r], w)) /\ One(r \in OnDecodeNow(w, R)) = One(OnD(R[r], w))
      BY DEF OnPrefillNow, OnDecodeNow, One
  <2> QED
      BY <2>2, <2>3, <2>4, SetsAreFinite
<1>5. Legs(w) = Cardinality(OnPrefillNow(w, Q)) + Cardinality(OnDecodeNow(w, Q))
    BY <1>2, ZenonT(60) DEF Legs
<1>6. Legs(w)' = Cardinality(OnPrefillNow(w, R)) + Cardinality(OnDecodeNow(w, R))
    BY <1>3, ZenonT(60) DEF Legs
<1>7. Counted /\ ~history.reset
    BY DEF Counted
<1>8. /\ pd_load[w] >= Legs(w)
      /\ history.left = 0 /\ ~history.refused => pd_load[w] = Legs(w)
    BY <1>7 DEF LegsAreCounted
<1>9. MovesLoad(r, requests'[r], w)
    BY <1>7
<1>10. /\ pd_load'[w] + (One(OnP(Q[r], w)) + One(OnD(Q[r], w)))
              >= pd_load[w] + (One(OnP(R[r], w)) + One(OnD(R[r], w)))
       /\ history'.left = 0 /\ ~history'.refused =>
              pd_load'[w] + (One(OnP(Q[r], w)) + One(OnD(Q[r], w)))
                  = pd_load[w] + (One(OnP(R[r], w)) + One(OnD(R[r], w)))
    BY <1>1, <1>9 DEF MovesLoad
<1>11. \A b : One(b) \in Nat
    BY DEF One
<1>12. pd_load[w] \in Nat /\ pd_load'[w] \in Nat
    OBVIOUS
<1> QED
    BY <1>4, <1>5, <1>6, <1>8, <1>10, <1>11, <1>12

(***************************************************************************)
(* A step that moves one request, and no worker.                           *)
(***************************************************************************)
LEMMA RequestMoves ==
    ASSUME PdInv, NEW r \in PdRequests, NEW q \in PdRecord, RequestIsPlaced(q),
           requests' = [requests EXCEPT ![r] = q],
           DiscoveryInv', WorkersAreTyped', deployment' = deployment,
           pd_load' \in [PdObjects -> Nat], charge' \in [PdObjects -> Nat],
           history' \in [left : Nat, refused : BOOLEAN, reset : BOOLEAN],
           ~history'.reset => ~history.reset,
           history'.left = 0 /\ ~history'.refused => history.left = 0 /\ ~history.refused,
           \A w \in PdObjects : charge'[w] + Held(requests[r], w) = charge[w] + Held(q, w),
           Counted /\ ~history.reset => \A w \in PdObjects : MovesLoad(r, q, w)
    PROVE  PdInv'
<1>1. /\ requests \in [PdRequests -> PdRecord] /\ pd_load \in [PdObjects -> Nat]
      /\ charge \in [PdObjects -> Nat]
      /\ \A x \in PdRequests : RequestIsPlaced(requests[x])
    BY DEF PdInv, RequestsAreTyped
<1>2. /\ requests' \in [PdRequests -> PdRecord] /\ requests'[r] = q
      /\ \A x \in PdRequests : x # r => requests'[x] = requests[x]
    BY <1>1
<1>3. \A x \in PdRequests : RequestIsPlaced(requests[x])'
    BY <1>1, <1>2 DEF RequestIsPlaced
<1>4. ChargesAreHeld'
  <2>1. \A w \in PdObjects :
            /\ charge[w] \in Nat /\ charge'[w] \in Nat
            /\ charge'[w] + Held(requests[r], w) = charge[w] + Held(requests'[r], w)
      BY <1>1, <1>2
  <2>2. ChargesAreHeld
      BY DEF PdInv
  <2> QED
      BY <1>2, <2>1, <2>2, ChargesFollow
<1>5. LegsAreCounted'
  <2>1. \A w \in PdObjects : pd_load[w] \in Nat /\ pd_load'[w] \in Nat
      BY <1>1
  <2>2. Counted /\ ~history.reset => \A w \in PdObjects : MovesLoad(r, requests'[r], w)
      BY <1>2
  <2>3. LegsAreCounted
      BY DEF PdInv
  <2> QED
      BY <1>2, <2>1, <2>2, <2>3, LegsFollow
<1> QED
    BY <1>2, <1>3, <1>4, <1>5 DEF PdInv, RequestsAreTyped

\* A slot without a request has no legs and no charge.
LEMMA NoRequestFacts ==
    /\ NoRequest \in PdRecord /\ RequestIsPlaced(NoRequest)
    /\ \A w : Held(NoRequest, w) = 0 /\ One(OnP(NoRequest, w)) = 0 /\ One(OnD(NoRequest, w)) = 0
<1>1. NoRequest \in PdRecord
    BY PdConfigIsValid DEF NoRequest, PdRecord, PdAnswers
<1> QED
    BY <1>1 DEF NoRequest, RequestIsPlaced, Held, Holds, OnP, OnD, One

\* An idle slot neither, whatever it held last.
LEMMA IdleFacts ==
    ASSUME NEW q \in PdRecord, q.pc = "idle", NEW w
    PROVE  Held(q, w) = 0 /\ One(OnP(q, w)) = 0 /\ One(OnD(q, w)) = 0
    BY DEF Held, Holds, OnP, OnD, One

\* A request that starts.
LEMMA StartedFacts ==
    ASSUME PdInv, NEW p \in Prefills \X (1 .. MaxObjects), NEW d \in Decodes \X (1 .. MaxObjects),
           NEW c \in BOOLEAN, NEW t \in BOOLEAN, t => ~deployment.discovery
    PROVE  /\ Started(p, d, c, t) \in PdRecord /\ RequestIsPlaced(Started(p, d, c, t))
           /\ \A w : /\ Held(Started(p, d, c, t), w) = IF t /\ w = p THEN 1 ELSE 0
                     /\ One(OnP(Started(p, d, c, t), w)) = IF w = p THEN 1 ELSE 0
                     /\ One(OnD(Started(p, d, c, t), w)) = IF c /\ w = d THEN 1 ELSE 0
<1>1. /\ p \in PdObjects /\ d \in PdObjects /\ p[1] \in Hosts
      /\ engine[p[1]] \in 1 .. MaxEngines /\ MaxEngines \in Nat
    BY PdConfigIsValid DEF PdInv, WorkersAreTyped, PdObjects
<1> DEFINE q == [pc |-> IF c THEN "both" ELSE "prefill", p |-> p, d |-> d, tracker |-> t,
                 engine |-> engine[p[1]], prefill |-> Absent, decode |-> Absent]
<1>2. Started(p, d, c, t) = q
    BY ZenonT(60) DEF Started
<1>3. q \in PdRecord
  <2>1. engine[p[1]] \in 0 .. MaxEngines /\ Absent \in PdAnswers /\ Absent \in BOOLEAN \cup {Absent}
      BY <1>1 DEF PdAnswers
  <2>2. (IF c THEN "both" ELSE "prefill") \in {"idle", "prefill", "decode", "both"}
      OBVIOUS
  <2> QED
      BY <1>1, <2>1, <2>2 DEF PdRecord
<1>4. RequestIsPlaced(q)
    BY <1>1 DEF RequestIsPlaced
<1>5. ASSUME NEW w
      PROVE  /\ Held(q, w) = IF t /\ w = p THEN 1 ELSE 0
             /\ One(OnP(q, w)) = IF w = p THEN 1 ELSE 0
             /\ One(OnD(q, w)) = IF c /\ w = d THEN 1 ELSE 0
  <2>1. q.pc \in {"prefill", "both"} /\ (q.pc = "both" <=> c) /\ q.pc # "decode"
      OBVIOUS
  <2> QED
      BY <2>1 DEF Held, Holds, OnP, OnD, One
<1> HIDE DEF q
<1> QED
    BY <1>2, <1>3, <1>4, <1>5

\* What the worker lists, the registry and the deployment are is left alone.
LEMMA WorkersStay ==
    ASSUME PdInv, UNCHANGED <<discoveryVars, deployment, registration, engine>>,
           identity' \in [Prefills -> 1 .. MaxEngines \cup {Absent}]
    PROVE  DiscoveryInv' /\ WorkersAreTyped' /\ deployment' = deployment
<1>1. DiscoveryInv'
    BY DiscoveryStep DEF PdInv
<1> QED
    BY <1>1 DEF PdInv, WorkersAreTyped, registration

\* Loads and charges stay natural numbers.
LEMMA LoadFacts ==
    ASSUME NEW l \in [PdObjects -> Nat], NEW ws
    PROVE  /\ Raised(l, ws) \in [PdObjects -> Nat] /\ Lowered(l, ws) \in [PdObjects -> Nat]
           /\ \A w \in PdObjects : /\ w \in ws => Raised(l, ws)[w] = l[w] + 1
                                   /\ w \notin ws => Raised(l, ws)[w] = l[w]
                                   /\ w \in ws /\ l[w] > 0 => Lowered(l, ws)[w] = l[w] - 1
                                   /\ w \notin ws => Lowered(l, ws)[w] = l[w]
    BY DEF Raised, Lowered

\* process_vllm_two_stage_request
LEMMA TwoStageKeeps ==
    ASSUME PdInv, NEW r \in PdRequests, NEW p \in Prefills \X (1 .. MaxObjects),
           NEW d \in Decodes \X (1 .. MaxObjects), RouteChat(r, p, d)
    PROVE  PdInv'
<1>1. /\ requests \in [PdRequests -> PdRecord] /\ pd_load \in [PdObjects -> Nat]
      /\ charge \in [PdObjects -> Nat]
      /\ history \in [left : Nat, refused : BOOLEAN, reset : BOOLEAN]
      /\ identity \in [Prefills -> 1 .. MaxEngines \cup {Absent}] /\ deployment \in Deployments
    BY DEF PdInv, RequestsAreTyped, WorkersAreTyped
<1>2. /\ ~deployment.discovery /\ requests[r].pc = "idle"
      /\ UNCHANGED <<discoveryVars, deployment, registration, engine, identity>>
    BY DEF RouteChat, Admitted
<1>3. DiscoveryInv' /\ WorkersAreTyped' /\ deployment' = deployment
    BY <1>1, <1>2, WorkersStay
<1>4. \A w : Held(requests[r], w) = 0 /\ One(OnP(requests[r], w)) = 0 /\ One(OnD(requests[r], w)) = 0
    BY <1>1, <1>2, IdleFacts
<1>5. p \in PdObjects /\ d \in PdObjects /\ p # d
    BY PdConfigIsValid DEF PdObjects
<1> DEFINE c == BuildsConcurrent(p)
           ws == IF c THEN {p, d} ELSE {p}
<1>6. /\ pd_load' = Raised(pd_load, ws)
      /\ charge' = IF NoTransferParams THEN charge ELSE Charged(p)
      /\ requests' = [requests EXCEPT ![r] =
             IF NoTransferParams THEN NoRequest ELSE Started(p, d, c, deployment.smetric)]
      /\ history' = [history EXCEPT !.refused = @ \/ NoTransferParams]
    BY DEF RouteChat, TwoStage
<1>7. /\ pd_load' \in [PdObjects -> Nat]
      /\ \A w \in PdObjects : /\ w \in ws => pd_load'[w] = pd_load[w] + 1
                              /\ w \notin ws => pd_load'[w] = pd_load[w]
    BY <1>1, <1>6, LoadFacts
<1>8. CASE NoTransferParams
  <2>1. requests' = [requests EXCEPT ![r] = NoRequest] /\ charge' = charge
      BY <1>6, <1>8
  <2>2. history' \in [left : Nat, refused : BOOLEAN, reset : BOOLEAN]
        /\ history'.refused /\ history'.reset = history.reset /\ history'.left = history.left
      BY <1>1, <1>6, <1>8, ZenonT(60)
  <2>3. \A w \in PdObjects : charge'[w] + Held(requests[r], w) = charge[w] + Held(NoRequest, w)
      BY <1>1, <1>4, <2>1, NoRequestFacts
  <2>4. ASSUME NEW w \in PdObjects
        PROVE  MovesLoad(r, NoRequest, w)
    <3>1. pd_load'[w] >= pd_load[w] /\ pd_load[w] \in Nat /\ pd_load'[w] \in Nat
        BY <1>1, <1>7
    <3> QED
        BY <1>4, <2>2, <3>1, NoRequestFacts DEF MovesLoad
  <2> QED
      BY <1>1, <1>3, <1>7, <2>1, <2>2, <2>3, <2>4, NoRequestFacts, RequestMoves, ZenonT(60)
<1>9. CASE ~NoTransferParams
  <2> DEFINE t == deployment.smetric
             q == Started(p, d, c, t)
  <2>1. requests' = [requests EXCEPT ![r] = q] /\ charge' = Charged(p)
      BY <1>6, <1>9
  <2>2. history' = history
    <3>1. history.refused \in BOOLEAN
        BY <1>1
    <3>2. history'.refused = history.refused /\ history'.left = history.left /\ history'.reset = history.reset
          /\ history' \in [left : Nat, refused : BOOLEAN, reset : BOOLEAN]
        BY <1>1, <1>6, <1>9, <3>1
    <3> QED
        BY <1>1, <3>2
  <2>3. c \in BOOLEAN /\ t \in BOOLEAN
      BY <1>1, PdConfigIsValid DEF BuildsConcurrent
  <2>4. /\ q \in PdRecord /\ RequestIsPlaced(q)
        /\ \A w : /\ Held(q, w) = IF t /\ w = p THEN 1 ELSE 0
                  /\ One(OnP(q, w)) = IF w = p THEN 1 ELSE 0
                  /\ One(OnD(q, w)) = IF c /\ w = d THEN 1 ELSE 0
    <3> HIDE DEF c, t
    <3> QED
        BY <1>2, <2>3, StartedFacts
  <2>5. /\ charge' \in [PdObjects -> Nat]
        /\ \A w \in PdObjects : /\ t /\ w = p => charge'[w] = charge[w] + 1
                                /\ ~(t /\ w = p) => charge'[w] = charge[w]
      BY <1>1, <1>5, <2>1 DEF Charged
  <2> HIDE DEF q, t, c
  <2>6. \A w \in PdObjects : charge'[w] + Held(requests[r], w) = charge[w] + Held(q, w)
      BY <1>1, <1>4, <2>4, <2>5
  <2>7. ASSUME NEW w \in PdObjects
        PROVE  MovesLoad(r, q, w)
    <3>1. pd_load[w] \in Nat /\ pd_load'[w] \in Nat
        BY <1>1, <1>7
    <3>2. pd_load'[w] = pd_load[w] + ((IF w = p THEN 1 ELSE 0) + (IF c /\ w = d THEN 1 ELSE 0))
        BY <1>5, <1>7, <3>1
    <3> QED
        BY <1>4, <2>4, <3>1, <3>2 DEF MovesLoad
  <2> QED
      BY <1>1, <1>3, <1>7, <2>1, <2>2, <2>4, <2>5, <2>6, <2>7, RequestMoves, ZenonT(60)
<1> QED
    BY <1>8, <1>9

\* A finite set with a member has a size of one or more.
LEMMA NotEmpty ==
    ASSUME NEW S, IsFiniteSet(S), NEW x \in S
    PROVE  Cardinality(S) \in Nat /\ Cardinality(S) >= 1
    BY FS_CardinalityType, FS_EmptySet

\* A charge that is given back is there, and a leg that ends was counted.
LEMMA ReleasedFacts ==
    ASSUME PdInv, NEW r \in PdRequests
    PROVE  /\ Released(r) \in [PdObjects -> Nat]
           /\ \A w \in PdObjects : Released(r)[w] + Held(requests[r], w) = charge[w]
<1>1. /\ requests \in [PdRequests -> PdRecord] /\ charge \in [PdObjects -> Nat]
      /\ RequestIsPlaced(requests[r]) /\ ChargesAreHeld
    BY DEF PdInv, RequestsAreTyped
<1>2. CASE ~requests[r].tracker
  <2>1. Released(r) = charge /\ \A w : Held(requests[r], w) = 0
      BY <1>2 DEF Released, Held, Holds
  <2> QED
      BY <1>1, <2>1
<1>3. CASE requests[r].tracker
  <2> DEFINE p == requests[r].p
  <2>1. requests[r].pc \in {"prefill", "both"} /\ p \in PdObjects
      BY <1>1, <1>3, PdConfigIsValid DEF RequestIsPlaced, PdObjects
  <2>2. \A w : Held(requests[r], w) = IF w = p THEN 1 ELSE 0
      BY <1>3, <2>1 DEF Held, Holds, OnP
  <2>3. Released(r) = [charge EXCEPT ![p] = @ - 1]
      BY <1>3 DEF Released
  <2>4. charge[p] >= 1
    <3> DEFINE H == {x \in OnPrefill(p) : requests[x].tracker}
    <3>1. charge[p] = Cardinality(H)
        BY <1>1, <2>1 DEF ChargesAreHeld
    <3>2. r \in H
        BY <1>3, <2>1 DEF OnPrefill
    <3>3. IsFiniteSet(H)
      <4>1. H \subseteq PdRequests
          BY DEF OnPrefill
      <4> QED
          BY <4>1, PdConfigIsValid, FS_Subset
    <3> HIDE DEF H
    <3> QED
        BY <3>1, <3>2, <3>3, NotEmpty
  <2> HIDE DEF p
  <2> QED
      BY <1>1, <2>1, <2>2, <2>3, <2>4
<1> QED
    BY <1>2, <1>3

\* While the counting is exact, a worker carries the load of each leg on it.
LEMMA LegsAreLoaded ==
    ASSUME PdInv, Counted, ~history.reset, NEW r \in PdRequests, NEW w \in PdObjects
    PROVE  pd_load[w] >= One(OnP(requests[r], w)) + One(OnD(requests[r], w))
<1>1. pd_load[w] >= Legs(w) /\ pd_load[w] \in Nat
    BY DEF PdInv, LegsAreCounted, RequestsAreTyped
<1>2. IsFiniteSet(OnPrefill(w)) /\ IsFiniteSet(OnDecode(w))
  <2>1. OnPrefill(w) \subseteq PdRequests /\ OnDecode(w) \subseteq PdRequests
      BY DEF OnPrefill, OnDecode
  <2> QED
      BY <2>1, PdConfigIsValid, FS_Subset
<1>3. Cardinality(OnPrefill(w)) \in Nat /\ Cardinality(OnPrefill(w)) >= One(OnP(requests[r], w))
  <2>1. OnP(requests[r], w) => r \in OnPrefill(w)
      BY DEF OnPrefill, OnP
  <2> QED
      BY <1>2, <2>1, NotEmpty, FS_CardinalityType DEF One
<1>4. Cardinality(OnDecode(w)) \in Nat /\ Cardinality(OnDecode(w)) >= One(OnD(requests[r], w))
  <2>1. OnD(requests[r], w) => r \in OnDecode(w)
      BY DEF OnDecode, OnD
  <2> QED
      BY <1>2, <2>1, NotEmpty, FS_CardinalityType DEF One
<1>5. One(OnP(requests[r], w)) \in Nat /\ One(OnD(requests[r], w)) \in Nat
    BY DEF One
<1> QED
    BY <1>1, <1>3, <1>4, <1>5 DEF Legs

\* A request that ends: its charge and its load have gone, or its caller.
LEMMA RequestEnds ==
    ASSUME PdInv, NEW r \in PdRequests, requests' = [requests EXCEPT ![r] = NoRequest],
           DiscoveryInv', WorkersAreTyped', deployment' = deployment,
           pd_load' \in [PdObjects -> Nat], charge' \in [PdObjects -> Nat],
           \A w \in PdObjects : charge'[w] + Held(requests[r], w) = charge[w],
           history' = history,
           Counted /\ ~history.reset => \A w \in PdObjects :
               pd_load'[w] + (One(OnP(requests[r], w)) + One(OnD(requests[r], w))) = pd_load[w]
    PROVE  PdInv'
<1>1. /\ pd_load \in [PdObjects -> Nat] /\ charge \in [PdObjects -> Nat]
      /\ history \in [left : Nat, refused : BOOLEAN, reset : BOOLEAN]
    BY DEF PdInv, RequestsAreTyped
<1>2. \A w \in PdObjects : charge'[w] + Held(requests[r], w) = charge[w] + Held(NoRequest, w)
    BY <1>1, NoRequestFacts
<1>3. ASSUME Counted /\ ~history.reset, NEW w \in PdObjects
      PROVE  MovesLoad(r, NoRequest, w)
  <2>1. pd_load'[w] + (One(OnP(requests[r], w)) + One(OnD(requests[r], w))) = pd_load[w] + (0 + 0)
        /\ pd_load[w] \in Nat
      BY <1>1, <1>3
  <2> QED
      BY <2>1, NoRequestFacts DEF MovesLoad
<1> QED
    BY <1>1, <1>2, <1>3, NoRequestFacts, RequestMoves, ZenonT(60)

(***************************************************************************)
(* The steps of a request, by the legs it has.                             *)
(***************************************************************************)

\* What a request holds, by where it is.
LEMMA LegFacts ==
    ASSUME PdInv, NEW r \in PdRequests
    PROVE  LET q == requests[r]
           IN  /\ q \in PdRecord /\ q.tracker \in BOOLEAN
               /\ q.pc # "idle" => /\ q.p \in PdObjects /\ q.d \in PdObjects /\ q.p # q.d
                                   /\ q.p[1] \in Prefills /\ q.engine \in 1 .. MaxEngines
               /\ \A w : /\ One(OnP(q, w)) = IF q.pc \in {"prefill", "both"} /\ w = q.p THEN 1 ELSE 0
                         /\ One(OnD(q, w)) = IF q.pc \in {"decode", "both"} /\ w = q.d THEN 1 ELSE 0
                         /\ q.pc = "decode" \/ deployment.discovery \/ q.prefill # Absent => Held(q, w) = 0
<1>1. requests[r] \in PdRecord /\ RequestIsPlaced(requests[r])
    BY DEF PdInv, RequestsAreTyped
<1>2. requests[r].tracker \in BOOLEAN
    BY <1>1 DEF PdRecord
<1>3. requests[r].pc # "idle" =>
          LET q == requests[r]
          IN  /\ q.p \in PdObjects /\ q.d \in PdObjects /\ q.p # q.d
              /\ q.p[1] \in Prefills /\ q.engine \in 1 .. MaxEngines
    BY <1>1, PdConfigIsValid DEF RequestIsPlaced, PdObjects
<1>4. ASSUME NEW w
      PROVE  LET q == requests[r]
             IN  /\ One(OnP(q, w)) = IF q.pc \in {"prefill", "both"} /\ w = q.p THEN 1 ELSE 0
                 /\ One(OnD(q, w)) = IF q.pc \in {"decode", "both"} /\ w = q.d THEN 1 ELSE 0
    BY DEF One, OnP, OnD
<1>5. ASSUME NEW w, LET q == requests[r] IN q.pc = "decode" \/ deployment.discovery \/ q.prefill # Absent
      PROVE  Held(requests[r], w) = 0
    BY <1>1, <1>5 DEF RequestIsPlaced, Held, Holds
<1> QED
    BY <1>1, <1>2, <1>3, <1>4, <1>5

\* An identity that is learned is that of an engine.
LEMMA IdentityFacts ==
    ASSUME PdInv, NEW r \in PdRequests, requests[r].pc # "idle", NEW answer
    PROVE  /\ identity \in [Prefills -> 1 .. MaxEngines \cup {Absent}]
           /\ Ensured(requests[r].p[1], answer, requests[r].engine)
                  \in [Prefills -> 1 .. MaxEngines \cup {Absent}]
           /\ Cached(requests[r].p[1], answer, requests[r].engine)
                  \in [Prefills -> 1 .. MaxEngines \cup {Absent}]
<1>1. identity \in [Prefills -> 1 .. MaxEngines \cup {Absent}]
    BY DEF PdInv, WorkersAreTyped
<1>2. PICK h, e : h = requests[r].p[1] /\ e = requests[r].engine
    OBVIOUS
<1>3. h \in Prefills /\ e \in 1 .. MaxEngines
    BY <1>2, LegFacts
<1>4. /\ Ensured(h, answer, e) \in [Prefills -> 1 .. MaxEngines \cup {Absent}]
      /\ Cached(h, answer, e) \in [Prefills -> 1 .. MaxEngines \cup {Absent}]
    BY <1>1, <1>3 DEF Ensured, Cached
<1> QED
    BY <1>1, <1>2, <1>4

\* The prefill worker answers a request that runs one stage after the other.
LEMMA PrefilledKeeps ==
    ASSUME PdInv, NEW r \in PdRequests, NEW answer, Prefilled(r, answer)
    PROVE  PdInv'
<1> DEFINE q == requests[r]
           n == [q EXCEPT !.pc = "decode", !.tracker = FALSE]
           over == answer = "failed"
<1>1. /\ ~deployment.discovery /\ q.pc = "prefill" /\ charge' = Released(r)
      /\ pd_load' = IF over THEN Lowered(pd_load, {q.p}) ELSE Raised(Lowered(pd_load, {q.p}), {q.d})
      /\ identity' = IF over THEN identity ELSE Ensured(q.p[1], answer, q.engine)
      /\ requests' = [requests EXCEPT ![r] = IF over THEN NoRequest ELSE n]
      /\ UNCHANGED <<discoveryVars, deployment, registration, engine>> /\ history' = history
    BY DEF Prefilled
<1>2. identity' \in [Prefills -> 1 .. MaxEngines \cup {Absent}]
    BY <1>1, IdentityFacts
<1>3. DiscoveryInv' /\ WorkersAreTyped' /\ deployment' = deployment
    BY <1>1, <1>2, WorkersStay
<1>4. /\ charge' \in [PdObjects -> Nat]
      /\ \A w \in PdObjects : charge'[w] + Held(q, w) = charge[w]
    BY <1>1, ReleasedFacts
<1>5. /\ pd_load \in [PdObjects -> Nat] /\ charge \in [PdObjects -> Nat]
      /\ history \in [left : Nat, refused : BOOLEAN, reset : BOOLEAN]
    BY DEF PdInv, RequestsAreTyped
<1>6. /\ q \in PdRecord /\ q.p \in PdObjects /\ q.d \in PdObjects /\ q.p # q.d
      /\ \A w : /\ One(OnP(q, w)) = IF w = q.p THEN 1 ELSE 0
                /\ One(OnD(q, w)) = 0
    BY <1>1, LegFacts
<1>7. ASSUME Counted, ~history.reset
      PROVE  pd_load[q.p] >= 1
    BY <1>5, <1>6, <1>7, LegsAreLoaded
<1> DEFINE L == Lowered(pd_load, {q.p})
<1>8. /\ L \in [PdObjects -> Nat]
      /\ \A w \in PdObjects : w # q.p => L[w] = pd_load[w]
      /\ Counted /\ ~history.reset => L[q.p] = pd_load[q.p] - 1
    BY <1>5, <1>6, <1>7, LoadFacts
<1>9. CASE over
  <2>1. ASSUME Counted /\ ~history.reset, NEW w \in PdObjects
        PROVE  pd_load'[w] + (One(OnP(q, w)) + One(OnD(q, w))) = pd_load[w]
    <3>1. pd_load'[w] = L[w] /\ L[w] \in Nat /\ pd_load[w] \in Nat
        BY <1>1, <1>5, <1>8, <1>9, ZenonT(60)
    <3> HIDE DEF q, L
    <3> QED
        BY <1>6, <1>8, <2>1, <3>1
  <2>2. pd_load' \in [PdObjects -> Nat]
      BY <1>1, <1>8, <1>9, ZenonT(60)
  <2>3. requests' = [requests EXCEPT ![r] = NoRequest]
      BY <1>1, <1>9
  <2> QED
      BY <1>1, <1>3, <1>4, <2>1, <2>2, <2>3, RequestEnds, ZenonT(60)
<1>10. CASE ~over
  <2>1. pd_load' = Raised(L, {q.d}) /\ requests' = [requests EXCEPT ![r] = n]
      BY <1>1, <1>10
  <2>2. /\ pd_load' \in [PdObjects -> Nat] /\ pd_load'[q.d] = L[q.d] + 1
        /\ \A w \in PdObjects : w # q.d => pd_load'[w] = L[w]
    <3> HIDE DEF L
    <3> QED
        BY <1>6, <1>8, <2>1, LoadFacts
  <2>3. n \in PdRecord /\ n.pc = "decode" /\ n.p = q.p /\ n.d = q.d /\ n.tracker = FALSE /\ n.engine = q.engine
      BY <1>6, ZenonT(60) DEF PdRecord
  <2>4. RequestIsPlaced(n)
    <3>1. RequestIsPlaced(q)
        BY DEF PdInv, RequestsAreTyped
    <3> HIDE DEF n
    <3> QED
        BY <1>1, <2>3, <3>1, ZenonT(60) DEF RequestIsPlaced
  <2> HIDE DEF n
  <2>5. \A w : /\ Held(n, w) = 0 /\ One(OnP(n, w)) = 0
               /\ One(OnD(n, w)) = IF w = q.d THEN 1 ELSE 0
      BY <2>3 DEF Held, Holds, OnP, OnD, One
  <2>6. \A w \in PdObjects : charge'[w] + Held(q, w) = charge[w] + Held(n, w)
      BY <1>4, <1>5, <2>5
  <2>7. ASSUME Counted /\ ~history.reset, NEW w \in PdObjects
        PROVE  MovesLoad(r, n, w)
    <3>1. pd_load'[w] + ((IF w = q.p THEN 1 ELSE 0) + 0) = pd_load[w] + (0 + (IF w = q.d THEN 1 ELSE 0))
          /\ pd_load[w] \in Nat /\ pd_load'[w] \in Nat
      <4> HIDE DEF q, L
      <4> QED
          BY <1>5, <1>6, <1>8, <2>2, <2>7
    <3> QED
        BY <1>6, <2>5, <3>1 DEF MovesLoad
  <2> QED
      BY <1>1, <1>3, <1>4, <1>5, <2>1, <2>2, <2>3, <2>4, <2>6, <2>7, RequestMoves, ZenonT(60)
<1> QED
    BY <1>9, <1>10

\* Nothing is counted in discovery mode, and no charge is held there.
LEMMA DiscoveredMoves ==
    ASSUME PdInv, deployment.discovery, NEW r \in PdRequests, NEW q \in PdRecord, RequestIsPlaced(q),
           requests' = [requests EXCEPT ![r] = q],
           UNCHANGED <<discoveryVars, deployment, registration, engine>>,
           identity' \in [Prefills -> 1 .. MaxEngines \cup {Absent}],
           pd_load' = pd_load, charge' = charge, history' = history
    PROVE  PdInv'
<1>1. /\ pd_load \in [PdObjects -> Nat] /\ charge \in [PdObjects -> Nat]
      /\ history \in [left : Nat, refused : BOOLEAN, reset : BOOLEAN]
    BY DEF PdInv, RequestsAreTyped
<1>2. DiscoveryInv' /\ WorkersAreTyped' /\ deployment' = deployment
    BY WorkersStay
<1>3. \A w : Held(q, w) = 0
    BY DEF RequestIsPlaced, Held, Holds
<1>4. \A w : Held(requests[r], w) = 0
    BY LegFacts
<1>5. \A w \in PdObjects : charge'[w] + Held(requests[r], w) = charge[w] + Held(q, w)
    BY <1>1, <1>3, <1>4
<1>6. ~Counted
    BY DEF Counted
<1> QED
    BY <1>1, <1>2, <1>5, <1>6, RequestMoves, ZenonT(60)

\* process_vllm_two_stage_request_discovered
LEMMA DiscoveredKeeps ==
    ASSUME PdInv, NEW r \in PdRequests,
           \/ \E p \in Prefills \X (1 .. MaxObjects), d \in Decodes \X (1 .. MaxObjects) : ProcessVllmRequest(r, p, d)
           \/ \E answer : PrefilledDiscovered(r, answer)
           \/ DecodedDiscovered(r) \/ JoinDiscovered(r)
    PROVE  PdInv'
<1> DEFINE q == requests[r]
<1>0. /\ q \in PdRecord /\ RequestIsPlaced(q)
      /\ identity \in [Prefills -> 1 .. MaxEngines \cup {Absent}]
    BY DEF PdInv, RequestsAreTyped, WorkersAreTyped
<1>1. ASSUME NEW p \in Prefills \X (1 .. MaxObjects), NEW d \in Decodes \X (1 .. MaxObjects),
             ProcessVllmRequest(r, p, d)
      PROVE  PdInv'
  <2> DEFINE c == BuildsConcurrent(p) \/ WriteMode
             n == IF NoTransferParams THEN NoRequest ELSE Started(p, d, c, FALSE)
  <2>1. /\ deployment.discovery /\ requests' = [requests EXCEPT ![r] = n]
        /\ pd_load' = pd_load /\ charge' = charge /\ history' = history
        /\ UNCHANGED <<discoveryVars, deployment, registration, engine>> /\ identity' = identity
      BY <1>1 DEF ProcessVllmRequest, TwoStageDiscovered, Admitted
  <2>2. c \in BOOLEAN
      BY DEF BuildsConcurrent, WriteMode
  <2>3. Started(p, d, c, FALSE) \in PdRecord /\ RequestIsPlaced(Started(p, d, c, FALSE))
    <3> HIDE DEF c
    <3> QED
        BY <2>2, StartedFacts, ZenonT(60)
  <2>4. n \in PdRecord /\ RequestIsPlaced(n)
      BY <2>3, NoRequestFacts, ZenonT(60)
  <2> HIDE DEF n
  <2> QED
      BY <1>0, <2>1, <2>4, DiscoveredMoves, ZenonT(60)
<1>2. ASSUME NEW answer, PrefilledDiscovered(r, answer)
      PROVE  PdInv'
  <2> DEFINE over == answer \in {"failed", "error"}
             m == [q EXCEPT !.pc = "decode"]
             n == IF over THEN NoRequest ELSE m
  <2>1. /\ deployment.discovery /\ q.pc = "prefill" /\ requests' = [requests EXCEPT ![r] = n]
        /\ identity' = IF over THEN identity ELSE Ensured(q.p[1], answer, q.engine)
        /\ pd_load' = pd_load /\ charge' = charge /\ history' = history
        /\ UNCHANGED <<discoveryVars, deployment, registration, engine>>
      BY <1>2 DEF PrefilledDiscovered
  <2>2. identity' \in [Prefills -> 1 .. MaxEngines \cup {Absent}]
      BY <2>1, IdentityFacts, ZenonT(60)
  <2>3. m \in PdRecord /\ m.p = q.p /\ m.d = q.d /\ m.engine = q.engine /\ m.tracker = q.tracker
      BY <1>0 DEF PdRecord
  <2>4. RequestIsPlaced(m)
    <3> HIDE DEF m
    <3> QED
        BY <1>0, <2>1, <2>3 DEF RequestIsPlaced
  <2>5. n \in PdRecord /\ RequestIsPlaced(n)
      BY <2>3, <2>4, NoRequestFacts
  <2> HIDE DEF n
  <2> QED
      BY <2>1, <2>2, <2>5, DiscoveredMoves, ZenonT(60)
<1>3. CASE DecodedDiscovered(r)
    BY <1>0, <1>3, NoRequestFacts, DiscoveredMoves, ZenonT(60) DEF DecodedDiscovered
<1>4. CASE JoinDiscovered(r)
  <2> DEFINE failed == q.prefill \in {"failed", "error"}
  <2>1. /\ deployment.discovery /\ q.pc = "both" /\ requests' = [requests EXCEPT ![r] = NoRequest]
        /\ identity' = IF failed THEN identity ELSE Cached(q.p[1], q.prefill, q.engine)
        /\ pd_load' = pd_load /\ charge' = charge /\ history' = history
        /\ UNCHANGED <<discoveryVars, deployment, registration, engine>>
      BY <1>4 DEF JoinDiscovered
  <2>2. identity' \in [Prefills -> 1 .. MaxEngines \cup {Absent}]
      BY <2>1, IdentityFacts
  <2> QED
      BY <2>1, <2>2, NoRequestFacts, DiscoveredMoves, ZenonT(60)
<1> QED
    BY <1>1, <1>2, <1>3, <1>4

\* The decode worker answers, or both legs have.
LEMMA DecodedKeeps ==
    ASSUME PdInv, NEW r \in PdRequests, Decoded(r) \/ Join(r)
    PROVE  PdInv'
<1> DEFINE q == requests[r]
           ws == IF q.pc = "both" THEN {q.p, q.d} ELSE {q.d}
<1>1. /\ ~deployment.discovery /\ q.pc \in {"decode", "both"} /\ (q.pc = "both" => q.prefill # Absent)
      /\ pd_load' = Lowered(pd_load, ws) /\ charge' = charge /\ history' = history
      /\ requests' = [requests EXCEPT ![r] = NoRequest]
      /\ UNCHANGED <<discoveryVars, deployment, registration, engine>>
    BY DEF Decoded, Join
<1>2. identity' \in [Prefills -> 1 .. MaxEngines \cup {Absent}]
  <2>1. \/ identity' = identity
        \/ identity' = Cached(q.p[1], q.prefill, q.engine)
      BY DEF Decoded, Join
  <2> QED
      BY <1>1, <2>1, IdentityFacts
<1>3. DiscoveryInv' /\ WorkersAreTyped' /\ deployment' = deployment
    BY <1>1, <1>2, WorkersStay
<1>4. pd_load \in [PdObjects -> Nat] /\ charge \in [PdObjects -> Nat]
    BY DEF PdInv, RequestsAreTyped
<1>5. /\ q.p \in PdObjects /\ q.d \in PdObjects /\ q.p # q.d
      /\ \A w : /\ Held(q, w) = 0
                /\ One(OnP(q, w)) = IF q.pc = "both" /\ w = q.p THEN 1 ELSE 0
                /\ One(OnD(q, w)) = IF w = q.d THEN 1 ELSE 0
    BY <1>1, LegFacts
<1>6. ASSUME Counted /\ ~history.reset, NEW w \in PdObjects
      PROVE  pd_load'[w] + (One(OnP(q, w)) + One(OnD(q, w))) = pd_load[w]
  <2>1. pd_load[w] >= One(OnP(q, w)) + One(OnD(q, w))
      BY <1>6, LegsAreLoaded
  <2>2. /\ w \in ws /\ pd_load[w] > 0 => pd_load'[w] = pd_load[w] - 1
        /\ w \notin ws => pd_load'[w] = pd_load[w]
      BY <1>1, <1>4, LoadFacts
  <2>3. pd_load[w] \in Nat
      BY <1>4
  <2>4. One(OnP(q, w)) + One(OnD(q, w)) = IF w \in ws THEN 1 ELSE 0
      BY <1>1, <1>5
  <2> HIDE DEF q, ws
  <2> QED
      BY <2>1, <2>2, <2>3, <2>4
<1>7. pd_load' \in [PdObjects -> Nat]
    BY <1>1, <1>4, LoadFacts
<1>8. \A w \in PdObjects : charge'[w] + Held(q, w) = charge[w]
    BY <1>1, <1>4, <1>5
<1> QED
    BY <1>1, <1>3, <1>4, <1>6, <1>7, <1>8, RequestEnds, ZenonT(60)

\* One of two legs that run at once is over.
LEMMA LegKeeps ==
    ASSUME PdInv, NEW r \in PdRequests,
           \/ \E a \in {"failed", "error", "bare", "push", "pull"} : PrefillLeg(r, a)
           \/ \E ok \in BOOLEAN : DecodeLeg(r, ok)
    PROVE  PdInv'
<1> DEFINE q == requests[r]
<1>0. /\ requests \in [PdRequests -> PdRecord] /\ RequestIsPlaced(q)
      /\ pd_load \in [PdObjects -> Nat] /\ charge \in [PdObjects -> Nat]
      /\ history \in [left : Nat, refused : BOOLEAN, reset : BOOLEAN]
      /\ identity \in [Prefills -> 1 .. MaxEngines \cup {Absent}]
    BY DEF PdInv, RequestsAreTyped, WorkersAreTyped
<1>1. ASSUME NEW n \in PdRecord, requests' = [requests EXCEPT ![r] = n],
             n.pc = q.pc, n.p = q.p, n.d = q.d, n.engine = q.engine, RequestIsPlaced(n),
             charge' \in [PdObjects -> Nat],
             \A w \in PdObjects : charge'[w] + Held(q, w) = charge[w] + Held(n, w),
             UNCHANGED <<discoveryVars, deployment, registration, pd_load, engine, identity, history>>
      PROVE  PdInv'
  <2>1. DiscoveryInv' /\ WorkersAreTyped' /\ deployment' = deployment
      BY <1>0, <1>1, WorkersStay
  <2>2. ASSUME NEW w \in PdObjects
        PROVE  MovesLoad(r, n, w)
    <3>1. One(OnP(n, w)) = One(OnP(q, w)) /\ One(OnD(n, w)) = One(OnD(q, w))
        BY <1>1 DEF OnP, OnD, One
    <3>2. pd_load'[w] = pd_load[w] /\ pd_load[w] \in Nat
          /\ One(OnP(q, w)) \in Nat /\ One(OnD(q, w)) \in Nat
        BY <1>0, <1>1 DEF One
    <3> QED
        BY <3>1, <3>2 DEF MovesLoad
  <2> QED
      BY <1>0, <1>1, <2>1, <2>2, RequestMoves, ZenonT(60)
<1>2. ASSUME NEW a \in {"failed", "error", "bare", "push", "pull"}, PrefillLeg(r, a)
      PROVE  PdInv'
  <2> DEFINE n == [q EXCEPT !.prefill = a, !.tracker = FALSE]
  <2>1. /\ requests' = [requests EXCEPT ![r].prefill = a, ![r].tracker = FALSE] /\ charge' = Released(r)
        /\ UNCHANGED <<discoveryVars, deployment, registration, pd_load, engine, identity, history>>
      BY <1>2 DEF PrefillLeg
  <2>2. requests' = [requests EXCEPT ![r] = n]
      BY <1>0, <2>1, ZenonT(60) DEF PdRecord
  <2>3. n \in PdRecord /\ n.pc = q.pc /\ n.p = q.p /\ n.d = q.d /\ n.engine = q.engine /\ n.tracker = FALSE
    <3>1. a \in PdAnswers /\ q \in PdRecord
        BY <1>0 DEF PdAnswers
    <3> QED
        BY <3>1, ZenonT(60) DEF PdRecord
  <2> HIDE DEF n
  <2>4. RequestIsPlaced(n)
      BY <1>0, <2>3 DEF RequestIsPlaced
  <2>5. \A w : Held(n, w) = 0
      BY <2>3 DEF Held, Holds
  <2>6. /\ charge' \in [PdObjects -> Nat]
        /\ \A w \in PdObjects : charge'[w] + Held(q, w) = charge[w] + Held(n, w)
      BY <1>0, <2>1, <2>5, ReleasedFacts
  <2> QED
      BY <1>1, <2>1, <2>2, <2>3, <2>4, <2>6, ZenonT(60)
<1>3. ASSUME NEW ok \in BOOLEAN, DecodeLeg(r, ok)
      PROVE  PdInv'
  <2> DEFINE n == [q EXCEPT !.decode = ok]
  <2>1. /\ requests' = [requests EXCEPT ![r].decode = ok] /\ charge' = charge
        /\ UNCHANGED <<discoveryVars, deployment, registration, pd_load, engine, identity, history>>
      BY <1>3 DEF DecodeLeg
  <2>2. requests' = [requests EXCEPT ![r] = n]
      BY <1>0, <2>1 DEF PdRecord
  <2>3. n \in PdRecord /\ n.pc = q.pc /\ n.p = q.p /\ n.d = q.d /\ n.engine = q.engine
        /\ n.tracker = q.tracker /\ n.prefill = q.prefill
    <3>1. ok \in BOOLEAN \cup {Absent} /\ q \in PdRecord
        BY <1>0
    <3> QED
        BY <3>1 DEF PdRecord
  <2> HIDE DEF n
  <2>4. RequestIsPlaced(n)
      BY <1>0, <2>3 DEF RequestIsPlaced
  <2>5. \A w : Held(n, w) = Held(q, w)
      BY <2>3 DEF Held, Holds, OnP
  <2>6. \A w \in PdObjects : charge'[w] + Held(q, w) = charge[w] + Held(n, w)
    <3>1. \A w : Held(q, w) \in Nat
        BY DEF Held
    <3> HIDE DEF q
    <3> QED
        BY <1>0, <2>1, <2>5, <3>1
  <2> QED
      BY <1>0, <1>1, <2>1, <2>2, <2>3, <2>4, <2>6, ZenonT(60)
<1> QED
    BY <1>2, <1>3

\* The caller goes away: the tracker is dropped, the loads stay.
LEMMA LeaveKeeps ==
    ASSUME PdInv, NEW r \in PdRequests, Leave(r)
    PROVE  PdInv'
<1>1. /\ charge' = Released(r) /\ requests' = [requests EXCEPT ![r] = NoRequest]
      /\ history' = [history EXCEPT !.left = @ + 1] /\ pd_load' = pd_load /\ identity' = identity
      /\ UNCHANGED <<discoveryVars, deployment, registration, engine>>
    BY DEF Leave
<1>2. /\ pd_load \in [PdObjects -> Nat] /\ charge \in [PdObjects -> Nat]
      /\ history \in [left : Nat, refused : BOOLEAN, reset : BOOLEAN]
      /\ identity \in [Prefills -> 1 .. MaxEngines \cup {Absent}]
    BY DEF PdInv, RequestsAreTyped, WorkersAreTyped
<1>3. DiscoveryInv' /\ WorkersAreTyped' /\ deployment' = deployment
    BY <1>1, <1>2, WorkersStay
<1>4. /\ history' \in [left : Nat, refused : BOOLEAN, reset : BOOLEAN]
      /\ history'.left = history.left + 1 /\ history.left \in Nat /\ history'.reset = history.reset
    BY <1>1, <1>2
<1>5. /\ charge' \in [PdObjects -> Nat]
      /\ \A w \in PdObjects : charge'[w] + Held(requests[r], w) = charge[w] + Held(NoRequest, w)
    BY <1>1, <1>2, ReleasedFacts, NoRequestFacts
<1>6. ASSUME NEW w \in PdObjects
      PROVE  MovesLoad(r, NoRequest, w)
  <2>1. /\ pd_load'[w] = pd_load[w] /\ pd_load[w] \in Nat
        /\ One(OnP(requests[r], w)) \in Nat /\ One(OnD(requests[r], w)) \in Nat
      BY <1>1, <1>2 DEF One
  <2>2. history'.left # 0
      BY <1>4
  <2> QED
      BY <2>1, <2>2, NoRequestFacts DEF MovesLoad
<1>7. history'.left # 0
    BY <1>4
<1> QED
    BY <1>1, <1>2, <1>3, <1>4, <1>5, <1>6, <1>7, NoRequestFacts, RequestMoves, ZenonT(60)

\* Workers come and go, engines restart, the registry's health checker clears
\* the loads, and instances announce themselves.
LEMMA WorkersMove ==
    ASSUME PdInv, NEW h \in Hosts,
           \/ AddServer(h) \/ RemoveServer(h) \/ \E healthy \in BOOLEAN : ServerAdded(healthy)
           \/ EngineRestarts(h)
    PROVE  PdInv'
<1>0. WorkersAreTyped /\ DiscoveryInv /\ MaxObjects \in Nat /\ MaxEngines \in Nat /\ Absent \notin Hosts
    BY PdConfigIsValid DEF PdInv
<1>1. UNCHANGED <<discoveryVars, deployment, pd_load, charge, requests, history>>
    BY DEF AddServer, RemoveServer, ServerAdded, EngineRestarts
<1>2. DiscoveryInv'
    BY <1>0, <1>1, DiscoveryStep
<1>3. Evicted(h) \in [Prefills -> 1 .. MaxEngines \cup {Absent}]
    BY <1>0 DEF WorkersAreTyped, Evicted
<1>4. WorkersAreTyped'
  <2>1. CASE AddServer(h)
      BY <1>0, <1>3, <2>1 DEF AddServer, WorkersAreTyped
  <2>2. CASE RemoveServer(h)
      BY <1>0, <1>3, <2>2 DEF RemoveServer, WorkersAreTyped
  <2>3. CASE \E healthy \in BOOLEAN : ServerAdded(healthy)
    <3>1. /\ adding \in Hosts /\ adding' = Absent /\ engine' = engine /\ identity' = identity
          /\ \/ registered' = registered /\ objects' = objects
             \/ /\ registered' = [registered EXCEPT ![adding] = objects[adding] + 1]
                /\ objects' = [objects EXCEPT ![adding] = @ + 1]
        BY <1>0, <2>3 DEF ServerAdded, WorkersAreTyped
    <3> QED
        BY <1>0, <3>1 DEF WorkersAreTyped
  <2>4. CASE EngineRestarts(h)
      BY <1>0, <2>4 DEF EngineRestarts, WorkersAreTyped, registration
  <2> QED
      BY <2>1, <2>2, <2>3, <2>4
<1>5. RequestsAreTyped' /\ ChargesAreHeld' /\ LegsAreCounted' /\ deployment' \in Deployments
    BY <1>1, ZenonT(60)
       DEF PdInv, RequestsAreTyped, RequestIsPlaced, ChargesAreHeld, LegsAreCounted, Counted,
                Legs, OnPrefill, OnDecode
<1> QED
    BY <1>2, <1>4, <1>5 DEF PdInv

\* The reset of the loads, what discovery does, and a step of somebody else.
LEMMA RestKeeps ==
    ASSUME PdInv, ResetPdLoads \/ Discovers \/ UNCHANGED pdVars
    PROVE  PdInv'
<1>1. CASE ResetPdLoads
  <2>1. /\ pd_load' = [w \in PdObjects |-> IF registered[w[1]] = w[2] THEN 0 ELSE pd_load[w]]
        /\ history' = [history EXCEPT !.reset = TRUE]
        /\ UNCHANGED <<discoveryVars, deployment, registration, charge, engine, identity, requests>>
      BY <1>1 DEF ResetPdLoads
  <2>2. DiscoveryInv' /\ WorkersAreTyped'
      BY <2>1, WorkersStay DEF PdInv, WorkersAreTyped
  <2>3. /\ history' \in [left : Nat, refused : BOOLEAN, reset : BOOLEAN] /\ history'.reset
        /\ pd_load' \in [PdObjects -> Nat]
      BY <2>1, ZenonT(60) DEF PdInv, RequestsAreTyped
  <2> QED
      BY <2>1, <2>2, <2>3 DEF PdInv, RequestsAreTyped, RequestIsPlaced, ChargesAreHeld, LegsAreCounted, OnPrefill
<1>2. CASE Discovers \/ UNCHANGED pdVars
  <2>1. /\ DiscoveryNext \/ UNCHANGED discoveryVars
        /\ UNCHANGED <<deployment, registration, pd_load, charge, engine, identity, requests, history>>
      BY <1>2 DEF Discovers, pdVars, registration
  <2>2. DiscoveryInv'
      BY <2>1, DiscoveryStep DEF PdInv
  <2> QED
      BY <2>1, <2>2 DEF PdInv, WorkersAreTyped, registration, RequestsAreTyped, RequestIsPlaced,
                        ChargesAreHeld, LegsAreCounted, Counted, Legs, OnPrefill, OnDecode
<1> QED
    BY <1>1, <1>2

\* Every step keeps the invariant.
LEMMA PdStepKeeps ==
    ASSUME PdInv, [PdNext]_pdVars
    PROVE  PdInv'
<1>1. ASSUME NEW h \in Prefills, ArriveAt(h)
      PROVE  PdInv'
  <2>1. PICK r \in PdRequests, p \in {h} \X (1 .. MaxObjects), d \in Decodes \X (1 .. MaxObjects) : Arrive(r, p, d)
      BY <1>1 DEF ArriveAt
  <2>2. p \in Prefills \X (1 .. MaxObjects)
      OBVIOUS
  <2> QED
      BY <2>1, <2>2, TwoStageKeeps, DiscoveredKeeps DEF Arrive, RouteCompletion, RouteTransparent
<1>2. ASSUME NEW r \in PdRequests, PdStep(r) \/ Leave(r)
      PROVE  PdInv'
    BY <1>2, PrefilledKeeps, DiscoveredKeeps, DecodedKeeps, LegKeeps, LeaveKeeps DEF PdStep
<1>3. ASSUME NEW h \in Hosts, AddServer(h) \/ RemoveServer(h)
      PROVE  PdInv'
    BY <1>3, WorkersMove
<1>4. ASSUME NEW healthy \in BOOLEAN, ServerAdded(healthy)
      PROVE  PdInv'
  <2>1. adding \in Hosts
      BY <1>4 DEF ServerAdded, PdInv, WorkersAreTyped
  <2> QED
      BY <1>4, <2>1, WorkersMove
<1>5. ASSUME NEW h \in Prefills, EngineRestarts(h)
      PROVE  PdInv'
    BY <1>5, WorkersMove, PdConfigIsValid
<1> QED
    BY <1>1, <1>2, <1>3, <1>4, <1>5, RestKeeps DEF PdNext

\* A router that has just started.
LEMMA PdInitially ==
    ASSUME PdInit
    PROVE  PdInv
<1>1. /\ deployment \in Deployments /\ connector \in Connectors
      /\ MaxObjects \in Nat \ {0} /\ MaxEngines \in Nat \ {0} /\ PingTime \in Nat
      /\ Absent \notin Nat /\ Absent \notin Modes
    BY PdConfigIsValid DEF PdInit, DiscoveryInit
<1>2. DiscoveryInv
    BY <1>1 DEF PdInit, DiscoveryInit, DiscoveryInv, DiscoveryTypeOK, ModeIsShared
<1>3. WorkersAreTyped
    BY <1>1 DEF PdInit, WorkersAreTyped
<1>4. RequestsAreTyped
    BY <1>1, NoRequestFacts DEF PdInit, RequestsAreTyped
<1>5. ASSUME NEW w \in PdObjects
      PROVE  OnPrefill(w) = {} /\ OnDecode(w) = {} /\ {x \in OnPrefill(w) : requests[x].tracker} = {}
    BY DEF PdInit, OnPrefill, OnDecode, NoRequest
<1>6. ASSUME NEW w \in PdObjects
      PROVE  /\ Cardinality(OnPrefill(w)) = 0 /\ Cardinality(OnDecode(w)) = 0
             /\ Cardinality({x \in OnPrefill(w) : requests[x].tracker}) = 0
    BY <1>5, FS_EmptySet, ZenonT(60)
<1>7. \A w \in PdObjects : pd_load[w] = 0 /\ charge[w] = 0
    BY DEF PdInit
<1>8. ChargesAreHeld /\ LegsAreCounted
  <2>1. ChargesAreHeld
      BY <1>6, <1>7 DEF ChargesAreHeld
  <2>2. \A w \in PdObjects : Legs(w) = 0 + 0
      BY <1>6, ZenonT(60) DEF Legs
  <2> QED
      BY <1>7, <2>1, <2>2 DEF LegsAreCounted
<1> QED
    BY <1>1, <1>2, <1>3, <1>4, <1>8 DEF PdInv

\* The invariant gives the accounts the router is to keep.
LEMMA PdInvIsEnough ==
    ASSUME PdInv
    PROVE  PdIsAccounted
<1>1. ListedWhilePinging
    BY PdConfigIsValid DEF PdInv, DiscoveryInv, DiscoveryTypeOK, ListedWhilePinging
<1>2. charge \in [PdObjects -> 0 .. Cardinality(PdRequests)]
  <2>1. ASSUME NEW w \in PdObjects
        PROVE  charge[w] \in 0 .. Cardinality(PdRequests)
    <3> DEFINE H == {x \in OnPrefill(w) : requests[x].tracker}
    <3>1. H \subseteq PdRequests
        BY DEF OnPrefill
    <3>2. charge[w] = Cardinality(H)
        BY DEF PdInv, ChargesAreHeld
    <3> HIDE DEF H
    <3>3. /\ Cardinality(H) \in Nat /\ Cardinality(PdRequests) \in Nat
          /\ Cardinality(H) <= Cardinality(PdRequests)
        BY <3>1, PdConfigIsValid, FS_Subset, FS_CardinalityType
    <3> QED
        BY <3>2, <3>3
  <2> QED
      BY <2>1 DEF PdInv, RequestsAreTyped
<1>3. PdTypeOK
  <2>1. \A r \in PdRequests : requests[r].pc \in {"idle", "prefill", "decode", "both"}
      BY DEF PdInv, RequestsAreTyped, PdRecord
  <2> QED
      BY <1>2, <2>1 DEF PdInv, PdTypeOK, DiscoveryInv, WorkersAreTyped, RequestsAreTyped
<1> QED
    BY <1>1, <1>3 DEF PdInv, PdIsAccounted, DiscoveryInv

(***************************************************************************)
(* Between any two awaits the prefill/decode router charges a prefill      *)
(* worker exactly for the prompts it runs, counts every leg, and lists the *)
(* instances that announced themselves lately under one transfer mode: for *)
(* any workers, connector and number of requests, whichever way requests   *)
(* end and whatever comes and goes meanwhile (vllm_pd_router.rs,           *)
(* pd_router.rs, vllm_service_discovery.rs).                               *)
(***************************************************************************)
THEOREM PdStaysAccounted == PdSpec => []PdIsAccounted
<1>1. PdInit => PdInv
    BY PdInitially
<1>2. PdInv /\ [PdNext]_pdVars => PdInv'
    BY PdStepKeeps
<1>3. PdInv => PdIsAccounted
    BY PdInvIsEnough
<1> QED
    BY <1>1, <1>2, <1>3, PTL DEF PdSpec
=============================================================================
