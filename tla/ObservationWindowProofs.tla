----------------------- MODULE ObservationWindowProofs -----------------------
(***************************************************************************)
(* That the scheduler's belief of a rank's usage is sound, for any         *)
(* Programs, ranks, numbers of tokens and changes of the target set.       *)
(* WindowInv is about when a scrape was taken, LedgerInv about what the    *)
(* delta of a rank stands for.                                             *)
(***************************************************************************)
EXTENDS ObservationWindow, FiniteSetTheorems, TLAPS

\* Every leaf has a minute of each prover, so that a busy machine fails none of them.
USE SMTT(60), ZenonT(60)

\* The record that NewObservation and Installed build.
ObservationFields == {"estimate", "delta", "base", "added", "outdated", "truthful", "drift"}
IsObservation(o) == DOMAIN o = ObservationFields /\ o = [f \in ObservationFields |-> o[f]]

\* A rank was added no later than at the current revision, so that a scrape of the
\* current revision began after it was.
WindowInv ==
    /\ revision \in Nat
    /\ DOMAIN observations = ScrapedRanks
    /\ observations = [r \in ScrapedRanks |-> observations[r]]
    /\ \A r \in ScrapedRanks :
          /\ IsObservation(observations[r])
          /\ observations[r].added \in 0 .. revision
          /\ observations[r].outdated = FALSE
    /\ listed \subseteq ScrapedRanks

\* A step that leaves the revision alone, and of every observation what WindowInv is about.
LEMMA QuietStepKeeps ==
    ASSUME WindowInv, listed' = listed, revision' = revision,
           observations' = [r \in ScrapedRanks |-> observations'[r]],
           \A r \in ScrapedRanks :
              /\ IsObservation(observations'[r])
              /\ observations'[r].added = observations[r].added
              /\ observations'[r].outdated = FALSE
    PROVE  WindowInv'
BY DEF WindowInv, IsObservation

\* adjust_usage leaves everything but the delta alone.
LEMMA AdjustingIsQuiet ==
    ASSUME WindowInv, NEW q, NEW tokens, observations' = AdjustUsageBy(q, tokens)
    PROVE  /\ observations' = [r \in ScrapedRanks |-> observations'[r]]
           /\ \A r \in ScrapedRanks :
                 /\ IsObservation(observations'[r])
                 /\ observations'[r].added = observations[r].added
                 /\ observations'[r].outdated = FALSE
BY ZenonT(60) DEF WindowInv, IsObservation, ObservationFields, AdjustUsageBy

\* So does a request whose tokens are not accounted.
LEMMA DriftingIsQuiet ==
    ASSUME WindowInv, NEW q, observations' = Drifting(observations, q)
    PROVE  /\ observations' = [r \in ScrapedRanks |-> observations'[r]]
           /\ \A r \in ScrapedRanks :
                 /\ IsObservation(observations'[r])
                 /\ observations'[r].added = observations[r].added
                 /\ observations'[r].outdated = FALSE
BY ZenonT(60) DEF WindowInv, IsObservation, ObservationFields, Drifting

\* Observations that do not change at all are the third case.
LEMMA UnchangedIsQuiet ==
    ASSUME WindowInv, observations' = observations
    PROVE  /\ observations' = [r \in ScrapedRanks |-> observations'[r]]
           /\ \A r \in ScrapedRanks :
                 /\ IsObservation(observations'[r])
                 /\ observations'[r].added = observations[r].added
                 /\ observations'[r].outdated = FALSE
BY DEF WindowInv, IsObservation

\* Ranks that stay keep what is known of them; the others start with nothing.
LEMMA SyncKeeps ==
    ASSUME WindowInv, NEW S \in SUBSET ScrapedRanks, SyncRanks(S)
    PROVE  WindowInv'
<1>1. revision' \in Nat /\ revision' = revision + 1 /\ listed' = S
  BY DEF SyncRanks, WindowInv
<1>2. observations' = [r \in ScrapedRanks |-> IF r \in S \cap listed THEN observations[r]
                                              ELSE NewObservation(revision')]
  BY DEF SyncRanks
<1>3. ASSUME NEW r \in ScrapedRanks
      PROVE  /\ IsObservation(observations'[r])
             /\ observations'[r].added \in 0 .. revision'
             /\ observations'[r].outdated = FALSE
  <2>1. CASE r \in S \cap listed
    BY <1>1, <1>2, <2>1 DEF WindowInv, IsObservation
  <2>2. CASE r \notin S \cap listed
    BY <1>1, <1>2, <2>2 DEF NewObservation, IsObservation, ObservationFields
  <2> QED BY <2>1, <2>2, ZenonT(60)
<1> QED BY <1>1, <1>2, <1>3, ZenonT(60) DEF WindowInv

\* A scrape is only installed at the revision it began at.
LEMMA ApplyKeeps ==
    ASSUME WindowInv, NEW raws, ApplyObservations(raws)
    PROVE  WindowInv'
<1>1. observations' = [r \in ScrapedRanks |-> IF r \in DOMAIN raws /\ Applies(r) THEN Installed(r, raws[r])
                                              ELSE observations[r]]
  BY DEF ApplyObservations
<1>2. listed' = listed /\ revision' = revision
  BY DEF ApplyObservations
<1>3. ASSUME NEW r \in ScrapedRanks
      PROVE  /\ IsObservation(observations'[r])
             /\ observations'[r].added = observations[r].added
             /\ observations'[r].outdated = FALSE
  <2>1. CASE r \in DOMAIN raws /\ Applies(r)
    <3>1. observations'[r] = Installed(r, raws[r])
      BY <1>1, <2>1
    <3>2. IsObservation(Installed(r, raws[r])) /\ Installed(r, raws[r]).added = observations[r].added
      BY DEF Installed, IsObservation, ObservationFields
    <3>3. Installed(r, raws[r]).outdated = (revision < observations[r].added)
      BY <2>1 DEF Installed, Applies
    <3>4. (revision < observations[r].added) = FALSE
      BY DEF WindowInv
    <3>5. observations'[r].outdated = FALSE
      BY <3>1, <3>3, <3>4, ZenonT(60)
    <3> QED BY <3>1, <3>2, <3>5
  <2>2. CASE ~(r \in DOMAIN raws /\ Applies(r))
    BY <1>1, <2>2 DEF WindowInv
  <2> QED BY <2>1, <2>2, ZenonT(60)
<1>4. observations' = [r \in ScrapedRanks |-> observations'[r]]
  BY <1>1
<1> QED BY <1>2, <1>3, <1>4, QuietStepKeeps, ZenonT(60)

\* Every step keeps WindowInv.
LEMMA WindowStep ==
    ASSUME WindowInv, [WindowNext]_windowVars
    PROVE  WindowInv'
<1>1. ASSUME NEW p \in Tenants, NEW r \in ScrapedRanks, NEW tokens \in TokenCounts, CommitTenant(p, r, tokens)
      PROVE  WindowInv'
  BY <1>1, AdjustingIsQuiet, QuietStepKeeps, ZenonT(60) DEF CommitTenant
<1>2. ASSUME NEW p \in Tenants, NEW tokens \in TokenCounts, ArriveTenant(p, tokens)
      PROVE  WindowInv'
  <2>1. listed' = listed /\ revision' = revision
    BY <1>2 DEF ArriveTenant
  <2>2. \/ observations' = observations
        \/ observations' = Drifting(observations, tenants[p].on)
        \/ observations' = AdjustUsageBy(tenants[p].on, tokens - tenants[p].tokens)
    BY <1>2 DEF ArriveTenant
  <2> QED BY <2>1, <2>2, AdjustingIsQuiet, DriftingIsQuiet, UnchangedIsQuiet, QuietStepKeeps, ZenonT(60)
<1>3. ASSUME NEW p \in Tenants, MarkTenant(p) \/ PauseTenant(p) \/ ReleaseTenant(p)
      PROVE  WindowInv'
  BY <1>3, AdjustingIsQuiet, UnchangedIsQuiet, QuietStepKeeps, ZenonT(60)
     DEF MarkTenant, PauseTenant, ReleaseTenant
<1>4. ASSUME NEW p \in Tenants, NEW tokens \in TokenCounts, NEW next, NEW marked,
             CompleteTenant(p, tokens, next, marked)
      PROVE  WindowInv'
  BY <1>4, AdjustingIsQuiet, QuietStepKeeps, ZenonT(60) DEF CompleteTenant
<1>5. ASSUME BeginObservation
      PROVE  WindowInv'
  BY <1>5, UnchangedIsQuiet, QuietStepKeeps, ZenonT(60) DEF BeginObservation
<1>6. ASSUME NEW q \in ScrapedRanks, ObservationAges(q)
      PROVE  WindowInv'
  <2>1. observations' = [observations EXCEPT ![q].estimate = Unknown, ![q].truthful = FALSE]
    BY <1>6 DEF ObservationAges
  <2>2. /\ observations' = [r \in ScrapedRanks |-> observations'[r]]
        /\ \A r \in ScrapedRanks :
              /\ IsObservation(observations'[r])
              /\ observations'[r].added = observations[r].added
              /\ observations'[r].outdated = FALSE
    BY <2>1, ZenonT(60) DEF WindowInv, IsObservation, ObservationFields
  <2> QED BY <1>6, <2>2, QuietStepKeeps, ZenonT(60) DEF ObservationAges
<1>7. CASE UNCHANGED windowVars
  BY <1>7, UnchangedIsQuiet, QuietStepKeeps, ZenonT(60) DEF windowVars
<1> QED BY <1>1, <1>2, <1>3, <1>4, <1>5, <1>6, <1>7, SyncKeeps, ApplyKeeps DEF WindowNext

-----------------------------------------------------------------------------
(* Sums of tokens.                                                         *)

\* The tokens of the Programs K, one by one, when T says how many each has.
Units(T, K) == UNION {{p} \X (1 .. T[p].tokens) : p \in K}

\* The Programs on a rank, and their tokens.
On(T, r) == {p \in Tenants : T[p].on = r}
Used(T, r) == Cardinality(Units(T, On(T, r)))

\* Every Program of K has a number of tokens.
Counted(T, K) == IsFiniteSet(K) /\ \A p \in K : T[p].tokens \in Nat

\* Finitely many Programs have finitely many tokens.
LEMMA UnitsAreFinite ==
    ASSUME NEW T, NEW K, Counted(T, K)
    PROVE  IsFiniteSet(Units(T, K)) /\ Cardinality(Units(T, K)) \in Nat
<1> DEFINE f == [p \in K |-> {p} \X (1 .. T[p].tokens)]
           S == {{p} \X (1 .. T[p].tokens) : p \in K}
<1>1. f \in Surjection(K, S)
    BY ZenonT(60) DEF Surjection
<1>2. IsFiniteSet(S)
    BY <1>1, FS_Surjection DEF Counted
<1>3. ASSUME NEW p \in K PROVE IsFiniteSet({p} \X (1 .. T[p].tokens))
  <2>1. IsFiniteSet({p})
      BY FS_Singleton
  <2>2. IsFiniteSet(1 .. T[p].tokens)
      BY FS_Interval DEF Counted
  <2> QED
      BY <2>1, <2>2, FS_Product, ZenonT(60)
<1>4. IsFiniteSet(UNION S)
    BY <1>2, <1>3, FS_UNION, ZenonT(60)
<1> QED
    BY <1>4, FS_CardinalityType DEF Units

\* The tokens of one Program are as many as it has.
LEMMA UnitsOfOne ==
    ASSUME NEW T, NEW p, T[p].tokens \in Nat
    PROVE  Cardinality(Units(T, {p})) = T[p].tokens
<1>1. Units(T, {p}) = {p} \X (1 .. T[p].tokens)
    BY DEF Units
<1>2. IsFiniteSet({p}) /\ Cardinality({p}) = 1
    BY FS_Singleton
<1>3. PICK n \in Nat : n = T[p].tokens
    OBVIOUS
<1>4. IsFiniteSet(1 .. n) /\ Cardinality(1 .. n) = n
  <2>1. 1 \in Int /\ n \in Int
      OBVIOUS
  <2>2. /\ IsFiniteSet(1 .. n)
        /\ Cardinality(1 .. n) = IF 1 > n THEN 0 ELSE n - 1 + 1
      BY <2>1, FS_Interval, ZenonT(60)
  <2> QED
      BY <2>2
<1>5. Cardinality({p} \X (1 .. n)) = Cardinality({p}) * Cardinality(1 .. n)
    BY <1>2, <1>4, FS_Product, ZenonT(60)
<1>6. Cardinality({p} \X (1 .. n)) = n
    BY <1>2, <1>4, <1>5
<1> QED
    BY <1>1, <1>3, <1>6

\* Two sets of Programs that have none in common.
LEMMA UnitsAddUp ==
    ASSUME NEW T, NEW K, NEW L, Counted(T, K), Counted(T, L), K \cap L = {}
    PROVE  Cardinality(Units(T, K \cup L)) = Cardinality(Units(T, K)) + Cardinality(Units(T, L))
<1>1. Units(T, K \cup L) = Units(T, K) \cup Units(T, L)
    BY DEF Units
<1>2. Units(T, K) \cap Units(T, L) = {}
    BY DEF Units
<1>3. /\ IsFiniteSet(Units(T, K)) /\ Cardinality(Units(T, K)) \in Nat
      /\ IsFiniteSet(Units(T, L)) /\ Cardinality(Units(T, L)) \in Nat
    BY UnitsAreFinite
<1>4. Cardinality(Units(T, K) \cup Units(T, L))
         = Cardinality(Units(T, K)) + Cardinality(Units(T, L)) - Cardinality(Units(T, K) \cap Units(T, L))
    BY <1>3, FS_Union
<1>5. Cardinality(Units(T, K) \cap Units(T, L)) = 0
    BY <1>2, FS_EmptySet
<1>6. Cardinality(Units(T, K \cup L)) = Cardinality(Units(T, K) \cup Units(T, L))
    BY <1>1, ZenonT(60)
<1> QED
    BY <1>3, <1>4, <1>5, <1>6

\* One Program of a set, and the others.
LEMMA UnitsOfOthers ==
    ASSUME NEW T, NEW K, NEW p, Counted(T, K)
    PROVE  /\ Cardinality(Units(T, K \ {p})) \in Nat
           /\ p \in K => Cardinality(Units(T, K)) = Cardinality(Units(T, K \ {p})) + T[p].tokens
           /\ p \notin K => Cardinality(Units(T, K)) = Cardinality(Units(T, K \ {p}))
<1>1. Counted(T, K \ {p})
    BY FS_RemoveElement DEF Counted
<1>2. Cardinality(Units(T, K \ {p})) \in Nat
    BY <1>1, UnitsAreFinite
<1>3. ASSUME p \in K
      PROVE  Cardinality(Units(T, K)) = Cardinality(Units(T, K \ {p})) + T[p].tokens
  <2>1. Counted(T, {p}) /\ T[p].tokens \in Nat /\ K = (K \ {p}) \cup {p}
      BY <1>3, FS_Singleton, ZenonT(60) DEF Counted
  <2>2. Cardinality(Units(T, (K \ {p}) \cup {p}))
           = Cardinality(Units(T, K \ {p})) + Cardinality(Units(T, {p}))
      BY <1>1, <2>1, UnitsAddUp
  <2> QED
      BY <2>1, <2>2, UnitsOfOne
<1>4. ASSUME p \notin K
      PROVE  Cardinality(Units(T, K)) = Cardinality(Units(T, K \ {p}))
  <2>1. K \ {p} = K
      BY <1>4
  <2> QED
      BY <2>1
<1> QED
    BY <1>2, <1>3, <1>4

\* What a Program contributes to a rank.
Share(t, r) == IF t.on = r THEN t.tokens ELSE 0

\* The tokens of a rank can be counted.
LEMMA UsedIsCounted ==
    ASSUME NEW T, NEW r, \A q \in Tenants : T[q].tokens \in Nat
    PROVE  Counted(T, On(T, r)) /\ Used(T, r) \in Nat
<1>1. On(T, r) \in SUBSET Tenants
    BY DEF On
<1>2. IsFiniteSet(On(T, r))
    BY <1>1, FS_Subset, WindowAssumption
<1>3. Counted(T, On(T, r))
    BY <1>1, <1>2 DEF Counted
<1> QED
    BY <1>3, UnitsAreFinite DEF Used

\* The tokens of a rank, as those of one Program and of the others.
LEMMA UsedByOne ==
    ASSUME NEW T, NEW p \in Tenants, NEW r, \A q \in Tenants : T[q].tokens \in Nat
    PROVE  /\ Used(T, r) \in Nat
           /\ Cardinality(Units(T, On(T, r) \ {p})) \in Nat
           /\ Used(T, r) = Cardinality(Units(T, On(T, r) \ {p})) + Share(T[p], r)
<1>1. Counted(T, On(T, r))
    BY UsedIsCounted
<1>2. Cardinality(Units(T, On(T, r) \ {p})) \in Nat
    BY <1>1, UnitsOfOthers, ZenonT(60)
<1>3. CASE T[p].on = r
  <2>1. p \in On(T, r)
      BY <1>3 DEF On
  <2>2. Used(T, r) = Cardinality(Units(T, On(T, r) \ {p})) + T[p].tokens
      BY <1>1, <2>1, UnitsOfOthers, ZenonT(60) DEF Used
  <2>3. T[p].tokens \in Nat
      OBVIOUS
  <2> QED
      BY <1>2, <1>3, <2>2, <2>3 DEF Share
<1>4. CASE T[p].on # r
  <2>1. p \notin On(T, r)
      BY <1>4 DEF On
  <2>2. Used(T, r) = Cardinality(Units(T, On(T, r) \ {p}))
      BY <1>1, <2>1, UnitsOfOthers DEF Used
  <2> QED
      BY <1>2, <1>4, <2>2 DEF Share
<1> QED
    BY <1>3, <1>4

\* When one Program changes, the tokens of a rank change by its own.
LEMMA OneTenantChanges ==
    ASSUME NEW T, NEW V, NEW p \in Tenants, NEW r,
           \A q \in Tenants : T[q].tokens \in Nat,
           \A q \in Tenants : V[q].tokens \in Nat,
           \A q \in Tenants \ {p} : V[q] = T[q]
    PROVE  /\ Used(T, r) \in Nat /\ Used(V, r) \in Nat
           /\ Share(T[p], r) \in Nat /\ Share(V[p], r) \in Nat
           /\ Used(V, r) - Used(T, r) = Share(V[p], r) - Share(T[p], r)
<1>1. On(V, r) \ {p} = On(T, r) \ {p}
    BY DEF On
<1>2. \A q \in On(T, r) \ {p} : V[q] = T[q]
    BY DEF On
<1>3. Units(V, On(V, r) \ {p}) = Units(T, On(T, r) \ {p})
    BY <1>1, <1>2 DEF Units
<1>4. Cardinality(Units(V, On(V, r) \ {p})) = Cardinality(Units(T, On(T, r) \ {p}))
    BY <1>3, ZenonT(60)
<1>5. /\ Used(T, r) \in Nat
      /\ Cardinality(Units(T, On(T, r) \ {p})) \in Nat
      /\ Used(T, r) = Cardinality(Units(T, On(T, r) \ {p})) + Share(T[p], r)
    BY UsedByOne
<1>6. /\ Used(V, r) \in Nat
      /\ Cardinality(Units(V, On(V, r) \ {p})) \in Nat
      /\ Used(V, r) = Cardinality(Units(V, On(V, r) \ {p})) + Share(V[p], r)
    BY UsedByOne
<1>7. Share(T[p], r) \in Nat /\ Share(V[p], r) \in Nat
  <2>1. T[p].tokens \in Nat /\ V[p].tokens \in Nat
      OBVIOUS
  <2> QED
      BY <2>1 DEF Share
<1> QED
    BY <1>4, <1>5, <1>6, <1>7

\* Two sets of Programs that make up those of a rank.
LEMMA UsedInTwo ==
    ASSUME NEW T, NEW r, NEW K, NEW L, \A q \in Tenants : T[q].tokens \in Nat,
           On(T, r) = K \cup L, K \cap L = {}
    PROVE  /\ Cardinality(Units(T, K)) \in Nat /\ Cardinality(Units(T, L)) \in Nat
           /\ Used(T, r) = Cardinality(Units(T, K)) + Cardinality(Units(T, L))
<1>1. K \in SUBSET Tenants /\ L \in SUBSET Tenants
    BY DEF On
<1>2. IsFiniteSet(K) /\ IsFiniteSet(L)
    BY <1>1, FS_Subset, WindowAssumption
<1>3. Counted(T, K) /\ Counted(T, L)
    BY <1>1, <1>2 DEF Counted
<1>4. Used(T, r) = Cardinality(Units(T, K \cup L))
    BY ZenonT(60) DEF Used
<1> QED
    BY <1>3, <1>4, UnitsAreFinite, UnitsAddUp

\* Nobody has no tokens.
LEMMA UnitsOfNobody ==
    ASSUME NEW T, NEW K, IsFiniteSet(K), Cardinality(K) = 0
    PROVE  Cardinality(Units(T, K)) = 0
<1>1. K = {}
    BY FS_EmptySet
<1>2. Units(T, K) = {}
    BY <1>1 DEF Units
<1> QED
    BY <1>2, FS_EmptySet

\* The larger of two numbers.
LEMMA MaxOfTwo ==
    ASSUME NEW a \in Int, NEW b \in Int, a >= b
    PROVE  Max({a, b}) = a /\ Max({b, a}) = a
<1>1. ASSUME NEW S, S = {a, b} PROVE Max(S) = a
  <2>1. \A x \in S : (\A y \in S : x >= y) <=> x = a
      BY <1>1
  <2> QED
      BY <1>1, <2>1 DEF Max
<1> QED
    BY <1>1

\* Scaling up and down by the same number.
LEMMA ScaledBack ==
    ASSUME NEW n \in Nat, NEW m \in Nat, m > 0
    PROVE  (n * m) \div m = n
OBVIOUS

-----------------------------------------------------------------------------
(* What the delta of a rank accounts for.                                  *)

TenantType ==
    [on : ScrapedRanks \cup {NoRank}, status : {"Reasoning", "Acting"}, tokens : Nat, marked : BOOLEAN]

\* A Program is placed on a rank of the pool or on none, and acts only where it is placed.
TenantsAreTyped ==
    /\ tenants \in [Tenants -> TenantType]
    /\ \A p \in Tenants :
          /\ tenants[p].on \in listed \cup {NoRank}
          /\ tenants[p].status = "Acting" => tenants[p].on # NoRank

\* The delta is what the tokens of a rank changed by since the scrape whose estimate is
\* installed began, unless some change was not accounted.
DeltaIsExact(r) ==
    /\ observations[r].delta \in Int /\ observations[r].base \in Nat
    /\ ~observations[r].drift => observations[r].delta = Used(tenants, r) - observations[r].base
    /\ observations[r].truthful => observations[r].estimate = observations[r].base

\* A scrape of the current revision could be installed: what the delta of a rank grew by
\* is what its tokens changed by since the checkpoint.
CheckpointIsExact(r, c) ==
    /\ c.ledger \in Int /\ c.programs \in Nat /\ c.reasoning \in Nat /\ c.acting \in Nat
    /\ c.programs = 0 => c.reasoning = 0
    /\ r \notin scrape.drift =>
          observations[r].delta - c.ledger = Used(tenants, r) - (c.reasoning + c.acting)

ScrapeShape ==
    /\ scrape.under_way \in BOOLEAN
    /\ scrape.under_way => /\ scrape = [under_way |-> TRUE, revision |-> scrape.revision, drift |-> scrape.drift,
                                        checkpoints |-> scrape.checkpoints]
                           /\ scrape.revision \in 0 .. revision

ScrapeIsExact ==
    scrape.under_way /\ scrape.revision = revision =>
        \A r \in DOMAIN scrape.checkpoints \cap listed : CheckpointIsExact(r, scrape.checkpoints[r])

LedgerInv ==
    /\ WindowInv /\ TenantsAreTyped /\ ScrapeShape /\ ScrapeIsExact
    /\ \A r \in ScrapedRanks : DeltaIsExact(r)

\* What a step does to the delta of a rank when the Program p changes: either the
\* delta changes by the tokens of p, or the rank and the scrape are marked as drifting.
IsAccounted(r, p) ==
    /\ observations'[r].base = observations[r].base
    /\ observations'[r].estimate = observations[r].estimate
    /\ observations'[r].truthful = observations[r].truthful
    /\ observations'[r].delta \in Int
    /\ \/ /\ observations'[r].delta - observations[r].delta = Share(tenants'[p], r) - Share(tenants[p], r)
          /\ observations'[r].drift = observations[r].drift
          /\ scrape.under_way => (r \in scrape'.drift <=> r \in scrape.drift)
       \/ observations'[r].drift /\ (scrape.under_way => r \in scrape'.drift)

\* The same scrape is under way.
SameScrape ==
    /\ scrape'.under_way = scrape.under_way
    /\ scrape.under_way => /\ scrape' = [under_way |-> TRUE, revision |-> scrape.revision, drift |-> scrape'.drift,
                                         checkpoints |-> scrape.checkpoints]

\* Two numbers that change alike keep their distance.
LEMMA SameDistance ==
    /\ \A d, e, u, v, b \in Int : e - d = v - u /\ d = u - b => e = v - b
    /\ \A d, e, u, v, b, l \in Int : e - d = v - u /\ d - l = u - b => e - l = v - b
OBVIOUS

\* A step of one Program that is accounted keeps the invariant.
LEMMA AccountedStep ==
    ASSUME LedgerInv, WindowInv', listed' = listed, revision' = revision, SameScrape,
           NEW p \in Tenants, TenantsAreTyped', \A q \in Tenants \ {p} : tenants'[q] = tenants[q],
           \A r \in ScrapedRanks : IsAccounted(r, p)
    PROVE  LedgerInv'
<1>2. ScrapeShape'
    BY DEF LedgerInv, ScrapeShape, SameScrape
<1>3. ASSUME NEW r \in ScrapedRanks
      PROVE  /\ Used(tenants, r) \in Nat /\ Used(tenants', r) \in Nat
             /\ Share(tenants'[p], r) \in Nat /\ Share(tenants[p], r) \in Nat
             /\ Used(tenants', r) - Used(tenants, r) = Share(tenants'[p], r) - Share(tenants[p], r)
  <2>1. \A q \in Tenants : tenants[q].tokens \in Nat
      BY DEF LedgerInv, TenantsAreTyped, TenantType
  <2>2. \A q \in Tenants : tenants'[q].tokens \in Nat
      BY DEF TenantsAreTyped, TenantType
  <2>4. PICK T, V : T = tenants /\ V = tenants'
      OBVIOUS
  <2>5. /\ \A q \in Tenants : T[q].tokens \in Nat
        /\ \A q \in Tenants : V[q].tokens \in Nat
        /\ \A q \in Tenants \ {p} : V[q] = T[q]
      BY <2>1, <2>2, <2>4
  <2>6. /\ Used(T, r) \in Nat /\ Used(V, r) \in Nat
        /\ Share(T[p], r) \in Nat /\ Share(V[p], r) \in Nat
        /\ Used(V, r) - Used(T, r) = Share(V[p], r) - Share(T[p], r)
      BY <2>5, OneTenantChanges
  <2> QED
      BY <2>4, <2>6
<1>4. ASSUME NEW r \in ScrapedRanks
      PROVE  DeltaIsExact(r)'
  <2>1. DeltaIsExact(r) /\ IsAccounted(r, p)
      BY DEF LedgerInv
  <2>2. CASE /\ observations'[r].delta - observations[r].delta = Share(tenants'[p], r) - Share(tenants[p], r)
             /\ observations'[r].drift = observations[r].drift
    <3>1. observations'[r].delta - observations[r].delta = Used(tenants', r) - Used(tenants, r)
        BY <1>3, <2>2
    <3>2. observations[r].delta \in Int /\ observations'[r].delta \in Int /\ observations[r].base \in Nat
        BY <2>1 DEF DeltaIsExact, IsAccounted
    <3>3. ~observations[r].drift => observations'[r].delta = Used(tenants', r) - observations[r].base
      <4>1. Used(tenants, r) \in Int /\ Used(tenants', r) \in Int /\ observations[r].base \in Int
          BY <1>3, <3>2
      <4>2. ~observations[r].drift => observations[r].delta = Used(tenants, r) - observations[r].base
          BY <2>1 DEF DeltaIsExact
      <4> QED
          BY <3>1, <3>2, <4>1, <4>2, SameDistance
    <3> QED
        BY <2>1, <2>2, <3>2, <3>3 DEF DeltaIsExact, IsAccounted
  <2>3. CASE observations'[r].drift
      BY <2>1, <2>3 DEF DeltaIsExact, IsAccounted
  <2> QED
      BY <2>1, <2>2, <2>3 DEF IsAccounted
<1>5. ScrapeIsExact'
  <2> SUFFICES ASSUME scrape'.under_way, scrape'.revision = revision',
                      NEW r \in DOMAIN scrape'.checkpoints \cap listed'
               PROVE  CheckpointIsExact(r, scrape.checkpoints[r])'
      BY DEF ScrapeIsExact
  <2>1. /\ scrape.under_way /\ scrape.revision = revision
        /\ r \in DOMAIN scrape.checkpoints \cap listed /\ scrape'.checkpoints = scrape.checkpoints
      BY DEF SameScrape
  <2>2. PICK c : c = scrape.checkpoints[r] /\ c = scrape'.checkpoints[r]
      BY <2>1
  <2>3. CheckpointIsExact(r, c)
      BY <2>1, <2>2 DEF LedgerInv, ScrapeIsExact
  <2>4. r \in ScrapedRanks
      BY <2>1 DEF LedgerInv, WindowInv
  <2>5. IsAccounted(r, p) /\ DeltaIsExact(r)
      BY <2>4 DEF LedgerInv
  <2>6. CASE r \in scrape'.drift
      BY <2>2, <2>3, <2>6 DEF CheckpointIsExact
  <2>7. CASE r \notin scrape'.drift
    <3>1. /\ observations'[r].delta - observations[r].delta = Share(tenants'[p], r) - Share(tenants[p], r)
          /\ r \notin scrape.drift
        BY <2>1, <2>5, <2>7 DEF IsAccounted
    <3>2. observations[r].delta \in Int /\ observations'[r].delta \in Int
        BY <2>5 DEF IsAccounted, DeltaIsExact
    <3>3. observations'[r].delta - observations[r].delta = Used(tenants', r) - Used(tenants, r)
        BY <1>3, <2>4, <3>1
    <3>4. /\ observations[r].delta - c.ledger = Used(tenants, r) - (c.reasoning + c.acting)
          /\ c.ledger \in Int /\ c.reasoning \in Nat /\ c.acting \in Nat
        BY <2>3, <3>1 DEF CheckpointIsExact
    <3>5. observations'[r].delta - c.ledger = Used(tenants', r) - (c.reasoning + c.acting)
      <4>1. Used(tenants, r) \in Int /\ Used(tenants', r) \in Int /\ c.reasoning + c.acting \in Int
          BY <1>3, <2>4, <3>4
      <4> QED
          BY <3>2, <3>3, <3>4, <4>1, SameDistance
    <3> QED
        BY <2>2, <2>3, <3>5 DEF CheckpointIsExact
  <2> QED
      BY <2>6, <2>7
<1> QED
    BY <1>2, <1>4, <1>5 DEF LedgerInv

\* The Program that changes is still placed on a rank of the pool or on none.
LEMMA OneTenantTyped ==
    ASSUME LedgerInv, listed' = listed, NEW p \in Tenants, NEW t \in TenantType,
           tenants' = [tenants EXCEPT ![p] = t],
           t.on \in listed \cup {NoRank}, t.status = "Acting" => t.on # NoRank
    PROVE  /\ TenantsAreTyped' /\ tenants'[p] = t
           /\ \A q \in Tenants \ {p} : tenants'[q] = tenants[q]
BY DEF LedgerInv, TenantsAreTyped

\* The delta of the one rank that is concerned is adjusted by what the Program changed.
LEMMA AdjustingAccounts ==
    ASSUME LedgerInv, scrape' = scrape, NEW p \in Tenants, NEW q \in ScrapedRanks, NEW n \in Int,
           observations' = AdjustUsageBy(q, n),
           Share(tenants'[p], q) - Share(tenants[p], q) = n,
           \A r \in ScrapedRanks \ {q} : Share(tenants'[p], r) - Share(tenants[p], r) = 0
    PROVE  \A r \in ScrapedRanks : IsAccounted(r, p)
<1> SUFFICES ASSUME NEW r \in ScrapedRanks PROVE IsAccounted(r, p)
    OBVIOUS
<1>1. /\ observations'[r].base = observations[r].base
      /\ observations'[r].estimate = observations[r].estimate
      /\ observations'[r].truthful = observations[r].truthful
      /\ observations'[r].drift = observations[r].drift
      /\ observations'[r].delta = IF r = q THEN observations[r].delta + n ELSE observations[r].delta
    BY DEF LedgerInv, WindowInv, IsObservation, ObservationFields, AdjustUsageBy
<1>2. observations[r].delta \in Int
    BY DEF LedgerInv, DeltaIsExact
<1>3. observations'[r].delta \in Int
    BY <1>1, <1>2
<1>4. observations'[r].delta - observations[r].delta = IF r = q THEN n ELSE 0
    BY <1>1, <1>2
<1>5. observations'[r].delta - observations[r].delta = Share(tenants'[p], r) - Share(tenants[p], r)
    BY <1>4
<1> QED
    BY <1>1, <1>3, <1>5 DEF IsAccounted

\* A step that leaves the scrape alone.
LEMMA ScrapeGoesOn ==
    ASSUME LedgerInv, scrape' = scrape
    PROVE  SameScrape
BY DEF LedgerInv, ScrapeShape, SameScrape

\* commit_admission accounts the tokens of the Program it admits.
LEMMA CommitIsAccounted ==
    ASSUME LedgerInv, WindowInv', NEW p \in Tenants, NEW r \in ScrapedRanks, NEW tokens \in TokenCounts,
           CommitTenant(p, r, tokens)
    PROVE  LedgerInv'
<1> DEFINE t == [on |-> r, status |-> "Reasoning", tokens |-> tokens, marked |-> FALSE]
<1>1. /\ tenants[p].on = NoRank /\ r \in listed /\ tenants' = [tenants EXCEPT ![p] = t]
      /\ observations' = AdjustUsageBy(r, tokens) /\ listed' = listed /\ revision' = revision /\ scrape' = scrape
    BY DEF CommitTenant
<1>2. t \in TenantType /\ t.on = r /\ t.tokens = tokens /\ t.status # "Acting" /\ tokens \in Nat
    BY WindowAssumption DEF TenantType
<1> HIDE DEF t
<1>3. TenantsAreTyped' /\ tenants'[p] = t /\ \A q \in Tenants \ {p} : tenants'[q] = tenants[q]
    BY <1>1, <1>2, OneTenantTyped, ZenonT(60)
<1>4. /\ Share(tenants'[p], r) - Share(tenants[p], r) = tokens
      /\ \A q \in ScrapedRanks \ {r} : Share(tenants'[p], q) - Share(tenants[p], q) = 0
    BY <1>1, <1>2, <1>3, WindowAssumption DEF Share
<1>5. \A q \in ScrapedRanks : IsAccounted(q, p)
    BY <1>1, <1>2, <1>4, AdjustingAccounts
<1> QED
    BY <1>1, <1>3, <1>5, ScrapeGoesOn, AccountedStep

\* A Program that is taken from its rank gives back its tokens.
LEMMA UnplacingIsAccounted ==
    ASSUME LedgerInv, WindowInv', NEW p \in Tenants, tenants[p].on # NoRank,
           tenants' = [tenants EXCEPT ![p] = Unplaced],
           observations' = AdjustUsageBy(tenants[p].on, 0 - tenants[p].tokens),
           listed' = listed, revision' = revision, scrape' = scrape
    PROVE  LedgerInv'
<1>1. Unplaced \in TenantType /\ Unplaced.on = NoRank /\ Unplaced.status # "Acting"
    BY DEF TenantType, Unplaced
<1>2. TenantsAreTyped' /\ tenants'[p] = Unplaced /\ \A q \in Tenants \ {p} : tenants'[q] = tenants[q]
    BY <1>1, OneTenantTyped, ZenonT(60)
<1>3. tenants[p].on \in ScrapedRanks /\ tenants[p].tokens \in Nat /\ 0 - tenants[p].tokens \in Int
    BY DEF LedgerInv, TenantsAreTyped, TenantType
<1>4. /\ Share(tenants'[p], tenants[p].on) - Share(tenants[p], tenants[p].on) = 0 - tenants[p].tokens
      /\ \A r \in ScrapedRanks \ {tenants[p].on} : Share(tenants'[p], r) - Share(tenants[p], r) = 0
    BY <1>1, <1>2, <1>3, WindowAssumption DEF Share
<1>5. \A r \in ScrapedRanks : IsAccounted(r, p)
    BY <1>3, <1>4, AdjustingAccounts
<1> QED
    BY <1>2, <1>5, ScrapeGoesOn, AccountedStep

\* complete accounts what the tokens changed by, or gives them back.
LEMMA CompleteIsAccounted ==
    ASSUME LedgerInv, WindowInv', NEW p \in Tenants, NEW tokens \in TokenCounts,
           NEW next \in {"Reasoning", "Acting", "pause"}, NEW marked \in BOOLEAN,
           CompleteTenant(p, tokens, next, marked)
    PROVE  LedgerInv'
<1> DEFINE t == [on |-> tenants[p].on, status |-> next, tokens |-> tokens, marked |-> marked]
<1>1. /\ tenants[p].on # NoRank /\ listed' = listed /\ revision' = revision /\ scrape' = scrape
    BY DEF CompleteTenant
<1>2. /\ tenants[p].on \in ScrapedRanks \cap listed /\ tenants[p].tokens \in Nat /\ tokens \in Nat
      /\ tokens - tenants[p].tokens \in Int
    BY <1>1, WindowAssumption DEF LedgerInv, TenantsAreTyped, TenantType
<1>3. CASE next = "pause"
    BY <1>1, <1>3, UnplacingIsAccounted, ZenonT(60) DEF CompleteTenant
<1>4. CASE next # "pause"
  <2>1. /\ tenants' = [tenants EXCEPT ![p] = t]
        /\ observations' = AdjustUsageBy(tenants[p].on, tokens - tenants[p].tokens)
      BY <1>4 DEF CompleteTenant
  <2>2. t \in TenantType /\ t.on = tenants[p].on /\ t.tokens = tokens
      BY <1>2, <1>4 DEF TenantType
  <2> HIDE DEF t
  <2>3. TenantsAreTyped' /\ tenants'[p] = t /\ \A q \in Tenants \ {p} : tenants'[q] = tenants[q]
      BY <1>1, <1>2, <2>1, <2>2, OneTenantTyped, ZenonT(60)
  <2>4. /\ Share(tenants'[p], tenants[p].on) - Share(tenants[p], tenants[p].on) = tokens - tenants[p].tokens
        /\ \A r \in ScrapedRanks \ {tenants[p].on} : Share(tenants'[p], r) - Share(tenants[p], r) = 0
      BY <1>2, <2>2, <2>3 DEF Share
  <2>5. \A r \in ScrapedRanks : IsAccounted(r, p)
      BY <1>1, <1>2, <2>1, <2>4, AdjustingAccounts
  <2> QED
      BY <1>1, <2>3, <2>5, ScrapeGoesOn, AccountedStep
<1> QED
    BY <1>3, <1>4

\* What a request whose tokens are not accounted does to the observation of a rank.
LEMMA DriftingMarks ==
    ASSUME WindowInv, NEW q, NEW r \in ScrapedRanks, observations' = Drifting(observations, q)
    PROVE  /\ observations'[r].base = observations[r].base
           /\ observations'[r].estimate = observations[r].estimate
           /\ observations'[r].truthful = observations[r].truthful
           /\ observations'[r].delta = observations[r].delta
           /\ r = q => observations'[r].drift = TRUE
           /\ r # q => observations'[r].drift = observations[r].drift
<1>1. observations'[r] = IF r = q THEN [observations[r] EXCEPT !.drift = TRUE] ELSE observations[r]
    BY ZenonT(60) DEF WindowInv, Drifting
<1>2. IsObservation(observations[r])
    BY DEF WindowInv
<1> QED
    BY <1>1, <1>2, ZenonT(60) DEF IsObservation, ObservationFields

\* The tokens and the delta of no rank change, or the rank of the Program is drifting.
LEMMA UnaccountedStep ==
    ASSUME LedgerInv, WindowInv', NEW p \in Tenants, listed' = listed, revision' = revision,
           TenantsAreTyped', \A q \in Tenants \ {p} : tenants'[q] = tenants[q],
           tenants[p].on # NoRank, tenants'[p].on = tenants[p].on,
           \/ /\ tenants'[p].tokens = tenants[p].tokens
              /\ observations' = observations /\ scrape' = scrape
           \/ /\ observations' = Drifting(observations, tenants[p].on)
              /\ scrape' = DriftingScrape(tenants[p].on)
    PROVE  LedgerInv'
<1>1. tenants[p].tokens \in Nat /\ tenants'[p].tokens \in Nat
    BY DEF LedgerInv, TenantsAreTyped, TenantType
<1>2. \A r \in ScrapedRanks : observations[r].delta \in Int
    BY DEF LedgerInv, DeltaIsExact
<1>3. \A r \in ScrapedRanks : r # tenants[p].on => Share(tenants'[p], r) - Share(tenants[p], r) = 0
    BY DEF Share
<1>4. CASE tenants'[p].tokens = tenants[p].tokens /\ observations' = observations /\ scrape' = scrape
  <2>1. \A r \in ScrapedRanks : Share(tenants'[p], r) - Share(tenants[p], r) = 0
      BY <1>1, <1>4 DEF Share
  <2>2. \A r \in ScrapedRanks : IsAccounted(r, p)
      BY <1>2, <1>4, <2>1 DEF IsAccounted
  <2> QED
      BY <1>4, <2>2, ScrapeGoesOn, AccountedStep
<1>5. CASE /\ observations' = Drifting(observations, tenants[p].on)
           /\ scrape' = DriftingScrape(tenants[p].on)
  <2>1. SameScrape /\ (scrape.under_way => scrape'.drift = scrape.drift \cup {tenants[p].on})
      BY <1>5, ZenonT(60) DEF LedgerInv, ScrapeShape, SameScrape, DriftingScrape
  <2>2. ASSUME NEW r \in ScrapedRanks
        PROVE  IsAccounted(r, p)
    <3>1. /\ observations'[r].base = observations[r].base
          /\ observations'[r].estimate = observations[r].estimate
          /\ observations'[r].truthful = observations[r].truthful
          /\ observations'[r].delta = observations[r].delta
          /\ r = tenants[p].on => observations'[r].drift = TRUE
          /\ r # tenants[p].on => observations'[r].drift = observations[r].drift
        BY <1>5, DriftingMarks, ZenonT(60) DEF LedgerInv
    <3>2. CASE r = tenants[p].on
        BY <1>2, <2>1, <3>1, <3>2 DEF IsAccounted
    <3>3. CASE r # tenants[p].on
        BY <1>2, <1>3, <2>1, <3>1, <3>3 DEF IsAccounted
    <3> QED
        BY <3>2, <3>3
  <2> QED
      BY <2>1, <2>2, AccountedStep
<1> QED
    BY <1>4, <1>5

\* A request accounts the growth of its Program; what it does not account is drift.
LEMMA ArriveIsAccounted ==
    ASSUME LedgerInv, WindowInv', NEW p \in Tenants, NEW tokens \in TokenCounts, ArriveTenant(p, tokens)
    PROVE  LedgerInv'
<1> DEFINE t == [tenants[p] EXCEPT !.tokens = tokens, !.status = "Reasoning"]
<1>1. /\ tenants[p].on # NoRank /\ listed' = listed /\ revision' = revision
      /\ tenants' = [tenants EXCEPT ![p] = t]
    BY ZenonT(60) DEF ArriveTenant, LedgerInv, TenantsAreTyped
<1>2. /\ tenants[p].on \in ScrapedRanks \cap listed /\ tenants[p].tokens \in Nat /\ tokens \in Nat
      /\ tokens - tenants[p].tokens \in Int
    BY <1>1, WindowAssumption DEF LedgerInv, TenantsAreTyped, TenantType
<1>3. t \in TenantType /\ t.on = tenants[p].on /\ t.tokens = tokens /\ t.status # "Acting"
    BY <1>2, ZenonT(60) DEF LedgerInv, TenantsAreTyped, TenantType
<1> HIDE DEF t
<1>4. TenantsAreTyped' /\ tenants'[p] = t /\ \A q \in Tenants \ {p} : tenants'[q] = tenants[q]
    BY <1>1, <1>2, <1>3, OneTenantTyped, ZenonT(60)
<1>5. \/ observations' = AdjustUsageBy(tenants[p].on, tokens - tenants[p].tokens) /\ scrape' = scrape
      \/ tokens = tenants[p].tokens /\ observations' = observations /\ scrape' = scrape
      \/ observations' = Drifting(observations, tenants[p].on) /\ scrape' = DriftingScrape(tenants[p].on)
    BY DEF ArriveTenant
<1>6. CASE observations' = AdjustUsageBy(tenants[p].on, tokens - tenants[p].tokens) /\ scrape' = scrape
  <2>1. /\ Share(tenants'[p], tenants[p].on) - Share(tenants[p], tenants[p].on) = tokens - tenants[p].tokens
        /\ \A r \in ScrapedRanks \ {tenants[p].on} : Share(tenants'[p], r) - Share(tenants[p], r) = 0
      BY <1>2, <1>3, <1>4 DEF Share
  <2>2. \A r \in ScrapedRanks : IsAccounted(r, p)
      BY <1>2, <1>6, <2>1, AdjustingAccounts
  <2> QED
      BY <1>1, <1>4, <1>6, <2>2, ScrapeGoesOn, AccountedStep
<1>7. CASE \/ tokens = tenants[p].tokens /\ observations' = observations /\ scrape' = scrape
           \/ observations' = Drifting(observations, tenants[p].on) /\ scrape' = DriftingScrape(tenants[p].on)
    BY <1>1, <1>3, <1>4, <1>7, UnaccountedStep
<1> QED
    BY <1>5, <1>6, <1>7

\* Marking a Program changes no tokens.
LEMMA MarkIsAccounted ==
    ASSUME LedgerInv, WindowInv', NEW p \in Tenants, MarkTenant(p)
    PROVE  LedgerInv'
<1> DEFINE t == [tenants[p] EXCEPT !.marked = TRUE]
<1>1. /\ tenants[p].on # NoRank /\ listed' = listed /\ revision' = revision
      /\ tenants' = [tenants EXCEPT ![p] = t] /\ observations' = observations /\ scrape' = scrape
    BY DEF MarkTenant, LedgerInv, TenantsAreTyped
<1>2. /\ t \in TenantType /\ t.on = tenants[p].on /\ t.on \in listed \cup {NoRank}
      /\ t.tokens = tenants[p].tokens
    BY ZenonT(60) DEF LedgerInv, TenantsAreTyped, TenantType
<1> HIDE DEF t
<1>3. TenantsAreTyped' /\ tenants'[p] = t /\ \A q \in Tenants \ {p} : tenants'[q] = tenants[q]
    BY <1>1, <1>2, OneTenantTyped, ZenonT(60)
<1> QED
    BY <1>1, <1>2, <1>3, UnaccountedStep

\* Programs that are on a rank before and after a step, and do not change.
LEMMA SameOnRank ==
    ASSUME NEW T, NEW V, NEW r, \A q \in Tenants : (T[q].on = r \/ V[q].on = r) => V[q] = T[q]
    PROVE  Used(V, r) = Used(T, r)
<1>1. On(V, r) = On(T, r) /\ \A q \in On(T, r) : V[q] = T[q]
    BY DEF On
<1>2. Units(V, On(V, r)) = Units(T, On(T, r))
    BY <1>1 DEF Units
<1> QED
    BY <1>2, ZenonT(60) DEF Used

\* A rank without Programs has no tokens.
LEMMA NobodyOnRank ==
    ASSUME NEW T, NEW r, \A q \in Tenants : T[q].on # r
    PROVE  Used(T, r) = 0
<1>1. Units(T, On(T, r)) = {}
    BY DEF On, Units
<1> QED
    BY <1>1, FS_EmptySet DEF Used

\* The age of an observation is no matter of tokens.
LEMMA AgingKeeps ==
    ASSUME LedgerInv, WindowInv', NEW q \in ScrapedRanks, ObservationAges(q)
    PROVE  LedgerInv'
<1>1. /\ tenants' = tenants /\ listed' = listed /\ revision' = revision /\ scrape' = scrape
      /\ observations' = [observations EXCEPT ![q].estimate = Unknown, ![q].truthful = FALSE]
    BY DEF ObservationAges
<1>2. ASSUME NEW r \in ScrapedRanks
      PROVE  /\ observations'[r].delta = observations[r].delta
             /\ observations'[r].base = observations[r].base
             /\ observations'[r].drift = observations[r].drift
             /\ r = q => observations'[r].truthful = FALSE
             /\ r # q => observations'[r] = observations[r]
  <2>1. observations'[r] = IF r = q THEN [observations[r] EXCEPT !.estimate = Unknown, !.truthful = FALSE]
                           ELSE observations[r]
      BY <1>1, ZenonT(60) DEF LedgerInv, WindowInv
  <2>2. IsObservation(observations[r])
      BY DEF LedgerInv, WindowInv
  <2> QED
      BY <2>1, <2>2 DEF IsObservation, ObservationFields
<1>3. TenantsAreTyped' /\ ScrapeShape'
    BY <1>1 DEF LedgerInv, TenantsAreTyped, ScrapeShape
<1>4. ASSUME NEW r \in ScrapedRanks
      PROVE  DeltaIsExact(r)'
  <2>1. DeltaIsExact(r) /\ Used(tenants', r) = Used(tenants, r)
      BY <1>1 DEF LedgerInv
  <2>2. CASE r = q
      BY <1>2, <2>1, <2>2, ZenonT(60) DEF DeltaIsExact
  <2>3. CASE r # q
      BY <1>2, <2>1, <2>3, ZenonT(60) DEF DeltaIsExact
  <2> QED
      BY <2>2, <2>3
<1>5. ScrapeIsExact'
  <2>1. ASSUME NEW r \in listed, NEW c, CheckpointIsExact(r, c)
        PROVE  CheckpointIsExact(r, c)'
      BY <1>1, <1>2, <2>1 DEF LedgerInv, WindowInv, CheckpointIsExact
  <2> QED
      BY <1>1, <2>1 DEF LedgerInv, ScrapeIsExact
<1> QED
    BY <1>3, <1>4, <1>5 DEF LedgerInv

\* A change of the target set: ranks that stay keep their Programs, the others have none,
\* and no scrape under way is of the new revision.
LEMMA SyncIsAccounted ==
    ASSUME LedgerInv, WindowInv', NEW S \in SUBSET ScrapedRanks, SyncRanks(S)
    PROVE  LedgerInv'
<1>1. /\ listed' = S /\ revision' = revision + 1 /\ scrape' = scrape /\ revision \in Nat
      /\ tenants' = [p \in Tenants |-> IF tenants[p].on \in listed \ S THEN Unplaced ELSE tenants[p]]
      /\ observations' = [r \in ScrapedRanks |-> IF r \in S \cap listed THEN observations[r]
                                                 ELSE NewObservation(revision')]
    BY DEF SyncRanks, LedgerInv, WindowInv
<1>2. Unplaced \in TenantType /\ Unplaced.on = NoRank /\ Unplaced.status # "Acting"
    BY DEF TenantType, Unplaced
<1>3. TenantsAreTyped'
    BY <1>1, <1>2 DEF LedgerInv, TenantsAreTyped
<1>4. ScrapeShape' /\ ScrapeIsExact'
    BY <1>1 DEF LedgerInv, ScrapeShape, ScrapeIsExact
<1>5. \A q \in Tenants : /\ tenants[q].on \in listed \cup {NoRank}
                         /\ tenants'[q] = tenants[q] \/ (tenants[q].on \in listed \ S /\ tenants'[q].on = NoRank)
    BY <1>1, <1>2 DEF LedgerInv, TenantsAreTyped
<1>6. ASSUME NEW r \in ScrapedRanks
      PROVE  DeltaIsExact(r)'
  <2>1. CASE r \in S \cap listed
    <3>1. \A q \in Tenants : (tenants[q].on = r \/ tenants'[q].on = r) => tenants'[q] = tenants[q]
        BY <1>5, <2>1, WindowAssumption
    <3>2. Used(tenants', r) = Used(tenants, r)
        BY <3>1, SameOnRank
    <3>3. observations'[r] = observations[r]
        BY <1>1, <2>1
    <3>4. DeltaIsExact(r)
        BY DEF LedgerInv
    <3> QED
        BY <3>2, <3>3, <3>4 DEF DeltaIsExact
  <2>2. CASE r \notin S \cap listed
    <3>1. \A q \in Tenants : tenants'[q].on # r
        BY <1>1, <1>3, <1>5, <2>2, WindowAssumption DEF TenantsAreTyped
    <3>2. Used(tenants', r) = 0
        BY <3>1, NobodyOnRank
    <3>3. observations'[r] = NewObservation(revision')
        BY <1>1, <2>2
    <3> QED
        BY <3>2, <3>3 DEF DeltaIsExact, NewObservation
  <2> QED
      BY <2>1, <2>2
<1> QED
    BY <1>3, <1>4, <1>6 DEF LedgerInv

\* A checkpoint is exact when it is taken: the Programs of a rank reason or act.
LEMMA CheckpointCounts ==
    ASSUME LedgerInv, NEW r \in ScrapedRanks, NEW c, c = Checkpoint(r)
    PROVE  /\ c.ledger = observations[r].delta
           /\ c.programs \in Nat /\ c.reasoning \in Nat /\ c.acting \in Nat
           /\ c.programs = 0 => c.reasoning = 0
           /\ Used(tenants, r) = c.reasoning + c.acting
<1>1. PICK T, K, L : /\ T = tenants
                     /\ K = WithTenantStatus(ActiveTenants(r), "Reasoning")
                     /\ L = WithTenantStatus(ActiveTenants(r), "Acting")
    OBVIOUS
<1>2. /\ \A q \in Tenants : T[q].tokens \in Nat
      /\ On(T, r) = K \cup L /\ K \cap L = {} /\ K \subseteq Tenants
    BY <1>1 DEF LedgerInv, TenantsAreTyped, TenantType, WithTenantStatus, ActiveTenants, On
<1>3. /\ Cardinality(Units(T, K)) \in Nat /\ Cardinality(Units(T, L)) \in Nat
      /\ Used(T, r) = Cardinality(Units(T, K)) + Cardinality(Units(T, L))
    BY <1>2, UsedInTwo, ZenonT(60)
<1>4. IsFiniteSet(K) /\ Cardinality(K) \in Nat
    BY <1>2, FS_Subset, FS_CardinalityType, WindowAssumption
<1>5. Cardinality(K) = 0 => Cardinality(Units(T, K)) = 0
    BY <1>4, UnitsOfNobody
<1>6. /\ TokensOfTenants(K) = Cardinality(Units(T, K)) /\ TokensOfTenants(L) = Cardinality(Units(T, L))
    BY <1>1, ZenonT(60) DEF TokensOfTenants, Units
<1>7. c = [ledger |-> observations[r].delta, programs |-> Cardinality(K),
           reasoning |-> TokensOfTenants(K), acting |-> TokensOfTenants(L)]
    BY <1>1, ZenonT(60) DEF Checkpoint
<1> QED
    BY <1>1, <1>3, <1>4, <1>5, <1>6, <1>7

\* A scrape starts with exact checkpoints.
LEMMA BeginIsExact ==
    ASSUME LedgerInv, WindowInv', BeginObservation
    PROVE  LedgerInv'
<1>1. /\ tenants' = tenants /\ listed' = listed /\ revision' = revision /\ observations' = observations
      /\ scrape' = [under_way |-> TRUE, revision |-> revision, drift |-> {},
                    checkpoints |-> [r \in listed |-> Checkpoint(r)]]
    BY DEF BeginObservation
<1>2. TenantsAreTyped' /\ \A r \in ScrapedRanks : DeltaIsExact(r)'
    BY <1>1 DEF LedgerInv, TenantsAreTyped, DeltaIsExact
<1>3. ScrapeShape'
    BY <1>1 DEF LedgerInv, WindowInv, ScrapeShape
<1>4. ASSUME NEW r \in listed, NEW c, c = Checkpoint(r)
      PROVE  CheckpointIsExact(r, c)'
  <2>1. r \in ScrapedRanks
      BY DEF LedgerInv, WindowInv
  <2>2. /\ c.ledger = observations[r].delta
        /\ c.programs \in Nat /\ c.reasoning \in Nat /\ c.acting \in Nat
        /\ c.programs = 0 => c.reasoning = 0
        /\ Used(tenants, r) = c.reasoning + c.acting
      BY <1>4, <2>1, CheckpointCounts
  <2>3. observations[r].delta \in Int
      BY <2>1 DEF LedgerInv, DeltaIsExact
  <2>4. observations[r].delta - c.ledger = Used(tenants, r) - (c.reasoning + c.acting)
      BY <2>2, <2>3
  <2> QED
      BY <1>1, <2>2, <2>3, <2>4 DEF CheckpointIsExact
<1>5. ScrapeIsExact'
  <2> SUFFICES ASSUME NEW r \in DOMAIN scrape'.checkpoints \cap listed'
               PROVE  CheckpointIsExact(r, scrape.checkpoints[r])'
      BY DEF ScrapeIsExact
  <2>1. r \in listed /\ scrape'.checkpoints[r] = Checkpoint(r)
      BY <1>1
  <2> QED
      BY <1>4, <2>1
<1> QED
    BY <1>2, <1>3, <1>5 DEF LedgerInv

\* An engine that runs the Programs that reason and holds their tokens is estimated to
\* hold the tokens of the Programs.
LEMMA TruthfulEstimate ==
    ASSUME NEW c, c.programs \in Nat, c.reasoning \in Nat, c.acting \in Nat,
           c.programs = 0 => c.reasoning = 0,
           NEW raw \in RawObservations, Truthful(c, raw)
    PROVE  EstimatedActive(c, raw) = c.reasoning + c.acting
<1>1. PICK running \in Nat, programs \in Nat, native \in NativeTokens \cup {Unknown} :
         running = raw.running /\ programs = c.programs /\ native = raw.native
  <2>1. Cardinality(Tenants) \in Nat
      BY WindowAssumption, FS_CardinalityType
  <2> QED
      BY <2>1 DEF RawObservations
<1>2. CASE running > 0
  <2>1. running >= programs /\ native = c.reasoning
      BY <1>1, <1>2 DEF Truthful
  <2>2. Max({programs, running}) = running
      BY <1>1, <2>1, MaxOfTwo
  <2>3. EstimatedReasoning(c, raw) = (native * running) \div running
      BY <1>1, <1>2, <2>2 DEF EstimatedReasoning
  <2>4. (native * running) \div running = native
      BY <1>1, <1>2, <2>1, ScaledBack
  <2> QED
      BY <2>1, <2>3, <2>4 DEF EstimatedActive
<1>3. CASE running = 0
  <2>1. EstimatedReasoning(c, raw) = c.reasoning
      BY <1>1, <1>3 DEF EstimatedReasoning, Truthful
  <2> QED
      BY <2>1 DEF EstimatedActive
<1> QED
    BY <1>1, <1>2, <1>3

\* What is installed is exact: the delta is rebased to the checkpoint of the scrape.
LEMMA ApplyIsExact ==
    ASSUME LedgerInv, WindowInv', NEW scraped \in SUBSET ScrapedRanks,
           NEW raws \in [scraped -> RawObservations], ApplyObservations(raws)
    PROVE  LedgerInv'
<1>1. /\ scrape.under_way /\ tenants' = tenants /\ listed' = listed /\ revision' = revision /\ scrape' = NoScrape
      /\ observations' = [r \in ScrapedRanks |-> IF r \in DOMAIN raws /\ Applies(r) THEN Installed(r, raws[r])
                                                 ELSE observations[r]]
    BY DEF ApplyObservations
<1>2. TenantsAreTyped' /\ ScrapeShape' /\ ScrapeIsExact'
    BY <1>1 DEF LedgerInv, TenantsAreTyped, ScrapeShape, ScrapeIsExact, NoScrape
<1>3. ASSUME NEW r \in ScrapedRanks
      PROVE  DeltaIsExact(r)'
  <2>1. DeltaIsExact(r) /\ Used(tenants', r) = Used(tenants, r)
      BY <1>1 DEF LedgerInv
  <2>2. CASE ~(r \in DOMAIN raws /\ Applies(r))
    <3>1. observations'[r] = observations[r]
        BY <1>1, <2>2
    <3> QED
        BY <2>1, <3>1 DEF DeltaIsExact
  <2>3. CASE r \in DOMAIN raws /\ Applies(r)
    <3>1. PICK c, raw : c = scrape.checkpoints[r] /\ raw = raws[r]
        OBVIOUS
    <3>2. raw \in RawObservations
        BY <2>3, <3>1
    <3>3. CheckpointIsExact(r, c)
        BY <1>1, <2>3, <3>1 DEF LedgerInv, ScrapeIsExact, Applies
    <3>4. /\ observations'[r].delta = observations[r].delta - c.ledger
          /\ observations'[r].base = c.reasoning + c.acting
          /\ ~observations'[r].drift => r \notin scrape.drift
          /\ observations'[r].truthful => /\ Truthful(c, raw)
                                          /\ observations'[r].estimate = EstimatedActive(c, raw)
      <4>1. observations'[r] = Installed(r, raw)
          BY <1>1, <2>3, <3>1
      <4>2. Truthful(c, raw) => raw.native # Unknown
          BY DEF Truthful
      <4>3. /\ Installed(r, raw).delta = observations[r].delta - c.ledger
            /\ Installed(r, raw).base = c.reasoning + c.acting
            /\ Installed(r, raw).estimate = IF raw.native = Unknown THEN Unknown ELSE EstimatedActive(c, raw)
          BY <3>1, ZenonT(60) DEF Installed, Rebase
      <4>4. Installed(r, raw).truthful = Truthful(c, raw)
          BY <3>1, ZenonT(60) DEF Installed
      <4>5. Installed(r, raw).drift = (r \in scrape.drift)
          BY ZenonT(60) DEF Installed
      <4> QED
          BY <4>1, <4>2, <4>3, <4>4, <4>5, ZenonT(60)
    <3>5. observations'[r].truthful => observations'[r].estimate = observations'[r].base
        BY <3>2, <3>3, <3>4, TruthfulEstimate DEF CheckpointIsExact
    <3>6. observations'[r].delta \in Int /\ observations'[r].base \in Nat
        BY <2>1, <3>3, <3>4 DEF CheckpointIsExact, DeltaIsExact
    <3>7. ~observations'[r].drift => observations'[r].delta = Used(tenants', r) - observations'[r].base
        BY <2>1, <3>3, <3>4 DEF CheckpointIsExact
    <3> QED
        BY <3>5, <3>6, <3>7 DEF DeltaIsExact
  <2> QED
      BY <2>2, <2>3
<1> QED
    BY <1>2, <1>3 DEF LedgerInv

\* Every step keeps the invariant.
LEMMA LedgerStep ==
    ASSUME LedgerInv, [WindowNext]_windowVars
    PROVE  LedgerInv'
<1>1. WindowInv'
    BY WindowStep DEF LedgerInv
<1>2. ASSUME NEW p \in Tenants, PauseTenant(p) \/ ReleaseTenant(p)
      PROVE  LedgerInv'
  <2>1. ReleaseTenant(p) => tenants[p].on # NoRank
      BY DEF LedgerInv, TenantsAreTyped, ReleaseTenant
  <2> QED
      BY <1>1, <1>2, <2>1, UnplacingIsAccounted DEF PauseTenant, ReleaseTenant
<1>3. CASE UNCHANGED windowVars
  <2>1. /\ tenants' = tenants /\ listed' = listed /\ observations' = observations
        /\ revision' = revision /\ scrape' = scrape
      BY <1>3 DEF windowVars
  <2> QED
      BY <1>1, <2>1 DEF LedgerInv, TenantsAreTyped, ScrapeShape, ScrapeIsExact, DeltaIsExact, CheckpointIsExact
<1> QED
    BY <1>1, <1>2, <1>3, CommitIsAccounted, ArriveIsAccounted, MarkIsAccounted, CompleteIsAccounted,
       SyncIsAccounted, BeginIsExact, ApplyIsExact, AgingKeeps
       DEF WindowNext

\* What the invariant says of the usage of a rank.
LEMMA LedgerIsUsage ==
    ASSUME LedgerInv
    PROVE  ObservationsAreSound
<1>1. ASSUME NEW r \in listed
      PROVE  /\ TokensOfTenants(ActiveTenants(r)) = Used(tenants, r) /\ Used(tenants, r) \in Nat
             /\ DeltaIsExact(r) /\ r \in ScrapedRanks
  <2>1. TokensOfTenants(ActiveTenants(r)) = Used(tenants, r)
    <3>1. ActiveTenants(r) = On(tenants, r)
        BY DEF ActiveTenants, On
    <3>2. TokensOfTenants(ActiveTenants(r)) = TokensOfTenants(On(tenants, r))
        BY <3>1, ZenonT(60)
    <3> QED
        BY <3>2, ZenonT(60) DEF TokensOfTenants, Used, Units
  <2>2. \A q \in Tenants : tenants[q].tokens \in Nat
      BY DEF LedgerInv, TenantsAreTyped, TenantType
  <2>3. Used(tenants, r) \in Nat
      BY <2>2, UsedIsCounted
  <2> QED
      BY <2>1, <2>3 DEF LedgerInv, WindowInv
<1>2. UsageFollowsLedger
    BY <1>1 DEF UsageFollowsLedger, UsageOf, DeltaIsExact
<1>3. ASSUME NEW r \in listed, observations[r].truthful, ~observations[r].drift
      PROVE  UsageOf(r) = TokensOfTenants(ActiveTenants(r))
  <2>1. CASE observations[r].estimate = Unknown
      BY <2>1 DEF UsageOf
  <2>2. CASE observations[r].estimate # Unknown
    <3>1. observations[r].estimate + observations[r].delta = Used(tenants, r)
        BY <1>1, <1>3 DEF DeltaIsExact
    <3>2. Max({Used(tenants, r), 0}) = Used(tenants, r)
        BY <1>1, MaxOfTwo
    <3> QED
        BY <1>1, <2>2, <3>1, <3>2 DEF UsageOf
  <2> QED
      BY <2>1, <2>2
<1>4. ScrapesStayWithTheirRanks
    BY DEF LedgerInv, WindowInv, ScrapesStayWithTheirRanks
<1> QED
    BY <1>2, <1>3, <1>4 DEF ObservationsAreSound, AgreeingScrapesAreNeutral

(***************************************************************************)
(* What the scheduler believes of the usage of a rank is what its last     *)
(* scrape estimated and what was accounted since that scrape began, also   *)
(* when Programs were admitted, completed, paused or released while it was *)
(* under way (apply_observations rebases the delta instead of clearing     *)
(* it), and it is exactly the tokens of the Programs on the rank when the  *)
(* engine agreed with the router: for any number of Programs, ranks,       *)
(* tokens and changes of the target set.                                   *)
(***************************************************************************)
THEOREM ObservationsStaySound == WindowSpec => []ObservationsAreSound
<1>1. WindowInit => LedgerInv
  <2> SUFFICES ASSUME WindowInit PROVE LedgerInv
      OBVIOUS
  <2>1. WindowInv
    <3>1. IsObservation(NewObservation(0)) /\ NewObservation(0).added = 0 /\ NewObservation(0).outdated = FALSE
        BY DEF NewObservation, IsObservation, ObservationFields
    <3> QED
        BY <3>1 DEF WindowInit, WindowInv
  <2>2. TenantsAreTyped /\ ScrapeShape /\ ScrapeIsExact
      BY DEF WindowInit, TenantsAreTyped, TenantType, Unplaced, ScrapeShape, ScrapeIsExact, NoScrape
  <2>3. ASSUME NEW r \in ScrapedRanks PROVE DeltaIsExact(r)
    <3>1. \A q \in Tenants : tenants[q].on # r
        BY WindowAssumption DEF WindowInit, Unplaced
    <3>2. Used(tenants, r) = 0
        BY <3>1, NobodyOnRank
    <3>3. observations[r] = NewObservation(0)
        BY DEF WindowInit
    <3> QED
        BY <3>2, <3>3 DEF DeltaIsExact, NewObservation
  <2> QED
      BY <2>1, <2>2, <2>3 DEF LedgerInv
<1>2. LedgerInv /\ [WindowNext]_windowVars => LedgerInv'
    BY LedgerStep
<1>3. LedgerInv => ObservationsAreSound
    BY LedgerIsUsage
<1> QED
    BY <1>1, <1>2, <1>3, PTL DEF WindowSpec
=============================================================================
