-------------------------- MODULE ObservationWindow --------------------------
(***************************************************************************)
(* How many tokens of a rank are in use, between one scrape of its engine  *)
(* and the next (program_scheduling/scheduler.rs): a scrape takes time, so *)
(* what the router admits and pauses meanwhile is kept as a delta and      *)
(* added to what the engine reported.  ProgramScheduler has the decisions  *)
(* that are taken on it, with a scrape in one step; here they are free and *)
(* the scrape is in two.                                                   *)
(***************************************************************************)
EXTENDS Integers, FiniteSets, FiniteSetsExt

CONSTANTS
    Tenants,        \* the Programs of one pool
    ScrapedRanks,
    NoRank,
    TokenCounts,    \* private_tokens of a Program
    NativeTokens,   \* kv_cache_usage * token_capacity of a scrape
    Unknown,        \* a series the engine does not report
    MaxSnapshots    \* bound: changes of the target set

ASSUME WindowAssumption ==
    /\ IsFiniteSet(Tenants) /\ NoRank \notin ScrapedRanks
    /\ TokenCounts \subseteq Nat /\ NativeTokens \subseteq Nat

VARIABLES
    tenants,        \* runtime and decision of every Program; of one that is placed on
                    \* no rank the tokens, which nothing accounts, are left open
    listed,         \* targets: the ranks of the pool
    observations,   \* RankObservationState of every rank
    revision,       \* target_snapshot_revision
    scrape          \* the scrape under way

windowVars == <<tenants, listed, observations, revision, scrape>>

NoScrape == [under_way |-> FALSE]

\* estimate and delta are those of the code; an estimate that is not fresh is Unknown.
\* The rest is there for the properties: what the router accounted when the scrape
\* began, when the rank was added and whether the scrape began earlier, whether the
\* engine reported what the router accounted, and whether the tokens of a Program
\* changed without the delta since.
NewObservation(now) ==
    [estimate |-> Unknown, delta |-> 0, base |-> 0, added |-> now, outdated |-> FALSE,
     truthful |-> FALSE, drift |-> FALSE]

Unplaced == [on |-> NoRank, status |-> "Reasoning", tokens |-> 0, marked |-> FALSE]

WindowInit ==
    /\ tenants = [p \in Tenants |-> Unplaced]
    /\ listed = ScrapedRanks /\ observations = [r \in ScrapedRanks |-> NewObservation(0)]
    /\ revision = 0 /\ scrape = NoScrape

ActiveTenants(r) == {p \in Tenants : tenants[p].on = r}
\* The sum of their tokens: how many there are of all of them.
TokensOfTenants(K) == Cardinality(UNION {{p} \X (1 .. tenants[p].tokens) : p \in K})
WithTenantStatus(K, status) == {p \in K : tenants[p].status = status}

AdjustUsageBy(r, tokens) == [observations EXCEPT ![r].delta = @ + tokens]

Drifting(all, r) == [all EXCEPT ![r].drift = TRUE]
DriftingScrape(r) == IF scrape.under_way THEN [scrape EXCEPT !.drift = @ \cup {r}] ELSE scrape

\* Bound: tokens of a rank change without its delta once between two scrapes.
MayDrift(r) == ~observations[r].drift
-----------------------------------------------------------------------------
\* commit_admission
CommitTenant(p, r, tokens) ==
    /\ tenants[p].on = NoRank /\ r \in listed
    /\ tenants' = [tenants EXCEPT ![p] = [on |-> r, status |-> "Reasoning", tokens |-> tokens, marked |-> FALSE]]
    /\ observations' = AdjustUsageBy(r, tokens)
    /\ UNCHANGED <<listed, revision, scrape>>

\* A request of a Program: its tokens may change, and with its hints also go down, but
\* only growth is accounted, and not that of a Program that is about to pause.
ArriveTenant(p, tokens) ==
    LET r == tenants[p].on
        counted == ~tenants[p].marked /\ tokens > tenants[p].tokens
        drifts == ~counted /\ tokens # tenants[p].tokens
    IN  /\ r # NoRank /\ (drifts => MayDrift(r))
        /\ tenants' = [tenants EXCEPT ![p].tokens = tokens, ![p].status = "Reasoning"]
        /\ observations' = IF counted THEN AdjustUsageBy(r, tokens - tenants[p].tokens)
                           ELSE IF drifts THEN Drifting(observations, r) ELSE observations
        /\ scrape' = IF drifts THEN DriftingScrape(r) ELSE scrape
        /\ UNCHANGED <<listed, revision>>

\* repair_capacity marks a Program that is reasoning.
MarkTenant(p) ==
    /\ tenants[p].on # NoRank /\ tenants[p].status = "Reasoning" /\ ~tenants[p].marked
    /\ tenants' = [tenants EXCEPT ![p].marked = TRUE]
    /\ UNCHANGED <<listed, observations, revision, scrape>>

\* complete: the last request leaves the Program acting or, when it is marked or the
\* request failed, paused, which gives back its tokens from before; else it goes on
\* reasoning, marked or not.  The tokens of a paused Program are left open.
CompleteTenant(p, tokens, next, marked) ==
    LET r == tenants[p].on
    IN  /\ r # NoRank /\ tenants[p].status = "Reasoning"
        /\ next = "Acting" => ~tenants[p].marked
        /\ next = "pause" => tokens = tenants[p].tokens
        /\ marked => next = "Reasoning" /\ tenants[p].marked
        /\ tenants' = [tenants EXCEPT ![p] =
                          IF next = "pause" THEN Unplaced
                          ELSE [on |-> r, status |-> next, tokens |-> tokens, marked |-> marked]]
        /\ observations' = IF next = "pause" THEN AdjustUsageBy(r, 0 - tenants[p].tokens)
                           ELSE AdjustUsageBy(r, tokens - tenants[p].tokens)
        /\ UNCHANGED <<listed, revision, scrape>>

\* pause_idle of a Program whose TTL ran out or whose rank is short of tokens, and
\* cancel_retained_request of the only request of an admitted one.
PauseTenant(p) ==
    /\ tenants[p].on # NoRank
    /\ tenants' = [tenants EXCEPT ![p] = Unplaced]
    /\ observations' = AdjustUsageBy(tenants[p].on, 0 - tenants[p].tokens)
    /\ UNCHANGED <<listed, revision, scrape>>

\* release_program of a Program that is still placed.
ReleaseTenant(p) ==
    /\ tenants[p].status = "Acting"
    /\ tenants' = [tenants EXCEPT ![p] = Unplaced]
    /\ observations' = AdjustUsageBy(tenants[p].on, 0 - tenants[p].tokens)
    /\ UNCHANGED <<listed, revision, scrape>>

\* sync_target_snapshot_locked: what was placed on a rank that is gone is placed nowhere.
SyncRanks(S) ==
    /\ S # listed /\ revision < MaxSnapshots
    /\ listed' = S /\ revision' = revision + 1
    /\ observations' = [r \in ScrapedRanks |-> IF r \in S \cap listed THEN observations[r] ELSE NewObservation(revision')]
    /\ tenants' = [p \in Tenants |-> IF tenants[p].on \in listed \ S THEN Unplaced ELSE tenants[p]]
    /\ UNCHANGED scrape
-----------------------------------------------------------------------------
\* ObservationCheckpoint
Checkpoint(r) ==
    LET reasoning == WithTenantStatus(ActiveTenants(r), "Reasoning")
        acting == WithTenantStatus(ActiveTenants(r), "Acting")
    IN  [ledger |-> observations[r].delta, programs |-> Cardinality(reasoning),
         reasoning |-> TokensOfTenants(reasoning), acting |-> TokensOfTenants(acting)]

BeginObservation ==
    /\ ~scrape.under_way
    /\ scrape' = [under_way |-> TRUE, revision |-> revision, drift |-> {},
                  checkpoints |-> [r \in listed |-> Checkpoint(r)]]
    /\ UNCHANGED <<tenants, listed, observations, revision>>

\* The tokens of the Programs that reason, from what the engine says it holds for the
\* requests it runs.
EstimatedReasoning(c, raw) ==
    IF raw.running > 0 THEN (raw.native * Max({c.programs, raw.running})) \div raw.running
    ELSE IF c.programs > 0 THEN c.reasoning ELSE raw.native

EstimatedActive(c, raw) == EstimatedReasoning(c, raw) + c.acting

\* Whether the engine runs the Programs that reason and holds their tokens.
Truthful(c, raw) ==
    /\ raw.native # Unknown
    /\ raw.running > 0 => raw.running >= c.programs /\ raw.native = c.reasoning
    /\ raw.running = 0 /\ c.programs = 0 => raw.native = 0

\* What was accounted since the scrape began.
Rebase(delta, checkpoint) == delta - checkpoint

Installed(r, raw) ==
    LET c == scrape.checkpoints[r]
    IN  [estimate |-> IF raw.native = Unknown THEN Unknown ELSE EstimatedActive(c, raw),
         delta |-> Rebase(observations[r].delta, c.ledger),
         base |-> c.reasoning + c.acting, added |-> observations[r].added,
         outdated |-> scrape.revision < observations[r].added,
         truthful |-> Truthful(c, raw), drift |-> r \in scrape.drift]

\* Mutant: the snapshot may have changed.
AppliesAlways(r) == r \in DOMAIN scrape.checkpoints /\ r \in listed

Applies(r) ==
    /\ scrape.revision = revision
    /\ r \in DOMAIN scrape.checkpoints /\ r \in listed

\* apply_observations; `raws` are of the ranks that were scraped without a failure.
ApplyObservations(raws) ==
    /\ scrape.under_way
    /\ observations' = [r \in ScrapedRanks |-> IF r \in DOMAIN raws /\ Applies(r) THEN Installed(r, raws[r])
                                        ELSE observations[r]]
    /\ scrape' = NoScrape
    /\ UNCHANGED <<tenants, listed, revision>>

\* observation_is_fresh: more than three intervals pass without a scrape.
ObservationAges(r) ==
    /\ r \in listed /\ observations[r].estimate # Unknown
    /\ observations' = [observations EXCEPT ![r].estimate = Unknown, ![r].truthful = FALSE]
    /\ UNCHANGED <<tenants, listed, revision, scrape>>

\* target_usage and observed_target_usage
UsageOf(r) ==
    IF observations[r].estimate # Unknown
    THEN Max({observations[r].estimate + observations[r].delta, 0})
    ELSE TokensOfTenants(ActiveTenants(r))

RawObservations == [native : NativeTokens \cup {Unknown}, running : 0 .. Cardinality(Tenants)]

WindowNext ==
    \/ \E p \in Tenants, r \in ScrapedRanks, tokens \in TokenCounts : CommitTenant(p, r, tokens)
    \/ \E p \in Tenants, tokens \in TokenCounts : ArriveTenant(p, tokens)
    \/ \E p \in Tenants : MarkTenant(p) \/ PauseTenant(p) \/ ReleaseTenant(p)
    \/ \E p \in Tenants, tokens \in TokenCounts, next \in {"Reasoning", "Acting", "pause"}, marked \in BOOLEAN :
          CompleteTenant(p, tokens, next, marked)
    \/ \E S \in SUBSET ScrapedRanks : SyncRanks(S)
    \/ BeginObservation
    \/ \E scraped \in SUBSET ScrapedRanks : \E raws \in [scraped -> RawObservations] : ApplyObservations(raws)
    \/ \E r \in ScrapedRanks : ObservationAges(r)

WindowSpec == WindowInit /\ [][WindowNext]_windowVars
-----------------------------------------------------------------------------
(***************************************************************************)
(* "preserve transitions committed during I/O": as long as every change of *)
(* a Program's tokens is accounted, the usage of a rank is what was        *)
(* estimated for the beginning of its last scrape plus what changed since, *)
(* whatever was admitted, completed, paused or released before, during and *)
(* after it.                                                               *)
(***************************************************************************)
UsageFollowsLedger ==
    \A r \in listed :
        LET o == observations[r]
            change == TokensOfTenants(ActiveTenants(r)) - o.base
        IN  o.estimate # Unknown /\ ~o.drift => UsageOf(r) = Max({o.estimate + change, 0})

(***************************************************************************)
(* Scraping changes nothing where engine and router agree: after a scrape  *)
(* that reports what the router accounts, the usage of a rank is the       *)
(* tokens of the Programs placed on it, as it is without an observation.   *)
(***************************************************************************)
AgreeingScrapesAreNeutral ==
    \A r \in listed :
        observations[r].truthful /\ ~observations[r].drift => UsageOf(r) = TokensOfTenants(ActiveTenants(r))

(***************************************************************************)
(* "Dropping backend observations collected against a stale target         *)
(* snapshot": what is known of a rank is from a scrape that began after    *)
(* the rank was last added.                                                *)
(***************************************************************************)
ScrapesStayWithTheirRanks ==
    \A r \in listed : ~observations[r].outdated

(***************************************************************************)
(* What the scheduler believes of a rank's usage follows from a scrape of  *)
(* that rank and the tokens accounted since.                               *)
(***************************************************************************)
ObservationsAreSound == UsageFollowsLedger /\ AgreeingScrapesAreNeutral /\ ScrapesStayWithTheirRanks
=============================================================================
