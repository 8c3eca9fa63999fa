------------------------------- MODULE Bindings -------------------------------
(***************************************************************************)
(* The first rank of a Program (program_scheduling/binding/mod.rs): the    *)
(* table of bindings, and the five strategies that fill it.  With it, what *)
(* a strategy and the scheduler's capacity checks are given: the metrics   *)
(* of each engine (observations.rs).                                       *)
(*                                                                         *)
(* Ranks are numbers in the order of their identifiers.  Each strategy     *)
(* takes the candidates, a function from live ranks to their loads.        *)
(***************************************************************************)
EXTENDS Parts, Naturals, FiniteSets, FiniteSetsExt, Functions

CONSTANTS
    Agents,      \* the Programs that are bound
    Ranks,       \* the ranks, numbered in the order of their identifiers
    Spots        \* where virtual nodes and keys may lie on the ring

VARIABLES
    strategy,    \* ProgramBindingStrategy, fixed
    place,       \* where the virtual nodes of a rank lie, fixed
    bound,       \* bindings
    turn,        \* next_by_model, modulo the lengths it is divided by
    cached,      \* rings: the ranks the ring was last built for
    live         \* the ranks of the pool

bindingVars == <<strategy, place, bound, turn, cached, live>>

Unbound == 0
Strategies == {"consistent_hash", "round_robin", "least_programs",
               "token_balance", "cache_aware"}

\* ProgramBindingCandidate: loads as a strategy sees them.
Loads == [programs : {0}, tokens : 0 .. 2, admissible : BOOLEAN, affinity : 0 .. 1]
Light == [programs |-> 0, tokens |-> 0, admissible |-> TRUE, affinity |-> 0]
Heavy == [programs |-> 1, tokens |-> 1, admissible |-> FALSE, affinity |-> 1]
Spare == 2      \* the capacity of a rank, in tokens, and more than any count

\* Mutant: the ring is kept while the number of ranks is the same.
KeepRingOfSize(ranks, S) == IF Cardinality(ranks) = Cardinality(S) THEN ranks ELSE S

\* ring: built again when the list of ranks is another one.
RingFor(ranks, S) == IF ranks = S THEN ranks ELSE S

\* The rank of the next virtual node, or of the first; a later rank
\* replaces an earlier one at the same spot.
SelectHash(ranks, key) ==
    LET spots == UNION {place[r] : r \in ranks}
        after == {p \in spots : p >= key}
        spot  == IF after = {} THEN Min(spots) ELSE Min(after)
    IN  Max({r \in ranks : spot \in place[r]})

SelectTurn(S, n) == CHOOSE r \in S : Cardinality({q \in S : q < r}) = n % Cardinality(S)

\* The first in the order: no other rank is better, or as good and earlier.
Preferred(S, Worth(_)) ==
    CHOOSE r \in S : \A q \in S \ {r} : Worth(q) < Worth(r) \/ (Worth(q) = Worth(r) /\ r < q)

SelectLeastPrograms(c) == Preferred(DOMAIN c, LAMBDA r : Spare - c[r].programs)

SelectTokenBalance(c) == Preferred(DOMAIN c, LAMBDA r : Spare - c[r].tokens)

Headroom(c, r) == Spare - c[r].tokens

\* evaluate_initial_placement: by (1 + affinity) * headroom, then by headroom,
\* then by affinity.
Affine(c, r) ==
    100 * (1 + c[r].affinity) * Headroom(c, r) + 10 * Headroom(c, r) + c[r].affinity

\* The preferred of these ranks.
SelectAffine(c) == Preferred(DOMAIN c, LAMBDA r : Affine(c, r))

\* CacheAwareBinding: among the ranks that would admit at once, if any.
SelectCacheAware(c) ==
    LET eligible == {r \in DOMAIN c : c[r].admissible}
    IN  SelectAffine(IF eligible = {} THEN c ELSE Restrict(c, eligible))

Select(c, key, ranks, n) ==
    CASE strategy = "consistent_hash" -> SelectHash(ranks, key)
      [] strategy = "round_robin"     -> SelectTurn(DOMAIN c, n)
      [] strategy = "least_programs"  -> SelectLeastPrograms(c)
      [] strategy = "token_balance"   -> SelectTokenBalance(c)
      [] strategy = "cache_aware"     -> SelectCacheAware(c)
-----------------------------------------------------------------------------
Turns == 6      \* the least common multiple of the numbers of ranks

BindingInit ==
    /\ strategy \in Strategies
    /\ place \in [Ranks -> {S \in SUBSET Spots : Cardinality(S) = 1}]
    /\ bound = [a \in Agents |-> Unbound]
    /\ turn = 0
    /\ cached = {}
    /\ live \in SUBSET Ranks

FrozenBindings ==
    /\ strategy = "round_robin"
    /\ place = [r \in Ranks |-> {}]
    /\ bound = [a \in Agents |-> Unbound]
    /\ turn = 0
    /\ cached = {}
    /\ live = {}

\* Every agent's key lies where its number says.
KeyOf(a) == a

\* bind: an existing binding to a live rank is kept.
Bind(a, c) ==
    /\ bound[a] \notin live
    /\ live # {}
    /\ cached' = IF strategy = "consistent_hash" THEN RingFor(cached, live) ELSE cached
    /\ turn' = IF strategy = "round_robin" THEN (turn + 1) % Turns ELSE turn
    /\ bound' = [bound EXCEPT ![a] = Select(c, KeyOf(a), cached', turn)]
    /\ UNCHANGED <<strategy, place, live>>

\* release and release_program
Release(a) ==
    /\ bound[a] # Unbound
    /\ bound' = [bound EXCEPT ![a] = Unbound]
    /\ UNCHANGED <<strategy, place, turn, cached, live>>

\* Discovery adds a rank, or remove_target takes one away with its bindings.
ChangeRanks(S) ==
    /\ S # live
    /\ live' = S
    /\ bound' = [a \in Agents |-> IF bound[a] \in live \ S THEN Unbound ELSE bound[a]]
    /\ UNCHANGED <<strategy, place, turn, cached>>

BindingNext ==
    \/ \E a \in Agents : \E c \in [live -> {Light, Heavy}] : Bind(a, c)
    \/ \E a \in Agents : Release(a)
    \/ \E S \in SUBSET Ranks : ChangeRanks(S)
-----------------------------------------------------------------------------
(* Metrics of the engines (observations.rs).                               *)

Missing == [known |-> FALSE, value |-> 0]
Value(n) == [known |-> TRUE, value |-> n]
Series == {"kv_cache_usage_perc", "num_requests_running", "num_requests_waiting"}

\* A line of a scrape; the engine is the label's number, or 0 for a label
\* that is missing or not a number (parse_series, parse_labels).
Lines == [name : Series \cup {"other"}, engine : 0 .. 1, value : {Missing, Value(1), Value(2)}]
NoMetrics == [name \in Series |-> Missing]

\* parse_vllm_metrics: any series makes the engine known; a value that does
\* not parse is none.
ReadLine(engines, line) ==
    LET before == IF line.engine \in DOMAIN engines THEN engines[line.engine] ELSE NoMetrics
        after  == IF line.name \in Series THEN [before EXCEPT ![line.name] = line.value] ELSE before
    IN  (line.engine :> after) @@ engines

ParseMetrics(text) == FoldLeft(ReadLine, [e \in {} |-> NoMetrics], text)

\* observations_from_metrics: the engine of a rank, of a plain worker 0.
FromMetrics(targets, text) ==
    LET parsed == ParseMetrics(text)
        Engine(t) == IF t.rank.known THEN t.rank.value ELSE 0
    IN  {[target |-> t, metrics |-> parsed[Engine(t)]] : t \in {u \in targets : Engine(u) \in DOMAIN parsed}}

\* observe: one scrape for each base URL; a failed one yields nothing.
ObserveRanks(targets, scrapes) ==
    UNION {FromMetrics({t \in targets : t.url = u}, scrapes[u].text) :
              u \in {v \in DOMAIN scrapes : scrapes[v].ok}}

RankTargets == {[url |-> "u", rank |-> Missing], [url |-> "u", rank |-> Value(1)],
                [url |-> "v", rank |-> Value(0)]}
ObservedInputs ==
    [of : {"observe"}, targets : {RankTargets},
     scrapes : [{"u", "v"} -> [ok : BOOLEAN, text : {<<l>> : l \in Lines}]]]
    \cup
    [of : {"observe"}, targets : {RankTargets},
     scrapes : {[u \in {"u"} |-> [ok |-> TRUE, text |-> <<l, m, n>>]] : l, m, n \in
                   {x \in Lines : x.name \in {"other", "num_requests_waiting"} /\ x.value # Value(2)}}]
CandidateInputs == [of : {"candidates"}, loads : [1 .. 3 -> Loads]]

BindingInput == \/ input \in ObservedInputs \/ input \in CandidateInputs
-----------------------------------------------------------------------------
(***************************************************************************)
(* A binding changes only when its rank has left or it was released, and a *)
(* new one is to a rank of the pool, however often the pool changed since  *)
(* the ring was built; with consistent hashing it is the rank any router   *)
(* with this pool would choose, whatever the history (ProgramBindings::bind*)
(* and the ring cache of ConsistentHashBinding).                           *)
(***************************************************************************)
HomesAreKept ==
    [][\A a \in Agents : bound'[a] # bound[a] /\ bound'[a] # Unbound =>
          /\ bound[a] \notin live
          /\ bound'[a] \in live
          /\ strategy = "consistent_hash" => bound'[a] = SelectHash(live, KeyOf(a))]_bindingVars

(***************************************************************************)
(* Under the cache-aware strategy no rank that would admit the Program at  *)
(* once is passed over for one that would not, nor for one with no more    *)
(* room and no more of the text (CacheAwareBinding::select with            *)
(* evaluate_initial_placement).                                            *)
(***************************************************************************)
RoomComesFirst ==
    input.of = "candidates" =>
        LET c == input.loads
            r == SelectCacheAware(c)
        IN  \A q \in DOMAIN c \ {r} :
               /\ c[q].admissible => c[r].admissible
               /\ c[q].admissible = c[r].admissible =>
                     \/ Headroom(c, q) < Headroom(c, r)
                     \/ c[q].affinity < c[r].affinity
                     \/ Headroom(c, q) = Headroom(c, r) /\ c[q].affinity = c[r].affinity

(***************************************************************************)
(* Each rank is given what the last line about its own engine says, never  *)
(* another engine's numbers, and a failed scrape of one worker takes no    *)
(* observation from the ranks of another (observe).                        *)
(***************************************************************************)
RanksSeeTheirEngine ==
    input.of = "observe" =>
        LET seen == ObserveRanks(input.targets, input.scrapes)
            About(t, text) == SelectSeq(text, LAMBDA l : l.engine = IF t.rank.known THEN t.rank.value ELSE 0)
        IN  \A t \in input.targets :
               LET own == IF t.url \in DOMAIN input.scrapes /\ input.scrapes[t.url].ok
                          THEN About(t, input.scrapes[t.url].text) ELSE << >>
               IN  /\ (\E x \in seen : x.target = t) <=> own # << >>
                   /\ \A x \in seen : x.target = t => \A name \in Series :
                         LET lines == SelectSeq(own, LAMBDA l : l.name = name)
                         IN  x.metrics[name] = IF lines = << >> THEN Missing ELSE Last(lines).value

(***************************************************************************)
(* A Program stays bound to its rank while the rank is there, a first      *)
(* binding goes where there is room, and all ranks of an engine are judged *)
(* by what the engine holds.                                               *)
(***************************************************************************)
BindingsAreSound == [](RoomComesFirst /\ RanksSeeTheirEngine) /\ HomesAreKept
=============================================================================
