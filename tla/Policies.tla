------------------------------ MODULE Policies ------------------------------
(***************************************************************************)
(* The policies that keep no text: those that choose a worker by a hash,   *)
(* by two random loads or in turn (policies/consistent_hash.rs,            *)
(* rendezvous_hash.rs, hash_key.rs, power_of_two.rs, round_robin.rs), as   *)
(* functions of the worker list, the workers found healthy and the         *)
(* request.  fbi_hash is any function: the inputs range over what it may   *)
(* return.  The ring that consistent hashing keeps between calls, and the  *)
(* list it was built for, are behind two locks that callers take in turn.  *)
(*                                                                         *)
(* SMetric (policies/smetric.rs): the prefill worker by cache hit, queued  *)
(* work and the time-to-first-token budget; the rate it learns; and the    *)
(* hits the event cache gives it for a text (kv_index/cache.rs).  Numbers  *)
(* that are floating-point in the code are small integers here.            *)
(***************************************************************************)
EXTENDS Parts, Integers, Sequences, SequencesExt, FiniteSets, FiniteSetsExt, Functions

CONSTANTS
    HashWorkers,     \* the workers, in the order of the registry
    Points,          \* values of fbi_hash
    RingLists,       \* the worker lists that callers may have
    RingCallers,     \* threads that select by the ring
    CounterWidth,    \* bits of the round-robin counter
    PrefillWorkers,  \* the prefill workers in the registry's order
    RateWindow,      \* RATE_WINDOW
    RateMinSamples   \* RATE_MIN_SAMPLES

Listed(S) == SelectSeq(HashWorkers, LAMBDA w : w \in S)
WorkerSet == ToSet(HashWorkers)

\* get_healthy_worker_indices
HealthyOf(list, healthy) == SelectSeq(list, LAMBDA w : w \in healthy)
-----------------------------------------------------------------------------
(* Consistent hashing.                                                     *)

\* update_hash_ring: a virtual node that falls on another replaces it.
Ring(list, place) ==
    [p \in UNION {place[w] : w \in ToSet(list)} |->
        Last(SelectSeq(list, LAMBDA w : p \in place[w]))]

\* find_worker_by_hash: the next virtual node, or the first one.
FindWorker(ring, at) ==
    LET after == {p \in DOMAIN ring : p >= at}
    IN  ring[IF after = {} THEN Min(DOMAIN ring) ELSE Min(after)]

\* The ring was built for the list ringOf, the caller has another list perhaps.
\* A target that is not in it or not healthy is replaced by the first worker
\* that is.
SelectByRing(ringOf, list, healthy, place, at) ==
    LET target == FindWorker(Ring(ringOf, place), at)
    IN  IF target \in ToSet(list) \cap healthy THEN target ELSE Head(HealthyOf(list, healthy))
-----------------------------------------------------------------------------
(* update_hash_ring and find_worker_by_hash, one step per lock.            *)

VARIABLES
    listed,            \* the worker list of the registry
    ring_of,           \* the list that hash_ring was built for
    current_workers,   \* the list that is compared with
    callers,           \* callers of select_worker_with_headers
    mixed              \* ghost: the last two updates overlapped

ringVars == <<listed, ring_of, current_workers, callers, mixed>>

NotCalling == [at |-> "idle", list |-> <<>>, sure |-> TRUE]

RingInit ==
    /\ listed \in RingLists /\ ring_of = <<>> /\ current_workers = <<>>
    /\ callers = [u \in RingCallers |-> NotCalling] /\ mixed = FALSE

\* Workers come and go.
ChangeList == listed' \in RingLists \ {listed} /\ UNCHANGED <<ring_of, current_workers, callers, mixed>>

CallRing(u) ==
    /\ callers[u].at = "idle"
    /\ callers' = [callers EXCEPT ![u] = [at |-> "compare", list |-> listed, sure |-> TRUE]]
    /\ UNCHANGED <<listed, ring_of, current_workers, mixed>>

CompareList(u) ==
    /\ callers[u].at = "compare"
    /\ callers' = [callers EXCEPT ![u].at = IF current_workers = callers[u].list THEN "find" ELSE "build", ![u].sure = TRUE]
    /\ UNCHANGED <<listed, ring_of, current_workers, mixed>>

\* What one caller writes is a disturbance of the others (a ghost).
Goes(u, at) ==
    callers' = [v \in RingCallers |->
                   IF v = u THEN [callers[u] EXCEPT !.at = at, !.sure = @ \/ at = "note"]
                   ELSE [callers[v] EXCEPT !.sure = FALSE]]

WriteRing(u) ==
    /\ callers[u].at = "build"
    /\ ring_of' = callers[u].list /\ Goes(u, "note")
    /\ UNCHANGED <<listed, current_workers, mixed>>

WriteCurrent(u) ==
    /\ callers[u].at = "note"
    /\ current_workers' = callers[u].list /\ Goes(u, "find")
    /\ mixed' = ~callers[u].sure
    /\ UNCHANGED <<listed, ring_of>>

\* The ring is read as it is by now.
FindByRing(u) ==
    /\ callers[u].at = "find"
    /\ callers' = [callers EXCEPT ![u] = NotCalling]
    /\ UNCHANGED <<listed, ring_of, current_workers, mixed>>

RingNext ==
    \/ ChangeList
    \/ \E u \in RingCallers : CallRing(u) \/ CompareList(u) \/ WriteRing(u) \/ WriteCurrent(u) \/ FindByRing(u)
-----------------------------------------------------------------------------
(* Rendezvous hashing.                                                     *)

\* Mutant: the score is that of a position, not of a URL.
RendezvousByIndex(list, healthy, score) ==
    LET live == HealthyOf(list, healthy)
    IN  live[CHOOSE i \in DOMAIN live : \A j \in DOMAIN live :
                score[HashWorkers[j]] < score[HashWorkers[i]] \/ (score[HashWorkers[j]] = score[HashWorkers[i]] /\ j <= i)]

\* max_by_key: the last of the healthy workers with the highest score.
SelectByRendezvous(list, healthy, score) ==
    LET live == HealthyOf(list, healthy)
    IN  live[CHOOSE i \in DOMAIN live : \A j \in DOMAIN live :
                score[live[j]] < score[live[i]] \/ (score[live[j]] = score[live[i]] /\ j <= i)]
-----------------------------------------------------------------------------
(* Two choices, and turns.                                                 *)

\* get_worker_load: the load the monitor reported, or the router's count.
LoadSeen(w, reported, counted) == IF w \in DOMAIN reported THEN reported[w] ELSE counted[w]

\* Two different healthy workers, the less loaded one of them.
SelectOfTwo(list, healthy, reported, counted) ==
    LET live == HealthyOf(list, healthy)
        load(i) == LoadSeen(live[i], reported, counted)
    IN  IF Len(live) = 1 THEN {live[1]}
        ELSE {live[IF load(ij[1]) <= load(ij[2]) THEN ij[1] ELSE ij[2]] :
                 ij \in {x \in (DOMAIN live) \X (DOMAIN live) : x[1] # x[2]}}

\* The counter wraps around at its width.
SelectInTurn(list, healthy, count) ==
    LET live == HealthyOf(list, healthy) IN live[((count % (2 ^ CounterWidth)) % Len(live)) + 1]
-----------------------------------------------------------------------------
(* The hash key of a request.  A body is a sequence of tokens: quoted      *)
(* strings, and bare punctuation.                                          *)

Quoted(s) == <<"quoted", s>>
Bare(s) == <<"bare", s>>
NoKey == <<>>
SESSION_HEADER_NAMES == <<"x-session-id", "x-user-id", "x-tenant-id", "x-correlation-id", "x-request-id", "x-trace-id">>

\* The name as a part of longer ones, and in a text that says "name: value".
Says(field, value) == <<"says", field, value>>
Mentions(token, field) ==
    \/ token[2] = field
    \/ token[1] = "quoted" /\ field = "user" /\ token[2] = "user_id"
\* The tokens from the first place of those given.
TokensFrom(body, places) == SubSeq(body, Min(places \cup {Len(body) + 1}), Len(body))
TokensOnward(body, token) == TokensFrom(body, {i \in DOMAIN body : body[i] = token})
AfterColon(rest) == IF Len(rest) > 1 /\ rest[2] = Bare(":") THEN SubSeq(rest, 3, Len(rest)) ELSE <<>>

\* find_field_start: what follows the first quoted name, if a colon does.
FieldStart(body, field) == AfterColon(TokensOnward(body, Quoted(field)))

\* extract_field_value: the value after the first quoted name; else after the
\* first place of all that has the name, if a colon follows there.
ValueAt(rest) == IF rest = <<>> THEN NoKey ELSE <<rest[1][2]>>
SaidAt(rest) == IF rest # <<>> /\ rest[1][1] = "says" THEN <<rest[1][3]>> ELSE NoKey
FirstKey(keys) == IF keys = <<>> THEN NoKey ELSE <<keys[1]>>
ExtractField(body, field) ==
    FirstKey(ValueAt(FieldStart(body, field)) \o SaidAt(TokensFrom(body, {i \in DOMAIN body : Mentions(body[i], field)})))

\* extract_nested_field_value: in the object that opens after the parent's name,
\* as far as its closing brace.
BracedObject(rest) ==
    LET some(c, i) == Cardinality({j \in 1 .. i : rest[j] = Bare(c)})
        ends == {i \in DOMAIN rest : some("{", i) = some("}", i)}
    IN  IF ends = {} THEN <<>> ELSE SubSeq(rest, 1, Min(ends))
ExtractNested(body, parent, child) ==
    ExtractField(BracedObject(TokensOnward(FieldStart(body, parent), Bare("{"))), child)

\* extract_hash_key_from_body: the keys it finds, in the order of their priority.
KeysOfBody(body) ==
    SelectSeq(<<<<"session", ExtractNested(body, "session_params", "session_id")>>,
                <<"user", ExtractField(body, "user")>>,
                <<"session", ExtractField(body, "session_id")>>,
                <<"user", ExtractField(body, "user_id")>>>>,
              LAMBDA key : key[2] # NoKey)
KeysOfHeaders(headers) ==
    SelectSeq([i \in DOMAIN SESSION_HEADER_NAMES |->
                  LET h == SESSION_HEADER_NAMES[i] IN <<"header", h, IF h \in DOMAIN headers THEN headers[h] ELSE "">>],
              LAMBDA key : key[3] # "")

\* extract_hash_key: a header, else a field, else the body itself.
HashKey(headers, body) == Head(KeysOfHeaders(headers) \o KeysOfBody(body) \o <<<<"request", body>>>>)
-----------------------------------------------------------------------------
(* Inputs.                                                                 *)

Fields == {"session_params", "user", "session_id", "user_id"}
\* Each field has its own value.
ValueOf == [session_params |-> "s1", user |-> "u1", session_id |-> "s2", user_id |-> "u2"]
Message(text) ==
    <<Bare("{"), Quoted("role"), Bare(":"), Quoted("user"), Bare(","), Quoted("content"), Bare(":"), Quoted(text), Bare("}")>>
\* The messages of a chat at its n-th turn, or a prompt that quotes a dialogue.
FieldTokens(f, n) ==
    <<Quoted(f), Bare(":")>> \o
    CASE f = "session_params" -> <<Bare("{"), Quoted("session_id"), Bare(":"), Quoted(ValueOf[f]), Bare("}")>>
      [] f = "messages" -> <<Bare("[")>> \o FlattenSeq([i \in 1 .. n |-> Message(<<"t1", "t2">>[i])]) \o <<Bare("]")>>
      [] f = "prompt" -> <<Says("user", <<"ann", "bob">>[n])>>
      [] OTHER -> <<Quoted(ValueOf[f])>>
\* A body with the fields in the given order.
BodyOf(fs, n) == <<Bare("{")>> \o FlattenSeq([i \in DOMAIN fs |-> FieldTokens(fs[i], n)]) \o <<Bare("}")>>

HashInputs ==
    [of : {"hash"}, place : [WorkerSet -> kSubset(2, Points)], at : Points, lost : SUBSET WorkerSet]
LoadInputs ==
    [of : {"load"}, counted : [WorkerSet -> 0 .. 2], reported : {<<>>} \cup [WorkerSet -> 0 .. 1], lost : SUBSET WorkerSet,
     count : 0 .. 2 ^ (CounterWidth + 1)]
KeyInputs ==
    [of : {"key"}, headers : UNION {[S -> {"", "v"}] : S \in SUBSET {"x-user-id", "x-request-id"}},
     fields : UNION {SetToSeqs(S \cup extra) : S \in SUBSET Fields, extra \in {{}, {"messages"}, {"prompt"}}}]
PolicyInput == \/ input \in HashInputs \/ input \in LoadInputs \/ input \in KeyInputs

Live == WorkerSet \ input.lost
-----------------------------------------------------------------------------
\* "the same session always maps to the same worker ... minimal
\* redistribution": whichever workers leave the list, whichever of the rest are
\* found unhealthy, and whichever list the ring was built for, the request goes
\* to a healthy worker of its own list, and a key whose worker is still there
\* and on the ring keeps it.
OnlyKeysOfLostWorkersMove ==
    input.of = "hash" /\ input.lost # WorkerSet =>
        LET score == [w \in WorkerSet |-> Max(input.place[w])]
            byRing == FindWorker(Ring(HashWorkers, input.place), input.at)
            byScore == SelectByRendezvous(HashWorkers, WorkerSet, score)
        IN  \A gone \in SUBSET input.lost :
                LET list == Listed(WorkerSet \ gone)
                IN  /\ \A on \in SUBSET WorkerSet \ {{}} :
                           LET chosen == SelectByRing(Listed(on), list, Live, input.place, input.at)
                           IN  chosen \in Live /\ (byRing \in Live \cap on => chosen = byRing)
                    /\ byScore \in Live => SelectByRendezvous(list, Live, score) = byScore

\* The ring is always that of one whole list.  It is that of current_workers,
\* except between the two writes of a caller and after updates that overlapped
\* until the next one that nobody disturbs; so a caller that nobody disturbed
\* uses the ring of its own list.
RingFollowsList ==
    LET writing == \E u \in RingCallers : callers[u].at = "note"
    IN  mixed \/ writing \/
            /\ ring_of = current_workers
            /\ \A u \in RingCallers : callers[u].at = "find" /\ callers[u].sure => ring_of = callers[u].list

\* Of two or more healthy workers, the one with more load than any other is
\* never chosen.
MostLoadedIsSpared ==
    input.of = "load" /\ Cardinality(Live) > 1 =>
        \A w \in SelectOfTwo(HashWorkers, Live, input.reported, input.counted) :
            \E v \in Live \ {w} : LoadSeen(w, input.reported, input.counted) <= LoadSeen(v, input.reported, input.counted)

\* As many consecutive requests as there are healthy workers visit each of
\* them once, except where the counter wraps around.
TurnsVisitAll ==
    input.of = "load" /\ Live # {} =>
        LET n == Cardinality(Live)
            turns == {SelectInTurn(HashWorkers, Live, input.count + k) : k \in 0 .. n - 1}
        IN  (input.count % 2 ^ CounterWidth) + n <= 2 ^ CounterWidth => turns = Live

\* The priority of the key is the documented one: headers, session_params, user,
\* session_id, user_id, in whatever order the body has its fields.  The user
\* counts only if the body names it before its first message with "role":"user",
\* and a text that says "user: ..." passes for one where no name hides it.
KeyFollowsPriority ==
    input.of = "key" =>
        LET key == HashKey(input.headers, BodyOf(input.fields, 1))
            given(h) == h \in DOMAIN input.headers /\ input.headers[h] # ""
            has(f) == f \in ToSet(input.fields)
            at(f) == SelectInSeq(input.fields, LAMBDA g : g = f)
            before(f, g) == has(f) /\ (has(g) => at(f) < at(g))
            sources == <<<<has("session_params"), <<"session", <<"s1">>>>>>,
                         <<before("user", "messages"), <<"user", <<"u1">>>>>>,
                         <<before("prompt", "user_id") /\ ~has("user"), <<"user", <<"ann">>>>>>,
                         <<has("session_id"), <<"session", <<"s2">>>>>>,
                         <<has("user_id"), <<"user", <<"u2">>>>>>>>
            found == SelectSeq(sources, LAMBDA source : source[1])
        IN  key = IF given("x-user-id") THEN <<"header", "x-user-id", "v">>
                  ELSE IF given("x-request-id") THEN <<"header", "x-request-id", "v">>
                  ELSE IF found # <<>> THEN Head(found)[2] ELSE <<"request", BodyOf(input.fields, 1)>>

\* The turns of a chat have one key, for which the hash policies exist, exactly
\* if a header or a field names the session or the user; a user named after the
\* messages is not seen.
TurnsKeepTheirKey ==
    input.of = "key" =>
        LET at(f) == SelectInSeq(input.fields, LAMBDA g : g = f)
            named == \/ \E h \in DOMAIN input.headers : input.headers[h] # ""
                     \/ \E f \in Fields \ {"user"} : at(f) > 0
                     \/ at("user") \in 1 .. at("messages") - 1
        IN  at("messages") > 0 =>
                (HashKey(input.headers, BodyOf(input.fields, 1)) = HashKey(input.headers, BodyOf(input.fields, 2))) = named
-----------------------------------------------------------------------------
(* SMetric.                                                                 *)

PrefillSet == ToSet(PrefillWorkers)
NoRate == 0
CLin == 1
CAtt == 1
-----------------------------------------------------------------------------
(* select_prefill.                                                         *)

\* The prefill work of the part of the prompt that no cache holds, rounded up.
Cost(l, hit) ==
    LET n == l - hit IN (2 * CLin * n + CAtt * n * (2 * l - n) + 1) \div 2
Queued(q, w) == q.work[w] + Cost(q.l, q.hit[w])
\* The budget is slack * (ttft_slo_base + ttft_slo_per_char * l).
MeetsTtft(q, w) == q.rate[w] = NoRate \/ Queued(q, w) <= q.rate[w] * (q.base + q.l)
TtftScore(q, w) == IF q.colocated THEN Queued(q, w) * q.load[w] ELSE Queued(q, w)

\* The workers in the order of this turn of the round robin.
Rotated(q) ==
    LET n == Len(PrefillWorkers)
    IN  SelectSeq([i \in 1 .. n |-> PrefillWorkers[((q.start + i - 1) % n) + 1]], LAMBDA w : w \in q.available)
FirstLeast(order, f(_)) == Head(SelectSeq(order, LAMBDA w : \A v \in ToSet(order) : f(w) <= f(v)))

\* The worker with the longest hit, and the one with the least work queued.
Home(q) == LET unheld(w) == q.l - q.hit[w] IN FirstLeast(Rotated(q), unheld)

Fallback(q) == LET score(w) == TtftScore(q, w) IN FirstLeast(Rotated(q), score)

\* Home is kept for a later turn whose history it holds (est_hit stands for the
\* expected hit times hit_ratio), unless it is late
\* where another worker would not be.
SelectPrefill(q) ==
    IF /\ q.gate
       /\ q.hit[Home(q)] > q.est_hit
       /\ MeetsTtft(q, Home(q)) \/ ~\E w \in q.available : MeetsTtft(q, w)
    THEN Home(q) ELSE Fallback(q)
-----------------------------------------------------------------------------
(* RateHistory.                                                            *)

NewHistory == [samples |-> <<>>, rate |-> NoRate]

\* round((n - 1) * 0.9), as an index from 0 into the sorted samples.
PercentileIndex(n) == (9 * (n - 1) + 5) \div 10
Ranked(samples, k) ==
    CHOOSE v \in Range(samples) :
        /\ Cardinality({i \in DOMAIN samples : samples[i] < v}) <= k
        /\ Cardinality({i \in DOMAIN samples : samples[i] <= v}) > k

Record(history, rate) ==
    LET kept == IF Len(history.samples) = RateWindow THEN Tail(history.samples) ELSE history.samples
        all == Append(kept, rate)
    IN  [samples |-> all,
         rate |-> IF Len(all) >= RateMinSamples THEN Ranked(all, PercentileIndex(Len(all))) ELSE history.rate]

RecordAll(rates) == FoldLeft(Record, NewHistory, rates)
-----------------------------------------------------------------------------
(* EventCache::score_text.  A text is the sequence of the byte widths of   *)
(* its characters.  A token covers bytes, and its offsets are those of the *)
(* characters the bytes belong to.                                         *)

ByteEnd(widths, c) == Total(SubSeq(widths, 1, c))
CharOf(widths, byte) == CHOOSE c \in DOMAIN widths : ByteEnd(widths, c - 1) < byte /\ byte <= ByteEnd(widths, c)

\* The offsets of the tokens that end at the given bytes.
Offsets(widths, ends) ==
    [t \in DOMAIN ends |->
        LET first == IF t = 1 THEN 1 ELSE ends[t - 1] + 1
        IN  <<ByteEnd(widths, CharOf(widths, first) - 1), ByteEnd(widths, CharOf(widths, ends[t]))>>]

\* The characters before the end of the last token that hit, and before the
\* start of the next token.
CharsHeld(widths, offsets, count) ==
    LET ends == Max({offsets[t][2] : t \in 1 .. count} \cup {0})
        end == IF count < Len(offsets) THEN Min({ends, offsets[count + 1][1]}) ELSE ends
    IN  Cardinality({c \in DOMAIN widths : ByteEnd(widths, c) <= end})

\* score_tokens: whole blocks, and no more than there are tokens.
TokensHeld(blocks, size, tokens) == Min({blocks * size, tokens})
-----------------------------------------------------------------------------
(* Inputs.                                                                 *)

PrefillInputs ==
    {q \in [of : {"prefill"}, l : {2}, hit : [PrefillSet -> 0 .. 2], work : [PrefillSet -> {0, 3}], rate : [PrefillSet -> {NoRate, 1, 2}],
            base : {0}, load : [PrefillSet -> 0 .. 1], colocated : BOOLEAN, start : 0 .. Len(PrefillWorkers) - 1,
            available : SUBSET PrefillSet \ {{}}, gate : BOOLEAN, est_hit : {0, 1}] :
        /\ ~q.colocated => \A w \in PrefillSet : q.load[w] = 0
        /\ ~q.gate => q.est_hit = 0}
RateInputs == [of : {"rates"}, rates : BoundedSeq(1 .. 3, RateWindow + 2)]
TextInputs ==
    UNION {{[of |-> "text", widths |-> widths, ends |-> ends] :
                ends \in {e \in UNION {[1 .. k -> 1 .. ByteEnd(widths, Len(widths))] : k \in 1 .. 4} :
                              /\ \A i \in 1 .. Len(e) - 1 : e[i] < e[i + 1]
                              /\ e[Len(e)] = ByteEnd(widths, Len(widths))}} :
           widths \in BoundedSeq(1 .. 3, 3) \ {<<>>}}
SMetricInput == \/ input \in PrefillInputs \/ input \in RateInputs \/ input \in TextInputs
-----------------------------------------------------------------------------
\* The time-to-first-token budget is what the fallback is for: where the
\* workers of a separate prefill pool have one common rate and one of them
\* meets the budget, the chosen one does, whether it is home or not.
ChosenMeetsTtft ==
    /\ input.of = "prefill" /\ ~input.colocated
    /\ \A v, w \in PrefillSet : input.rate[v] = input.rate[w]
    /\ \E w \in input.available : MeetsTtft(input, w)
    => MeetsTtft(input, SelectPrefill(input))

\* A request whose history is in a cache leaves it only for a worker that is
\* available and has less work queued for it, also counted with the part of
\* the prompt that it would have to compute again.
LeavesHomeForLess ==
    input.of = "prefill" /\ ~input.colocated =>
        LET chosen == SelectPrefill(input)
        IN  /\ chosen \in input.available
            /\ chosen # Home(input) => Queued(input, chosen) <= Queued(input, Home(input))

\* Samples that have left the window have no effect on the learned rate, which
\* is a rate that at most a tenth of the window's samples, rounded up, exceed.
RatesForget ==
    input.of = "rates" =>
        LET all == input.rates
            recent == SubSeq(all, Max({1, Len(all) - RateWindow + 1}), Len(all))
            rate == RecordAll(all).rate
        IN  /\ rate = RecordAll(recent).rate
            /\ (rate = NoRate) = (Len(all) < RateMinSamples)
            /\ rate # NoRate => 10 * Cardinality({i \in DOMAIN recent : recent[i] > rate}) < Len(recent) + 10

\* "A block may end between byte-level tokens representing one character": the
\* hit of a text is the number of characters whose bytes all belong to tokens
\* that hit, so it never exceeds the length it is subtracted from.
HitsAreWholeCharacters ==
    input.of = "text" =>
        \A count \in 0 .. Len(input.ends) :
            LET bytes == IF count = 0 THEN 0 ELSE input.ends[count]
                hit == CharsHeld(input.widths, Offsets(input.widths, input.ends), count)
            IN  /\ hit = Cardinality({c \in DOMAIN input.widths : ByteEnd(input.widths, c) <= bytes})
                /\ TokensHeld(count, 2, Len(input.ends)) <= Len(input.ends)

(***************************************************************************)
(* A change of the workers moves only the keys of those that left, the     *)
(* ring follows the list, the most loaded of two is spared, turns visit    *)
(* everyone, and a request is keyed by the first source that is seen in it,*)
(* the same one in every turn.  SMetric's choice meets the time to   *)
(* first token when one can, leaves the session's home only for less, and  *)
(* rests on rates that forget old intervals and on hits of whole           *)
(* characters.                                                             *)
(***************************************************************************)
ChoicesAreSound ==
    /\ OnlyKeysOfLostWorkersMove /\ RingFollowsList /\ MostLoadedIsSpared /\ TurnsVisitAll
    /\ KeyFollowsPriority /\ TurnsKeepTheirKey
    /\ ChosenMeetsTtft /\ LeavesHomeForLess /\ RatesForget /\ HitsAreWholeCharacters
=============================================================================
