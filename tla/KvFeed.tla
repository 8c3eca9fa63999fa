-------------------------------- MODULE KvFeed --------------------------------
(***************************************************************************)
(* The KV event feed and the block index (kv_events/, kv_index/): engines  *)
(* publish numbered batches over a lossy socket, one subscriber thread per *)
(* worker turns a gap in the numbers into an invalidation, and one task    *)
(* applies the batches of all workers to an index that scores prompts.     *)
(*                                                                         *)
(* A block hash is opaque to the router: here it is the prefix of token    *)
(* blocks it stands for, salted when every engine has a hash seed of its   *)
(* own.                                                                    *)
(***************************************************************************)
EXTENDS Naturals, Sequences, SequencesExt, FiniteSets, FiniteSetsExt

CONSTANTS
    KvWorkers,
    Prompts,       \* prompts, as sequences of token blocks
    MaxBatches,    \* bound: batches of all workers
    MaxLives       \* bound: starts of one engine

VARIABLES
    salted,        \* whether engines hash with seeds of their own
    held,          \* worker -> plain GPU blocks in its cache
    life,          \* worker -> starts of its engine
    next_seq,      \* worker -> number of its next batch
    batches,       \* batches sent so far
    wire,          \* worker -> batches on their way to the subscriber
    last,          \* worker -> number and life of the last batch received
    feed,          \* the channel from the subscribers to the updater
    locations,     \* block hash -> workers
    transitions,   \* <<parent, token block, child>>
    faults         \* worker -> "lost": batches were; "aliased": undetected restart

engines == <<held, life, next_seq, batches, wire>>
kvVars == <<salted, engines, last, feed, locations, transitions, faults>>

Root == <<"any", <<>>>>
Nothing == [seq |-> 0, life |-> 0]
Salts == KvWorkers \cup {"any"}
Hashes == Salts \X (UNION {Prefixes(p) : p \in Prompts} \ {<<>>})
Hash(w, prefix) == IF prefix = <<>> THEN Root ELSE <<IF salted THEN w ELSE "any", prefix>>

\* create_router subscribes to every configured worker.
KvInit ==
    /\ salted \in BOOLEAN
    /\ held = [w \in KvWorkers |-> {}] /\ life = [w \in KvWorkers |-> 1]
    /\ next_seq = [w \in KvWorkers |-> 0] /\ batches = 0
    /\ wire = [w \in KvWorkers |-> <<>>] /\ last = [w \in KvWorkers |-> Nothing]
    /\ feed = <<>> /\ locations = [h \in Hashes |-> {}] /\ transitions = {}
    /\ faults = [w \in KvWorkers |-> {}]
-----------------------------------------------------------------------------
(* Engines.                                                                *)

Stored(w, p, from) ==
    [type |-> "stored", parent |-> Hash(w, SubSeq(p, 1, from - 1)),
     hashes |-> [i \in 1 .. Len(p) - from + 1 |-> Hash(w, SubSeq(p, 1, from + i - 1))]]
Removed(h) == [type |-> "removed", hashes |-> {h}]
Cleared == [type |-> "cleared"]
Other == [type |-> "other"]    \* blocks of another medium, adapter or salt

\* A batch leaves the engine.  It may be lost, or not be decodable.
Publish(w, event, fate) ==
    /\ batches < MaxBatches
    /\ batches' = batches + 1 /\ next_seq' = [next_seq EXCEPT ![w] = @ + 1]
    /\ wire' = IF fate = "lost" THEN wire
               ELSE [wire EXCEPT ![w] = Append(@, [seq |-> next_seq[w] + 1, life |-> life[w], event |-> event,
                                                   garbled |-> fate = "garbled"])]
    /\ faults' = IF fate = "sent" THEN faults ELSE [faults EXCEPT ![w] = @ \cup {"lost"}]
    /\ UNCHANGED <<salted, life, last, feed, locations, transitions>>

\* An engine has the blocks before the first one it stores.
StoreBlocks(w, p, from, fate) ==
    /\ \A i \in 1 .. Len(p) : Hash(w, SubSeq(p, 1, i)) \in held[w] <=> i < from
    /\ held' = [held EXCEPT ![w] = @ \cup {Hash(w, SubSeq(p, 1, i)) : i \in 1 .. Len(p)}]
    /\ Publish(w, Stored(w, p, from), fate)

EvictBlock(w, h, fate) ==
    /\ h \in held[w]
    /\ held' = [held EXCEPT ![w] = @ \ {h}]
    /\ Publish(w, Removed(h), fate)

ResetCache(w, fate) ==
    /\ held[w] # {}
    /\ held' = [held EXCEPT ![w] = {}]
    /\ Publish(w, Cleared, fate)

OtherEvent(w, fate) == Publish(w, Other, fate) /\ UNCHANGED held

\* A new process has an empty cache and counts its batches from the start.
EngineRestart(w) ==
    /\ life[w] < MaxLives
    /\ life' = [life EXCEPT ![w] = @ + 1] /\ held' = [held EXCEPT ![w] = {}]
    /\ next_seq' = [next_seq EXCEPT ![w] = 0]
    /\ UNCHANGED <<salted, batches, wire, last, feed, locations, transitions, faults>>
-----------------------------------------------------------------------------
(* Subscriber threads.                                                     *)

\* Mutant: a gap in the numbers is not noticed.
GapIgnored(w, m) == FALSE

\* Anything but the successor of the last batch that was decoded.
Gap(w, m) == last[w] # Nothing /\ m.seq # last[w].seq + 1

Receive(w) ==
    /\ wire[w] # <<>>
    /\ LET m == Head(wire[w])
           gap == Gap(w, m)
       IN  IF m.garbled THEN UNCHANGED <<last, feed, faults>>
           ELSE /\ last' = [last EXCEPT ![w] = [seq |-> m.seq, life |-> m.life]]
                /\ feed' = Append(feed, [worker |-> w, events |-> IF gap THEN <<Cleared, m.event>> ELSE <<m.event>>])
                /\ faults' = [faults EXCEPT ![w] =
                       IF gap THEN @ \ {"aliased"}
                       ELSE IF last[w] # Nothing /\ m.life # last[w].life THEN @ \cup {"aliased"} ELSE @]
    /\ wire' = [wire EXCEPT ![w] = Tail(@)]
    /\ UNCHANGED <<salted, held, life, next_seq, batches, locations, transitions>>
-----------------------------------------------------------------------------
(* The updater and the index.                                              *)

\* on_blocks_stored: every block is learned as the child of the one before.
Learned(e) ==
    {<<IF i = 1 THEN e.parent ELSE e.hashes[i - 1], Last(e.hashes[i][2]), e.hashes[i]>> : i \in DOMAIN e.hashes}

\* run_kv_index_updater applies the next event; on_all_blocks_cleared and
\* on_block_removed forget the worker, not the transitions.
Apply ==
    /\ feed # <<>>
    /\ LET w == Head(feed).worker
           e == Head(Head(feed).events)
           rest == Tail(Head(feed).events)
       IN  /\ locations' = CASE e.type = "stored" ->
                                    [h \in Hashes |-> IF h \in ToSet(e.hashes) THEN locations[h] \cup {w} ELSE locations[h]]
                             [] e.type = "removed" ->
                                    [h \in Hashes |-> IF h \in e.hashes THEN locations[h] \ {w} ELSE locations[h]]
                             [] e.type = "cleared" -> [h \in Hashes |-> locations[h] \ {w}]
                             [] e.type = "other" -> locations
           /\ transitions' = IF e.type = "stored" THEN transitions \cup Learned(e) ELSE transitions
           /\ feed' = IF rest = <<>> THEN Tail(feed) ELSE [feed EXCEPT ![1].events = rest]
    /\ UNCHANGED <<salted, engines, last, faults>>

\* score_tokens: the hashes a prompt may have at each position, the workers
\* that hold one at every position so far, and how far each of them gets.
Children(prompt) ==
    LET level[i \in 0 .. Len(prompt)] ==
            IF i = 0 THEN {Root}
            ELSE {t[3] : t \in {x \in transitions : x[1] \in level[i - 1] /\ x[2] = prompt[i]}}
    IN  level
Holders(hs) == UNION {locations[h] : h \in hs}

Score(prompt, w) ==
    LET children == Children(prompt)
    IN  Max({0} \cup {i \in 1 .. Len(prompt) : \A j \in 1 .. i : w \in Holders(children[j])})
-----------------------------------------------------------------------------
Fates == {"sent", "lost", "garbled"}

KvNext ==
    \/ \E w \in KvWorkers, fate \in Fates :
           \/ \E p \in Prompts : \E from \in 1 .. Len(p) : StoreBlocks(w, p, from, fate)
           \/ \E h \in held[w] : EvictBlock(w, h, fate)
           \/ ResetCache(w, fate) \/ OtherEvent(w, fate)
    \/ \E w \in KvWorkers : EngineRestart(w) \/ Receive(w)
    \/ Apply
-----------------------------------------------------------------------------
Credited(w) == {h \in Hashes : w \in locations[h]}

\* The last batch the engine sent has been applied.
CaughtUp(w) ==
    /\ wire[w] = <<>> /\ \A i \in DOMAIN feed : feed[i].worker # w
    /\ last[w] = IF next_seq[w] = 0 THEN Nothing ELSE [seq |-> next_seq[w], life |-> life[w]]

\* subscriber.rs: "sequence gap ...; invalidating exact state".  When the
\* last batch of an engine has come through, the index credits its worker
\* with no block it has lost, whatever batches were lost before that one and
\* however often the engine was restarted; and with every block it has, if
\* no batch was lost.  The exception is a restarted engine whose first batch
\* to arrive happens to have the next number.
CreditIsExact ==
    \A w \in KvWorkers : CaughtUp(w) /\ "aliased" \notin faults[w] =>
        /\ Credited(w) \subseteq held[w]
        /\ faults[w] = {} /\ life[w] = 1 => Credited(w) = held[w]

\* A worker's score is the longest prefix of the prompt of which the index
\* credits it with every block, also when part of what is known came from
\* other engines, or was learned before a gap.
ScoresAreLongestPrefixes ==
    \A p \in Prompts, w \in KvWorkers :
        Score(p, w) = Max({0} \cup {n \in 1 .. Len(p) :
                          \A i \in 1 .. n : \E h \in Credited(w) : h[2] = SubSeq(p, 1, i)})

(***************************************************************************)
(* The index is exact: it credits an engine with the blocks its events say *)
(* it holds, and scores a prompt by the longest prefix of those blocks.    *)
(***************************************************************************)
IndexIsExact == CreditIsExact /\ ScoresAreLongestPrefixes
=============================================================================
