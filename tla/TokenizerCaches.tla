-------------------------- MODULE TokenizerCaches ---------------------------
(***************************************************************************)
(* The caches in front of the tokenizers.                                  *)
(*                                                                         *)
(* The bounded cache of encode results (tokenizer/cache.rs).  Threads      *)
(* encode texts through the caches of several tokenizers; a lookup and an  *)
(* insertion are atomic under the lock of the cache, and the tokenizer     *)
(* runs between them, outside the lock.  Every cache adds its changes to   *)
(* the occupancy of the process while it holds its own lock.  An entry is  *)
(* known by its text: equal texts have equal encodings.                    *)
(***************************************************************************)
EXTENDS Parts, Sequences, FiniteSets, FiniteSetsExt

CONSTANTS
    Tokenizers,     \* the cached tokenizers of the process
    Encoders,       \* the threads that encode
    EntryBytes,     \* estimate_entry_bytes, a function on the texts
    MaxEntries,
    MaxBytes,
    MaxEntryBytes

VARIABLES
    alive,          \* the tokenizers that are not dropped
    lru,            \* for each tokenizer its texts, the least recently used first
    bytes,          \* CacheState.bytes, a running total
    occupancy,      \* OCCUPANCY
    encoding        \* for each thread the text it tokenizes after a miss

encodeVars == <<alive, lru, bytes, occupancy, encoding>>

CachedTexts == DOMAIN EntryBytes
Resting == [tokenizer |-> "none", text |-> "none"]

\* TokenizerCacheConfig::validate
ASSUME CacheBudgets ==
    /\ MaxEntries >= 1 /\ MaxBytes >= 1
    /\ MaxEntryBytes >= 1 /\ MaxEntryBytes <= MaxBytes

EncodeInit ==
    /\ alive = Tokenizers
    /\ lru = [k \in Tokenizers |-> << >>]
    /\ bytes = [k \in Tokenizers |-> 0]
    /\ occupancy = [entries |-> 0, bytes |-> 0]
    /\ encoding = [t \in Encoders |-> Resting]

\* saturating_add_signed
Saturating(n, delta) == IF n + delta < 0 THEN 0 ELSE n + delta

PublishDelta(entries, size) ==
    occupancy' = [entries |-> Saturating(occupancy.entries, entries),
                  bytes   |-> Saturating(occupancy.bytes, size)]

Without(texts, text) == SelectSeq(texts, LAMBDA x : x # text)

\* LruCache::push: the entry becomes the most recent one.  What it displaces is the
\* entry of the same text or else, in a full cache, the least recent one.
Displaced(texts, text) ==
    IF text \in Range(texts) THEN <<text>>
    ELSE IF Len(texts) = MaxEntries THEN <<Head(texts)>> ELSE << >>

Push(texts, text) ==
    Append(IF text \in Range(texts) THEN Without(texts, text)
           ELSE IF Len(texts) = MaxEntries THEN Tail(texts) ELSE texts, text)

SizeOf(texts) == Total([i \in DOMAIN texts |-> EntryBytes[texts[i]]])

\* What the cache holds once the new entry is in, before it is trimmed.
BytesAfterPush(k, text) ==
    bytes[k] - SizeOf(Displaced(lru[k], text)) + EntryBytes[text]

\* The entries popped from the least recent end until the rest fits.
Popped(texts, size) ==
    Min({n \in 0 .. Len(texts) :
            size - SizeOf(SubSeq(texts, 1, n)) <= MaxBytes} \cup {Len(texts)})

\* lookup: a hit makes the text the most recent one; after a miss the tokenizer runs.
Lookup(t, k, text) ==
    /\ encoding[t] = Resting /\ k \in alive
    /\ IF text \in Range(lru[k])
       THEN lru' = [lru EXCEPT ![k] = Append(Without(@, text), text)] /\ UNCHANGED encoding
       ELSE encoding' = [encoding EXCEPT ![t] = [tokenizer |-> k, text |-> text]] /\ UNCHANGED lru
    /\ UNCHANGED <<alive, bytes, occupancy>>

\* encode after the tokenizer failed, or returned a result too large to keep.
EncodeUncached(t) ==
    /\ encoding[t] # Resting
    /\ encoding' = [encoding EXCEPT ![t] = Resting]
    /\ UNCHANGED <<alive, lru, bytes, occupancy>>

\* insert
InsertEncoding(t) ==
    LET k      == encoding[t].tokenizer
        text   == encoding[t].text
        pushed == Push(lru[k], text)
        size   == BytesAfterPush(k, text)
        n      == Popped(pushed, size)
        kept   == SubSeq(pushed, n + 1, Len(pushed))
        left   == size - SizeOf(SubSeq(pushed, 1, n))
    IN  /\ encoding[t] # Resting
        /\ EntryBytes[text] <= MaxEntryBytes
        /\ lru' = [lru EXCEPT ![k] = kept]
        /\ bytes' = [bytes EXCEPT ![k] = left]
        /\ PublishDelta(Len(kept) - Len(lru[k]), left - bytes[k])
        /\ encoding' = [encoding EXCEPT ![t] = Resting]
        /\ UNCHANGED alive

Clear(k) ==
    /\ k \in alive
    /\ lru' = [lru EXCEPT ![k] = << >>]
    /\ bytes' = [bytes EXCEPT ![k] = 0]
    /\ PublishDelta(-Len(lru[k]), -bytes[k])
    /\ UNCHANGED <<alive, encoding>>

\* drop: nobody holds the tokenizer any more.
DropTokenizer(k) ==
    /\ k \in alive
    /\ \A t \in Encoders : encoding[t].tokenizer # k
    /\ alive' = alive \ {k}
    /\ PublishDelta(-Len(lru[k]), -bytes[k])
    /\ UNCHANGED <<lru, bytes, encoding>>

EncodeNext ==
    \/ \E t \in Encoders : \/ \E k \in Tokenizers, text \in CachedTexts : Lookup(t, k, text)
                           \/ EncodeUncached(t) \/ InsertEncoding(t)
    \/ \E k \in Tokenizers : Clear(k) \/ DropTokenizer(k)
-----------------------------------------------------------------------------
(***************************************************************************)
(* Whatever lookups, insertions of the same text by two threads that both  *)
(* missed, clears and drops have interleaved, every cache is within both   *)
(* of its budgets, holds a text once, and its running total is the size of *)
(* its entries ("Sum of CacheEntry::bytes over all entries in lru").       *)
(***************************************************************************)
BudgetsHold ==
    \A k \in alive :
        /\ Len(lru[k]) <= MaxEntries /\ bytes[k] <= MaxBytes
        /\ bytes[k] = SizeOf(lru[k])
        /\ IsInjective(lru[k])

(***************************************************************************)
(* "after any encode, clear or drop the gauges equal the sum of the live   *)
(* instances' stats": the process-wide occupancy never drifts.             *)
(***************************************************************************)
OccupancyIsExact ==
    /\ occupancy.entries = FoldSet(LAMBDA k, n : n + Len(lru[k]), 0, alive)
    /\ occupancy.bytes = FoldSet(LAMBDA k, n : n + bytes[k], 0, alive)

(***************************************************************************)
(* "this loop never reaches the entry just inserted (the MRU)": after an   *)
(* insertion the text is the most recent one of its cache, and of the      *)
(* others it keeps the most recently used that fit, in their order.        *)
(***************************************************************************)
NewestStays ==
    [][\A t \in Encoders : InsertEncoding(t) =>
          LET k    == encoding[t].tokenizer
              text == encoding[t].text
              old  == Without(lru[k], text)
          IN  /\ lru'[k] # << >> /\ Last(lru'[k]) = text
              /\ IsSuffix(Front(lru'[k]), old)
              /\ Len(lru'[k]) <= Len(old) =>
                    LET more == <<old[Len(old) - Len(lru'[k]) + 1]>> \o lru'[k]
                    IN  Len(more) > MaxEntries \/ SizeOf(more) > MaxBytes]_encodeVars

-----------------------------------------------------------------------------
(***************************************************************************)
(* The tokenizers of gRPC chat requests, loaded once for each model        *)
(* (TokenizerCache of backend/preprocess.rs).  A request is a task: it     *)
(* looks the model up, waits for the load lock, looks again and loads.     *)
(* Other tasks run whenever it waits, and a client that leaves drops it    *)
(* where it is.                                                            *)
(***************************************************************************)

CONSTANTS
    Chats,            \* the requests
    Models            \* the models requests name; a request may name none

VARIABLES
    overrides,        \* what VLLM_ROUTER_TOKENIZER or VLLM_ROUTER_MODEL loads instead
                      \* of the model, fixed; "none" when neither is set
    frontends,        \* by_model: what was loaded for each key
    load_lock,        \* the request that holds load_lock, or "free"
    loads,            \* loads of each key that were begun and have not failed
    chat              \* where each request is, its key and its tokenizer

frontendVars == <<overrides, frontends, load_lock, loads, chat>>

NoModel == "none"
AtRest == [at |-> "idle", key |-> NoModel, frontend |-> NoModel]
In(at, key, frontend) == [at |-> at, key |-> key, frontend |-> frontend]

\* model_resolution: what the environment says is the source, and the model of the
\* request is the key, "so aliases do not collapse into one global key".
SourceOf(model) == IF overrides # NoModel THEN overrides ELSE model
FrontendKey(model) == IF model # NoModel THEN model ELSE SourceOf(model)

FrontendInit ==
    /\ overrides \in {NoModel} \cup Models
    /\ frontends = [m \in Models |-> NoModel]
    /\ load_lock = "free"
    /\ loads = [m \in Models |-> 0]
    /\ chat = [c \in Chats |-> AtRest]

FrozenFrontend ==
    /\ overrides = NoModel
    /\ frontends = [m \in Models |-> NoModel]
    /\ load_lock = "free"
    /\ loads = [m \in Models |-> 0]
    /\ chat = [c \in Chats |-> AtRest]

\* resolve, up to the lock.  A request with neither a model nor a source is refused.
Resolve(c, model) ==
    LET key == FrontendKey(model)
    IN  /\ chat[c] = AtRest /\ key # NoModel
        /\ chat' = [chat EXCEPT ![c] = In(IF frontends[key] # NoModel THEN "resolved" ELSE "waiting",
                                          key, frontends[key])]
        /\ UNCHANGED <<overrides, frontends, load_lock, loads>>

Load(c) ==
    /\ load_lock' = c
    /\ loads' = [loads EXCEPT ![chat[c].key] = @ + 1]
    /\ chat' = [chat EXCEPT ![c].at = "loading"]

\* Mutant: whoever gets the lock loads.
LoadUnchecked(c) ==
    /\ chat[c].at = "waiting" /\ load_lock = "free"
    /\ Load(c)
    /\ UNCHANGED <<overrides, frontends>>

\* With the lock: "Re-check under a single-flight lock so a cold burst does not load
\* the same model N times".
LoadOrHit(c) ==
    LET key == chat[c].key
    IN  /\ chat[c].at = "waiting" /\ load_lock = "free"
        /\ \/ frontends[key] = NoModel /\ Load(c)
           \/ /\ frontends[key] # NoModel
              /\ chat' = [chat EXCEPT ![c] = In("resolved", key, frontends[key])]
              /\ UNCHANGED <<load_lock, loads>>
        /\ UNCHANGED <<overrides, frontends>>

Loaded(c) ==
    LET key == chat[c].key
    IN  /\ chat[c].at = "loading"
        /\ frontends' = [frontends EXCEPT ![key] = SourceOf(key)]
        /\ load_lock' = "free"
        /\ chat' = [chat EXCEPT ![c] = In("resolved", key, SourceOf(key))]
        /\ UNCHANGED <<overrides, loads>>

\* The request is answered, its load fails, or its client leaves: whatever guard the
\* task held is dropped with it.
End(c) ==
    /\ chat[c] # AtRest
    /\ load_lock' = IF chat[c].at = "loading" THEN "free" ELSE load_lock
    /\ loads' = IF chat[c].at = "loading" THEN [loads EXCEPT ![chat[c].key] = @ - 1] ELSE loads
    /\ chat' = [chat EXCEPT ![c] = AtRest]
    /\ UNCHANGED <<overrides, frontends>>

FrontendNext ==
    \E c \in Chats :
       \/ \E m \in Models \cup {NoModel} : Resolve(c, m)
       \/ LoadOrHit(c) \/ Loaded(c) \/ End(c)
-----------------------------------------------------------------------------
(***************************************************************************)
(* However a burst of requests interleaves, and whichever of them fail or  *)
(* leave, a model is loaded at most once, every request of a model is      *)
(* given what was loaded for it, and requests of one key never differ in   *)
(* what they load (resolve).                                               *)
(***************************************************************************)
ModelsLoadOnce ==
    /\ \A m \in Models : loads[m] <= 1 /\ (frontends[m] # NoModel => loads[m] = 1)
    /\ \A c \in Chats : chat[c].at = "resolved" =>
          chat[c].frontend = frontends[chat[c].key] /\ chat[c].frontend = SourceOf(chat[c].key)

(***************************************************************************)
(* The load lock is held by a request that is loading, and by none once a  *)
(* load has failed or its client has left; so no request waits for a lock  *)
(* that nobody will give back.                                             *)
(***************************************************************************)
LoadLockComesBack ==
    load_lock # "free" => chat[load_lock].at = "loading"

(***************************************************************************)
(* The caches in front of the tokenizers keep to their budgets, count what *)
(* they hold exactly, drop the oldest first and load a model once, and no  *)
(* task that leaves keeps the load lock.                                   *)
(***************************************************************************)
CachesAreExact ==
    /\ [](BudgetsHold /\ OccupancyIsExact /\ ModelsLoadOnce /\ LoadLockComesBack)
    /\ NewestStays
=============================================================================
