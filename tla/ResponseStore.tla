---------------------------- MODULE ResponseStore ----------------------------
(***************************************************************************)
(* The history of responses kept in memory                                 *)
(* (data_connector/response_memory_store.rs).  Both maps are behind one    *)
(* lock, so a call is one step, but for get_response_chain, which takes    *)
(* the lock once to find the ids and once more to read the responses.      *)
(*                                                                         *)
(* An id is the caller's or, when that is empty, a new one; the store does *)
(* not ask whether it is taken.  Responses are numbered as they are made,  *)
(* which is what created_at says.                                          *)
(***************************************************************************)
EXTENDS Naturals, SequencesExt

CONSTANTS
    ResponseIds, Users,
    Nobody,         \* a response without a user, or without a previous one
    MaxStores,      \* bound: responses stored in a behaviour
    Depths          \* max_depth of the chains, up to 3

VARIABLES
    responses,      \* the responses, by id
    user_index,     \* the ids of each user's responses, in the order they were stored
    stores,         \* how many were stored
    chain           \* a get_response_chain call

storeVars == <<responses, user_index, stores, chain>>

\* changed: whether the store was written to since the ids were found.
NoChain == [at |-> "none", asked |-> Nobody, depth |-> 0, ids |-> << >>, changed |-> FALSE,
            found |-> << >>]

\* A function without some of its keys.
DroppingKeys(f, keys) == [x \in (DOMAIN f) \ keys |-> f[x]]

StoreInit ==
    /\ responses = [id \in {} |-> Nobody]
    /\ user_index = [u \in {} |-> << >>]
    /\ stores = 0 /\ chain = NoChain

Changed == chain' = IF chain.at # "none" THEN [chain EXCEPT !.changed = TRUE] ELSE chain

UserIds(user) == IF user \in DOMAIN user_index THEN user_index[user] ELSE << >>

\* Mutant: the id of a response that was there is not indexed again.
IndexNewOnly(user, id) ==
    IF user = Nobody \/ id \in DOMAIN responses THEN user_index
    ELSE [u \in (DOMAIN user_index) \cup {user} |-> IF u = user THEN Append(UserIds(u), id) ELSE user_index[u]]

Index(user, id) ==
    IF user = Nobody THEN user_index
    ELSE [u \in (DOMAIN user_index) \cup {user} |-> IF u = user THEN Append(UserIds(u), id) ELSE user_index[u]]

StoreResponse(id, user, previous) ==
    /\ stores < MaxStores
    /\ stores' = stores + 1
    /\ user_index' = Index(user, id)
    /\ responses' = [i \in (DOMAIN responses) \cup {id} |->
                        IF i = id THEN [user |-> user, previous |-> previous, created_at |-> stores + 1]
                        ELSE responses[i]]
    /\ Changed

DeleteResponse(id) ==
    /\ id \in DOMAIN responses
    /\ LET user == responses[id].user
       IN  user_index' = [u \in DOMAIN user_index |->
                             IF u = user THEN SelectSeq(user_index[u], LAMBDA i : i # id) ELSE user_index[u]]
    /\ responses' = DroppingKeys(responses, {id})
    /\ Changed /\ UNCHANGED stores

DeleteUserResponses(user) ==
    /\ user \in DOMAIN user_index
    /\ responses' = DroppingKeys(responses, ToSet(user_index[user]))
    /\ user_index' = DroppingKeys(user_index, {user})
    /\ Changed /\ UNCHANGED stores

\* The ids from `id` back, at most `depth` of them.
Back[id \in ResponseIds \cup {Nobody}, depth \in 0 .. 3] ==
    IF depth = 0 \/ id \notin DOMAIN responses THEN << >>
    ELSE <<id>> \o Back[responses[id].previous, depth - 1]

\* Oldest first
ChainIds(id, depth) == Reverse(Back[id, depth])

FindChain(id, depth) ==
    /\ chain.at = "none"
    /\ chain' = [NoChain EXCEPT !.at = "found", !.asked = id, !.depth = depth, !.ids = ChainIds(id, depth)]
    /\ UNCHANGED <<responses, user_index, stores>>

\* Ids that are gone by now are left out.
ReadChain ==
    /\ chain.at = "found"
    /\ LET present == SelectSeq(chain.ids, LAMBDA i : i \in DOMAIN responses)
       IN  chain' = [chain EXCEPT !.at = "read",
                        !.found = [i \in 1 .. Len(present) |-> [id |-> present[i], response |-> responses[present[i]]]]]
    /\ UNCHANGED <<responses, user_index, stores>>

ForgetChain ==
    /\ chain.at = "read" /\ chain' = NoChain
    /\ UNCHANGED <<responses, user_index, stores>>

\* list_user_responses: newest first, at most `limit` of them.
ListUserResponses(user, limit) ==
    LET present == SelectSeq(UserIds(user), LAMBDA i : i \in DOMAIN responses)
        sorted == SortSeq(present, LAMBDA a, b : responses[a].created_at > responses[b].created_at)
    IN  SubSeq(sorted, 1, IF limit < Len(sorted) THEN limit ELSE Len(sorted))

StoreNext ==
    \/ \E id \in ResponseIds, user \in Users \cup {Nobody}, previous \in ResponseIds \cup {Nobody} :
          StoreResponse(id, user, previous)
    \/ \E id \in ResponseIds : DeleteResponse(id)
    \/ \E user \in Users : DeleteUserResponses(user)
    \/ \E id \in ResponseIds, depth \in Depths : FindChain(id, depth)
    \/ ReadChain \/ ForgetChain

StoreSpec == StoreInit /\ [][StoreNext]_storeVars
-----------------------------------------------------------------------------
(***************************************************************************)
(* delete_user_responses leaves no response of the user behind, and until  *)
(* then list_user_responses shows them all: the index has every response   *)
(* of the user, also of ids that were stored again or under another user.  *)
(***************************************************************************)
UsersOwnTheirResponses ==
    \A user \in Users : \A id \in DOMAIN responses :
        responses[id].user = user =>
            /\ \E i \in DOMAIN ListUserResponses(user, 9) : ListUserResponses(user, 9)[i] = id
            /\ id \notin DOMAIN DroppingKeys(responses, ToSet(UserIds(user)))

(***************************************************************************)
(* "Reverse to get chronological order (oldest first)": a chain that was   *)
(* read while nobody wrote ends with the response asked for, every other   *)
(* one is the previous of the next, and it stops only at the depth asked   *)
(* for or where there is no previous, so also where ids form a circle.     *)
(***************************************************************************)
ChainsAreLinked ==
    chain.at = "read" /\ ~chain.changed =>
        LET found == chain.found
            n == Len(found)
        IN  /\ n <= chain.depth /\ (n = 0 <=> chain.asked \notin DOMAIN responses)
            /\ n > 0 => found[n].id = chain.asked
            /\ \A i \in 1 .. n - 1 : found[i + 1].response.previous = found[i].id
            /\ 0 < n /\ n < chain.depth => found[1].response.previous \notin DOMAIN responses

(***************************************************************************)
(* A user finds every response that is theirs now (their index may list,   *)
(* besides, one that another user stored again), and a chain of responses  *)
(* read while nobody writes leads back to its first one.                   *)
(***************************************************************************)
HistoriesAreSound == UsersOwnTheirResponses /\ ChainsAreLinked
=============================================================================
