---------------------------- MODULE CacheAware ------------------------------
(***************************************************************************)
(* The cache-aware policy (policies/cache_aware.rs) and the prefix tree of *)
(* one model (tree.rs).  Requests, the calls that add and remove workers   *)
(* or commit placements, and the eviction thread use the tree at the same  *)
(* time.  Its locks are those of single nodes: a step below is what one    *)
(* thread does under such a lock, or one access of a map.                  *)
(*                                                                         *)
(* A node is known by its path, the text from the root to its end, which   *)
(* splits never change, and a number that tells it from earlier nodes of   *)
(* the same path, which threads may still hold.  The times of access only  *)
(* order the queue of the sweep: here it takes its entries in any order,   *)
(* and whether a match counts as an access (one in eight does) is open.    *)
(* The walks that collect leaves are one step: what they find is stale     *)
(* anyway when its turn comes.                                             *)
(***************************************************************************)
EXTENDS Naturals, Sequences, SequencesExt, FiniteSets, FiniteSetsExt, Functions, TLC

CONSTANTS
    CacheWorkers,
    Texts,           \* request texts
    Pasts,           \* what was routed, as sequences of <<worker, text>>
    Requesters,      \* threads that select workers
    MaxTreeSize,
    MaxOperations    \* bound: operations begun

VARIABLES
    members,     \* workers the policy has been told of
    tree,        \* the tree of the model, or NoTree
    threads,     \* what each thread is in the middle of
    begun,       \* operations begun
    routed,      \* ghost: worker -> texts inserted for it
    overlaps     \* ghost: the overlaps there have been that tree.rs has no lock for

cacheVars == <<members, tree, threads, begun, routed, overlaps>>

NoTenant == "none"
EmptyTenant == "empty"    \* what a match at a node without tenants returns
NoNode == <<>>
TreeRoot == <<<<>>, 0>>
NoTree == [nodes |-> <<>>, count |-> <<>>]

\* admin holds the entry of the tree in the policy's map: alone to add or to
\* commit, shared with the sweeper to remove.
Threads == Requesters \cup {"admin", "sweeper"}
-----------------------------------------------------------------------------
(* The tree: node -> its length, parent, children by first character,      *)
(* tenants and cached tenant; and tenant -> characters of its nodes.       *)

Node(len, up, kids, tenants, cached) ==
    [len |-> len, up |-> up, kids |-> kids, tenants |-> tenants, cached |-> cached]
NewTree == [nodes |-> (TreeRoot :> Node(0, NoNode, <<>>, {}, NoTenant)), count |-> <<>>]

TenantsAt(tr, n) == tr.nodes[n].tenants
Kids(tr, n) == Range(tr.nodes[n].kids)
TextOf(tr, n) == SubSeq(n[1], Len(n[1]) - tr.nodes[n].len + 1, Len(n[1]))
SharedCount(s, t) == Len(LongestCommonPrefix({s, t}))

\* The nodes that can be reached from some by the given references.
Reach(tr, some, refs(_)) ==
    LET R[i \in 0 .. Cardinality(DOMAIN tr.nodes)] ==
            IF i = 0 THEN some ELSE R[i - 1] \cup UNION {refs(n) : n \in R[i - 1]}
    IN  R[Cardinality(DOMAIN tr.nodes)]
InTree(tr) == IF tr = NoTree THEN {} ELSE Reach(tr, {TreeRoot}, LAMBDA n : Kids(tr, n))

\* The child that goes on with text after its first i characters.
ChildAt(tr, n, text, i) ==
    IF i < Len(text) /\ text[i + 1] \in DOMAIN tr.nodes[n].kids THEN tr.nodes[n].kids[text[i + 1]] ELSE NoNode

\* A tenant is a leaf at a node if no child has it.
IsLeaf(tr, n, t) == t \in TenantsAt(tr, n) /\ \A c \in Kids(tr, n) : t \notin TenantsAt(tr, c)

Fresh(tr, path) ==
    <<path, Min({i \in 0 .. Cardinality(DOMAIN tr.nodes) : <<path, i>> \notin DOMAIN tr.nodes})>>
-----------------------------------------------------------------------------
(* insert: one level of the tree at a time.                                *)

Counted(tr, t, chars) == [tr EXCEPT !.count = (t :> (@ @@ (t :> 0))[t] + chars) @@ @]

\* The tenant is one of the root, and has a count.
Rooted(tr, t) == Counted([tr EXCEPT !.nodes[TreeRoot].tenants = @ \cup {t}], t, 0)

\* The node on the way gets the tenant and is counted, unless it has it.
Attach(tr, n, t) ==
    IF t \in TenantsAt(tr, n) THEN tr
    ELSE Counted([tr EXCEPT !.nodes[n].tenants = @ \cup {t}], t, tr.nodes[n].len)

\* The rest of the text becomes a leaf.
AddLeaf(tr, at, text, t) ==
    LET new == Fresh(tr, text)
        rest == Len(text) - Len(at[1])
        linked == [tr.nodes EXCEPT ![at].kids = (text[Len(at[1]) + 1] :> new) @@ @]
    IN  Counted([tr EXCEPT !.nodes = (new :> Node(rest, at, <<>>, {t}, t)) @@ linked], t, rest)

\* A node that shares only its first k characters is split: the new node above
\* it has its tenants and its cached tenant.
Split(tr, at, m, k, new) ==
    LET below == TextOf(tr, m)[k + 1]
        cut == [tr.nodes EXCEPT ![m].len = @ - k, ![m].up = new, ![at].kids[m[1][Len(at[1]) + 1]] = new]
    IN  [tr EXCEPT !.nodes = (new :> [tr.nodes[m] EXCEPT !.len = k, !.up = at, !.kids = (below :> m)]) @@ cut]

\* The characters that text shares with the child of at that begins alike.
SharedBelow(tr, at, text) ==
    SharedCount(SubSeq(text, Len(at[1]) + 1, Len(text)), TextOf(tr, ChildAt(tr, at, text, Len(at[1]))))
Splits(tr, at, text) ==
    LET m == ChildAt(tr, at, text, Len(at[1])) IN m # NoNode /\ SharedBelow(tr, at, text) < tr.nodes[m].len

\* One turn of the loop, at the node `at`: the tree, and the node to go on at.
\* At the end of the text that node gets an access of the tenant.
Level(tr, at, text, t) ==
    LET m == ChildAt(tr, at, text, Len(at[1]))
        k == SharedBelow(tr, at, text)
        new == Fresh(tr, SubSeq(text, 1, Len(at[1]) + k))
    IN  IF at[1] = text THEN [tr |-> [tr EXCEPT !.nodes[at].tenants = @ \cup {t}], at |-> NoNode]
        ELSE IF m = NoNode THEN [tr |-> AddLeaf(tr, at, text, t), at |-> NoNode]
        ELSE IF Splits(tr, at, text) THEN [tr |-> Attach(Split(tr, at, m, k, new), new, t), at |-> new]
        ELSE [tr |-> Attach(tr, m, t), at |-> m]

\* A whole insertion on its own.
Insert(tr, text, t) ==
    FoldLeft(LAMBDA s, i : IF s.at = NoNode THEN s ELSE Level(s.tr, s.at, text, t),
             [tr |-> Rooted(tr, t), at |-> TreeRoot], [i \in 1 .. Len(text) + 1 |-> i]).tr
-----------------------------------------------------------------------------
(* The threads.  `sure` is a ghost: nothing has disturbed the operation.   *)

Idle ==
    [do |-> "idle", text |-> <<>>, tenant |-> NoTenant, at |-> NoNode, to |-> NoNode,
     matched |-> 0, least |-> 0, list |-> {}, queue |-> {}, sure |-> TRUE]

Inserting(text, t) == [Idle EXCEPT !.do = "insert", !.text = text, !.tenant = t, !.at = TreeRoot]
Removing(tr, t) ==
    [Idle EXCEPT !.do = "remove", !.tenant = t, !.queue = {<<n, t>> : n \in {m \in InTree(tr) : IsLeaf(tr, m, t)}}]

TurnSteps == {"evict", "detach", "emptied", "unlink"}
Removes(op) == op.do \in {"remove", "sweep"} \cup TurnSteps
Writing == threads["admin"].do \in {"insert", "wait"}

\* An insertion or the end of a match meets a removal: one that is in the
\* middle of a node, or one of the same tenant.  Two removals have one tenant.
Overlapping(ops) ==
    {kind \in {"insertion", "removal"} : \E x, y \in Threads :
        /\ x # y /\ Removes(ops[y])
        /\ IF kind = "insertion"
           THEN /\ ops[x].do \in {"touch", "insert", "wait"}
                /\ ops[y].do \in TurnSteps \/ (ops[y].do = "remove" /\ ops[y].tenant = ops[x].tenant)
           ELSE Removes(ops[x]) /\ ops[x].do # "sweep" /\ ops[y].do # "sweep" /\ ops[x].tenant = ops[y].tenant}

Shrinks(tr) ==
    LET after == InTree(tr)
    IN  \E n \in InTree(tree) : n \notin after \/ ~(TenantsAt(tree, n) \subseteq TenantsAt(tr, n))

\* A match is disturbed by removals and by a split of the node it is about to
\* compare with, a removal by any change.
Upsets(op, tr) ==
    IF op.do \in {"walk", "touch"}
    THEN Shrinks(tr) \/ (op.to # NoNode /\ tr.nodes[op.to].len # tree.nodes[op.to].len)
    ELSE Removes(op) /\ tr # tree

\* Nodes that are not linked and that nobody holds are freed.
Freed(tr, ops) ==
    LET held == UNION {{ops[x].at, ops[x].to} \cup {e[1] : e \in ops[x].queue} : x \in Threads}
        kept == Reach(tr, ({TreeRoot} \cup held) \ {NoNode}, LAMBDA n : Kids(tr, n) \cup ({tr.nodes[n].up} \ {NoNode}))
    IN  [tr EXCEPT !.nodes = Restrict(@, kept)]

\* Thread x goes on with op after it has made the tree tr.
Go(x, op, tr) ==
    /\ threads' = [y \in Threads |->
                      IF y = x THEN op ELSE [threads[y] EXCEPT !.sure = @ /\ ~Upsets(threads[y], tr)]]
    /\ tree' = Freed(tr, threads')
    /\ overlaps' = overlaps \cup Overlapping(threads')

\* An insertion begins at the root.
GoInsert(x, text, t, tr) ==
    /\ Go(x, Inserting(text, t), Rooted(tr, t))
    /\ routed' = [routed EXCEPT ![t] = @ \cup {text}]

Begin == begun < MaxOperations /\ begun' = begun + 1
-----------------------------------------------------------------------------
(* Steps of an insertion.                                                  *)

\* The entry of a character is held during the work on it.  That is one step
\* unless it has to wait for the text of a node: then others see it held.
Entered(n, c) ==
    \E x \in Threads : threads[x].do = "wait" /\ threads[x].at = n /\ threads[x].text[Len(n[1]) + 1] = c
\* A removal that unlinks a node holds its text while it waits for the entry.
TextIsRead(n) == \E x \in Threads : threads[x].do = "unlink" /\ threads[x].at = n

InsertLevel(x) ==
    LET op == threads[x]
        next == Level(tree, op.at, op.text, op.tenant)
        waits == op.at[1] # op.text /\ Splits(tree, op.at, op.text) /\ TextIsRead(ChildAt(tree, op.at, op.text, Len(op.at[1])))
    IN  /\ op.do \in {"insert", "wait"}
        /\ op.do = "insert" /\ op.at[1] # op.text => ~Entered(op.at, op.text[Len(op.at[1]) + 1])
        /\ \/ waits /\ op.do = "insert" /\ Go(x, [op EXCEPT !.do = "wait"], tree)
           \/ ~waits /\ Go(x, IF next.at = NoNode THEN Idle ELSE [op EXCEPT !.do = "insert", !.at = next.at], next.tr)
        /\ UNCHANGED <<members, begun, routed>>
-----------------------------------------------------------------------------
(* Steps of a match: prefix_match_with_counts.                             *)

Owned(tr) ==
    LET nodes == InTree(tr)
    IN  [w \in CacheWorkers |-> UNION {Prefixes(n[1]) : n \in {m \in nodes : w \in TenantsAt(tr, m)}}]

Longest(text, prefixes) == Max({0} \cup {Len(p) : p \in Prefixes(text) \cap prefixes})

Walking(text) ==
    [Idle EXCEPT !.do = "walk", !.text = text, !.at = TreeRoot, !.to = ChildAt(tree, TreeRoot, text, 0), !.list = members,
                 !.least = Longest(text, UNION Range(Owned(tree)))]

\* The child was found under its parent's lock; its text is read later.
MatchWalk(x) ==
    LET op == threads[x]
        k == SharedCount(SubSeq(op.text, op.matched + 1, Len(op.text)), TextOf(tree, op.to))
        whole == k = tree.nodes[op.to].len
    IN  /\ op.do = "walk" /\ op.to # NoNode
        /\ Go(x, [op EXCEPT !.at = op.to, !.matched = @ + k,
                            !.to = IF whole THEN ChildAt(tree, op.to, op.text, op.matched + k) ELSE NoNode], tree)
        /\ UNCHANGED <<members, begun, routed>>

\* The cached tenant of the node, if it still has it; else any of its, which is
\* cached.
MatchPick(x) ==
    LET op == threads[x]
        n == tree.nodes[op.at]
    IN  /\ op.do = "walk" /\ op.to = NoNode
        /\ \E t \in IF n.cached \in n.tenants THEN {n.cached}
                    ELSE IF n.tenants = {} THEN {EmptyTenant} ELSE n.tenants :
               Go(x, [op EXCEPT !.do = "touch", !.tenant = t], [tree EXCEPT !.nodes[op.at].cached = t])
        /\ UNCHANGED <<members, begun, routed>>

\* The access may be noted.  If more than half of the text matched, the worker
\* is taken and the text inserted for it; one that is gone or unhealthy is
\* dropped from the tree.  Otherwise the least loaded healthy worker is taken,
\* any of them for the model.
MatchTouch(x) ==
    LET op == threads[x]
        noted == [tree EXCEPT !.nodes[op.at].tenants = @ \cup {op.tenant}]
    IN  /\ op.do = "touch"
        /\ \E tr \in {tree, noted} :
               IF 2 * op.matched > Len(op.text)
               THEN \/ op.tenant \in op.list /\ GoInsert(x, op.text, op.tenant, tr)
                    \/ Go(x, Removing(tr, op.tenant), tr) /\ UNCHANGED routed
               ELSE \E w \in op.list : GoInsert(x, op.text, w, tr)
        /\ UNCHANGED <<members, begun>>

\* prefix_match_tenant_state: how far down the nodes of one tenant go with text.
TenantMatch(tr, text, t) ==
    LET below == InTree(tr) \ {TreeRoot}
        entered == {n \in below : t \in TenantsAt(tr, n) /\ IsPrefix(tr.nodes[n].up[1], text)}
        walk == {n \in entered : \A m \in below \ entered : ~IsStrictPrefix(m[1], n[1])}
    IN  Max({0} \cup {SharedCount(n[1], text) : n \in walk})
-----------------------------------------------------------------------------
(* Steps of remove_tenant and of evict_tenant_by_size.                     *)

\* Mutant: the node may have children of the tenant.
EvictUnchecked(tr, n, t) ==
    /\ t \in DOMAIN tr.count => tr.count[t] > MaxTreeSize
    /\ t \in TenantsAt(tr, n)

\* An entry is evicted when its tenant is still above the limit and its node
\* still a leaf of it.
Evictable(tr, n, t) ==
    /\ t \in DOMAIN tr.count => tr.count[t] > MaxTreeSize
    /\ IsLeaf(tr, n, t)

SweepPop ==
    LET op == threads["sweeper"]
    IN  /\ op.do = "sweep"
        /\ \E e \in op.queue :
               LET left == [op EXCEPT !.queue = @ \ {e}]
               IN  Go("sweeper", IF Evictable(tree, e[1], e[2])
                                 THEN [left EXCEPT !.do = "evict", !.at = e[1], !.tenant = e[2]] ELSE left, tree)
        /\ UNCHANGED <<members, begun, routed>>

\* The count goes down by the length of the node.
SweepDiscount ==
    LET op == threads["sweeper"]
        size == tree.nodes[op.at].len
    IN  /\ op.do = "evict"
        /\ Go("sweeper", [op EXCEPT !.do = "detach"],
              IF op.tenant \notin DOMAIN tree.count THEN tree
              ELSE [tree EXCEPT !.count[op.tenant] = IF @ > size THEN @ - size ELSE 0])
        /\ UNCHANGED <<members, begun, routed>>

\* The tenant leaves the node, and the node's parent is read.
Detach(x) ==
    LET op == threads[x]
        detached(n) == [op EXCEPT !.do = "emptied", !.at = n, !.to = tree.nodes[n].up, !.queue = @ \ {<<n, op.tenant>>}]
    IN  /\ \E n \in IF op.do = "detach" THEN {op.at} ELSE IF op.do = "remove" THEN {e[1] : e \in op.queue} ELSE {} :
               Go(x, detached(n), [tree EXCEPT !.nodes[n].tenants = @ \ {op.tenant}])
        /\ UNCHANGED <<members, begun, routed>>

\* After the node, its parent is next if it thereby became a leaf.
NextEntry(x, tr) ==
    LET op == threads[x]
        new == IF op.to # NoNode /\ IsLeaf(tr, op.to, op.tenant) THEN {<<op.to, op.tenant>>} ELSE {}
        next == [op EXCEPT !.at = NoNode, !.to = NoNode, !.queue = @ \cup new]
    IN  IF x = "sweeper" THEN [next EXCEPT !.do = "sweep", !.tenant = NoTenant] ELSE [next EXCEPT !.do = "remove"]

\* A node without children and tenants is to be unlinked: its text is locked
\* for its first character.
CheckEmpty(x) ==
    LET op == threads[x]
    IN  /\ op.do = "emptied"
        /\ Go(x, IF Kids(tree, op.at) = {} /\ TenantsAt(tree, op.at) = {} /\ op.to # NoNode
                 THEN [op EXCEPT !.do = "unlink"] ELSE NextEntry(x, tree), tree)
        /\ UNCHANGED <<members, begun, routed>>

\* Whatever the parent has under that character goes.
Unlink(x) ==
    LET op == threads[x]
        c == TextOf(tree, op.at)[1]
        tr == [tree EXCEPT !.nodes[op.to].kids = Restrict(@, DOMAIN @ \ {c})]
    IN  /\ op.do = "unlink" /\ ~Entered(op.to, c)
        /\ Go(x, NextEntry(x, tr), tr)
        /\ UNCHANGED <<members, begun, routed>>

\* remove_tenant ends with the count, the sweep with its queue.
RemovalEnd(x) ==
    LET op == threads[x]
    IN  /\ op.do \in {"remove", "sweep"} /\ op.queue = {}
        /\ Go(x, Idle, IF op.do = "sweep" THEN tree
                       ELSE [tree EXCEPT !.count = Restrict(@, DOMAIN @ \ {op.tenant})])
        /\ UNCHANGED <<members, begun, routed>>
-----------------------------------------------------------------------------
(* The policy.                                                             *)

\* add_worker, init_workers: the worker is a tenant of the root.
CacheAddWorker(w) ==
    /\ Begin /\ threads["admin"] = Idle /\ threads["sweeper"] = Idle
    /\ w \notin members
    /\ members' = members \cup {w}
    /\ GoInsert("admin", <<>>, w, IF tree = NoTree THEN NewTree ELSE tree)

\* remove_worker, remove_placement_target.
CacheRemoveWorker(w) ==
    /\ Begin /\ threads["admin"] = Idle
    /\ w \in members
    /\ members' = members \ {w}
    /\ Go("admin", Removing(tree, w), tree)
    /\ UNCHANGED routed

\* commit_placement: the scheduler has placed a program on a worker, which
\* may have been removed since.
CommitPlacement(text, w) ==
    /\ Begin /\ threads["admin"] = Idle /\ threads["sweeper"] = Idle
    /\ GoInsert("admin", text, w, IF tree = NoTree THEN NewTree ELSE tree)
    /\ UNCHANGED members

\* select_worker_with_headers: with balanced load the tree is asked; otherwise
\* select_worker_min_load takes a worker and inserts the text for it.
SelectWorker(x, text) ==
    /\ Begin /\ threads[x] = Idle /\ ~Writing
    /\ members # {} /\ tree # NoTree
    /\ \/ Go(x, Walking(text), tree) /\ UNCHANGED routed
       \/ \E w \in members : GoInsert(x, text, w, tree)
    /\ UNCHANGED members

SweepStart ==
    /\ Begin /\ threads["sweeper"] = Idle /\ ~Writing
    /\ tree # NoTree
    /\ Go("sweeper", [Idle EXCEPT !.do = "sweep",
                         !.queue = UNION {{<<n, t>> : t \in {u \in TenantsAt(tree, n) : IsLeaf(tree, n, u)}} : n \in InTree(tree)}],
          tree)
    /\ UNCHANGED <<members, routed>>

\* No tree yet, or the workers were added and texts have been routed.
CacheInit ==
    /\ threads = [x \in Threads |-> Idle] /\ begun = 0 /\ overlaps = {}
    /\ \/ members = {} /\ tree = NoTree /\ routed = [w \in CacheWorkers |-> {}]
       \/ \E past \in Pasts :
              /\ members = CacheWorkers
              /\ tree = FoldLeft(LAMBDA tr, r : Insert(tr, r[2], r[1]), NewTree, past)
              /\ routed = [w \in CacheWorkers |-> {past[i][2] : i \in {j \in DOMAIN past : past[j][1] = w}}]

CacheNext ==
    \/ \E w \in CacheWorkers : CacheAddWorker(w) \/ CacheRemoveWorker(w) \/ \E text \in Texts : CommitPlacement(text, w)
    \/ \E x \in Requesters, text \in Texts : SelectWorker(x, text)
    \/ \E x \in Threads :
           \/ InsertLevel(x) \/ MatchWalk(x) \/ MatchPick(x) \/ MatchTouch(x)
           \/ Detach(x) \/ CheckEmpty(x) \/ Unlink(x) \/ RemovalEnd(x)
    \/ SweepStart \/ SweepPop \/ SweepDiscount
-----------------------------------------------------------------------------
UsedSize(t) == MapThenSumSet(LAMBDA n : tree.nodes[n].len, {n \in InTree(tree) : t \in TenantsAt(tree, n)})

\* The tenant is being removed, or its count is ahead of the sweep.
InRemoval(t) == \E x \in Threads : threads[x].tenant = t /\ Removes(threads[x]) /\ (x = "sweeper" => threads[x].do = "detach")

\* As long as no insertion has met a removal in the middle of a node, the size
\* that eviction goes by (tenant_char_count) is the size of the worker's nodes
\* (get_used_size_per_tenant), whatever insertions, splits and matches ran at
\* once and wherever they came between the turns of a sweep.
CountsAreExact ==
    "insertion" \notin overlaps =>
        \A t \in DOMAIN tree.count : InRemoval(t) \/ tree.count[t] = UsedSize(t)

\* Under any interleaving a node lies where its text says, so that what the
\* tree holds are prefixes of texts, and a tenant of a node was routed one of
\* the texts it is a prefix of.  Without the overlaps a tenant of a node is one
\* of its parent, and only a node about to be unlinked has none.
TreeIsWellFormed ==
    \A n \in InTree(tree) :
        /\ \A c \in DOMAIN tree.nodes[n].kids :
               LET m == tree.nodes[n].kids[c]
               IN  m[1] = n[1] \o TextOf(tree, m) /\ TextOf(tree, m)[1] = c
        /\ \A w \in TenantsAt(tree, n) \ {EmptyTenant} : \E text \in routed[w] : IsPrefix(n[1], text)
        /\ overlaps = {} /\ n # TreeRoot =>
               /\ TenantsAt(tree, n) # {} \/ \E x \in Threads : threads[x].at = n /\ threads[x].do \in {"emptied", "unlink"}
               /\ TenantsAt(tree, n) \subseteq TenantsAt(tree, tree.nodes[n].up)

\* When a sweep that nothing disturbed has gone through its queue, no worker is
\* above the limit; after a removal that nothing disturbed the tenant is gone
\* from the whole tree, whatever overlaps there were before.
RemovalsAreThorough ==
    \A x \in Threads :
        LET op == threads[x]
        IN  op.sure /\ op.queue = {} =>
                /\ op.do = "remove" => \A n \in InTree(tree) : op.tenant \notin TenantsAt(tree, n)
                /\ op.do = "sweep" /\ "insertion" \notin overlaps =>
                       \A t \in DOMAIN tree.count : InRemoval(t) \/ tree.count[t] <= MaxTreeSize

\* A match that no removal and no split under its hands disturbed names a
\* worker that owns all of the matched prefix, which is no shorter than the
\* longest one owned when it began and no longer than the longest one owned
\* now.  The walk for one worker finds its own longest prefix.
MatchesAreLongest ==
    /\ \A x \in Threads :
           LET op == threads[x]
           IN  op.do = "touch" /\ op.sure /\ op.tenant \in CacheWorkers =>
                   /\ SubSeq(op.text, 1, op.matched) \in Owned(tree)[op.tenant]
                   /\ op.least <= op.matched
    /\ overlaps = {} /\ tree # NoTree =>
           LET owned == Owned(tree)
           IN  \A w \in CacheWorkers, text \in Texts : TenantMatch(tree, text, w) = Longest(text, owned[w])

Owners == INSTANCE PrefixOwners WITH owns <- Owned(tree)

\* A step gives prefixes of one text to one worker or takes some from one
\* worker.  Only a removal that met an insertion may unlink what several have.
KeepsOwners ==
    /\ Owners!OwnersInit
    /\ [][Owners!OwnersNext \/ ("insertion" \in overlaps' /\ Owners!AllLose)]_(Owners!ownersVars)

(***************************************************************************)
(* What the prefix tree of the cache-aware policy keeps under its          *)
(* node-level locks: its shape and its owners always, and exact sizes,     *)
(* thorough removals and longest matches unless operations overlap that    *)
(* the code does not keep apart.                                           *)
(***************************************************************************)
TreeIsSound ==
    /\ [](CountsAreExact /\ TreeIsWellFormed /\ RemovalsAreThorough /\ MatchesAreLongest)
    /\ KeepsOwners
=============================================================================
