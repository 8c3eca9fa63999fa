--------------------------- MODULE TopologyProofs ---------------------------
(***************************************************************************)
(* The cache of Program targets is current, for any workers, calls and     *)
(* pools.                                                                  *)
(*                                                                         *)
(* A view is computed under a revision that is read before and compared    *)
(* after.  A call that changes what a view is made from is Changing until  *)
(* it has bumped the revision, so a view that may mix the old and the new  *)
(* carries a revision that is over by the time the call is done.           *)
(***************************************************************************)
EXTENDS WorkerTopology, TLAPS

\* Every leaf has a minute of each prover, so that a busy machine fails none of them.
USE SMTT(60), ZenonT(60)

Quiet == \A t \in Tasks : ~Changing(t)

\* A view of a pool is complete: it names the workers of the pool.
Complete(view, p) == view.targets \cup view.skipped = UrlsIn(PoolWorkers(p))

\* A view made under revision n is complete, unless the revision is over or a
\* call that will end it is under way.
Dated(n, view, p) == Quiet /\ n = revision => Complete(view, p)

\* The calls are functions with a program counter.
CallsAreTyped == DOMAIN tasks = Tasks /\ \A t \in Tasks : "pc" \in DOMAIN tasks[t]

CacheInv ==
    /\ revision \in Nat /\ config \in Configs
    /\ CallsAreTyped
    /\ DOMAIN cache = Pools /\ DOMAIN request = {"pc", "pool", "revision", "view"}
    /\ \A p \in Pools : cache[p] # None =>
           /\ cache[p].revision \in Nat /\ cache[p].revision <= revision
           /\ Dated(cache[p].revision, cache[p].view, p)
    /\ request.pc \in {"lookup", "recheck"} =>
           request.pool \in Pools /\ request.revision \in Nat /\ request.revision <= revision
    /\ request.pc = "recheck" => Dated(request.revision, request.view, request.pool)

\* What a step of the calls, of discovery or of the workers may do: it ends the
\* revision, or is under way, or leaves alone what views are made from.
StaysDated ==
    /\ revision' \in Nat /\ revision' >= revision
    /\ Quiet' /\ revision' = revision => Quiet /\ UNCHANGED <<workers, model_index>>

\* A view that was complete or over is so after a step that keeps the dates.
LEMMA DatesStay ==
    ASSUME StaysDated, revision \in Nat, NEW n \in Nat, n <= revision, NEW view, NEW p \in Pools,
           Dated(n, view, p)
    PROVE  Dated(n, view, p)'
<1> SUFFICES ASSUME Quiet', n = revision'
             PROVE  Complete(view, p)'
    BY DEF Dated
<1>1. revision' = revision
    BY DEF StaysDated
<1>2. Quiet /\ UNCHANGED <<workers, model_index>>
    BY <1>1 DEF StaysDated
<1>3. Complete(view, p)
    BY <1>1, <1>2 DEF Dated
<1> QED
    BY <1>2, <1>3 DEF Complete, PoolWorkers, Registered

\* What program_targets_for_model computes names the workers of the pool,
\* available or not.
LEMMA ViewIsComplete ==
    ASSUME NEW p \in Pools
    PROVE  Complete(View(p), p)
<1> DEFINE W == PoolWorkers(p)
<1>1. View(p).targets = UrlsIn({w \in W : w.gen \notin down})
    BY DEF View
<1>2. View(p).skipped = UrlsIn({w \in W : w.gen \in down})
    BY DEF View
<1>3. UrlsIn({w \in W : w.gen \notin down}) \cup UrlsIn({w \in W : w.gen \in down}) = UrlsIn(W)
    <2> HIDE DEF W
    <2> QED BY DEF UrlsIn
<1> QED
    BY <1>1, <1>2, <1>3 DEF Complete

\* A call that has not begun to change the maps, and does not, is no reason for
\* a view to be stale.
LEMMA QuietSteps ==
    ASSUME revision \in Nat, revision' = revision, NEW t \in Tasks, ~Changing(t),
           UNCHANGED <<workers, model_index>>, \A o \in Tasks \ {t} : tasks'[o] = tasks[o]
    PROVE  StaysDated
BY DEF StaysDated, Quiet, Changing

\* A call that is changing the maps holds every view back.
LEMMA ChangingSteps ==
    ASSUME revision \in Nat, revision' = revision, NEW t \in Tasks, Changing(t)'
    PROVE  StaysDated
BY DEF StaysDated, Quiet

\* notify_worker_state_change ends the revision.
LEMMA EndingSteps ==
    ASSUME revision \in Nat, revision' = revision + 1
    PROVE  StaysDated
BY DEF StaysDated

\* A step to the next place of a call moves that call alone.
LEMMA GotoFacts ==
    ASSUME CallsAreTyped, NEW t \in Tasks, NEW pc, Goto(t, pc)
    PROVE  /\ CallsAreTyped' /\ tasks'[t].pc = pc
           /\ \A o \in Tasks \ {t} : tasks'[o] = tasks[o]
BY DEF CallsAreTyped, Goto

\* So does going on to the next worker of a call, or ending the call.
LEMMA NextWorkerFacts ==
    ASSUME CallsAreTyped, NEW t \in Tasks, NEW added, NextWorker(t, added)
    PROVE  CallsAreTyped' /\ \A o \in Tasks \ {t} : tasks'[o] = tasks[o]
<1> DEFINE call == tasks[t]
           c == IF Tail(call.todo) = <<>> THEN Idle
                ELSE [call EXCEPT !.pc = IF call.op = "remove" THEN "unmap" ELSE "check",
                                  !.todo = Tail(call.todo), !.worker = None, !.id = None,
                                  !.added = call.added \/ added]
<1>1. tasks' = [tasks EXCEPT ![t] = c]
    BY DEF NextWorker
<1>2. "pc" \in DOMAIN c
    BY DEF CallsAreTyped, Idle
<1> HIDE DEF c
<1> QED
    BY <1>1, <1>2 DEF CallsAreTyped

\* So does beginning a call.
LEMMA BeginFacts ==
    ASSUME CallsAreTyped, NEW t \in Tasks, NEW call, "pc" \in DOMAIN call, Begin(t, call)
    PROVE  CallsAreTyped' /\ \A o \in Tasks \ {t} : tasks'[o] = tasks[o]
BY DEF CallsAreTyped, Begin

\* A step of a call, of Router, RouterManager, WorkerRegistry or PolicyRegistry,
\* leaves the readers alone and keeps what is cached dated: the four steps that
\* change what a view is made from leave the call Changing, and the only step
\* that ends that bumps the revision.
LEMMA TaskSteps ==
    ASSUME CallsAreTyped, revision \in Nat, NEW t \in Tasks, TaskStep(t)
    PROVE  CallsAreTyped' /\ StaysDated /\ UNCHANGED <<config, readers>>
<1> UNCHANGED <<config, readers>>
    BY ZenonT(60)
       DEF TaskStep, WorkerAnswers, WorkerStartupTimeout, CheckExists, RegisterLookup, RegisterInsert,
           RegisterMapUrl, RegisterModelIds, RegisterModelIndex, RegisterKinds, Notify, CountWorker,
           FindPolicy, StorePolicy, RemoveUnmap, RemoveTake, RemoveUnmapAgain, RemoveModelIds,
           RemoveModelIndex, RemoveKinds, UncountWorker, DropPolicy
<1> DEFINE Alone == \A o \in Tasks \ {t} : tasks'[o] = tasks[o]
<1>1. CASE WorkerAnswers(t)
    <2>1. /\ Goto(t, "check") /\ revision' = revision /\ ~Changing(t)
          /\ UNCHANGED <<workers, model_index>>
        BY <1>1 DEF WorkerAnswers, At, Changing, registry
    <2> QED BY <2>1, GotoFacts, QuietSteps
<1>2. CASE WorkerStartupTimeout(t)
    <2>1. /\ tasks' = [tasks EXCEPT ![t] = Idle] /\ revision' = revision /\ ~Changing(t)
          /\ UNCHANGED <<workers, model_index>>
        BY <1>2 DEF WorkerStartupTimeout, At, Changing, registry
    <2>2. CallsAreTyped' /\ Alone
        BY <2>1 DEF CallsAreTyped, Idle
    <2> QED BY <2>1, <2>2, QuietSteps
<1>3. CASE CheckExists(t)
    <2>1. revision' = revision /\ ~Changing(t) /\ UNCHANGED <<workers, model_index>>
        BY <1>3 DEF CheckExists, At, Changing, registry
    <2>2. CASE NextWorker(t, FALSE)
        BY <2>1, <2>2, NextWorkerFacts, QuietSteps, ZenonT(60)
    <2>3. CASE ~NextWorker(t, FALSE)
        <3> PICK w : tasks' = [tasks EXCEPT ![t].pc = "lookup", ![t].worker = w]
            BY <1>3, <2>3, ZenonT(60) DEF CheckExists
        <3>1. CallsAreTyped' /\ Alone
            BY DEF CallsAreTyped
        <3> QED BY <2>1, <3>1, QuietSteps, ZenonT(60)
    <2> QED BY <2>2, <2>3, ZenonT(60)
<1>4. CASE RegisterLookup(t)
    <2>1. revision' = revision /\ ~Changing(t) /\ UNCHANGED <<workers, model_index>>
        BY <1>4 DEF RegisterLookup, At, Changing, registry
    <2> PICK i : tasks' = [tasks EXCEPT ![t].pc = "insert", ![t].id = i]
        BY <1>4, ZenonT(60) DEF RegisterLookup
    <2>2. CallsAreTyped' /\ Alone
        BY DEF CallsAreTyped
    <2> QED BY <2>1, <2>2, QuietSteps, ZenonT(60)
<1>5. CASE RegisterInsert(t)
    <2>1. Goto(t, "map") /\ revision' = revision
        BY <1>5 DEF RegisterInsert
    <2> QED BY <2>1, GotoFacts, ChangingSteps DEF Changing
<1>6. CASE RegisterMapUrl(t)
    <2>1. Goto(t, "ids") /\ revision' = revision
        BY <1>6 DEF RegisterMapUrl
    <2> QED BY <2>1, GotoFacts, ChangingSteps DEF Changing
<1>7. CASE RegisterModelIds(t)
    <2>1. Goto(t, "index") /\ revision' = revision
        BY <1>7 DEF RegisterModelIds
    <2> QED BY <2>1, GotoFacts, ChangingSteps DEF Changing
<1>8. CASE RegisterModelIndex(t)
    <2>1. Goto(t, "kinds") /\ revision' = revision
        BY <1>8 DEF RegisterModelIndex
    <2> QED BY <2>1, GotoFacts, ChangingSteps DEF Changing
<1>9. CASE RegisterKinds(t)
    <2>1. Goto(t, "notify") /\ revision' = revision
        BY <1>9 DEF RegisterKinds
    <2> QED BY <2>1, GotoFacts, ChangingSteps DEF Changing
<1>10. CASE Notify(t)
    <2>1. revision' = revision + 1 /\ Goto(t, IF tasks[t].op = "remove" THEN "uncount" ELSE "count")
        BY <1>10 DEF Notify
    <2> QED BY <2>1, GotoFacts, EndingSteps
<1>11. CASE CountWorker(t)
    <2>1. /\ Goto(t, "find") /\ revision' = revision /\ ~Changing(t)
          /\ UNCHANGED <<workers, model_index>>
        BY <1>11 DEF CountWorker, At, Changing, registry
    <2> QED BY <2>1, GotoFacts, QuietSteps
<1>12. CASE FindPolicy(t)
    <2>1. /\ NextWorker(t, TRUE) \/ Goto(t, "store")
          /\ revision' = revision /\ ~Changing(t) /\ UNCHANGED <<workers, model_index>>
        BY <1>12, ZenonT(60) DEF FindPolicy, At, Changing, registry
    <2>2. CallsAreTyped' /\ Alone
        BY <2>1, GotoFacts, NextWorkerFacts, ZenonT(60)
    <2> QED BY <2>1, <2>2, QuietSteps
<1>13. CASE StorePolicy(t)
    <2>1. /\ NextWorker(t, TRUE) /\ revision' = revision /\ ~Changing(t)
          /\ UNCHANGED <<workers, model_index>>
        BY <1>13, ZenonT(60) DEF StorePolicy, At, Changing, registry
    <2> QED BY <2>1, NextWorkerFacts, QuietSteps, ZenonT(60)
<1>14. CASE RemoveUnmap(t)
    <2>1. revision' = revision /\ ~Changing(t) /\ UNCHANGED <<workers, model_index>>
        BY <1>14 DEF RemoveUnmap, At, Changing, registry
    <2>2. CASE NextWorker(t, FALSE)
        BY <2>1, <2>2, NextWorkerFacts, QuietSteps, ZenonT(60)
    <2>3. CASE ~NextWorker(t, FALSE)
        <3> PICK i : tasks' = [tasks EXCEPT ![t].pc = "take", ![t].id = i]
            BY <1>14, <2>3, ZenonT(60) DEF RemoveUnmap
        <3>1. CallsAreTyped' /\ Alone
            BY DEF CallsAreTyped
        <3> QED BY <2>1, <3>1, QuietSteps, ZenonT(60)
    <2> QED BY <2>2, <2>3, ZenonT(60)
<1>15. CASE RemoveTake(t)
    <2>1. revision' = revision /\ UNCHANGED model_index
        BY <1>15 DEF RemoveTake
    <2>2. CASE workers[tasks[t].id] = None
        <3>1. NextWorker(t, FALSE) /\ UNCHANGED workers /\ ~Changing(t)
            BY <1>15, <2>2, ZenonT(60) DEF RemoveTake, At, Changing, registry
        <3> QED BY <2>1, <3>1, NextWorkerFacts, QuietSteps, ZenonT(60)
    <2>3. CASE workers[tasks[t].id] # None
        <3> PICK w : tasks' = [tasks EXCEPT ![t].pc = "unmap_again", ![t].worker = w]
            BY <1>15, <2>3 DEF RemoveTake
        <3>1. CallsAreTyped' /\ tasks'[t].pc = "unmap_again"
            BY DEF CallsAreTyped
        <3> QED BY <2>1, <3>1, ChangingSteps, ZenonT(60) DEF Changing
    <2> QED BY <2>2, <2>3
<1>16. CASE RemoveUnmapAgain(t)
    <2>1. Goto(t, "unlist") /\ revision' = revision
        BY <1>16 DEF RemoveUnmapAgain
    <2> QED BY <2>1, GotoFacts, ChangingSteps DEF Changing
<1>17. CASE RemoveModelIds(t)
    <2>1. Goto(t, "unindex") /\ revision' = revision
        BY <1>17 DEF RemoveModelIds
    <2> QED BY <2>1, GotoFacts, ChangingSteps DEF Changing
<1>18. CASE RemoveModelIndex(t)
    <2>1. Goto(t, "unkind") /\ revision' = revision
        BY <1>18 DEF RemoveModelIndex
    <2> QED BY <2>1, GotoFacts, ChangingSteps DEF Changing
<1>19. CASE RemoveKinds(t)
    <2>1. Goto(t, "notify") /\ revision' = revision
        BY <1>19 DEF RemoveKinds
    <2> QED BY <2>1, GotoFacts, ChangingSteps DEF Changing
<1>20. CASE UncountWorker(t)
    <2>1. /\ NextWorker(t, TRUE) \/ Goto(t, "drop")
          /\ revision' = revision /\ ~Changing(t) /\ UNCHANGED <<workers, model_index>>
        BY <1>20, ZenonT(60) DEF UncountWorker, At, Changing, registry
    <2>2. CallsAreTyped' /\ Alone
        BY <2>1, GotoFacts, NextWorkerFacts, ZenonT(60)
    <2> QED BY <2>1, <2>2, QuietSteps
<1>21. CASE DropPolicy(t)
    <2>1. /\ NextWorker(t, TRUE) /\ revision' = revision /\ ~Changing(t)
          /\ UNCHANGED <<workers, model_index>>
        BY <1>21, ZenonT(60) DEF DropPolicy, At, Changing, registry
    <2> QED BY <2>1, NextWorkerFacts, QuietSteps, ZenonT(60)
<1> QED
    BY <1>1, <1>2, <1>3, <1>4, <1>5, <1>6, <1>7, <1>8, <1>9, <1>10, <1>11,
       <1>12, <1>13, <1>14, <1>15, <1>16, <1>17, <1>18, <1>19, <1>20, <1>21 DEF TaskStep

\* add_worker, remove_worker and handle_pod_event begin a call and change no map.
LEMMA CallSteps ==
    ASSUME CallsAreTyped, revision \in Nat, NEW t \in Tasks, At(t, "idle"), NEW call, "pc" \in DOMAIN call,
           Begin(t, call), UNCHANGED <<workers, model_index, revision>>
    PROVE  CallsAreTyped' /\ StaysDated
<1>1. ~Changing(t)
    BY DEF At, Changing
<1> QED
    BY <1>1, BeginFacts, QuietSteps

\* The calls that add_worker, remove_worker and discovery begin have a place.
LEMMA CallsHavePcs ==
    /\ \A h : "pc" \in DOMAIN AddCall(h) /\ "pc" \in DOMAIN RemoveCall(h)
    /\ \A pc, op, host, todo, hint, worker :
           "pc" \in DOMAIN [Idle EXCEPT !.pc = pc, !.op = op, !.host = host, !.todo = todo, !.hint = hint,
                                        !.worker = worker]
    /\ \A pc, op, host, todo, worker :
           "pc" \in DOMAIN [Idle EXCEPT !.pc = pc, !.op = op, !.host = host, !.todo = todo,
                                        !.worker = worker]
<1>1. "pc" \in DOMAIN Idle
    BY DEF Idle
<1>2. ASSUME NEW h PROVE "pc" \in DOMAIN AddCall(h)
    BY <1>1 DEF AddCall
<1>3. ASSUME NEW h PROVE "pc" \in DOMAIN RemoveCall(h)
    BY <1>1 DEF RemoveCall
<1> HIDE DEF Idle
<1> QED
    BY <1>1, <1>2, <1>3

\* A change of what the readers do not see leaves every date alone.
LEMMA SameRegistryStays ==
    ASSUME revision \in Nat, UNCHANGED <<workers, model_index, revision, tasks>>
    PROVE  StaysDated
BY DEF StaysDated, Quiet, Changing

\* What is not a step of the readers keeps the invariant.
LEMMA OthersKeep ==
    ASSUME CacheInv, CallsAreTyped', StaysDated, UNCHANGED <<config, readers>>
    PROVE  CacheInv'
<1>1. UNCHANGED <<cache, request, config>> /\ revision' \in Nat /\ revision' >= revision /\ revision \in Nat
    BY DEF readers, StaysDated, CacheInv
<1>2. ASSUME NEW p \in Pools, cache[p] # None
      PROVE  /\ cache[p].revision \in Nat /\ cache[p].revision <= revision'
             /\ Dated(cache[p].revision, cache[p].view, p)'
    <2>1. cache[p].revision \in Nat /\ cache[p].revision <= revision
          /\ Dated(cache[p].revision, cache[p].view, p)
        BY <1>2 DEF CacheInv
    <2> PICK n, v : n = cache[p].revision /\ v = cache[p].view
        OBVIOUS
    <2>2. Dated(n, v, p)'
        BY <2>1, <1>1, DatesStay
    <2> QED BY <2>1, <2>2, <1>1 DEF Dated, Complete
<1>3. ASSUME request.pc = "recheck"
      PROVE  Dated(request.revision, request.view, request.pool)'
    <2>1. /\ request.pool \in Pools /\ request.revision \in Nat /\ request.revision <= revision
          /\ Dated(request.revision, request.view, request.pool)
        BY <1>3 DEF CacheInv
    <2> PICK n, v, p : n = request.revision /\ v = request.view /\ p = request.pool
        OBVIOUS
    <2>2. Dated(n, v, p)'
        BY <2>1, <1>1, DatesStay
    <2> QED BY <2>1, <2>2, <1>1 DEF Dated, Complete
<1>4. request.pc \in {"lookup", "recheck"} =>
          request.pool \in Pools /\ request.revision \in Nat /\ request.revision <= revision'
    BY <1>1 DEF CacheInv
<1> QED
    BY <1>1, <1>2, <1>3, <1>4 DEF CacheInv

\* program_targets_for_model: the list is computed from the maps as they are, and
\* cached only under the revision read before, if it is still the current one.
LEMMA RequestsKeep ==
    ASSUME CacheInv, RequestStep \/ \E pool \in config.pools : RequestArrives(pool)
    PROVE  CacheInv'
<1>1. UNCHANGED <<config, workers, model_index, revision, tasks>>
    BY DEF RequestStep, RequestArrives, RequestLooksUp, RequestRechecks, RequestAcquires, registry
<1>2. \A n, v, p : Dated(n, v, p)' <=> Dated(n, v, p)
    BY <1>1 DEF Dated, Quiet, Changing, Complete, PoolWorkers, Registered
<1>3. CallsAreTyped' /\ revision' \in Nat /\ config' \in Configs
    BY <1>1 DEF CallsAreTyped, CacheInv
<1>4. ASSUME NEW pool \in config.pools, RequestArrives(pool)
      PROVE  CacheInv'
    <2>1. /\ request' = [pc |-> "lookup", pool |-> Resolved(pool), revision |-> revision, view |-> None]
          /\ cache' = cache
        BY <1>4 DEF RequestArrives
    <2>2. Resolved(pool) \in Pools
        BY TopologyIsValid DEF Resolved, CacheInv, Pools, ModelIds
    <2> QED BY <1>1, <1>2, <1>3, <2>1, <2>2 DEF CacheInv
<1>5. CASE RequestLooksUp
    <2>1. request.pc = "lookup" /\ request.pool \in Pools /\ cache' = cache
        BY <1>5 DEF RequestLooksUp, CacheInv
    <2>2. CASE \E v : request' = [request EXCEPT !.pc = "acquire", !.view = v]
        <3>1. request'.pc = "acquire" /\ DOMAIN request' = DOMAIN request
            BY <2>2 DEF CacheInv
        <3> QED BY <1>1, <1>2, <1>3, <2>1, <3>1 DEF CacheInv
    <2>3. CASE request' = [request EXCEPT !.pc = "recheck", !.view = View(request.pool)]
        <3>1. /\ request'.pc = "recheck" /\ request'.view = View(request.pool)
              /\ request'.pool = request.pool /\ request'.revision = request.revision
              /\ DOMAIN request' = DOMAIN request
            BY <2>3 DEF CacheInv
        <3>2. Dated(request.revision, View(request.pool), request.pool)
            BY <2>1, ViewIsComplete DEF Dated
        <3>3. Dated(request'.revision, request'.view, request'.pool)
            BY <3>1, <3>2
        <3> QED BY <1>1, <1>2, <1>3, <2>1, <3>1, <3>3 DEF CacheInv
    <2> QED BY <1>5, <2>2, <2>3, ZenonT(60) DEF RequestLooksUp
<1>6. CASE RequestRechecks
    <2>1. /\ request.pc = "recheck" /\ request.pool \in Pools /\ request.revision \in Nat
          /\ Dated(request.revision, request.view, request.pool)
        BY <1>6 DEF RequestRechecks, CacheInv
    <2>2. CASE revision # request.revision
        <3>1. /\ request' = [request EXCEPT !.pc = "lookup", !.revision = revision, !.view = None]
              /\ cache' = cache
            BY <1>6, <2>2 DEF RequestRechecks
        <3>2. /\ request'.pc = "lookup" /\ request'.revision = revision /\ request'.pool = request.pool
              /\ DOMAIN request' = DOMAIN request
            BY <3>1 DEF CacheInv
        <3> QED BY <1>1, <1>2, <1>3, <2>1, <3>1, <3>2 DEF CacheInv
    <2>3. CASE revision = request.revision
        <3>1. /\ request' = [request EXCEPT !.pc = "acquire"]
              /\ cache' = [cache EXCEPT ![request.pool] =
                               [revision |-> request.revision, view |-> request.view]]
            BY <1>6, <2>3 DEF RequestRechecks
        <3>2. request'.pc = "acquire" /\ DOMAIN request' = DOMAIN request
            BY <3>1 DEF CacheInv
        <3>3. ASSUME NEW p \in Pools, cache'[p] # None
              PROVE  /\ cache'[p].revision \in Nat /\ cache'[p].revision <= revision
                     /\ Dated(cache'[p].revision, cache'[p].view, p)
            <4>1. CASE p = request.pool
                BY <4>1, <3>1, <2>1, <2>3 DEF CacheInv
            <4>2. CASE p # request.pool
                BY <4>2, <3>1, <3>3 DEF CacheInv
            <4> QED BY <4>1, <4>2
        <3>4. DOMAIN cache' = Pools
            BY <3>1 DEF CacheInv
        <3> QED BY <1>1, <1>2, <1>3, <3>2, <3>3, <3>4 DEF CacheInv
    <2> QED BY <2>2, <2>3
<1>7. CASE RequestAcquires
    <2>1. request' = NoReader /\ cache' = cache
        BY <1>7 DEF RequestAcquires
    <2>2. request'.pc = "idle" /\ DOMAIN request' = {"pc", "pool", "revision", "view"}
        BY <2>1 DEF NoReader
    <2> QED BY <1>1, <1>2, <1>3, <2>1, <2>2 DEF CacheInv
<1> QED
    BY <1>4, <1>5, <1>6, <1>7 DEF RequestStep

\* sync_program_targets_from_registry reads the registry and leaves it alone.
LEMMA SyncKeeps ==
    ASSUME CacheInv, SyncStep
    PROVE  CacheInv'
<1>1. UNCHANGED <<config, workers, model_index, revision, tasks, cache, request>>
    BY DEF SyncStep, SyncStarts, SyncCollects, SyncRechecks, SyncInstalls, SyncConfirms, registry
<1>2. \A n, v, p : Dated(n, v, p)' <=> Dated(n, v, p)
    BY <1>1 DEF Dated, Quiet, Changing, Complete, PoolWorkers, Registered
<1>3. CallsAreTyped'
    BY <1>1 DEF CallsAreTyped, CacheInv
<1> QED
    BY <1>1, <1>2, <1>3 DEF CacheInv

\* Every step keeps the invariant.
LEMMA CacheStep ==
    ASSUME CacheInv, [Next]_vars
    PROVE  CacheInv'
<1>0. CallsAreTyped /\ revision \in Nat /\ config \in Configs
    BY DEF CacheInv
<1>1. ASSUME NEW t \in config.callers, NEW h \in Hosts, CallAddWorker(t, h) \/ CallRemoveWorker(t, h)
      PROVE  CacheInv'
    <2>1. t \in Tasks
        BY <1>0, TopologyIsValid DEF Tasks
    <2>2. /\ At(t, "idle") /\ UNCHANGED <<workers, model_index, revision, config, readers>>
          /\ Begin(t, AddCall(h)) \/ Begin(t, RemoveCall(h))
        BY <1>1 DEF CallAddWorker, CallRemoveWorker, registry
    <2>3. CallsAreTyped' /\ StaysDated
        BY <1>0, <2>1, <2>2, CallSteps, CallsHavePcs
    <2> QED BY <2>2, <2>3, OthersKeep
<1>2. ASSUME NEW t \in config.callers, NEW h \in Hosts, NEW m \in ModelIds, NEW k \in Kinds,
             NEW hint \in Hints, CallCreateWorker(t, <<h, 0>>, m, k, hint)
      PROVE  CacheInv'
    <2>1. t \in Tasks
        BY <1>0, TopologyIsValid DEF Tasks
    <2> DEFINE u == <<h, 0>>
               call == [Idle EXCEPT !.pc = "lookup", !.op = "add", !.host = u[1], !.todo = <<u>>, !.hint = hint,
                            !.worker = [url |-> u, model |-> m, kind |-> k, gen |-> made + 1]]
    <2>2. /\ At(t, "idle") /\ UNCHANGED <<workers, model_index, revision, config, readers>>
          /\ Begin(t, call)
        BY <1>2 DEF CallCreateWorker, registry
    <2>3. "pc" \in DOMAIN call
        BY CallsHavePcs
    <2> HIDE DEF call
    <2>4. CallsAreTyped' /\ StaysDated
        BY <1>0, <2>1, <2>2, <2>3, CallSteps
    <2> QED BY <2>2, <2>4, OthersKeep
<1>3. ASSUME NEW t \in Tasks, TaskStep(t)
      PROVE  CacheInv'
    BY <1>0, <1>3, TaskSteps, OthersKeep
<1>4. ASSUME NEW p \in Pods, PodChanges(p)
      PROVE  CacheInv'
    <2>1. UNCHANGED <<workers, model_index, revision, tasks, config, readers>>
        BY <1>4 DEF PodChanges, registry
    <2>2. CallsAreTyped'
        BY <1>0, <2>1 DEF CallsAreTyped
    <2> QED BY <1>0, <2>1, <2>2, SameRegistryStays, OthersKeep
<1>5. ASSUME NEW p \in Pods, PodReady(p)
      PROVE  CacheInv'
    <2>1. "discovery" \in Tasks
        BY DEF Tasks
    <2>2. /\ At("discovery", "idle") /\ UNCHANGED <<workers, model_index, revision, config, readers>>
          /\ DiscoveryAdds(p)
        BY <1>5 DEF PodReady, registry
    <2>3. CASE Begin("discovery", AddCall(p))
        BY <1>0, <2>1, <2>2, <2>3, CallSteps, CallsHavePcs, OthersKeep
    <2>4. ASSUME NEW m \in ModelIds,
                 Begin("discovery", [Idle EXCEPT !.pc = "lookup", !.op = "add", !.host = p,
                    !.todo = <<<<p, 0>>>>,
                    !.worker = [url |-> <<p, 0>>, model |-> m, kind |-> "regular", gen |-> made + 1]])
          PROVE  CacheInv'
        <3> DEFINE call == [Idle EXCEPT !.pc = "lookup", !.op = "add", !.host = p, !.todo = <<<<p, 0>>>>,
                    !.worker = [url |-> <<p, 0>>, model |-> m, kind |-> "regular", gen |-> made + 1]]
        <3>1. "pc" \in DOMAIN call
            BY CallsHavePcs
        <3>2. Begin("discovery", call)
            BY <2>4
        <3> HIDE DEF call
        <3>3. CallsAreTyped' /\ StaysDated
            BY <1>0, <2>1, <2>2, <3>1, <3>2, CallSteps
        <3> QED BY <2>2, <3>3, OthersKeep
    <2> QED BY <2>2, <2>3, <2>4, ZenonT(60) DEF DiscoveryAdds
<1>6. ASSUME NEW p \in Pods, PodDeleted(p)
      PROVE  CacheInv'
    <2>1. "discovery" \in Tasks
        BY DEF Tasks
    <2>2. /\ At("discovery", "idle") /\ UNCHANGED <<workers, model_index, revision, config, readers>>
          /\ Begin("discovery", RemoveCall(p))
        BY <1>6, ZenonT(60) DEF PodDeleted, registry
    <2> QED BY <1>0, <2>1, <2>2, CallSteps, CallsHavePcs, OthersKeep
<1>7. ASSUME NEW w, AvailabilityChanges(w) \/ CircuitRecovers(w)
      PROVE  CacheInv'
    <2>1. /\ UNCHANGED <<workers, model_index, tasks, config, readers>>
          /\ revision' = revision \/ revision' = revision + 1
        BY <1>7 DEF AvailabilityChanges, CircuitRecovers, registry
    <2>2. CallsAreTyped'
        BY <1>0, <2>1 DEF CallsAreTyped
    <2>3. StaysDated
        BY <1>0, <2>1, SameRegistryStays, EndingSteps
    <2> QED BY <2>1, <2>2, <2>3, OthersKeep
<1>8. CASE UNCHANGED vars
    <2>1. UNCHANGED <<workers, model_index, revision, tasks, config, readers>>
        BY <1>8 DEF vars, registry
    <2>2. CallsAreTyped'
        BY <1>0, <2>1 DEF CallsAreTyped
    <2> QED BY <1>0, <2>1, <2>2, SameRegistryStays, OthersKeep
<1> QED
    BY <1>1, <1>2, <1>3, <1>4, <1>5, <1>6, <1>7, <1>8, RequestsKeep, SyncKeeps, ZenonT(60) DEF Next

\* Router::new leaves nothing cached.
LEMMA CacheInitially ==
    Init => CacheInv
<1> SUFFICES ASSUME Init PROVE CacheInv
    OBVIOUS
<1>1. config \in Configs /\ revision = Len(FirstHosts) * config.dp
    BY DEF Init
<1>2. revision \in Nat
    BY <1>1, TopologyIsValid
<1>3. tasks = [t \in Tasks |-> Idle] /\ cache = [p \in Pools |-> None] /\ request = NoReader
    BY DEF Init
<1>4. CallsAreTyped
    BY <1>3 DEF CallsAreTyped, Idle
<1>5. request.pc = "idle" /\ DOMAIN request = {"pc", "pool", "revision", "view"}
    BY <1>3 DEF NoReader
<1> QED
    BY <1>1, <1>2, <1>3, <1>4, <1>5 DEF CacheInv

\* Whatever the calls, discovery, the health checks and the requests do, and in
\* whatever order, program_targets_for_model serves no list from its cache that
\* misses a worker of the pool or names one that is gone, once the call that
\* added or removed it has bumped the revision.
THEOREM CacheStaysCurrent == Spec => []CacheIsCurrent
<1>1. CacheInv => CacheIsCurrent
    BY DEF CacheInv, CacheIsCurrent, Dated, Complete, Quiet
<1> QED
    BY CacheInitially, CacheStep, <1>1, PTL DEF Spec
=============================================================================
