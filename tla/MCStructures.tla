----------------------------- MODULE MCStructures -----------------------------
(***************************************************************************)
(* The router's data structures and algorithms.  Every behaviour is about  *)
(* one of them; the state of the others stays in its initial value.        *)
(***************************************************************************)
EXTENDS KvFeed, CacheAware, Policies, Detokenize, RoutingText, ProgramIdentity,
        Configuration, ProgressTtl, Bindings, TokenizerCaches, GrpcChat,
        ChatRequests, WorkerAnswers, Destinations, ResponseStore

allVars == <<part, input, kvVars, cacheVars, ringVars, lineageVars, bindingVars,
             encodeVars, frontendVars, storeVars>>

\* Two prompts that share their first block.
SomePrompts == {<<"x", "y">>, <<"x", "z">>}

\* Texts that extend one another and that branch.
SomeTexts == {<<"a">>, <<"a", "b">>, <<"a", "a">>, <<"a", "a", "b">>}
\* Both workers were added, and no text, one or two texts were routed.
SomePasts ==
    {<<<<"w1", <<>>>>, <<"w2", <<>>>>>> \o routes :
        routes \in {<<>>, <<<<"w1", <<"a", "a", "b">>>>>>,
                    <<<<"w1", <<"a", "a">>>>, <<"w2", <<"a", "b">>>>>>, <<<<"w1", <<"a">>>>, <<"w1", <<"a", "b">>>>>>,
                    <<<<"w1", <<"a", "b">>>>, <<"w2", <<"a">>>>>>}}

\* The engines of the feed are alike, and so are the threads of the tree.
PartSymmetry == Permutations(KvWorkers) \cup Permutations(Requesters)

\* Lists that lose and regain workers.
SomeLists == {<<"w1", "w2", "w3">>, <<"w1", "w2">>, <<"w2", "w3">>}
ThreeWorkers == <<"w1", "w2", "w3">>
TwoPrefills == <<"p1", "p2">>

\* None, one or two stop sequences, some of which start alike.
SomeStops ==
    [hidden : {<<>>, <<<<"a", "b">>>>, <<<<"b">>, <<"a", "e">>>>, <<<<"a", "a", "b">>>>},
     visible : {<<>>, <<<<"b", "a">>>>}, tokens : {{}}, shown : {{}}]
    \cup [hidden : {<<>>, <<<<"a", "b">>>>}, visible : {<<>>}, tokens : {{"sp"}}, shown : {{}}]
    \cup [hidden : {<<<<"a", "b">>>>}, visible : {<<>>}, tokens : {{}}, shown : {{"b"}}]

\* Around the surrogates and the last characters.
SomeTokenIds == {-1, 0, 7, 55295, 55296, 57343, 57344, 1112060, 1112061, 1112062}

\* A text too large to keep, and three of which two or one fill a cache.
SomeEntryBytes == [x |-> 1, y |-> 2, z |-> 3, big |-> 4]

FrozenFeed ==
    /\ salted = FALSE
    /\ held = [w \in KvWorkers |-> {}] /\ life = [w \in KvWorkers |-> 1]
    /\ next_seq = [w \in KvWorkers |-> 0] /\ batches = 0
    /\ wire = [w \in KvWorkers |-> <<>>] /\ last = [w \in KvWorkers |-> Nothing]
    /\ feed = <<>> /\ locations = [h \in Hashes |-> {}] /\ transitions = {}
    /\ faults = [w \in KvWorkers |-> {}]

FrozenCache ==
    /\ members = {} /\ tree = NoTree /\ threads = [x \in Threads |-> Idle] /\ begun = 0
    /\ routed = [w \in CacheWorkers |-> {}] /\ overlaps = {}

FrozenRing ==
    /\ listed = <<>> /\ ring_of = <<>> /\ current_workers = <<>>
    /\ callers = [u \in RingCallers |-> NotCalling] /\ mixed = FALSE

Init ==
    /\ part \in {"algorithm", "feed", "cache", "ring", "lineage", "bindings", "encode", "frontend", "store"}
    /\ IF part = "algorithm"
       THEN \/ PolicyInput \/ RoutingTextInput \/ SMetricInput \/ ConfigurationInput
            \/ ProgressInput \/ BindingInput \/ GrpcInput \/ ChatRequestInput \/ UsageReportInput
            \/ input \in TokenInputs \/ input \in IdentityInputs \/ input \in CalibrationInputs
            \/ input \in RuleInputs \/ input \in HeaderInputs \/ input \in MergeInputs
            \/ input \in GatewayInputs \/ input \in RankInputs
       ELSE input = NoInput
    /\ IF part = "feed" THEN KvInit ELSE FrozenFeed
    /\ IF part = "cache" THEN CacheInit ELSE FrozenCache
    /\ IF part = "ring" THEN RingInit ELSE FrozenRing
    /\ IF part = "lineage" THEN LineageInit ELSE FrozenLineage
    /\ IF part = "bindings" THEN BindingInit ELSE FrozenBindings
    /\ EncodeInit
    /\ IF part = "frontend" THEN FrontendInit ELSE FrozenFrontend
    /\ StoreInit

Next ==
    \/ /\ part = "feed" /\ KvNext
       /\ UNCHANGED <<part, input, cacheVars, ringVars, lineageVars, bindingVars, encodeVars, frontendVars, storeVars>>
    \/ /\ part = "cache" /\ CacheNext
       /\ UNCHANGED <<part, input, kvVars, ringVars, lineageVars, bindingVars, encodeVars, frontendVars, storeVars>>
    \/ /\ part = "ring" /\ RingNext
       /\ UNCHANGED <<part, input, kvVars, cacheVars, lineageVars, bindingVars, encodeVars, frontendVars, storeVars>>
    \/ /\ part = "lineage" /\ LineageNext
       /\ UNCHANGED <<part, input, kvVars, cacheVars, ringVars, bindingVars, encodeVars, frontendVars, storeVars>>
    \/ /\ part = "bindings" /\ BindingNext
       /\ UNCHANGED <<part, input, kvVars, cacheVars, ringVars, lineageVars, encodeVars, frontendVars, storeVars>>
    \/ /\ part = "encode" /\ EncodeNext
       /\ UNCHANGED <<part, input, kvVars, cacheVars, ringVars, lineageVars, bindingVars, frontendVars, storeVars>>
    \/ /\ part = "frontend" /\ FrontendNext
       /\ UNCHANGED <<part, input, kvVars, cacheVars, ringVars, lineageVars, bindingVars, encodeVars, storeVars>>
    \/ /\ part = "store" /\ StoreNext
       /\ UNCHANGED <<part, input, kvVars, cacheVars, ringVars, lineageVars, bindingVars, encodeVars, frontendVars>>

Spec == Init /\ [][Next]_allVars
=============================================================================
