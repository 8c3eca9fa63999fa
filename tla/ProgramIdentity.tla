--------------------------- MODULE ProgramIdentity ---------------------------
(***************************************************************************)
(* Which Program a request belongs to (program_scheduling/identity.rs), and*)
(* the forest of parents and roots (program_scheduling/lineage.rs).  An    *)
(* identifier is the sequence of its parts between colons, so that "t:x"   *)
(* and "t" with "x" are told apart or not exactly as the code's strings    *)
(* are.                                                                    *)
(***************************************************************************)
EXTENDS Parts, Naturals, Sequences, SequencesExt, FiniteSets, Functions

CONSTANTS
    Kin          \* Programs of a forest

VARIABLES
    declared,    \* Program -> its parent and its root, as its requests declare them
    observed,    \* the Programs a request of which has come
    parents      \* ProgramLineage::parents, one model pool

lineageVars == <<declared, observed, parents>>
-----------------------------------------------------------------------------
(* ProgramIdentity::from_request.                                          *)

Absent == <<"none">>
Present(v) == <<"some", v>>
IsPresent(v) == v[1] = "some"
Or(a, b) == IF IsPresent(a) THEN a ELSE b
lead == <<"lead">>

Invalid == [kind |-> "invalid"]
Unidentified == [kind |-> "none"]

\* scoped_program_id
ScopedProgramId(session, actor) == IF IsStrictPrefix(session, actor) THEN actor ELSE session \o actor

\* normalized_agent_component: without the task it is already scoped by.
Component(task, agent) ==
    IF IsPresent(agent) /\ IsPresent(task) /\ IsStrictPrefix(task[2], agent[2])
    THEN Present(SubSeq(agent[2], Len(task[2]) + 1, Len(agent[2]))) ELSE agent

\* related_program_id: the sibling under the same prefix, or in the same task.
RelatedProgramId(program, agent, related, task) ==
    IF IsPresent(agent) /\ IsStrictSuffix(agent[2], program)
    THEN Present(SubSeq(program, 1, Len(program) - Len(agent[2])) \o related)
    ELSE IF IsPresent(task) THEN Present(ScopedProgramId(task[2], related)) ELSE Absent

RoleOf(agent) == IF agent = lead THEN "lead" ELSE "subagent"

Identity(program, group, resume, agent, role, parent, blocks) ==
    [kind |-> "identity", program_id |-> program, placement_key |-> group, expected_resume |-> resume, agent_id |-> agent,
     agent_role |-> role, parent_program_id |-> parent, blocks_parent |-> blocks]

\* Mutant: no parent is inferred from the role.
ParentIfNamed(c, program, task, agent, role, parent_agent) ==
    Or(c.parent_program, IF IsPresent(parent_agent) THEN RelatedProgramId(program, agent, parent_agent[2], task) ELSE Absent)

\* The parent that is named, the one of the agent that is named, or the lead.
ParentOf(c, program, task, agent, role, parent_agent) ==
    Or(c.parent_program,
       Or(IF IsPresent(parent_agent) THEN RelatedProgramId(program, agent, parent_agent[2], task) ELSE Absent,
          IF role = Present("subagent") THEN RelatedProgramId(program, agent, lead, task) ELSE Absent))

\* canonical_identity: vllm_xargs.agentic_context, completed by the headers.
CanonicalIdentity(c, h) ==
    LET session == Or(c.session, h.session)
        task == IF IsPresent(c.task) \/ (IsPresent(c.program) /\ c.task_given) THEN c.task ELSE session
        named == Or(c.agent, h.agent)
        agent == Component(task, IF ~IsPresent(named) /\ IsPresent(task) THEN Present(lead) ELSE named)
        role == Or(c.role, IF IsPresent(agent) THEN Present(RoleOf(agent[2])) ELSE Absent)
        scoped == IF IsPresent(task) /\ IsPresent(agent) THEN Present(ScopedProgramId(task[2], agent[2])) ELSE Absent
        program == Or(c.program, scoped)
        parent == ParentOf(c, program[2], task, agent, role, Component(task, Or(c.parent_agent, h.parent_agent)))
        blocks == IF IsPresent(c.blocks) THEN c.blocks[2] ELSE role = Present("subagent")
    IN  CASE ~IsPresent(program) -> Unidentified
          [] IsPresent(program) /\ (parent = program \/ (blocks /\ ~IsPresent(parent))) -> Invalid
          [] OTHER -> Identity(program[2], Or(task, Or(session, program))[2],
                               IF IsPresent(c.resume) THEN c.resume[2] ELSE ~(blocks /\ role = Present("subagent")),
                               agent, role, parent, blocks)

\* agent_hint_identity: a session, which blocks its parent unless it says not.
HintIdentity(hint) ==
    LET blocks == IF IsPresent(hint.blocks) THEN hint.blocks[2] ELSE TRUE
    IN  IF ~IsPresent(hint.session) \/ (blocks /\ ~IsPresent(hint.parent_session)) THEN Invalid
        ELSE Identity(hint.session[2], hint.session[2], IF IsPresent(hint.resume) THEN hint.resume[2] ELSE ~blocks,
                      Absent, Absent, hint.parent_session, blocks)

\* The framework headers alone: a session, and in it an agent and its parent.
HeaderIdentity(h) ==
    LET agent == Component(h.session, h.agent)
        role == RoleOf(Or(agent, Present(lead))[2])
        parent_agent == Component(h.session, h.parent_agent)
    IN  IF ~IsPresent(h.session) THEN Unidentified
        ELSE Identity(ScopedProgramId(h.session[2], Or(agent, Present(lead))[2]), h.session[2], role = "lead", agent, Present(role),
                      IF IsPresent(parent_agent) THEN Present(ScopedProgramId(h.session[2], parent_agent[2]))
                      ELSE IF role = "subagent" THEN Present(ScopedProgramId(h.session[2], lead)) ELSE Absent,
                      role = "subagent")

\* from_request_with_enable_key: the first source that there is; only the
\* first one where the canonical context is required.
FromRequest(q, required) ==
    CASE IsPresent(q.context) -> CanonicalIdentity(q.context[2], q.headers)
      [] ~IsPresent(q.context) /\ required -> Unidentified
      [] ~IsPresent(q.context) /\ ~required /\ IsPresent(q.hint) -> HintIdentity(q.hint[2])
      [] OTHER -> HeaderIdentity(q.headers)
-----------------------------------------------------------------------------
(* ProgramLineage.                                                         *)

LineageInit ==
    /\ declared \in [Kin -> [parent : {Absent} \cup {Present(k) : k \in Kin}, root : {Absent} \cup {Present(k) : k \in Kin}]]
    /\ observed = {} /\ parents = << >>
FrozenLineage == declared = << >> /\ observed = {} /\ parents = << >>

\* root_readonly: at most as many steps as there are entries.
Climb(forest, k, n) ==
    FoldLeft(LAMBDA at, step : IF at \in DOMAIN forest THEN forest[at] ELSE at, k, [i \in 1 .. n |-> i])
RootReadonly(forest, k) == Climb(forest, k, Cardinality(DOMAIN forest) + 1)

\* would_cycle: the child is met on the way up from the proposed parent.
WouldCycle(forest, child, proposed) ==
    \E n \in 0 .. Cardinality(DOMAIN forest) : Climb(forest, proposed, n) = child

WithEntry(forest, k) == IF k \in DOMAIN forest THEN forest ELSE (k :> k) @@ forest

\* One declared fact; the new link replaces the one there was.
Linked(forest, k, to) ==
    IF ~IsPresent(to) \/ to[2] = k THEN forest
    ELSE LET known == WithEntry(forest, to[2])
         IN  IF WouldCycle(known, k, to[2]) THEN known ELSE [known EXCEPT ![k] = to[2]]

\* root: everything on the way is linked to the root directly.
Compressed(forest, k) ==
    LET root == RootReadonly(forest, k)
        way == {Climb(forest, k, n) : n \in 0 .. Cardinality(DOMAIN forest)}
    IN  [j \in DOMAIN forest |-> IF j \in way THEN root ELSE forest[j]]

\* observe
Observe ==
    \E k \in Kin :
        /\ observed' = observed \cup {k}
        /\ parents' = Compressed(Linked(Linked(WithEntry(parents, k), k, declared[k].parent), k, declared[k].root), k)
        /\ UNCHANGED declared

LineageNext == Observe
-----------------------------------------------------------------------------
(* Inputs.                                                                 *)

Contexts ==
    [program : {Absent, Present(<<"p">>), Present(<<"g", "x">>)}, task : {Absent, Present(<<"t">>)}, task_given : BOOLEAN,
     session : {Absent, Present(<<"s">>)}, agent : {Absent, Present(<<"x">>), Present(<<"t", "x">>), Present(lead)},
     parent_agent : {Absent, Present(<<"y">>), Present(<<"t", "y">>)}, parent_program : {Absent, Present(<<"q">>)},
     role : {Absent, Present("subagent")}, blocks : {Absent, Present(FALSE), Present(TRUE)}, resume : {Absent}]
Headers ==
    {h \in [session : {Absent, Present(<<"h">>)}, agent : {Absent, Present(<<"z">>), Present(<<"h", "z">>)},
            parent_agent : {Absent, Present(<<"y">>), Present(<<"h", "y">>)}] :
        ~IsPresent(h.session) => ~IsPresent(h.agent) /\ ~IsPresent(h.parent_agent)}
Hints ==
    [session : {Absent, Present(<<"s">>)}, parent_session : {Absent, Present(<<"q">>)}, blocks : {Absent, Present(FALSE), Present(TRUE)},
     resume : {Absent, Present(FALSE), Present(TRUE)}]
IdentityInputs ==
    [of : {"identity"},
     context : {Present(c) : c \in {d \in Contexts : IsPresent(d.task) => d.task_given}}, hint : {Absent}, headers : Headers]
        \cup [of : {"identity"}, context : {Absent}, hint : {Absent} \cup {Present(x) : x \in Hints}, headers : Headers]

Resolved == FromRequest(input, FALSE)
\* The same request, sent by another agent.
SentBy(agent) ==
    IF IsPresent(input.context)
    THEN [input EXCEPT !.context = Present([@[2] EXCEPT !.agent = agent, !.role = Absent, !.parent_agent = Absent, !.blocks = Absent]),
                       !.headers = [@ EXCEPT !.agent = Absent, !.parent_agent = Absent]]
    ELSE [input EXCEPT !.headers = [@ EXCEPT !.agent = agent, !.parent_agent = Absent]]
-----------------------------------------------------------------------------
\* Whatever the source, a request that blocks a parent names it; and where the
\* Program was not named outright, a subagent's request has a parent, which it
\* names by an agent or is the lead by default, and this is the Program that
\* agent's own requests belong to.
ParentsAreFound ==
    input.of = "identity" /\ Resolved.kind = "identity" =>
        LET c == IF IsPresent(input.context) THEN input.context[2] ELSE Absent
            scoped == IF IsPresent(input.context) THEN ~IsPresent(c.program) /\ ~IsPresent(c.parent_program) ELSE ~IsPresent(input.hint)
            named == IF IsPresent(input.context) THEN Or(c.parent_agent, input.headers.parent_agent) ELSE input.headers.parent_agent
        IN  /\ Resolved.blocks_parent => IsPresent(Resolved.parent_program_id)
            /\ scoped /\ Resolved.agent_role = Present("subagent") => IsPresent(Resolved.parent_program_id)
            /\ scoped /\ IsPresent(Resolved.parent_program_id) =>
                   LET own == FromRequest(SentBy(IF IsPresent(named) THEN named ELSE Present(lead)), FALSE)
                   IN  own.kind = "identity" => Resolved.parent_program_id = Present(own.program_id)

\* An agent that names itself with or without its task is the same Program
\* with the same parent.
AgentsHaveOneName ==
    input.of = "identity" /\ Resolved.kind = "identity" /\ IsPresent(input.context) =>
        LET c == input.context[2]
            scope == IF IsPresent(c.task) THEN c.task ELSE Absent
            renamed == [input EXCEPT !.context = Present([c EXCEPT !.agent = Present(scope[2] \o c.agent[2])])]
        IN  IsPresent(scope) /\ IsPresent(c.agent) /\ ~IsStrictPrefix(scope[2], c.agent[2]) => FromRequest(renamed, FALSE) = Resolved

\* In whatever order and however often the requests of a family of Programs
\* come, the lineage has no cycle; and where what they declare is a forest, the
\* root it gives a Program is the one its declarations so far lead to, the
\* compression of earlier paths notwithstanding.
RootsFollowDeclarations ==
    declared # << >> =>
        LET up(k) == IF k \in observed /\ IsPresent(declared[k].parent) THEN declared[k].parent[2] ELSE k
            climbed(k) == FoldLeft(LAMBDA at, i : up(at), k, [i \in 1 .. Cardinality(Kin) |-> i])
            forest == \A k \in Kin :
                          LET top == FoldLeft(LAMBDA at, i : IF IsPresent(declared[at].parent) THEN declared[at].parent[2] ELSE at,
                                              k, [i \in 1 .. Cardinality(Kin) |-> i])
                          IN  ~IsPresent(declared[top].parent) /\ ~IsPresent(declared[k].root)
        IN  /\ \A k \in DOMAIN parents : LET root == RootReadonly(parents, k) IN parents[root] = root
            /\ forest => \A k \in DOMAIN parents : RootReadonly(parents, k) = climbed(k)

(***************************************************************************)
(* A Program keeps its name from request to request, and the lineage knows *)
(* its parent and root whatever came in between.                           *)
(***************************************************************************)
IdentitiesAreStable == ParentsAreFound /\ AgentsHaveOneName /\ RootsFollowDeclarations
=============================================================================
