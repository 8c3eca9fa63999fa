----------------------------- MODULE PrefixOwners -----------------------------
(***************************************************************************)
(* What the prefix trees promise: every worker owns a set of prefixes,     *)
(* closed under prefixes.  Requests extend it, evictions and removals      *)
(* shrink it, for one worker at a time.                                    *)
(***************************************************************************)
EXTENDS Naturals, Sequences, SequencesExt, FiniteSets

CONSTANTS CacheWorkers, Texts

VARIABLE owns    \* worker -> prefixes

ownersVars == owns

AllPrefixes == UNION {Prefixes(text) : text \in Texts}
Closed(ps) == \A p \in ps : Prefixes(p) \subseteq ps

\* A worker's text becomes its own from the beginning on; or it loses prefixes.
Gains(old, new) == \E prefix \in AllPrefixes : new = old \cup Prefixes(prefix)
Loses(old, new) == new \subseteq old /\ Closed(new)

OwnersInit == owns \in [CacheWorkers -> SUBSET AllPrefixes] /\ \A w \in CacheWorkers : Closed(owns[w])

OwnersNext ==
    LET old == owns
        new == owns'
    IN  \E w \in CacheWorkers :
            /\ \A v \in CacheWorkers \ {w} : new[v] = old[v]
            /\ Gains(old[w], new[w]) \/ Loses(old[w], new[w])

\* Several workers lose prefixes at once.
AllLose ==
    LET old == owns
        new == owns'
    IN  \A w \in CacheWorkers : Loses(old[w], new[w])
=============================================================================
