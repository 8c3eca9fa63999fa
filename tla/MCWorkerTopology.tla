--------------------------- MODULE MCWorkerTopology ---------------------------
EXTENDS WorkerTopology

CONSTANTS h1, h2, c1, c2, m1

OneHost == <<h1>>

\* With Program scheduling of one or the other kind of pool, with service
\* discovery, with the RouterManager, and with hosts of two ranks.
SomeConfigs ==
    {[igw |-> FALSE, discovery |-> FALSE, callers |-> {c1}, calls |-> 2, dp |-> 1, pools |-> {"all"}],
     [igw |-> FALSE, discovery |-> FALSE, callers |-> {c1}, calls |-> 1, dp |-> 1, pools |-> {m1}],
     [igw |-> FALSE, discovery |-> TRUE, callers |-> {c1}, calls |-> 1, dp |-> 1, pools |-> {}],
     [igw |-> TRUE, discovery |-> FALSE, callers |-> {c1, c2}, calls |-> 2, dp |-> 1, pools |-> {}],
     [igw |-> FALSE, discovery |-> FALSE, callers |-> {c1}, calls |-> 2, dp |-> 2, pools |-> {}]}
=============================================================================
