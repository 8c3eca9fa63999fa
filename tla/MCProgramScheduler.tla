------------------------- MODULE MCProgramScheduler -------------------------
(***************************************************************************)
(* Instances of ProgramScheduler for TLC: two ranks of one pool.           *)
(***************************************************************************)
EXTENDS ProgramScheduler

CONSTANTS t1, t2

OnePool == [k \in Keys |-> "A"]

AnySnapshot == SUBSET {t1, t2}
WithoutT1 == {{t2}}

PlainHints == {[output |-> None, priority |-> 0]}
=============================================================================
