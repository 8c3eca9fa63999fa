------------------------- MODULE MCProgramRuntime --------------------------
(***************************************************************************)
(* The Program runtime, and the accounting of the tokens its Programs use, *)
(* on small sets: the constants are given in the .cfg file.  A behaviour   *)
(* is of one of the two.  Keys and Targets are symmetric, but with so few  *)
(* of each the whole state space is cheap enough to go without symmetry    *)
(* reduction.                                                              *)
(***************************************************************************)
EXTENDS ProgramRuntime, ObservationWindow

VARIABLE part

allVars == <<part, vars, windowVars>>

MCInit == part \in {"runtime", "window"} /\ Init /\ WindowInit

MCNext ==
    \/ part = "runtime" /\ Next /\ UNCHANGED <<part, windowVars>>
    \/ part = "window" /\ WindowNext /\ UNCHANGED <<part, vars>>

MCSpec == MCInit /\ [][MCNext]_allVars
=============================================================================
