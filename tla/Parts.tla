-------------------------------- MODULE Parts --------------------------------
(***************************************************************************)
(* What the modules for the router's smaller parts share.  A behaviour is  *)
(* about one part.  A part without state is an algorithm: its behaviours   *)
(* are its inputs.                                                         *)
(***************************************************************************)
EXTENDS Naturals, SequencesExt

VARIABLES
    part,     \* the part a behaviour is about
    input     \* what an algorithm is given; NoInput in parts with state

Total(numbers) == FoldLeft(LAMBDA a, b : a + b, 0, numbers)

NoInput == [of |-> "nothing"]
=============================================================================
