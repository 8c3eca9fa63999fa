-------------------------- MODULE MCSchedulerModes --------------------------
(***************************************************************************)
(* The other two ways to run the Program scheduler, for TLC: "capacity" is *)
(* one rank with a token capacity, whose scrapes may report pressure;      *)
(* "global" is a pool-wide queue over two ranks whose backends may queue.  *)
(***************************************************************************)
EXTENDS Naturals

CONSTANTS t1, t2, None

VARIABLES mode, s, tasks, dispatches, syncs
allVars == <<mode, s, tasks, dispatches, syncs>>

OnePool == [k \in {1, 2} |-> "A"]
PlainHints == {[output |-> None, priority |-> 0]}

C == INSTANCE ProgramScheduler WITH
        Keys <- {1, 2}, Targets <- {t1}, InitialTargets <- {t1}, Snapshots <- {{t1}, {}}, MaxSyncs <- 0,
        MaxActive <- 2, Capacity <- 5, High <- 4, Low <- 3, GlobalQueue <- FALSE, ResumeOrder <- "fcfs",
        Contexts <- {1, 2}, Estimates <- {None, 5}, BackendWaiting <- {FALSE}, Terminations <- {FALSE, TRUE},
        Pools <- {"A"}, PoolOf <- OnePool, BindingOnly <- FALSE, DecodeBuffer <- 1, AverageCompletion <- 0,
        HeadroomRatio <- 1, MaxSegmentRounds <- 1, MaxRequests <- 2, Hints <- PlainHints, Deadlines <- {"armed"}

G == INSTANCE ProgramScheduler WITH
        Keys <- {1, 2}, Targets <- {t1, t2}, InitialTargets <- {t1, t2}, Snapshots <- {{t1}, {}}, MaxSyncs <- 1,
        MaxActive <- 1, Capacity <- None, High <- 0, Low <- 0, GlobalQueue <- TRUE, ResumeOrder <- "mru",
        Contexts <- {1}, Estimates <- {None}, BackendWaiting <- {TRUE, FALSE}, Terminations <- {FALSE},
        Pools <- {"A"}, PoolOf <- OnePool, BindingOnly <- FALSE, DecodeBuffer <- 1, AverageCompletion <- 0,
        HeadroomRatio <- 1, MaxSegmentRounds <- 1, MaxRequests <- 2, Hints <- PlainHints, Deadlines <- {"armed"}

Init == \/ mode = "capacity" /\ C!Init
        \/ mode = "global" /\ G!Init

Next == \/ mode = "capacity" /\ C!Next /\ UNCHANGED mode
        \/ mode = "global" /\ G!Next /\ UNCHANGED mode

Spec == Init /\ [][Next]_allVars
-----------------------------------------------------------------------------
(***************************************************************************)
(* Under a token capacity ordinary admission stays under the low watermark,*)
(* repair is complete, and a Program that is marked has work to finish     *)
(* first (Admits, Repairs and MarkedWillPause of ProgramScheduler).        *)
(***************************************************************************)
CapacityIsKept ==
    /\ [](mode = "capacity" => C!MarkedWillPause)
    /\ [][mode = "capacity" => C!Admits /\ C!Repairs]_allVars

(***************************************************************************)
(* With a pool-wide queue no Program is lost between it and the queues of  *)
(* the ranks, and a new Program starts on the rank it was first bound to   *)
(* (QueuesAreExact and StaysHome of ProgramScheduler).                     *)
(***************************************************************************)
PoolQueueIsKept ==
    /\ [](mode = "global" => G!QueuesAreExact)
    /\ [][mode = "global" => G!StaysHome]_allVars
=============================================================================
