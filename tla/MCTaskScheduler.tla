--------------------------- MODULE MCTaskScheduler ---------------------------
(***************************************************************************)
(* Instances of TaskScheduler for TLC: three tasks, and all there is to be *)
(* said of their dependencies, circles and an index too many included.     *)
(***************************************************************************)
EXTENDS TaskScheduler

Three     == 0..2
AllGraphs == [Three -> SUBSET (0..3)]
Weights   == [t \in Three |-> t + 1]
=============================================================================
