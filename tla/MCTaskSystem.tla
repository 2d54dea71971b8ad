---------------------------- MODULE MCTaskSystem ----------------------------
(***************************************************************************)
(* Instances of TaskSystem for TLC: one callable and one graph, two client *)
(* threads, a pool of two threads.                                         *)
(***************************************************************************)
EXTENDS TaskSystem

CONSTANTS call, graph
Both      == {call, graph}
OnlyGraph == {graph}
=============================================================================
