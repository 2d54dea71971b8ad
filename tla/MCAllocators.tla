------------------------------ MODULE MCAllocators ------------------------------
(***************************************************************************)
(* MCAllocators: the main thread and two workers, which are alike; blocks  *)
(* and pieces of two sizes, aligned or not.                                *)
(***************************************************************************)
EXTENDS Allocators, TLC

CONSTANTS main, w1, w2

MCThreads == {main, w1, w2}
Workers   == Permutations({w1, w2})

=============================================================================
