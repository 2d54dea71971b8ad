----------------------------- MODULE MCFileLog -----------------------------
(* Two producers, a queue of two records, and every overflow policy: the     *)
(* queue can be full, both producers can be blocked, and a batch can be on   *)
(* its way to the file while the queue fills up again.                       *)
EXTENDS FileLog

CONSTANTS p1, p2, main, writer

MCProducers == {p1, p2}
MCPolicies  == {"Block", "DropNewest", "DropOldest"}

=============================================================================
