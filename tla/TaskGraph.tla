------------------------------ MODULE TaskGraph ------------------------------
(***************************************************************************)
(* What a submission of a task graph promises its caller, without the      *)
(* scheduler: a task runs at most once and only after everything it        *)
(* depends on has settled, the future holds a value only when every task   *)
(* has settled, it is resolved once, and no task begins to run once it is, *)
(* except where a start condition threw: then the graph is abandoned, and  *)
(* what the pool already holds still runs.                                 *)
(***************************************************************************)
CONSTANTS Tasks, Graphs

VARIABLES deps,    \* the dependencies of each task
          phase,   \* what became of each task
          future   \* what the caller's future shows

Phases  == {"waiting", "running", "settled", "failed"}
Open    == {"pending", "abandoned"}

Init ==
    /\ deps \in Graphs
    /\ phase = [t \in Tasks |-> "waiting"]
    /\ future = "pending"

Released(t) == \A d \in deps[t] : phase[d] = "settled"

Become(t, p) == phase' = [phase EXCEPT ![t] = p]

\* The body of t begins to run.
Start(t) ==
    /\ phase[t] = "waiting"
    /\ Released(t)
    /\ future \in Open
    /\ Become(t, "running")
    /\ UNCHANGED <<deps, future>>

\* t is over: it returned, or its start condition kept it from running.
Settle(t) ==
    /\ \/ phase[t] = "running"
       \/ phase[t] = "waiting" /\ Released(t) /\ future = "pending"
    /\ Become(t, "settled")
    /\ UNCHANGED <<deps, future>>

\* t threw, or was cancelled before its body began.
Fail(t) ==
    /\ phase[t] = "running" \/ (phase[t] = "waiting" /\ Released(t))
    /\ Become(t, "failed")
    /\ UNCHANGED <<deps, future>>

Fulfil ==
    /\ future = "pending"
    /\ \A t \in Tasks : phase[t] = "settled"
    /\ future' = "value"
    /\ UNCHANGED <<deps, phase>>

Reject ==
    /\ future = "pending"
    /\ future' \in {"exception", "abandoned"}
    /\ UNCHANGED <<deps, phase>>

Next ==
    \/ \E t \in Tasks : Start(t) \/ Settle(t) \/ Fail(t)
    \/ Fulfil
    \/ Reject

Spec == Init /\ [][Next]_<<deps, phase, future>>
=============================================================================
