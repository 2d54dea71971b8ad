------------------------------- MODULE TaskDag -------------------------------
(***************************************************************************)
(* What submit_task_specs does with a graph of tasks before anything runs: *)
(* build_task_execution_order refuses it or puts its tasks in an order in  *)
(* which each comes after those it depends on, and                         *)
(* build_task_scheduling_data keeps the place of each in that order.       *)
(*   src/src/tasks/dag.cpp                                                 *)
(* A graph gives the dependencies of each task as a set: an index that is  *)
(* listed twice is counted twice and released twice, which comes to the    *)
(* same.                                                                   *)
(***************************************************************************)
EXTENDS Naturals, Sequences, FiniteSets

CONSTANTS
    Tasks,      \* the indices of the tasks of a submission
    Graphs      \* the dependencies a caller may state

ASSUME DagAssumption ==
    /\ Tasks \subseteq Nat /\ IsFiniteSet(Tasks)
    /\ Graphs \subseteq [Tasks -> SUBSET Nat]

\* A faulty variant, used by no other definition: the count of a dependent is
\* compared with zero before it is lowered.
ReleasedTooLate(g, r, task) == {t \in Tasks : task \in g[t] /\ r.indegree[t] = 0}

\* Every dependency is a task, and none is the task itself.
IsWellFormed(g) == \A t \in Tasks : g[t] \subseteq Tasks /\ t \notin g[t]

\* Kahn's algorithm: the order so far, what could come next, and of how many
\* dependencies each task has still to wait for.
Unordered(g) ==
    [order |-> <<>>,
     ready |-> {t \in Tasks : Cardinality(g[t]) = 0},
     indegree |-> [t \in Tasks |-> Cardinality(g[t])]]

\* ready.back() of a list that is sorted by descending indices.
LeastReady(r) == CHOOSE t \in r.ready : \A u \in r.ready : t <= u

\* The dependents of a task whose last open dependency it was.
ReleasedBy(g, r, task) == {t \in Tasks : task \in g[t] /\ r.indegree[t] = 1}

Place(g, r, task) ==
    [order |-> Append(r.order, task),
     ready |-> (r.ready \ {task}) \cup ReleasedBy(g, r, task),
     indegree |-> [t \in Tasks |-> IF task \in g[t] /\ r.indegree[t] > 0
                                   THEN r.indegree[t] - 1 ELSE r.indegree[t]]]

PlaceNext(g, r) == IF r.ready = {} THEN r ELSE Place(g, r, LeastReady(r))

\* Each pass of the loop places a task, so that it ends after as many passes
\* as there are tasks at the latest.
Ordering(g) ==
    LET after[n \in 0 .. Cardinality(Tasks)] ==
            IF n = 0 THEN Unordered(g) ELSE PlaceNext(g, after[n - 1])
    IN  after[Cardinality(Tasks)]

ExecutionOrder(g) == Ordering(g).order

\* The graphs that are not answered with an exception.
Accepted ==
    {g \in Graphs : IsWellFormed(g) /\ Len(ExecutionOrder(g)) = Cardinality(Tasks)}

\* TaskSchedulingData::execution_rank.
ExecutionRank(g) ==
    LET order == ExecutionOrder(g)
    IN  [t \in Tasks |-> CHOOSE i \in DOMAIN order : order[i] = t]

-----------------------------------------------------------------------------
(* What is checked. *)

\* Some of the tasks all wait for one another.
IsCyclic(g) ==
    \E waiting \in SUBSET Tasks :
        waiting # {} /\ \A t \in waiting : g[t] \cap waiting # {}

\* Each task has a rank of its own, above those it depends on.
IsOrdered(g, place) ==
    /\ place \in [Tasks -> Nat] /\ \A t, u \in Tasks : place[t] = place[u] => t = u
    /\ \A t \in Tasks : \A d \in g[t] : place[d] < place[t]

\* A graph is refused exactly if an index is out of range or its dependencies go
\* round in a circle, however many tasks are ordered before that is found out.
\* (dag.cpp:57-109, tasks/README.md:40-41)
RefusesCircles ==
    \A g \in Graphs :
        g \in Accepted <=> (\A t \in Tasks : g[t] \subseteq Tasks) /\ ~IsCyclic(g)
=============================================================================
