---------------------------- MODULE TaskScheduler ----------------------------
(***************************************************************************)
(* One submission of TaskSystem::submit_task_specs: the scheduler closure  *)
(* (run_task_specs_scheduler) and the task workers it pushes onto the      *)
(* thread pool (run_scheduled_task_worker), with the shared snapshot they  *)
(* both write and a client that may call TaskHandle::cancel at any time.   *)
(*                                                                         *)
(* A step is one critical section, one atomic access or one call of user   *)
(* code, together with the local computation around it.  A wait on a       *)
(* condition variable is a guard: its predicate only changes under the     *)
(* mutex the waiter holds while testing it, so no wakeup is lost (the wait *)
(* on `finished', of which that is not true, is part of TaskSystem).      *)
(***************************************************************************)
EXTENDS TaskDag

CONSTANTS
    NoTask,              \* "no task": not an element of Tasks
    FullProgress,        \* 1.0f; smaller naturals are partial progress
    Weight,              \* TaskSchedulingData::weights, at least 1
    PoolThreads,         \* threads of the pool, the scheduler's included
    ClientMayCancel,     \* whether anybody calls TaskHandle::cancel
    SkippableTasks,      \* tasks whose start_condition may return false
    ThrowingConditions   \* tasks whose start_condition may throw

ASSUME TaskAssumption ==
    /\ NoTask \notin Tasks
    /\ FullProgress \in Nat \ {0}
    /\ Weight \in [Tasks -> Nat \ {0}]
    /\ PoolThreads \in Nat
    /\ ClientMayCancel \in BOOLEAN
    /\ SkippableTasks \subseteq Tasks
    /\ ThrowingConditions \subseteq Tasks

VARIABLES
    deps,        \* TaskSpec::dependencies; never changes
    rank,        \* TaskSchedulingData::execution_rank; never changes
    pc,          \* where the scheduler closure is
    cur,         \* the task being dispatched, or NoTask
    ready,       \* the vector `ready', always sorted by rank: a set
    indegree,    \* TaskSchedulingData::indegree
    completed,   \* completed_tasks
    exc,         \* the exception in flight in the scheduler's try block
    at,          \* where the worker of each task is
    thrown,      \* what the worker's try block threw
    finishedQ,   \* SchedulerShared::finished_tasks
    running,     \* SchedulerShared::running_tasks
    firstError,  \* SchedulerShared::first_error, as the task that threw it
    state,       \* TaskSnapshot::state
    progress,    \* TaskSnapshot::progress
    cancelled,   \* TaskSharedState::cancel_requested
    result,      \* what the promise holds
    finished     \* TaskSharedState::finished

schedVars  == <<pc, cur, ready, indegree, completed, exc>>
workerVars == <<at, thrown>>
sharedVars == <<finishedQ, running, firstError>>
snapVars   == <<state, progress>>
handleVars == <<cancelled, result, finished>>
vars == <<deps, rank, schedVars, workerVars, sharedVars, snapVars, handleVars>>

TaskStates == {"Queued", "Running", "Skipped", "Completed", "Cancelled", "Failed"}
Terminal   == TaskStates \ {"Queued", "Running"}
Outcome(why, t) == [why |-> why, task |-> t]
Pending == Outcome("pending", NoTask)
Value   == Outcome("value", NoTask)

-----------------------------------------------------------------------------
(* Faulty variants of the definitions below.  No behaviour of Spec uses     *)
(* them: each stands for a plausible slip in the code, and a property       *)
(* counts as tested only if putting one of them in place breaks it.         *)

\* A progress value is stored as it comes.
Unclamped(p) == p

\* update() assigns the progress instead of taking the maximum.
Overwritten(old, p) == p

\* A worker never sees the cancel flag.
NeverRequested == FALSE

\* `indegree = 0' for every dependent.
ReleasedAtOnce(t, F) == IF deps[t] \cap F = {} THEN indegree[t] ELSE 0

\* A finished task is counted by the loop and once more by its callee.
CountedTwice(F) == completed + 2 * Cardinality(F)

\* The scheduler only wakes up for a finished task.
WokenByReports == finishedQ # {}

\* `running_tasks > 1' for `> 0'.
LessButOne(n) == IF n > 1 THEN n - 1 ELSE n

\* Only the running tasks are cancelled.
CancelRunning ==
    state' = [t \in Tasks |->
                IF state[t] = "Running" THEN "Cancelled" ELSE state[t]]

-----------------------------------------------------------------------------
(* The snapshot and the cancel flag, as the workers and the scheduler use   *)
(* them.                                                                    *)

\* std::clamp(progress, 0.f, 1.f), in update() and in set_task_state().
Clamped(p) == IF p < FullProgress THEN p ELSE FullProgress

\* update() never lowers the progress of a task.
Raised(old, p) == IF Clamped(p) > old THEN Clamped(p) ELSE old

\* TaskExecutionContext::update.
Update(t, p) ==
    /\ progress' = [progress EXCEPT ![t] = Raised(@, p)]
    /\ state' = [state EXCEPT ![t] =
                   IF @ \in Terminal THEN @
                   ELSE IF Raised(progress[t], p) >= FullProgress
                     THEN "Completed" ELSE "Running"]

\* detail::set_task_state with a progress value.
SetTaskState(t, s, p) ==
    /\ state' = [state EXCEPT ![t] = s]
    /\ progress' = [progress EXCEPT ![t] = Clamped(p)]

\* TaskExecutionContext::is_cancel_requested.
IsCancelRequested == cancelled

-----------------------------------------------------------------------------
(* The scheduler's bookkeeping. *)

\* build_sorted_ready_queue over the frozen indegrees.
InitialReady(g) == {t \in Tasks : Cardinality(g[t]) = 0}

\* ready.back() after sort_ready_tasks: the task that ranks first.
NextReady == CHOOSE t \in ready : \A u \in ready : rank[t] <= rank[u]

\* mark_task_completed_and_release_dependents for every task of F, with
\* `rest' the ready tasks that stay.
Decremented(t, F) ==
    IF Cardinality(deps[t] \cap F) < indegree[t]
      THEN indegree[t] - Cardinality(deps[t] \cap F)
      ELSE 0

Counted(F) == completed + Cardinality(F)

ReleaseDependents(F, rest) ==
    /\ completed' = Counted(F)
    /\ indegree' = [t \in Tasks |-> Decremented(t, F)]
    /\ ready' = rest \cup
         {t \in Tasks : indegree[t] > 0 /\ Decremented(t, F) = 0}

Init ==
    /\ deps \in Accepted
    /\ rank = ExecutionRank(deps)
    /\ pc = "start"
    /\ cur = NoTask
    /\ ready = InitialReady(deps)
    /\ indegree = [t \in Tasks |-> Cardinality(deps[t])]
    /\ completed = 0
    /\ exc = Pending
    /\ at = [t \in Tasks |-> "idle"]
    /\ thrown = [t \in Tasks |-> "nothing"]
    /\ finishedQ = {}
    /\ running = 0
    /\ firstError = NoTask
    /\ state = [t \in Tasks |-> "Queued"]
    /\ progress = [t \in Tasks |-> 0]
    /\ cancelled = FALSE
    /\ result = Pending
    /\ finished = FALSE

\* Threads of the pool that are executing a closure of this submission.
ActiveWorkers == {t \in Tasks : at[t] \notin {"idle", "pushed", "done"}}
BusyThreads ==
    Cardinality(ActiveWorkers) + (IF pc \in {"start", "done"} THEN 0 ELSE 1)

-----------------------------------------------------------------------------
(* The scheduler closure. *)

\* A pool thread picks the closure up.
StartScheduler ==
    /\ pc = "start"
    /\ BusyThreads < PoolThreads
    /\ pc' = "loop"
    /\ UNCHANGED <<deps, rank, cur, ready, indegree, completed, exc, workerVars,
                   sharedVars, snapVars, handleVars>>

\* The head of `while(completed_tasks < tasks.size())'.
SchedulerLoop ==
    /\ pc = "loop"
    /\ \/ /\ completed >= Cardinality(Tasks)
          /\ pc' = "idle"
          /\ UNCHANGED exc
       \/ /\ completed < Cardinality(Tasks)
          /\ cancelled
          /\ pc' = "catch"
          /\ exc' = Outcome("cancelled", NoTask)
       \/ /\ completed < Cardinality(Tasks)
          /\ ~cancelled
          /\ pc' = "dispatch"
          /\ UNCHANGED exc
    /\ UNCHANGED <<deps, rank, cur, ready, indegree, completed, workerVars,
                   sharedVars, snapVars, handleVars>>

CanDispatch ==
    /\ pc = "dispatch"
    /\ ready # {}
    /\ ~cancelled
    /\ firstError = NoTask

\* The loop of dispatch_ready_tasks stops; the caller's `break' if all is done.
DispatchEnd ==
    /\ pc = "dispatch"
    /\ ready = {} \/ cancelled \/ firstError # NoTask
    /\ pc' = IF completed >= Cardinality(Tasks) THEN "idle" ELSE "wait"
    /\ UNCHANGED <<deps, rank, cur, ready, indegree, completed, exc, workerVars,
                   sharedVars, snapVars, handleVars>>

\* start_condition() returns false.
DispatchSkip ==
    /\ CanDispatch
    /\ NextReady \in SkippableTasks
    /\ SetTaskState(NextReady, "Skipped", FullProgress)
    /\ ReleaseDependents({NextReady}, ready \ {NextReady})
    /\ UNCHANGED <<deps, rank, pc, cur, exc, workerVars, sharedVars, handleVars>>

\* start_condition() throws: the exception leaves dispatch_ready_tasks.
DispatchThrow ==
    /\ CanDispatch
    /\ NextReady \in ThrowingConditions
    /\ ready' = ready \ {NextReady}
    /\ exc' = Outcome("condition", NextReady)
    /\ pc' = "catch"
    /\ UNCHANGED <<deps, rank, cur, indegree, completed, workerVars, sharedVars,
                   snapVars, handleVars>>

\* The task will run: ++running_tasks.
DispatchClaim ==
    /\ CanDispatch
    /\ cur' = NextReady
    /\ ready' = ready \ {NextReady}
    /\ running' = running + 1
    /\ pc' = "mark"
    /\ UNCHANGED <<deps, rank, indegree, completed, exc, workerVars, finishedQ,
                   firstError, snapVars, handleVars>>

\* set_task_state(Running, 0.f) ...
DispatchMark ==
    /\ pc = "mark"
    /\ SetTaskState(cur, "Running", 0)
    /\ pc' = "push"
    /\ UNCHANGED <<deps, rank, cur, ready, indegree, completed, exc, workerVars,
                   sharedVars, handleVars>>

\* ... and only then push_immediate_task.
DispatchPush ==
    /\ pc = "push"
    /\ at' = [at EXCEPT ![cur] = "pushed"]
    /\ cur' = NoTask
    /\ pc' = "dispatch"
    /\ UNCHANGED <<deps, rank, ready, indegree, completed, exc, thrown, sharedVars,
                   snapVars, handleVars>>

\* wait_for_scheduler_progress returned: finished_tasks is swapped out,
\* and what the scheduler does next depends on the values read with it.
ProgressAvailable == finishedQ # {} \/ running = 0

SchedulerProgress ==
    /\ pc = "wait"
    /\ ProgressAvailable
    /\ finishedQ' = {}
    /\ \/ /\ firstError # NoTask
          /\ exc' = Outcome(thrown[firstError], firstError)
          /\ pc' = "catch"
          /\ UNCHANGED <<ready, indegree, completed>>
       \/ /\ firstError = NoTask
          /\ ReleaseDependents(finishedQ, ready)
          /\ IF ready' = {} /\ running = 0 /\ completed' < Cardinality(Tasks)
               THEN /\ exc' = Outcome("unresolved", NoTask)
                    /\ pc' = "catch"
               ELSE /\ pc' = "loop"
                    /\ UNCHANGED exc
    /\ UNCHANGED <<deps, rank, cur, workerVars, running, firstError, snapVars,
                   handleVars>>

\* wait_for_scheduler_idle_or_throw, the last cancellation check, set_value.
SchedulerIdle ==
    /\ pc = "idle"
    /\ running = 0
    /\ \/ /\ firstError # NoTask
          /\ exc' = Outcome(thrown[firstError], firstError)
          /\ pc' = "catch"
          /\ UNCHANGED result
       \/ /\ firstError = NoTask /\ cancelled
          /\ exc' = Outcome("cancelled", NoTask)
          /\ pc' = "catch"
          /\ UNCHANGED result
       \/ /\ firstError = NoTask /\ ~cancelled
          /\ result' = Value
          /\ pc' = "finish"
          /\ UNCHANGED exc
    /\ UNCHANGED <<deps, rank, cur, ready, indegree, completed, workerVars,
                   sharedVars, snapVars, cancelled, finished>>

\* detail::cancel_unfinished_tasks.
CancelUnfinished ==
    state' = [t \in Tasks |->
                IF state[t] \in Terminal THEN state[t] ELSE "Cancelled"]

\* The two catch handlers: unconditional for TaskCancelledError, otherwise
\* only when cancellation was requested.
SchedulerCatch ==
    /\ pc = "catch"
    /\ IF exc.why = "cancelled" \/ cancelled
         THEN CancelUnfinished
         ELSE UNCHANGED state
    /\ pc' = "reject"
    /\ UNCHANGED <<deps, rank, cur, ready, indegree, completed, exc, workerVars,
                   sharedVars, progress, handleVars>>

\* promise->set_exception.
SchedulerReject ==
    /\ pc = "reject"
    /\ result' = exc
    /\ pc' = "finish"
    /\ UNCHANGED <<deps, rank, cur, ready, indegree, completed, exc, workerVars,
                   sharedVars, snapVars, cancelled, finished>>

\* state->finished.store(true); the thread returns to the pool.
SchedulerFinish ==
    /\ pc = "finish"
    /\ finished' = TRUE
    /\ pc' = "done"
    /\ UNCHANGED <<deps, rank, cur, ready, indegree, completed, exc, workerVars,
                   sharedVars, snapVars, cancelled, result>>

Scheduler ==
    \/ StartScheduler \/ SchedulerLoop \/ DispatchEnd \/ DispatchSkip
    \/ DispatchThrow \/ DispatchClaim \/ DispatchMark \/ DispatchPush
    \/ SchedulerProgress \/ SchedulerIdle \/ SchedulerCatch
    \/ SchedulerReject \/ SchedulerFinish

-----------------------------------------------------------------------------
(* The worker closures: run_scheduled_task_worker. *)

\* A pool thread picks the closure up and tests the cancel flag; a named
\* task then calls update(name, 0.f).
WorkerStart(t) ==
    /\ at[t] = "pushed"
    /\ BusyThreads < PoolThreads
    /\ IF IsCancelRequested
         THEN /\ at' = [at EXCEPT ![t] = "fail"]
              /\ thrown' = [thrown EXCEPT ![t] = "cancelled"]
              /\ UNCHANGED snapVars
         ELSE /\ at' = [at EXCEPT ![t] = "body"]
              /\ Update(t, 0)
              /\ UNCHANGED thrown
    /\ UNCHANGED <<deps, rank, schedVars, sharedVars, handleVars>>

\* The task body calls update with a value of its own choosing.
WorkerUpdate(t, p) ==
    /\ at[t] = "body"
    /\ Update(t, p)
    /\ UNCHANGED <<deps, rank, schedVars, workerVars, sharedVars, handleVars>>

\* The body returns or throws, at a moment of its own choosing.
WorkerReturn(t) ==
    /\ at[t] = "body"
    /\ at' = [at EXCEPT ![t] = "check"]
    /\ UNCHANGED <<deps, rank, schedVars, thrown, sharedVars, snapVars, handleVars>>

WorkerThrow(t, why) ==
    /\ at[t] = "body"
    /\ at' = [at EXCEPT ![t] = "fail"]
    /\ thrown' = [thrown EXCEPT ![t] = why]
    /\ UNCHANGED <<deps, rank, schedVars, sharedVars, snapVars, handleVars>>

\* The cancel flag is tested again after the body.
WorkerCheck(t) ==
    /\ at[t] = "check"
    /\ IF IsCancelRequested
         THEN /\ at' = [at EXCEPT ![t] = "fail"]
              /\ thrown' = [thrown EXCEPT ![t] = "cancelled"]
         ELSE /\ at' = [at EXCEPT ![t] = "complete"]
              /\ UNCHANGED thrown
    /\ UNCHANGED <<deps, rank, schedVars, sharedVars, snapVars, handleVars>>

\* update(name, 1.f) and set_task_state(Completed, 1.f).
WorkerComplete(t) ==
    /\ at[t] = "complete"
    /\ SetTaskState(t, "Completed", FullProgress)
    /\ at' = [at EXCEPT ![t] = "report"]
    /\ UNCHANGED <<deps, rank, schedVars, thrown, sharedVars, handleVars>>

\* fail_task_and_cancel: the snapshot first, then first_error and the flag.
WorkerFail(t) ==
    /\ at[t] = "fail"
    /\ state' = [state EXCEPT ![t] =
                   IF thrown[t] = "cancelled" THEN "Cancelled" ELSE "Failed"]
    /\ at' = [at EXCEPT ![t] = "record"]
    /\ UNCHANGED <<deps, rank, schedVars, thrown, sharedVars, progress, handleVars>>

FirstError(t) == IF firstError = NoTask THEN t ELSE firstError

WorkerRecord(t) ==
    /\ at[t] = "record"
    /\ firstError' = FirstError(t)
    /\ cancelled' = TRUE
    /\ at' = [at EXCEPT ![t] = "report"]
    /\ UNCHANGED <<deps, rank, schedVars, thrown, finishedQ, running, snapVars,
                   result, finished>>

\* finished_tasks.push_back, --running_tasks, notify_one.
OneLess(n) == IF n > 0 THEN n - 1 ELSE n

WorkerReport(t) ==
    /\ at[t] = "report"
    /\ finishedQ' = finishedQ \cup {t}
    /\ running' = OneLess(running)
    /\ at' = [at EXCEPT ![t] = "done"]
    /\ UNCHANGED <<deps, rank, schedVars, thrown, firstError, snapVars, handleVars>>

Worker(t) ==
    \/ WorkerStart(t)
    \/ \E p \in 0..FullProgress + 1 : WorkerUpdate(t, p)
    \/ WorkerReturn(t)
    \/ \E why \in {"error", "cancelled"} : WorkerThrow(t, why)
    \/ WorkerCheck(t)
    \/ WorkerComplete(t)
    \/ WorkerFail(t)
    \/ WorkerRecord(t)
    \/ WorkerReport(t)

-----------------------------------------------------------------------------
\* TaskHandle::cancel, at any time.
ClientCancel ==
    /\ ClientMayCancel
    /\ ~cancelled
    /\ cancelled' = TRUE
    /\ UNCHANGED <<deps, rank, schedVars, workerVars, sharedVars, snapVars, result,
                   finished>>

Next == Scheduler \/ (\E t \in Tasks : Worker(t)) \/ ClientCancel

Spec == Init /\ [][Next]_vars

\* Each closure a pool thread executes keeps being executed, a task body
\* returns or throws in the end, and a free thread takes a pushed closure.
Fairness ==
    /\ WF_vars(Scheduler)
    /\ \A t \in Tasks :
         /\ WF_vars(WorkerStart(t))
         /\ WF_vars(WorkerReturn(t) \/ WorkerThrow(t, "error"))
         /\ WF_vars(WorkerCheck(t) \/ WorkerComplete(t) \/ WorkerFail(t)
                      \/ WorkerRecord(t) \/ WorkerReport(t))

FairSpec == Spec /\ Fairness

-----------------------------------------------------------------------------
(* What is checked. *)

\* The variables hold values of their C++ types.
TypeOK ==
    /\ deps \in Accepted
    /\ rank = ExecutionRank(deps)
    /\ pc \in {"start", "loop", "dispatch", "mark", "push", "wait", "idle",
               "catch", "reject", "finish", "done"}
    /\ cur \in Tasks \cup {NoTask}
    /\ ready \subseteq Tasks
    /\ indegree \in [Tasks -> Nat]
    /\ completed \in Nat
    /\ exc \in [why : {"pending", "cancelled", "error", "condition",
                       "unresolved"}, task : Tasks \cup {NoTask}]
    /\ at \in [Tasks -> {"idle", "pushed", "body", "check", "complete",
                         "fail", "record", "report", "done"}]
    /\ thrown \in [Tasks -> {"nothing", "error", "cancelled"}]
    /\ finishedQ \subseteq Tasks
    /\ running \in Nat
    /\ firstError \in Tasks \cup {NoTask}
    /\ state \in [Tasks -> TaskStates]
    /\ progress \in [Tasks -> 0..FullProgress]
    /\ cancelled \in BOOLEAN
    /\ result \in [why : {"pending", "value", "cancelled", "error",
                          "condition", "unresolved"},
                   task : Tasks \cup {NoTask}]
    /\ finished \in BOOLEAN

\* Exactly the graphs with an index out of range or a circle are refused, and the
\* ranks a submission is run by put each task after those it depends on, and no
\* two in the same place.  (dag.cpp:50-159, submit_task_specs)
SubmissionIsOrdered == RefusesCircles /\ IsOrdered(deps, rank)

\* A task is over for its dependents: skipped, or reported without a throw.
Settled(t) ==
    \/ state[t] = "Skipped"
    \/ at[t] = "done" /\ thrown[t] = "nothing"

Dispatched(t) == at[t] # "idle" \/ (pc \in {"mark", "push"} /\ t = cur)

\* No task is handed to the pool before everything it depends on is over,
\* whatever the order in which workers finish, fail and are cancelled.
DependenciesFirst ==
    \A t \in Tasks :
      Dispatched(t) \/ state[t] = "Skipped" => \A d \in deps[t] : Settled(d)

\* running_tasks counts exactly the tasks claimed and not yet reported; its
\* decrement never has to be saved from underflow by `if(running_tasks > 0)'.
RunningCounted ==
    running = Cardinality({t \in Tasks : Dispatched(t) /\ at[t] # "done"})

\* The future holds a value only when every task completed or was skipped
\* and no worker of the submission is left on the pool.
ValueMeansAllDone ==
    result = Value =>
      \A t \in Tasks : Settled(t) /\ state[t] \in {"Completed", "Skipped"}

\* A rejected future names a cause that exists: the first recorded throw, a
\* cancellation somebody requested, or a start condition.
RejectionHasCause ==
    CASE result.why = "error"     -> /\ result.task = firstError
                                     /\ state[result.task] = "Failed"
      [] result.why = "cancelled" -> /\ cancelled
                                     /\ result.task \in {NoTask, firstError}
      [] result.why = "condition" -> ~Dispatched(result.task)
      [] OTHER -> TRUE

\* The scheduler's own "dependency graph could not be resolved" is
\* unreachable for a graph that submission accepted.
AlwaysResolvable == exc.why # "unresolved"

\* When the submission is over, the dependents of a task that failed or was
\* cancelled are cancelled, and once its workers are over too, no task of the
\* snapshot is shown as queued or running; unless a start condition threw, which
\* cancels nothing.
NothingLeftOpen ==
    finished /\ result.why # "condition" =>
      /\ \A t \in Tasks : \A d \in deps[t] :
           state[d] \in {"Failed", "Cancelled"} => state[t] = "Cancelled"
      /\ (\A t \in Tasks : at[t] \in {"idle", "done"})
           => \A t \in Tasks : state[t] \in Terminal

\* However a submission ends, with a value or with an exception, its end has a
\* cause and its snapshot shows it (run_task_specs_scheduler and its catch
\* clauses, cancel_unfinished_tasks).
EndIsExplained == ValueMeansAllDone /\ RejectionHasCause /\ NothingLeftOpen

\* compute_group_progress_locked, scaled by the total weight: the sum of what each task
\* has done times its weight, counted one by one.
Shares == UNION {{t} \X (1 .. progress[t] * Weight[t]) : t \in Tasks}
GroupProgress == Cardinality(Shares)

\* The aggregate progress a handle shows never moves backwards.
GroupProgressGrows == [][GroupProgress' >= GroupProgress]_vars

\* Every submission ends, and so do all the workers it pushed.
Terminates == <>(finished /\ \A t \in Tasks : at[t] \in {"idle", "done"})

\* The README's promise, as the abstract specification states it.
PhaseOf(t) ==
    IF Settled(t) THEN "settled"
    ELSE IF at[t] \in {"idle", "pushed"} THEN "waiting"
    ELSE IF thrown[t] # "nothing" THEN "failed"
    ELSE "running"

FutureShown ==
    CASE result = Pending           -> "pending"
      [] result = Value             -> "value"
      [] result.why = "condition"   -> "abandoned"
      [] OTHER                      -> "exception"

Promise == INSTANCE TaskGraph
             WITH Graphs <- Accepted,
                  phase <- [t \in Tasks |-> PhaseOf(t)], future <- FutureShown

ImplementsTaskGraph == Promise!Spec

\* README: "First task failure is propagated".  With nobody else cancelling,
\* a rejected future holds what the first failing task threw.
FirstFailurePropagated ==
    ~ClientMayCancel /\ result # Pending /\ firstError # NoTask =>
      result = Outcome(thrown[firstError], firstError)

-----------------------------------------------------------------------------
(* The inductive invariant behind the theorems of TaskSchedulerProofs.      *)

\* The scheduler still looks at its bookkeeping.
Scheduling == pc \in {"start", "loop", "dispatch", "mark", "push", "wait", "idle"}

\* The tasks whose end the scheduler has entered in its bookkeeping.
Accounted ==
    {t \in Tasks : \/ state[t] = "Skipped"
                   \/ at[t] = "done" /\ t \notin finishedQ}

\* A task that was released: it waits in `ready', was dispatched or skipped.
Taken(t) == t \in ready \/ Dispatched(t) \/ state[t] = "Skipped"

\* indegree and completed_tasks agree with Accounted, a task is released
\* exactly when everything it depends on is accounted for, and no task that
\* threw has been accounted for.
Bookkeeping ==
    Scheduling =>
      /\ \A t \in Tasks : indegree[t] = Cardinality(deps[t] \ Accounted)
      /\ completed = Cardinality(Accounted)
      /\ \A t \in Tasks : Taken(t) <=> deps[t] \subseteq Accounted
      /\ \A t \in ready : at[t] = "idle" /\ state[t] # "Skipped"
      /\ \A t \in Accounted : thrown[t] = "nothing"

\* The task between its removal from `ready' and its push.
CurrentIdle ==
    pc \in {"mark", "push"} =>
      cur \in Tasks \ ready /\ at[cur] = "idle" /\ state[cur] # "Skipped"

\* What a worker has thrown and recorded, by where it is.
WorkersConsistent ==
  /\ firstError # NoTask => thrown[firstError] # "nothing"
  /\ \A t \in Tasks :
      /\ t \in finishedQ => at[t] = "done"
      /\ state[t] = "Skipped" => at[t] = "idle"
      /\ at[t] \in {"fail", "record"} => thrown[t] # "nothing"
      /\ at[t] \notin {"fail", "record", "report", "done"} => thrown[t] = "nothing"
      /\ at[t] \in {"report", "done"} =>
           IF thrown[t] = "nothing" THEN state[t] = "Completed"
                                    ELSE firstError # NoTask

\* The scheduler leaves its loop, and resolves with a value, at the end only.
EndsComplete ==
    /\ pc = "idle" => Accounted = Tasks
    /\ result = Value => pc \in {"finish", "done"} /\ \A t \in Tasks : Settled(t)

\* A task that has not been pushed has made no progress yet.
NotBegun == \A t \in Tasks : at[t] = "idle" /\ state[t] # "Skipped" => progress[t] = 0

SchedulerInv ==
    /\ TypeOK
    /\ Bookkeeping
    /\ CurrentIdle
    /\ WorkersConsistent
    /\ EndsComplete
    /\ DependenciesFirst
    /\ RunningCounted
    /\ AlwaysResolvable

-----------------------------------------------------------------------------
(* The invariant behind the refinement and EndIsExplained.                  *)

\* What the exception in flight and the promise say, and since when.
Ending ==
    /\ result # Pending <=> pc \in {"finish", "done"}
    /\ result \in {Pending, Value, exc}
    /\ finished => pc = "done"
    /\ exc # Pending => pc \in {"catch", "reject", "finish", "done"}
    /\ pc \in {"catch", "reject"} => exc # Pending
    /\ result = Value => exc = Pending
    /\ firstError # NoTask => cancelled
    /\ exc.why = "pending" => exc = Pending
    /\ exc.why = "cancelled" => cancelled /\ exc.task \in {NoTask, firstError}
    /\ exc.why = "error" => /\ exc.task = firstError /\ firstError # NoTask
                            /\ thrown[firstError] = "error"
    /\ exc.why = "condition" => exc.task \in Tasks /\ at[exc.task] = "idle"

\* What the snapshot shows of tasks that never ran, or threw.
Shown ==
    \A t \in Tasks :
      /\ ~Dispatched(t) => state[t] \in {"Queued", "Skipped", "Cancelled"}
      /\ at[t] = "record" \/ (at[t] \in {"report", "done"} /\ thrown[t] # "nothing") =>
           state[t] = IF thrown[t] = "cancelled" THEN "Cancelled" ELSE "Failed"
      /\ firstError = t => at[t] \in {"report", "done"}
      /\ pc \in {"reject", "finish", "done"} /\ exc.why \in {"cancelled", "error"}
           /\ at[t] = "idle" => state[t] \in {"Skipped", "Cancelled"}
=============================================================================
