----------------------------- MODULE TaskSystem -----------------------------
(***************************************************************************)
(* TaskSystem: several submissions on one thread pool, the registry of     *)
(* their shared states, and client threads that submit, wait on a handle,  *)
(* cancel everything and destroy the system.                               *)
(*                                                                         *)
(* What a single graph submission does inside is TaskScheduler; here its   *)
(* scheduler closure is a closure that keeps a pool thread while it waits  *)
(* for a worker it has pushed.  Waiting on `finished' is modelled down to  *)
(* the mutex and the condition variable, because the two submission paths  *)
(* signal it differently.                                                  *)
(***************************************************************************)
EXTENDS Naturals, FiniteSets

CONSTANTS
    Submissions,    \* the submissions made in the life of the system
    Graph,          \* those made with submit_task_specs; the others: submit
    Clients,        \* threads that call the system
    None,           \* "no client", "no submission"
    PoolThreads     \* worker_count

ASSUME SystemAssumption ==
    /\ IsFiniteSet(Submissions) /\ IsFiniteSet(Clients)
    /\ Graph \subseteq Submissions
    /\ None \notin Submissions \cup Clients
    /\ PoolThreads \in Nat \ {0}

VARIABLES
    states,          \* TaskSystem::states
    accepting,       \* TaskSystem::accepting_submissions
    shuttingDown,    \* TaskSystem::shutting_down
    job,             \* where the closure of each submission is
    worker,          \* where the task that a graph's scheduler pushed is
    cancelRequested, \* TaskSharedState::cancel_requested
    finished,        \* TaskSharedState::finished
    mutex,           \* who holds TaskSharedState::finished_mutex
    pc,              \* where each client is
    target,          \* the submission a client deals with
    todo             \* states_to_cancel, those not waited for yet

systemVars == <<states, accepting, shuttingDown>>
poolVars   == <<job, worker, cancelRequested, finished>>
clientVars == <<pc, target, todo>>
vars == <<systemVars, poolVars, mutex, clientVars>>

-----------------------------------------------------------------------------
(* Faulty variants: each stands for a plausible slip in the code.           *)

\* A new state replaces the registry instead of being appended.
OnlyNew(s) == {s}

\* No mutex is taken where one should be.
MutexSkipped(s) == TRUE

\* A finished task does not wake its scheduler.
ReportLost(s) == FALSE

-----------------------------------------------------------------------------
Unfinished(S) == {s \in S : ~finished[s]}

MutexFree(s) == mutex[s] = None

Init ==
    /\ states = {}
    /\ accepting = TRUE
    /\ shuttingDown = FALSE
    /\ job = [s \in Submissions |-> "unborn"]
    /\ worker = [s \in Submissions |-> "none"]
    /\ cancelRequested = [s \in Submissions |-> FALSE]
    /\ finished = [s \in Submissions |-> FALSE]
    /\ mutex = [s \in Submissions |-> None]
    /\ pc = [c \in Clients |-> "idle"]
    /\ target = [c \in Clients |-> None]
    /\ todo = [c \in Clients |-> {}]

Goto(c, where) == pc' = [pc EXCEPT ![c] = where]

-----------------------------------------------------------------------------
(* register_state and the push that follows it. *)

Pruned == Unfinished(states)
Registered(s) == Pruned \cup {s}

\* Throws when submissions are disallowed: the submission never exists.
SubmitRegister(c, s) ==
    /\ pc[c] = "idle"
    /\ ~shuttingDown
    /\ job[s] = "unborn"
    /\ IF accepting
         THEN /\ states' = Registered(s)
              /\ job' = [job EXCEPT ![s] = "registered"]
              /\ target' = [target EXCEPT ![c] = s]
              /\ Goto(c, "push")
         ELSE /\ job' = [job EXCEPT ![s] = "rejected"]
              /\ UNCHANGED <<states, target, pc>>
    /\ UNCHANGED <<accepting, shuttingDown, worker, cancelRequested, finished,
                   mutex, todo>>

SubmitPush(c) ==
    /\ pc[c] = "push"
    /\ job' = [job EXCEPT ![target[c]] = "queued"]
    /\ target' = [target EXCEPT ![c] = None]
    /\ Goto(c, "idle")
    /\ UNCHANGED <<systemVars, worker, cancelRequested, finished, mutex, todo>>

-----------------------------------------------------------------------------
(* TaskHandle::wait.  (TaskHandle::cancel only sets the flag: TaskScheduler.) *)

HandleExists(s) == job[s] \notin {"unborn", "registered", "rejected"}

WaitCall(c, s) ==
    /\ pc[c] = "idle"
    /\ ~shuttingDown
    /\ HandleExists(s)
    /\ target' = [target EXCEPT ![c] = s]
    /\ Goto(c, "lock")
    /\ UNCHANGED <<systemVars, poolVars, mutex, todo>>

\* unique_lock lock{finished_mutex}, when called and after each wakeup.
Lock(c) ==
    /\ pc[c] = "lock"
    /\ MutexFree(target[c])
    /\ mutex' = [mutex EXCEPT ![target[c]] = c]
    /\ Goto(c, "test")
    /\ UNCHANGED <<systemVars, poolVars, target, todo>>

\* The predicate; a sweeping client goes on with its next state.
Test(c) ==
    /\ pc[c] = "test"
    /\ IF finished[target[c]]
         THEN /\ mutex' = [mutex EXCEPT ![target[c]] = None]
              /\ todo' = [todo EXCEPT ![c] = @ \ {target[c]}]
              /\ target' = [target EXCEPT ![c] = None]
              /\ Goto(c, IF target[c] \in todo[c] THEN "next" ELSE "idle")
         ELSE /\ Goto(c, "sleep")
              /\ UNCHANGED <<mutex, target, todo>>
    /\ UNCHANGED <<systemVars, poolVars>>

\* finished_cv.wait releases the mutex and blocks, in one step.
Sleep(c) ==
    /\ pc[c] = "sleep"
    /\ mutex' = [mutex EXCEPT ![target[c]] = None]
    /\ Goto(c, "asleep")
    /\ UNCHANGED <<systemVars, poolVars, target, todo>>

-----------------------------------------------------------------------------
(* cancel_all_and_wait. *)

\* Disallow submissions, drop the finished states, take the others.
StartSweep(c) ==
    /\ accepting' = FALSE
    /\ todo' = [todo EXCEPT ![c] = Pruned]
    /\ states' = {}
    /\ Goto(c, "cancel")

SweepCall(c) ==
    /\ pc[c] = "idle"
    /\ ~shuttingDown
    /\ StartSweep(c)
    /\ UNCHANGED <<shuttingDown, poolVars, mutex, target>>

\* ~TaskSystem: by contract nobody is inside another member function.
DestructorCall(c) ==
    /\ \A d \in Clients : pc[d] = "idle"
    /\ ~shuttingDown
    /\ shuttingDown' = TRUE
    /\ StartSweep(c)
    /\ UNCHANGED <<poolVars, mutex, target>>

SweepCancel(c) ==
    /\ pc[c] = "cancel"
    /\ cancelRequested' =
         [s \in Submissions |-> cancelRequested[s] \/ s \in todo[c]]
    /\ Goto(c, "next")
    /\ UNCHANGED <<systemVars, job, worker, finished, mutex, target, todo>>

SweepNext(c) ==
    /\ pc[c] = "next"
    /\ \/ \E s \in todo[c] :
            /\ target' = [target EXCEPT ![c] = s]
            /\ Goto(c, "lock")
       \/ /\ todo[c] = {}
          /\ Goto(c, "reopen")
          /\ UNCHANGED target
    /\ UNCHANGED <<systemVars, poolVars, mutex, todo>>

MayReopen == ~shuttingDown

SweepReopen(c) ==
    /\ pc[c] = "reopen"
    /\ accepting' = (accepting \/ MayReopen)
    /\ Goto(c, IF shuttingDown THEN "destroyed" ELSE "idle")
    /\ UNCHANGED <<states, shuttingDown, poolVars, mutex, target, todo>>

-----------------------------------------------------------------------------
(* The pool: a free thread takes any closure that was pushed. *)

BusyThreads ==
    Cardinality({s \in Submissions :
                   job[s] \in {"running", "waiting", "ending", "lock", "notify"}})
      + Cardinality({s \in Submissions : worker[s] = "running"})

Run(s, to) == job' = [job EXCEPT ![s] = to]

JobStart(s) ==
    /\ job[s] = "queued"
    /\ BusyThreads < PoolThreads
    /\ Run(s, "running")
    /\ UNCHANGED <<systemVars, worker, cancelRequested, finished, mutex,
                   clientVars>>

\* submit: fn(context) returns or throws, the promise is resolved.
SimpleBody(s) ==
    /\ s \notin Graph
    /\ job[s] = "running"
    /\ Run(s, "ending")
    /\ UNCHANGED <<systemVars, worker, cancelRequested, finished, mutex,
                   clientVars>>

\* submit_task_specs: the scheduler pushes a task unless it sees the cancel
\* flag, waits for it, and may leave it behind when a start condition throws.
GraphPush(s) ==
    /\ s \in Graph
    /\ job[s] = "running"
    /\ ~cancelRequested[s]
    /\ worker' = [worker EXCEPT ![s] = "queued"]
    /\ Run(s, "waiting")
    /\ UNCHANGED <<systemVars, cancelRequested, finished, mutex, clientVars>>

GraphStop(s) ==
    /\ s \in Graph
    /\ job[s] = "running" /\ cancelRequested[s]
    /\ Run(s, "ending")
    /\ UNCHANGED <<systemVars, worker, cancelRequested, finished, mutex,
                   clientVars>>

GraphAbandon(s) ==
    /\ job[s] = "waiting"
    /\ Run(s, "ending")
    /\ UNCHANGED <<systemVars, worker, cancelRequested, finished, mutex,
                   clientVars>>

Reported(s) == worker[s] = "done"

GraphResume(s) ==
    /\ job[s] = "waiting"
    /\ Reported(s)
    /\ Run(s, "ending")
    /\ UNCHANGED <<systemVars, worker, cancelRequested, finished, mutex,
                   clientVars>>

WorkerStart(s) ==
    /\ worker[s] = "queued"
    /\ BusyThreads < PoolThreads
    /\ worker' = [worker EXCEPT ![s] = "running"]
    /\ UNCHANGED <<systemVars, job, cancelRequested, finished, mutex,
                   clientVars>>

WorkerEnd(s) ==
    /\ worker[s] = "running"
    /\ worker' = [worker EXCEPT ![s] = "done"]
    /\ UNCHANGED <<systemVars, job, cancelRequested, finished, mutex,
                   clientVars>>

\* finished.store(true).
Store(s) ==
    /\ job[s] = "ending"
    /\ finished' = [finished EXCEPT ![s] = TRUE]
    /\ Run(s, IF s \in Graph THEN "notify" ELSE "lock")
    /\ UNCHANGED <<systemVars, worker, cancelRequested, mutex, clientVars>>

\* { lock_guard lock{finished_mutex}; }, in the submit path only.
MutexPassed(s) == MutexFree(s)

LockUnlock(s) ==
    /\ job[s] = "lock"
    /\ MutexPassed(s)
    /\ Run(s, "notify")
    /\ UNCHANGED <<systemVars, worker, cancelRequested, finished, mutex,
                   clientVars>>

\* finished_cv.notify_all().
Woken(s) == {c \in Clients : pc[c] = "asleep" /\ target[c] = s}

Notify(s) ==
    /\ job[s] = "notify"
    /\ pc' = [c \in Clients |-> IF c \in Woken(s) THEN "lock" ELSE pc[c]]
    /\ Run(s, "done")
    /\ UNCHANGED <<systemVars, worker, cancelRequested, finished, mutex,
                   target, todo>>

-----------------------------------------------------------------------------
ClientStep(c) ==
    \/ SubmitPush(c) \/ Lock(c) \/ Test(c) \/ Sleep(c)
    \/ SweepCancel(c) \/ SweepNext(c) \/ SweepReopen(c)

ClientCall(c) ==
    \/ \E s \in Submissions : SubmitRegister(c, s) \/ WaitCall(c, s)
    \/ SweepCall(c) \/ DestructorCall(c)

ClosureStep(s) ==
    \/ JobStart(s) \/ SimpleBody(s)
    \/ GraphPush(s) \/ GraphStop(s) \/ GraphResume(s)
    \/ WorkerStart(s) \/ WorkerEnd(s)
    \/ Store(s) \/ LockUnlock(s) \/ Notify(s)

PoolStep(s) == ClosureStep(s) \/ GraphAbandon(s)

Next ==
    \/ \E c \in Clients : ClientStep(c) \/ ClientCall(c)
    \/ \E s \in Submissions : PoolStep(s)

Spec == Init /\ [][Next]_vars

\* Threads keep running, task bodies return, a free pool thread takes what is
\* queued, and a mutex released again and again is not withheld from anybody
\* for ever (hence strong fairness).  Nothing obliges a client to call, a start
\* condition to throw, or a sleeping thread to wake up by itself.
Fairness ==
    /\ \A c \in Clients : SF_vars(ClientStep(c))
    /\ \A s \in Submissions : SF_vars(ClosureStep(s))

FairSpec == Spec /\ Fairness

-----------------------------------------------------------------------------
(* What is checked. *)

\* The variables hold values of their C++ types, and a finished_mutex is held by
\* the one client that is between locking it and releasing it.
TypeOK ==
    /\ states \subseteq Submissions
    /\ accepting \in BOOLEAN /\ shuttingDown \in BOOLEAN
    /\ job \in [Submissions -> {"unborn", "registered", "rejected", "queued",
                                "running", "waiting", "ending", "lock",
                                "notify", "done"}]
    /\ worker \in [Submissions -> {"none", "queued", "running", "done"}]
    /\ cancelRequested \in [Submissions -> BOOLEAN]
    /\ finished \in [Submissions -> BOOLEAN]
    /\ mutex \in [Submissions -> Clients \cup {None}]
    /\ pc \in [Clients -> {"idle", "push", "lock", "test", "sleep", "asleep",
                           "cancel", "next", "reopen", "destroyed"}]
    /\ target \in [Clients -> Submissions \cup {None}]
    /\ todo \in [Clients -> SUBSET Submissions]
    /\ \A c \in Clients :
         pc[c] \in {"test", "sleep"} => mutex[target[c]] = c

\* A submission that was accepted and has not finished is in the registry or
\* in the hands of a client that is waiting for it: no sweep can miss it,
\* however registration, cleanup and sweeps interleave.
NothingForgotten ==
    \A s \in Submissions :
      job[s] \notin {"unborn", "rejected"} /\ ~finished[s] =>
        s \in states \/ \E c \in Clients : s \in todo[c]

\* When the destructor's sweep is over every accepted submission has finished,
\* and none is accepted any more.
DestroyedMeansFinished ==
    (\E c \in Clients : pc[c] = "destroyed") =>
      /\ ~accepting
      /\ \A s \in Submissions :
           job[s] \notin {"unborn", "rejected"} => finished[s]

\* However registration, sweeps and destruction interleave, no accepted submission
\* outlives the system unseen (cleanup, cancel_all_and_wait, ~TaskSystem).
NothingOutlivesSystem == TypeOK /\ NothingForgotten /\ DestroyedMeansFinished

WaitingFor(c, s) ==
    target[c] = s /\ pc[c] \in {"lock", "test", "sleep", "asleep"}

\* TaskHandle::wait and cancel_all_and_wait return once a callable submitted
\* with submit has finished, wherever the waiter was when it did.
SimpleWaitersReleased ==
    \A c \in Clients : \A s \in Submissions \ Graph :
      WaitingFor(c, s) /\ finished[s] ~> ~WaitingFor(c, s)

\* Every submission that was pushed finishes, as long as the schedulers of
\* graph submissions leave a thread of the pool to the tasks they wait for.
SubmissionsFinish ==
    Cardinality(Graph) < PoolThreads =>
      \A s \in Submissions : job[s] = "queued" ~> finished[s]

\* README: "`TaskHandle::wait()` blocks until submission completion is
\* signaled."  So a waiter is released when its submission has finished.  The
\* code breaks it for graph submissions (README, section 4).
WaitersReleased ==
    \A c \in Clients : \A s \in Submissions :
      WaitingFor(c, s) /\ finished[s] ~> ~WaitingFor(c, s)

-----------------------------------------------------------------------------
(* The inductive invariant behind the theorems of TaskSystemProofs.         *)

Dealing == {"push", "lock", "test", "sleep", "asleep"}
Waiting == {"lock", "test", "sleep", "asleep"}

\* What a client has in hand, by where it is: the submission it deals with, and
\* what its sweep still has to wait for.
ClientsConsistent ==
    \A c \in Clients :
      /\ pc[c] \in Dealing => target[c] \in Submissions
      /\ pc[c] = "push" => job[target[c]] \notin {"unborn", "rejected"}
      /\ pc[c] \in {"idle", "push", "reopen", "destroyed"} => todo[c] = {}
      /\ pc[c] \in Waiting /\ todo[c] # {} => target[c] \in todo[c]

\* Once the destructor runs nobody can submit, and its caller, who is alone, deals
\* with nothing but what its sweep took.
DestructorAlone ==
    /\ (\E c \in Clients : pc[c] = "destroyed") => shuttingDown
    /\ shuttingDown =>
         /\ ~accepting
         /\ states = {}
         /\ \E d \in Clients :
              /\ pc[d] \notin {"idle", "push"}
              /\ pc[d] \in Waiting => target[d] \in todo[d]
              /\ \A c \in Clients \ {d} : pc[c] = "idle"

SystemInv ==
    /\ TypeOK
    /\ ClientsConsistent
    /\ NothingForgotten
    /\ DestructorAlone
    /\ DestroyedMeansFinished
=============================================================================
