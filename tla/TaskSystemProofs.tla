-------------------------- MODULE TaskSystemProofs --------------------------
(***************************************************************************)
(* Proofs about TaskSystem, for every finite set of submissions, graphs or *)
(* callables, every set of clients and every pool size: no accepted        *)
(* submission is lost sight of, and the destructor outlives them all.      *)
(***************************************************************************)
EXTENDS TaskSystem, TLAPS

\* Before the first call nothing is submitted and every client is idle.
LEMMA InitSystem == Init => SystemInv
<1> SUFFICES ASSUME Init PROVE SystemInv
  OBVIOUS
<1>1. TypeOK
  BY DEF Init, TypeOK
<1>2. ClientsConsistent
  BY DEF Init, ClientsConsistent, Dealing, Waiting
<1>3. NothingForgotten
  BY DEF Init, NothingForgotten
<1>4. DestructorAlone /\ DestroyedMeansFinished
  BY DEF Init, DestructorAlone, DestroyedMeansFinished
<1> QED
  BY <1>1, <1>2, <1>3, <1>4 DEF SystemInv

\* What a sweep takes is a set of submissions.
LEMMA PrunedType == ASSUME TypeOK PROVE Pruned \in SUBSET Submissions
BY DEF Pruned, Unfinished, TypeOK

-----------------------------------------------------------------------------
(* Types, and who holds a mutex.                                            *)

\* Every step keeps the types, and a mutex changes hands only where it is free.
LEMMA TypeStep ==
    ASSUME TypeOK, ClientsConsistent, [Next]_vars
    PROVE  TypeOK'
<1> USE SystemAssumption DEF Goto, Run
<1>1. ASSUME NEW c \in Clients, NEW s \in Submissions, SubmitRegister(c, s)
      PROVE  TypeOK'
  BY <1>1 DEF SubmitRegister, Registered, Pruned, Unfinished, TypeOK
<1>2. ASSUME NEW c \in Clients, SubmitPush(c)
      PROVE  TypeOK'
  BY <1>2 DEF SubmitPush, TypeOK, ClientsConsistent, Dealing, systemVars
<1>3. ASSUME NEW c \in Clients, NEW s \in Submissions, WaitCall(c, s)
      PROVE  TypeOK'
  BY <1>3 DEF WaitCall, TypeOK, systemVars, poolVars
<1>4. ASSUME NEW c \in Clients, Lock(c)
      PROVE  TypeOK'
  BY <1>4 DEF Lock, MutexFree, TypeOK, ClientsConsistent, Dealing, systemVars, poolVars
<1>5. ASSUME NEW c \in Clients, Test(c)
      PROVE  TypeOK'
  BY <1>5 DEF Test, TypeOK, ClientsConsistent, Dealing, systemVars, poolVars
<1>6. ASSUME NEW c \in Clients, Sleep(c)
      PROVE  TypeOK'
  BY <1>6 DEF Sleep, TypeOK, ClientsConsistent, Dealing, systemVars, poolVars
<1>7. ASSUME NEW c \in Clients, SweepCall(c) \/ DestructorCall(c)
      PROVE  TypeOK'
  BY <1>7, PrunedType DEF SweepCall, DestructorCall, StartSweep, TypeOK, poolVars
<1>8. ASSUME NEW c \in Clients, SweepCancel(c)
      PROVE  TypeOK'
  BY <1>8 DEF SweepCancel, TypeOK, systemVars
<1>9. ASSUME NEW c \in Clients, SweepNext(c)
      PROVE  TypeOK'
  BY <1>9 DEF SweepNext, TypeOK, systemVars, poolVars
<1>10. ASSUME NEW c \in Clients, SweepReopen(c)
       PROVE  TypeOK'
  BY <1>10 DEF SweepReopen, MayReopen, TypeOK, poolVars
<1>11. ASSUME NEW s \in Submissions, PoolStep(s)
       PROVE  TypeOK'
  <2>1. CASE Notify(s)
    BY <2>1 DEF Notify, Woken, TypeOK, systemVars
  <2>2. CASE ~Notify(s)
    BY <1>11, <2>2
    DEF PoolStep, ClosureStep, JobStart, SimpleBody, GraphPush, GraphStop, GraphAbandon,
        GraphResume, WorkerStart, WorkerEnd, Store, LockUnlock, TypeOK, systemVars, clientVars
  <2> QED
    BY <2>1, <2>2
<1>12. CASE UNCHANGED vars
  BY <1>12 DEF vars, systemVars, poolVars, clientVars, TypeOK
<1> QED
  BY <1>1, <1>2, <1>3, <1>4, <1>5, <1>6, <1>7, <1>8, <1>9, <1>10, <1>11, <1>12
  DEF Next, ClientStep, ClientCall

-----------------------------------------------------------------------------
(* What the pool leaves alone.                                              *)

\* A step of the pool creates no submission, never takes a finished flag back, and
\* moves no client but one it wakes.
LEMMA PoolEffect ==
    ASSUME TypeOK, NEW s \in Submissions, PoolStep(s)
    PROVE  /\ UNCHANGED <<states, accepting, shuttingDown, target, todo>>
           /\ \A t \in Submissions :
                /\ job'[t] \in {"unborn", "rejected"} <=> job[t] \in {"unborn", "rejected"}
                /\ finished[t] => finished'[t]
           /\ \A c \in Clients :
                \/ pc'[c] = pc[c]
                \/ pc[c] = "asleep" /\ pc'[c] = "lock"
<1> USE DEF Run
<1>1. CASE Notify(s)
  BY <1>1 DEF Notify, Woken, TypeOK, systemVars
<1>2. CASE Store(s)
  BY <1>2 DEF Store, TypeOK, systemVars, clientVars
<1>3. CASE ~Notify(s) /\ ~Store(s)
  BY <1>3
  DEF PoolStep, ClosureStep, JobStart, SimpleBody, GraphPush, GraphStop, GraphAbandon,
      GraphResume, WorkerStart, WorkerEnd, LockUnlock, TypeOK, systemVars, clientVars
<1> QED
  BY <1>1, <1>2, <1>3

-----------------------------------------------------------------------------
(* What each client has in hand.                                            *)

LEMMA ClientsStep ==
    ASSUME TypeOK, ClientsConsistent, [Next]_vars
    PROVE  ClientsConsistent'
<1> USE DEF Goto, Dealing, Waiting
<1>1. ASSUME NEW c \in Clients, NEW s \in Submissions, SubmitRegister(c, s)
      PROVE  ClientsConsistent'
  BY <1>1 DEF SubmitRegister, TypeOK, ClientsConsistent
<1>2. ASSUME NEW c \in Clients, SubmitPush(c)
      PROVE  ClientsConsistent'
  BY <1>2 DEF SubmitPush, TypeOK, ClientsConsistent
<1>3. ASSUME NEW c \in Clients, NEW s \in Submissions, WaitCall(c, s)
      PROVE  ClientsConsistent'
  BY <1>3 DEF WaitCall, TypeOK, ClientsConsistent, poolVars
<1>4. ASSUME NEW c \in Clients, Lock(c) \/ Sleep(c)
      PROVE  ClientsConsistent'
  BY <1>4 DEF Lock, Sleep, TypeOK, ClientsConsistent, poolVars
<1>5. ASSUME NEW c \in Clients, Test(c)
      PROVE  ClientsConsistent'
  BY <1>5 DEF Test, TypeOK, ClientsConsistent, poolVars
<1>6. ASSUME NEW c \in Clients, SweepCall(c) \/ DestructorCall(c)
      PROVE  ClientsConsistent'
  BY <1>6 DEF SweepCall, DestructorCall, StartSweep, TypeOK, ClientsConsistent, poolVars
<1>7. ASSUME NEW c \in Clients, SweepCancel(c) \/ SweepReopen(c)
      PROVE  ClientsConsistent'
  BY <1>7 DEF SweepCancel, SweepReopen, TypeOK, ClientsConsistent, poolVars
<1>8. ASSUME NEW c \in Clients, SweepNext(c)
      PROVE  ClientsConsistent'
  BY <1>8 DEF SweepNext, TypeOK, ClientsConsistent, poolVars
<1>9. ASSUME NEW s \in Submissions, PoolStep(s)
      PROVE  ClientsConsistent'
  BY <1>9, PoolEffect DEF TypeOK, ClientsConsistent
<1>10. CASE UNCHANGED vars
  BY <1>10 DEF vars, systemVars, poolVars, clientVars, ClientsConsistent
<1> QED
  BY <1>1, <1>2, <1>3, <1>4, <1>5, <1>6, <1>7, <1>8, <1>9, <1>10
  DEF Next, ClientStep, ClientCall

-----------------------------------------------------------------------------
(* The registry and the sweeps between them hold every unfinished one.      *)

LEMMA NothingForgottenStep ==
    ASSUME TypeOK, ClientsConsistent, NothingForgotten, [Next]_vars
    PROVE  NothingForgotten'
<1> USE DEF Goto
<1>1. ASSUME NEW c \in Clients, NEW s \in Submissions, SubmitRegister(c, s)
      PROVE  NothingForgotten'
  BY <1>1 DEF SubmitRegister, Registered, Pruned, Unfinished, TypeOK, NothingForgotten
<1>2. ASSUME NEW c \in Clients, SubmitPush(c)
      PROVE  NothingForgotten'
  BY <1>2 DEF SubmitPush, TypeOK, ClientsConsistent, Dealing, NothingForgotten, systemVars
<1>3. ASSUME NEW c \in Clients,
             \/ \E s \in Submissions : WaitCall(c, s)
             \/ Lock(c) \/ Sleep(c) \/ SweepNext(c)
      PROVE  NothingForgotten'
  BY <1>3 DEF WaitCall, Lock, Sleep, SweepNext, NothingForgotten, systemVars, poolVars
<1>4. ASSUME NEW c \in Clients, Test(c)
      PROVE  NothingForgotten'
  BY <1>4 DEF Test, TypeOK, NothingForgotten, systemVars, poolVars
<1>5. ASSUME NEW c \in Clients, SweepCall(c) \/ DestructorCall(c)
      PROVE  NothingForgotten'
  <2>1. todo[c] = {}
    BY <1>5 DEF SweepCall, DestructorCall, ClientsConsistent
  <2>2. /\ UNCHANGED <<job, finished>>
        /\ todo' = [todo EXCEPT ![c] = Pruned]
    BY <1>5 DEF SweepCall, DestructorCall, StartSweep, poolVars
  <2>3. ASSUME NEW s \in Submissions, job[s] \notin {"unborn", "rejected"}, ~finished[s]
        PROVE  \E d \in Clients : s \in todo'[d]
    <3>1. CASE s \in states
      BY <2>2, <2>3, <3>1 DEF Pruned, Unfinished, TypeOK
    <3>2. CASE s \notin states
      BY <2>1, <2>2, <2>3, <3>2 DEF NothingForgotten, TypeOK
    <3> QED
      BY <3>1, <3>2
  <2> QED
    BY <2>2, <2>3 DEF NothingForgotten
<1>6. ASSUME NEW c \in Clients, SweepCancel(c) \/ SweepReopen(c)
      PROVE  NothingForgotten'
  BY <1>6 DEF SweepCancel, SweepReopen, NothingForgotten, systemVars, poolVars
<1>7. ASSUME NEW s \in Submissions, PoolStep(s)
      PROVE  NothingForgotten'
  BY <1>7, PoolEffect DEF NothingForgotten
<1>8. CASE UNCHANGED vars
  BY <1>8 DEF vars, systemVars, poolVars, clientVars, NothingForgotten
<1> QED
  BY <1>1, <1>2, <1>3, <1>4, <1>5, <1>6, <1>7, <1>8, SystemAssumption
  DEF Next, ClientStep, ClientCall

-----------------------------------------------------------------------------
(* Nobody is beside the destructor.                                         *)

LEMMA DestructorAloneStep ==
    ASSUME TypeOK, ClientsConsistent, DestructorAlone, [Next]_vars
    PROVE  DestructorAlone'
<1> USE DEF Goto, Waiting
<1>1. ASSUME NEW c \in Clients, NEW s \in Submissions,
             SubmitRegister(c, s) \/ WaitCall(c, s)
      PROVE  DestructorAlone'
  BY <1>1 DEF SubmitRegister, WaitCall, TypeOK, DestructorAlone, systemVars
<1>2. ASSUME NEW c \in Clients, SubmitPush(c)
      PROVE  DestructorAlone'
  BY <1>2 DEF SubmitPush, TypeOK, DestructorAlone, systemVars
<1>3. ASSUME NEW c \in Clients, Lock(c) \/ Sleep(c)
      PROVE  DestructorAlone'
  BY <1>3 DEF Lock, Sleep, TypeOK, DestructorAlone, systemVars
<1>4. ASSUME NEW c \in Clients, Test(c)
      PROVE  DestructorAlone'
  <2>1. CASE shuttingDown
    <3>1. target[c] \in todo[c] /\ \A d \in Clients \ {c} : pc[d] = "idle"
      BY <1>4, <2>1 DEF Test, DestructorAlone
    <3> QED
      BY <1>4, <2>1, <3>1 DEF Test, TypeOK, DestructorAlone, systemVars
  <2>2. CASE ~shuttingDown
    BY <1>4, <2>2 DEF Test, TypeOK, DestructorAlone, systemVars
  <2> QED
    BY <2>1, <2>2
<1>5. ASSUME NEW c \in Clients, SweepCall(c)
      PROVE  DestructorAlone'
  BY <1>5 DEF SweepCall, StartSweep, TypeOK, DestructorAlone
<1>6. ASSUME NEW c \in Clients, DestructorCall(c)
      PROVE  DestructorAlone'
  BY <1>6 DEF DestructorCall, StartSweep, TypeOK, DestructorAlone
<1>7. ASSUME NEW c \in Clients, SweepCancel(c)
      PROVE  DestructorAlone'
  BY <1>7 DEF SweepCancel, TypeOK, DestructorAlone, systemVars
<1>8. ASSUME NEW c \in Clients, SweepNext(c)
      PROVE  DestructorAlone'
  BY <1>8 DEF SweepNext, TypeOK, DestructorAlone, systemVars
<1>9. ASSUME NEW c \in Clients, SweepReopen(c)
      PROVE  DestructorAlone'
  BY <1>9 DEF SweepReopen, MayReopen, TypeOK, DestructorAlone
<1>10. ASSUME NEW s \in Submissions, PoolStep(s)
       PROVE  DestructorAlone'
  BY <1>10, PoolEffect DEF DestructorAlone
<1>11. CASE UNCHANGED vars
  BY <1>11 DEF vars, systemVars, clientVars, DestructorAlone
<1> QED
  BY <1>1, <1>2, <1>3, <1>4, <1>5, <1>6, <1>7, <1>8, <1>9, <1>10, <1>11, SystemAssumption
  DEF Next, ClientStep, ClientCall

-----------------------------------------------------------------------------
(* The destructor ends last.                                                *)

\* When its sweep has nothing left, nothing is left anywhere.
LEMMA SweptMeansFinished ==
    ASSUME SystemInv, shuttingDown, NEW c \in Clients, pc[c] \in {"reopen", "destroyed"}
    PROVE  \A s \in Submissions :
             job[s] \notin {"unborn", "rejected"} => finished[s]
<1>1. states = {} /\ \A d \in Clients \ {c} : pc[d] = "idle"
  BY DEF SystemInv, DestructorAlone
<1>2. \A d \in Clients : todo[d] = {}
  BY <1>1 DEF SystemInv, ClientsConsistent
<1> QED
  BY <1>1, <1>2 DEF SystemInv, NothingForgotten

LEMMA DestroyedStep ==
    ASSUME SystemInv, [Next]_vars
    PROVE  DestroyedMeansFinished'
<1> DEFINE Destroyed == \E c \in Clients : pc[c] = "destroyed"
           Existing == {s \in Submissions : job[s] \notin {"unborn", "rejected"}}
<1> USE DEF Goto
<1>1. CASE Destroyed
  <2>1. /\ shuttingDown /\ ~accepting
        /\ \A d \in Clients : pc[d] \in {"idle", "destroyed"}
        /\ \A s \in Existing : finished[s]
    BY <1>1 DEF SystemInv, DestructorAlone, DestroyedMeansFinished
  <2>2. \/ UNCHANGED vars
        \/ \E s \in Submissions : PoolStep(s)
    BY <2>1
    DEF Next, ClientStep, ClientCall, SubmitPush, Lock, Test, Sleep, SweepCancel, SweepNext,
        SweepReopen, SubmitRegister, WaitCall, SweepCall, DestructorCall
  <2>3. CASE UNCHANGED vars
    BY <2>3 DEF vars, systemVars, poolVars, clientVars, DestroyedMeansFinished, SystemInv
  <2>4. ASSUME NEW s \in Submissions, PoolStep(s)
        PROVE  DestroyedMeansFinished'
    BY <2>1, <2>4, PoolEffect DEF DestroyedMeansFinished, SystemInv
  <2> QED
    BY <2>2, <2>3, <2>4
<1>2. CASE ~Destroyed
  <2>1. ASSUME NEW c \in Clients, SweepReopen(c), shuttingDown
        PROVE  DestroyedMeansFinished'
    <3>1. ~accepting' /\ UNCHANGED <<job, finished>>
      BY <2>1 DEF SweepReopen, MayReopen, SystemInv, DestructorAlone, poolVars
    <3>2. \A s \in Existing : finished[s]
      BY <2>1, SweptMeansFinished DEF SweepReopen
    <3> QED
      BY <3>1, <3>2 DEF DestroyedMeansFinished
  <2>2. ASSUME NEW c \in Clients, SweepReopen(c), ~shuttingDown
        PROVE  ~Destroyed'
    BY <1>2, <2>2 DEF SweepReopen, SystemInv, TypeOK
  <2>3. ASSUME NEW c \in Clients, ClientStep(c) \/ ClientCall(c), ~SweepReopen(c)
        PROVE  ~Destroyed'
    BY <1>2, <2>3
    DEF ClientStep, ClientCall, SubmitPush, Lock, Test, Sleep, SweepCancel, SweepNext,
        SubmitRegister, WaitCall, SweepCall, DestructorCall, StartSweep, SystemInv, TypeOK
  <2>4. ASSUME NEW s \in Submissions, PoolStep(s)
        PROVE  ~Destroyed'
    BY <1>2, <2>4, PoolEffect DEF SystemInv
  <2>5. UNCHANGED vars => ~Destroyed'
    BY <1>2 DEF vars, clientVars
  <2>6. ~Destroyed' => DestroyedMeansFinished'
    BY DEF DestroyedMeansFinished
  <2>7. ASSUME NEW c \in Clients, ClientStep(c) \/ ClientCall(c)
        PROVE  DestroyedMeansFinished'
    BY <2>1, <2>2, <2>3, <2>6, <2>7
  <2> HIDE DEF Destroyed
  <2> QED
    BY <2>4, <2>5, <2>6, <2>7 DEF Next
<1> QED
  BY <1>1, <1>2

-----------------------------------------------------------------------------
(* The theorems.                                                            *)

\* The system never loses sight of an accepted submission and never lets anybody in
\* beside its destructor (TaskSystem::register_state, cleanup, cancel_all_and_wait).
THEOREM SystemInvariant == Spec => []SystemInv
<1>1. SystemInv /\ [Next]_vars => SystemInv'
  BY TypeStep, ClientsStep, NothingForgottenStep, DestructorAloneStep, DestroyedStep
  DEF SystemInv
<1> QED
  BY <1>1, InitSystem, PTL DEF Spec

\* No accepted submission is forgotten, and none is unfinished when ~TaskSystem
\* returns, for any number of submissions, clients and threads.
THEOREM DestructorWaitsForAll == Spec => []NothingOutlivesSystem
<1>1. SystemInv => NothingOutlivesSystem
  BY DEF SystemInv, NothingOutlivesSystem
<1> QED
  BY <1>1, SystemInvariant, PTL
=============================================================================
