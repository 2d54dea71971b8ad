----------------------------- MODULE FileProofs -----------------------------
(***************************************************************************)
(* Proofs about what the program writes to files.                          *)
(*                                                                         *)
(* FileLog, for any number of producers, any queue length, notify batch    *)
(* and number of records, and every overflow policy: the file loses no     *)
(* record unseen, keeps the order, and is complete when the destructor     *)
(* returns.                                                                *)
(*                                                                         *)
(* SceneFile, for all classes and properties, any width of an int, any     *)
(* number of components and any way a file can be damaged: what is loaded, *)
(* typed or animated fits the properties, no id is there twice, a load     *)
(* takes everything or nothing, and what is saved is loaded as it was.     *)
(***************************************************************************)
EXTENDS FileLog, SceneFile, SequenceTheorems, FiniteSetTheorems, WellFoundedInduction, TLAPS

-----------------------------------------------------------------------------
(* The file log.                                                            *)

\* The two halves of TypeOK: the data, and where the threads are.
DataOK ==
    /\ policy \in Policies
    /\ installed \in BOOLEAN /\ setting \in BOOLEAN
    /\ session \in BOOLEAN /\ stop \in BOOLEAN
    /\ pending \in Seq(Nat) /\ Len(pending) <= MaxPending
    /\ batch \in Seq(Nat) /\ Len(batch) <= MaxPending
    /\ dropped \in Nat /\ summary \in Nat /\ offered \in Nat
    /\ written \in Nat /\ last \in Nat /\ reported \in Nat

PlacesOK ==
    /\ pc \in [Threads \cup {Writer} ->
                 {"idle", "get", "enqueue", "notify", "done", "stop", "notify_stop", "join",
                  "gone", "test", "wait", "notify_all", "write", "exited"}]
    /\ sleeping \subseteq {t \in Threads \cup {Writer} : pc[t] \in {"enqueue", "wait"}}

LEMMA TypeParts == TypeOK <=> DataOK /\ PlacesOK
BY DEF TypeOK, DataOK, PlacesOK

\* Before the first record the file, the queue and the counters are empty.
LEMMA InitLog == Init => LogInv
<1> SUFFICES ASSUME Init PROVE LogInv
  OBVIOUS
<1> USE FileLogAssumption DEF Init
<1>1. TypeOK
  <2>1. <<>> \in Seq(Nat) /\ Len(<<>>) = 0
    BY EmptySeq
  <2>2. DataOK
    <3>1. policy \in Policies /\ installed \in BOOLEAN /\ setting \in BOOLEAN
      OBVIOUS
    <3>2. pending \in Seq(Nat) /\ Len(pending) <= MaxPending
      BY <2>1
    <3>3. batch \in Seq(Nat) /\ Len(batch) <= MaxPending
      BY <2>1
    <3> QED
      BY <3>1, <3>2, <3>3 DEF DataOK
  <2>3. PlacesOK
    BY DEF PlacesOK, Threads
  <2> QED
    BY <2>2, <2>3, TypeParts
<1>2. RecordsAccounted
  BY DEF RecordsAccounted
<1>3. Ordered
  BY DEF Ordered, Between, Increasing
<1>4. WriterConsistent /\ DestructorAlone
  BY DEF WriterConsistent, DestructorAlone, Threads
<1> QED
  BY <1>1, <1>2, <1>3, <1>4 DEF LogInv

-----------------------------------------------------------------------------
(* What enqueue_record does to the queue and the counters.                  *)

Refused ==
    pending' = pending /\ dropped' = dropped + 1

Appended ==
    /\ Len(pending) < MaxPending
    /\ pending' = Append(pending, offered + 1)
    /\ dropped' = dropped

Replaced ==
    /\ pending # <<>>
    /\ pending' = Append(Tail(pending), offered + 1)
    /\ dropped' = dropped + 1

\* Whatever the policy, a record is refused and counted, put at the end of a queue
\* that has room, or put there in place of the oldest one, which is counted.
LEMMA EnqueueEffect ==
    ASSUME TypeOK, NEW t \in Threads, Enqueue(t)
    PROVE  /\ offered' = offered + 1
           /\ UNCHANGED <<global, session, stop, file, sleeping>>
           /\ \E where \in {"notify", "done"} : pc' = [pc EXCEPT ![t] = where]
           /\ Refused \/ Appended \/ Replaced
<1>1. policy \in {"Block", "DropNewest", "DropOldest"}
  BY FileLogAssumption DEF TypeOK
<1>2. Len(pending) \in Nat /\ MaxPending \in Nat \ {0} /\ dropped \in Nat
  BY FileLogAssumption, LenProperties DEF TypeOK
<1>3. Refuse(t) \/ Accept(t)
  BY DEF Enqueue
<1>4. Refuse(t) => Refused
  BY DEF Refuse, Refused
<1>5. ASSUME Accept(t), Full, policy = "DropOldest"
      PROVE  Replaced
  <2>1. pending # <<>>
    BY <1>2, <1>5, EmptySeq DEF Full
  <2> QED
    BY <1>2, <1>5, <2>1 DEF Accept, PushBack, CountOldest, Replaced
<1>6. ASSUME Accept(t), ~Full
      PROVE  Appended
  <2>1. Len(pending) < MaxPending
    BY <1>2, <1>6 DEF Full
  <2>2. pending' = Append(pending, offered + 1)
    BY <1>6 DEF Accept, PushBack
  <2>3. dropped' = dropped
    BY <1>2, <1>6 DEF Accept, CountOldest
  <2> QED
    BY <2>1, <2>2, <2>3 DEF Appended
<1>7. Full /\ policy # "DropOldest" => Refuse(t)
  BY <1>1 DEF Enqueue, CanEnqueue
<1>8. Refused \/ Appended \/ Replaced
  BY <1>3, <1>4, <1>5, <1>6, <1>7
<1>9. \E where \in {"notify", "done"} : pc' = [pc EXCEPT ![t] = where]
  BY <1>3 DEF Refuse, Accept, Goto
<1> QED
  BY <1>8, <1>9 DEF Enqueue

-----------------------------------------------------------------------------
(* Types, and the limit on the queue.                                       *)

LEMMA DataStep ==
    ASSUME TypeOK, [Next]_vars
    PROVE  DataOK'
<1> USE FileLogAssumption, TypeParts
<1>1. ASSUME NEW t \in Threads, Enqueue(t)
      PROVE  DataOK'
  <2>1. Len(pending) \in Nat /\ pending \in Seq(Nat) /\ offered + 1 \in Nat
    BY LenProperties DEF DataOK
  <2>2. pending' \in Seq(Nat) /\ Len(pending') <= MaxPending /\ dropped' \in Nat
    <3>1. CASE Refused
      BY <2>1, <3>1 DEF Refused, DataOK
    <3>2. CASE Appended
      BY <2>1, <3>2, AppendProperties DEF Appended, DataOK
    <3>3. CASE Replaced
      <4>1. Tail(pending) \in Seq(Nat) /\ Len(Tail(pending)) = Len(pending) - 1
        BY <2>1, <3>3, HeadTailProperties DEF Replaced
      <4> QED
        BY <2>1, <3>3, <4>1, AppendProperties DEF Replaced, DataOK
    <3> QED
      BY <1>1, <3>1, <3>2, <3>3, EnqueueEffect
  <2> QED
    BY <1>1, <2>1, <2>2, EnqueueEffect DEF DataOK, global, file
<1>2. ASSUME NEW t \in Threads, Log(t) \/ Get(t) \/ WaitForRoom(t) \/ Notify(t) \/ Logged(t)
      PROVE  DataOK'
  BY <1>2 DEF Log, Get, WaitForRoom, Notify, Logged, DataOK, global, device, file
<1>3. CASE Install \/ Uninstall \/ Destroy
  BY <1>3 DEF Install, Uninstall, Destroy, DataOK, global, file
<1>4. CASE MainStep
  BY <1>4
  DEF MainStep, SetReturns, MarkerOut, RequestStop, NotifyStop, Join, DataOK, global, device,
      file
<1>5. CASE WriterTakes \/ WriterTimeout
  <2>1. <<>> \in Seq(Nat) /\ Len(<<>>) = 0
    BY EmptySeq
  <2>2. Take
    BY <1>5 DEF WriterTakes, WriterTimeout
  <2>3. pending' \in Seq(Nat) /\ Len(pending') <= MaxPending
    BY <2>1, <2>2 DEF Take
  <2>4. batch' \in Seq(Nat) /\ Len(batch') <= MaxPending
    BY <2>2 DEF DataOK, Take
  <2> QED
    BY <2>2, <2>3, <2>4 DEF DataOK, Take, global
<1>6. CASE WriterSleeps \/ WriterWakes \/ WriterNotifyAll
  BY <1>6 DEF WriterSleeps, WriterWakes, WriterNotifyAll, DataOK, global, device, file
<1>7. CASE WriterWrites
  <2>1. Len(batch) \in Nat /\ (batch # <<>> => batch[Len(batch)] \in Nat)
    BY LenProperties, EmptySeq, ElementOfSeq DEF DataOK
  <2>2. <<>> \in Seq(Nat) /\ Len(<<>>) = 0
    BY EmptySeq
  <2> QED
    BY <1>7, <2>1, <2>2 DEF WriterWrites, DataOK, global, device
<1>8. CASE UNCHANGED vars
  BY <1>8 DEF vars, global, device, file, DataOK
<1> QED
  BY <1>1, <1>2, <1>3, <1>4, <1>5, <1>6, <1>7, <1>8
  DEF Next, CallStep, WriterStep, Gone

\* Only a thread that waits for room, and the writer that waits, sleep.
LEMMA PlacesStep ==
    ASSUME TypeOK, [Next]_vars
    PROVE  PlacesOK'
<1> USE FileLogAssumption, TypeParts DEF Goto, Threads, PlacesOK
<1>1. ASSUME NEW t \in Threads, Enqueue(t)
      PROVE  PlacesOK'
  <2>1. t \notin sleeping
    BY <1>1 DEF Enqueue
  <2> QED
    BY <1>1, <2>1, EnqueueEffect
<1>2. ASSUME NEW t \in Threads, Log(t) \/ Get(t) \/ WaitForRoom(t) \/ Notify(t) \/ Logged(t)
      PROVE  PlacesOK'
  BY <1>2 DEF Log, Get, WaitForRoom, Notify, Logged
<1>3. CASE Install \/ Uninstall \/ Destroy
  BY <1>3 DEF Install, Uninstall, Destroy
<1>4. CASE MainStep
  BY <1>4 DEF MainStep, SetReturns, MarkerOut, RequestStop, NotifyStop, Join
<1>5. CASE WriterStep
  BY <1>5
  DEF WriterStep, WriterTakes, WriterTimeout, Take, WriterSleeps, WriterWakes,
      WriterNotifyAll, WriterWrites
<1>6. CASE UNCHANGED vars
  BY <1>6 DEF vars
<1> QED
  BY <1>1, <1>2, <1>3, <1>4, <1>5, <1>6 DEF Next, CallStep, Gone

LEMMA LogTypeStep == ASSUME TypeOK, [Next]_vars PROVE TypeOK'
<1>1. DataOK' /\ PlacesOK'
  BY DataStep, PlacesStep
<1> QED
  BY <1>1 DEF TypeOK, DataOK, PlacesOK

-----------------------------------------------------------------------------
(* Steps that have nothing to do with the records.                          *)

RecordStep ==
    \/ \E t \in Threads : Enqueue(t)
    \/ WriterTakes \/ WriterTimeout \/ WriterWrites

\* Only enqueue_record and the writer touch the queue, the batch and the file.
LEMMA OtherSteps ==
    ASSUME [Next]_vars, ~RecordStep
    PROVE  UNCHANGED <<pending, dropped, file, offered>>
BY DEF RecordStep, Next, CallStep, Log, Get, WaitForRoom, Notify, Logged, Install, Uninstall,
       Destroy, MainStep, SetReturns, MarkerOut, RequestStop, NotifyStop, Join, WriterStep,
       WriterSleeps, WriterWakes, WriterNotifyAll, Gone, vars, device, file

-----------------------------------------------------------------------------
(* No record disappears.                                                    *)

LEMMA AccountStep ==
    ASSUME TypeOK, RecordsAccounted, WriterConsistent, [Next]_vars
    PROVE  RecordsAccounted'
<1>1. /\ dropped \in Nat /\ summary \in Nat /\ offered \in Nat
      /\ written \in Nat /\ reported \in Nat
      /\ pending \in Seq(Nat) /\ Len(pending) \in Nat
      /\ batch \in Seq(Nat) /\ Len(batch) \in Nat
  BY LenProperties, TypeParts DEF DataOK
<1>2. ASSUME NEW t \in Threads, Enqueue(t)
      PROVE  RecordsAccounted'
  <2>1. offered' = offered + 1 /\ UNCHANGED file
    BY <1>2, EnqueueEffect
  <2>2. Len(pending') + dropped' = Len(pending) + dropped + 1
    <3>1. CASE Refused
      BY <1>1, <3>1 DEF Refused
    <3>2. CASE Appended
      BY <1>1, <3>2, AppendProperties DEF Appended
    <3>3. CASE Replaced
      <4>1. Tail(pending) \in Seq(Nat) /\ Len(Tail(pending)) = Len(pending) - 1
        BY <1>1, <3>3, HeadTailProperties DEF Replaced
      <4>2. Len(pending') = Len(pending)
        BY <1>1, <3>3, <4>1, AppendProperties DEF Replaced
      <4> QED
        BY <1>1, <3>3, <4>2 DEF Replaced
    <3> QED
      BY <1>2, <3>1, <3>2, <3>3, EnqueueEffect
  <2>3. Len(pending') \in Nat /\ dropped' \in Nat
    BY DataStep, LenProperties DEF DataOK
  <2>4. /\ Len(batch') = Len(batch)
        /\ written' = written /\ reported' = reported /\ summary' = summary
    BY <2>1 DEF file
  <2>5. offered + 1 = written + Len(batch) + Len(pending') + reported + summary + dropped'
    <3>1. PICK d \in Nat : d = dropped'
      BY <2>3
    <3>2. PICK p \in Nat : p = Len(pending')
      BY <2>3
    <3>3. offered + 1 = written + Len(batch) + p + reported + summary + d
      <4>1. p + d = Len(pending) + dropped + 1
        BY <2>2, <3>1, <3>2
      <4> QED
        BY <1>1, <4>1 DEF RecordsAccounted
    <3> QED
      BY <3>1, <3>2, <3>3
  <2> QED
    BY <2>1, <2>4, <2>5 DEF RecordsAccounted
<1>3. CASE WriterTakes \/ WriterTimeout
  <2>1. Take /\ Len(batch) = 0 /\ summary = 0
    BY <1>3, EmptySeq DEF WriterTakes, WriterTimeout, WriterConsistent
  <2>2. Len(pending') = 0
    BY <2>1, EmptySeq DEF Take
  <2> QED
    BY <1>1, <2>1, <2>2 DEF Take, RecordsAccounted
<1>4. CASE WriterWrites
  <2>1. Len(batch') = 0
    BY <1>4, EmptySeq DEF WriterWrites
  <2> QED
    BY <1>1, <1>4, <2>1 DEF WriterWrites, RecordsAccounted, device
<1>5. CASE ~RecordStep
  BY <1>5, OtherSteps DEF RecordsAccounted, file
<1> QED
  BY <1>2, <1>3, <1>4, <1>5 DEF RecordStep

-----------------------------------------------------------------------------
(* Who is inside the device, and when the writer leaves.                    *)

LEMMA DestructorAloneStep ==
    ASSUME TypeOK, DestructorAlone, [Next]_vars
    PROVE  DestructorAlone'
<1> USE FileLogAssumption, TypeParts DEF Goto, Threads, PlacesOK
<1>1. ASSUME NEW t \in Producers,
             Log(t) \/ Get(t) \/ WaitForRoom(t) \/ Notify(t) \/ Logged(t) \/ Enqueue(t)
      PROVE  DestructorAlone'
  <2>1. /\ UNCHANGED <<setting, stop>>
        /\ \A u \in Threads \cup {Writer} : u # t => pc'[u] = pc[u]
    BY <1>1, EnqueueEffect DEF Log, Get, WaitForRoom, Notify, Logged, global, device
  <2>2. setting \/ pc[Main] = "idle"
    BY <1>1 DEF DestructorAlone, Log, DeviceLives, Get, WaitForRoom, Notify, Logged, Enqueue
  <2> QED
    BY <2>1, <2>2 DEF DestructorAlone
<1>2. CASE WaitForRoom(Main) \/ Notify(Main) \/ Enqueue(Main)
  <2>1. \/ \E where \in {"notify", "done"} : pc' = [pc EXCEPT ![Main] = where]
        \/ pc' = pc
    BY <1>2, EnqueueEffect DEF WaitForRoom, Notify
  <2>2. UNCHANGED <<setting, stop>> /\ pc[Main] \in {"enqueue", "notify"}
    BY <1>2, EnqueueEffect DEF WaitForRoom, Notify, Enqueue, global, device
  <2> QED
    BY <2>1, <2>2 DEF DestructorAlone
<1>7. CASE Get(Main)
  BY <1>7 DEF Get, DestructorAlone, global, device
<1>3. CASE Install \/ Uninstall \/ Destroy
  BY <1>3 DEF Install, Uninstall, Destroy, DestructorAlone, global
<1>4. CASE MainStep
  BY <1>4
  DEF MainStep, SetReturns, MarkerOut, RequestStop, NotifyStop, Join, DestructorAlone, global,
      device
<1>5. CASE WriterStep
  BY <1>5
  DEF WriterStep, WriterTakes, WriterTimeout, Take, WriterSleeps, WriterWakes,
      WriterNotifyAll, WriterWrites, DestructorAlone, global, device
<1>6. CASE UNCHANGED vars
  BY <1>6 DEF vars, global, device, DestructorAlone
<1> QED
  BY <1>1, <1>2, <1>3, <1>4, <1>5, <1>6, <1>7 DEF Next, CallStep, Gone, Log, Logged

LEMMA WriterConsistentStep ==
    ASSUME TypeOK, DestructorAlone, WriterConsistent, [Next]_vars
    PROVE  WriterConsistent'
<1> USE FileLogAssumption, TypeParts DEF Goto, Threads, PlacesOK
<1>1. ASSUME NEW t \in Threads, Enqueue(t)
      PROVE  WriterConsistent'
  <2>1. ~stop
    BY <1>1 DEF Enqueue, DestructorAlone
  <2>2. pc'[Writer] = pc[Writer] /\ UNCHANGED file
    BY <1>1, EnqueueEffect
  <2> QED
    BY <2>1, <2>2 DEF WriterConsistent, file
<1>2. ASSUME NEW t \in Threads, Log(t) \/ Get(t) \/ WaitForRoom(t) \/ Notify(t) \/ Logged(t)
      PROVE  WriterConsistent'
  BY <1>2 DEF Log, Get, WaitForRoom, Notify, Logged, WriterConsistent, device, file
<1>3. CASE Install \/ Uninstall \/ Destroy
  BY <1>3 DEF Install, Uninstall, Destroy, WriterConsistent, file
<1>4. CASE MainStep
  BY <1>4
  DEF MainStep, SetReturns, MarkerOut, RequestStop, NotifyStop, Join, WriterConsistent,
      device, file
<1>5. CASE WriterTakes \/ WriterTimeout
  <2>1. Take
    BY <1>5 DEF WriterTakes, WriterTimeout
  <2>2. CASE NothingLeft
    BY <2>1, <2>2 DEF Take, NothingLeft, WriterConsistent
  <2>3. CASE ~NothingLeft
    BY <2>1, <2>3 DEF Take, WriterConsistent
  <2> QED
    BY <2>2, <2>3
<1>6. CASE WriterSleeps \/ WriterWakes \/ WriterNotifyAll \/ WriterWrites
  BY <1>6
  DEF WriterSleeps, WriterWakes, WriterNotifyAll, WriterWrites, WriterConsistent, device, file
<1>7. CASE UNCHANGED vars
  BY <1>7 DEF vars, device, file, WriterConsistent
<1> QED
  BY <1>1, <1>2, <1>3, <1>4, <1>5, <1>6, <1>7 DEF Next, CallStep, WriterStep, Gone

-----------------------------------------------------------------------------
(* The order of the records.                                                *)

\* The queue after enqueue_record: increasing, and its new records are the last.
LEMMA QueueStaysOrdered ==
    ASSUME TypeOK, Ordered, NEW t \in Threads, Enqueue(t)
    PROVE  /\ Between(pending', last, offered + 1) /\ Increasing(pending')
           /\ \A i \in 1..Len(batch) : \A j \in 1..Len(pending') : batch[i] < pending'[j]
<1>6. /\ pending \in Seq(Nat) /\ batch \in Seq(Nat)
      /\ last \in Nat /\ offered \in Nat
  BY DEF TypeOK
<1>1. /\ pending \in Seq(Nat) /\ Len(pending) \in Nat
      /\ last \in Nat /\ offered \in Nat /\ offered + 1 \in Nat
      /\ \A i \in 1..Len(pending) : pending[i] \in Nat
      /\ \A i \in 1..Len(batch) : batch[i] \in Nat /\ batch[i] <= offered
      /\ last <= offered
  <2>1. Len(pending) \in Nat /\ offered + 1 \in Nat
    BY <1>6, LenProperties
  <2>2. /\ \A i \in 1..Len(pending) : pending[i] \in Nat
        /\ \A i \in 1..Len(batch) : batch[i] \in Nat
    BY <1>6, ElementOfSeq
  <2> QED
    BY <1>6, <2>1, <2>2 DEF Ordered, Between
<1>2. CASE Refused
  BY <1>1, <1>2 DEF Refused, Ordered, Between, Increasing
<1>3. ASSUME NEW q \in Seq(Nat), Len(q) \in Nat,
             pending' = Append(q, offered + 1),
             Between(q, last, offered), Increasing(q),
             \A i \in 1..Len(batch) : \A j \in 1..Len(q) : batch[i] < q[j]
      PROVE  /\ Between(pending', last, offered + 1) /\ Increasing(pending')
             /\ \A i \in 1..Len(batch) : \A j \in 1..Len(pending') : batch[i] < pending'[j]
  <2>1. /\ Len(pending') = Len(q) + 1
        /\ \A i \in 1..Len(q) : pending'[i] = q[i] /\ q[i] \in Nat
        /\ pending'[Len(q) + 1] = offered + 1
    BY <1>1, <1>3, AppendProperties, ElementOfSeq
  <2> QED
    BY <1>1, <1>3, <2>1 DEF Between, Increasing
<1>4. CASE Appended
  BY <1>1, <1>3, <1>4 DEF Appended, Ordered
<1>5. CASE Replaced
  <2>1. /\ Tail(pending) \in Seq(Nat)
        /\ Len(Tail(pending)) = Len(pending) - 1 /\ Len(Tail(pending)) \in Nat
        /\ \A i \in 1..Len(Tail(pending)) : Tail(pending)[i] = pending[i + 1]
    BY <1>1, <1>5, HeadTailProperties, LenProperties DEF Replaced
  <2>2. Between(Tail(pending), last, offered) /\ Increasing(Tail(pending))
    BY <1>1, <2>1 DEF Between, Increasing, Ordered
  <2>3. \A i \in 1..Len(batch) : \A j \in 1..Len(Tail(pending)) :
          batch[i] < Tail(pending)[j]
    BY <1>1, <2>1 DEF Ordered
  <2> QED
    BY <1>3, <1>5, <2>1, <2>2, <2>3 DEF Replaced
<1> QED
  BY <1>2, <1>4, <1>5, EnqueueEffect

LEMMA OrderStep ==
    ASSUME TypeOK, Ordered, WriterConsistent, [Next]_vars
    PROVE  Ordered'
<1>1. /\ pending \in Seq(Nat) /\ Len(pending) \in Nat
      /\ batch \in Seq(Nat) /\ Len(batch) \in Nat
      /\ last \in Nat /\ offered \in Nat
      /\ \A i \in 1..Len(pending) : pending[i] \in Nat
      /\ \A i \in 1..Len(batch) : batch[i] \in Nat
      /\ Len(<<>>) = 0
  BY LenProperties, ElementOfSeq, EmptySeq DEF TypeOK
<1>2. ASSUME NEW t \in Threads, Enqueue(t)
      PROVE  Ordered'
  <2>1. offered' = offered + 1 /\ batch' = batch /\ last' = last
    BY <1>2, EnqueueEffect DEF file
  <2>2. Between(batch, last, offered + 1) /\ last <= offered + 1
    BY <1>1 DEF Ordered, Between
  <2> QED
    BY <1>2, <2>1, <2>2, QueueStaysOrdered DEF Ordered, Between, Increasing
<1>3. CASE WriterTakes \/ WriterTimeout
  <2>1. Take
    BY <1>3 DEF WriterTakes, WriterTimeout
  <2>2. batch' = pending /\ pending' = <<>> /\ offered' = offered /\ last' = last
    BY <2>1 DEF Take
  <2> QED
    BY <1>1, <2>2 DEF Ordered, Between, Increasing
<1>4. CASE WriterWrites
  <2>1. batch' = <<>> /\ pending' = pending /\ offered' = offered
    BY <1>4 DEF WriterWrites, device
  <2>2. /\ last' \in Nat /\ last' <= offered
        /\ \A j \in 1..Len(pending) : last' < pending[j]
    <3>1. CASE batch = <<>>
      BY <1>1, <1>4, <3>1 DEF WriterWrites, Ordered, Between
    <3>2. CASE batch # <<>>
      <4>1. Len(batch) \in 1..Len(batch)
        BY <1>1, <3>2, EmptySeq
      <4> QED
        BY <1>1, <1>4, <3>2, <4>1 DEF WriterWrites, Ordered, Between
    <3> QED
      BY <3>1, <3>2
  <2> QED
    BY <1>1, <2>1, <2>2 DEF Ordered, Between, Increasing
<1>5. CASE ~RecordStep
  BY <1>5, OtherSteps DEF Ordered, Between, Increasing, file
<1> QED
  BY <1>2, <1>3, <1>4, <1>5 DEF RecordStep

\* The parts of the order make the order of the records still to be written.
LEMMA OrderedMeansInOrder == ASSUME TypeOK, Ordered PROVE FileInOrder
<1> DEFINE rest == batch \o pending
<1>1. /\ pending \in Seq(Nat) /\ Len(pending) \in Nat
      /\ batch \in Seq(Nat) /\ Len(batch) \in Nat
      /\ last \in Nat
      /\ \A i \in 1..Len(pending) : pending[i] \in Nat
      /\ \A i \in 1..Len(batch) : batch[i] \in Nat
  BY LenProperties, ElementOfSeq DEF TypeOK
<1>2. /\ Len(rest) = Len(batch) + Len(pending)
      /\ \A i \in 1..Len(rest) :
           rest[i] = IF i <= Len(batch) THEN batch[i] ELSE pending[i - Len(batch)]
  BY <1>1, ConcatProperties
<1> HIDE DEF rest
<1>5. \A i \in 1..Len(rest) : i > Len(batch) => i - Len(batch) \in 1..Len(pending)
  BY <1>1, <1>2
<1>3. ASSUME NEW i \in 1..Len(rest)
      PROVE  rest[i] > last
  <2>1. CASE i <= Len(batch)
    BY <1>1, <1>2, <2>1 DEF Ordered, Between
  <2>2. CASE i > Len(batch)
    <3>1. rest[i] = pending[i - Len(batch)]
      BY <1>1, <1>2, <2>2
    <3> QED
      BY <1>1, <1>5, <2>2, <3>1 DEF Ordered, Between
  <2> QED
    BY <1>1, <1>2, <2>1, <2>2
<1>4. ASSUME NEW i \in 1..Len(rest), NEW j \in 1..Len(rest), i < j
      PROVE  rest[i] < rest[j]
  <2>1. CASE j <= Len(batch)
    <3>1. i \in 1..Len(batch) /\ j \in 1..Len(batch)
      BY <1>1, <1>2, <1>4, <2>1
    <3>2. rest[i] = batch[i] /\ rest[j] = batch[j]
      BY <1>2, <3>1
    <3>3. batch[i] < batch[j]
      BY <1>4, <3>1 DEF Ordered, Increasing
    <3> QED
      BY <3>2, <3>3
  <2>2. CASE i <= Len(batch) /\ j > Len(batch)
    <3>1. rest[i] = batch[i] /\ rest[j] = pending[j - Len(batch)] /\ i \in 1..Len(batch)
      BY <1>1, <1>2, <2>2
    <3> QED
      BY <1>5, <2>2, <3>1 DEF Ordered
  <2>3. CASE i > Len(batch)
    <3>1. j > Len(batch) /\ i - Len(batch) < j - Len(batch)
      BY <1>1, <1>2, <1>4, <2>3
    <3>2. rest[i] = pending[i - Len(batch)] /\ rest[j] = pending[j - Len(batch)]
      BY <1>1, <1>2, <2>3, <3>1
    <3> QED
      BY <1>5, <2>3, <3>1, <3>2 DEF Ordered, Increasing
  <2> QED
    BY <1>1, <1>2, <2>1, <2>2, <2>3
<1> QED
  BY <1>3, <1>4 DEF FileInOrder, rest

-----------------------------------------------------------------------------
(* The theorems.                                                            *)

\* The queue, the batch and the counters of FileLogDevice always account for every
\* record, in order, and only the destructor is left when the writer leaves.
THEOREM LogInvariant == Spec => []LogInv
<1>1. LogInv /\ [Next]_vars => LogInv'
  BY LogTypeStep, AccountStep, OrderStep, WriterConsistentStep, DestructorAloneStep DEF LogInv
<1> QED
  BY <1>1, InitLog, PTL DEF Spec

\* The file is complete, whatever the policy, the producers and the queue's length:
\* nothing is lost uncounted, nothing is out of order, and the destructor returns
\* with nothing left to write.
THEOREM LogIsComplete == Spec => []FileIsComplete
<1>1. LogInv => FileIsComplete
  <2> SUFFICES ASSUME LogInv PROVE FileIsComplete
    OBVIOUS
  <2>1. DestroyedMeansFlushed
    <3>1. SUFFICES ASSUME pc[Main] = "gone" PROVE offered = written + reported
      BY DEF DestroyedMeansFlushed
    <3>2. pending = <<>> /\ batch = <<>> /\ dropped = 0 /\ summary = 0
      BY <3>1 DEF LogInv, DestructorAlone, WriterConsistent
    <3>3. Len(pending) = 0 /\ Len(batch) = 0
      BY <3>2, EmptySeq
    <3>4. written \in Nat /\ reported \in Nat
      BY DEF LogInv, TypeOK
    <3> QED
      BY <3>2, <3>3, <3>4 DEF LogInv, RecordsAccounted
  <2> QED
    BY <2>1, OrderedMeansInOrder DEF LogInv, FileIsComplete
<1> QED
  BY <1>1, LogInvariant, PTL

-----------------------------------------------------------------------------
(* Scene files: numbers and recursion first.  A set of natural numbers has a *)
(* least member, so that what holds at 0 and at each successor holds up to   *)
(* n, and a first value and a step define a function.                        *)

\* A set of naturals that is not empty has a least member.
LEMMA LeastNatural ==
    ASSUME NEW S, S \subseteq Nat, S # {}
    PROVE  \E m \in S : \A n \in S : m <= n
<1> DEFINE R == OpToRel(<, Nat)
<1>1. IsWellFoundedOn(R, Nat)
  BY NatLessThanWellFounded
<1>2. \A m, n \in Nat : <<m, n>> \in R <=> m < n
  <2> SUFFICES ASSUME NEW m \in Nat, NEW n \in Nat
               PROVE  <<m, n>> \in R <=> m < n
    OBVIOUS
  <2> DEFINE p == <<m, n>>
  <2>1. p \in Nat \X Nat /\ p[1] = m /\ p[2] = n
    OBVIOUS
  <2>2. ASSUME NEW q PROVE q \in R <=> q \in Nat \X Nat /\ q[1] < q[2]
    BY Zenon DEF OpToRel
  <2>3. p \in R <=> p \in Nat \X Nat /\ p[1] < p[2]
    BY <2>2
  <2> HIDE DEF p, R
  <2>4. p \in R <=> m < n
    BY <2>1, <2>3
  <2> QED
    BY <2>4, Zenon DEF p
<1>3. \E m \in S : \A n \in S : m <= n
  <2> HIDE DEF R
  <2>1. PICK m \in S : \A n \in S : ~(<<n, m>> \in R)
    BY <1>1, WFMin
  <2>2. \A n \in S : ~(n < m)
    BY <1>2, <2>1
  <2> QED
    BY <2>2
<1> QED
  BY <1>3

\* What holds at 0 and at the successor of each number below n holds up to n.
LEMMA UpTo ==
    ASSUME NEW n \in Nat, NEW S, 0 \in S, \A k \in 1 .. n : k - 1 \in S => k \in S
    PROVE  0 .. n \subseteq S
<1> SUFFICES ASSUME ~(0 .. n \subseteq S) PROVE FALSE
  OBVIOUS
<1> DEFINE T == (0 .. n) \ S
<1>1. T \subseteq Nat /\ T # {}
  OBVIOUS
<1>2. PICK m \in T : \A k \in T : m <= k
  <2> HIDE DEF T
  <2> QED
    BY <1>1, LeastNatural
<1>3. m \in 1 .. n /\ m - 1 \in 0 .. n /\ ~(m <= m - 1)
  OBVIOUS
<1>4. m - 1 \in S
  BY <1>2, <1>3
<1> QED
  BY <1>3, <1>4

StepsOf(n, V) == [1 .. n -> [V -> V]]

RecursionIn(n, V, base, F) ==
    \E h \in [0 .. n -> V] : h[0] = base /\ \A k \in 1 .. n : h[k] = F[k][h[k - 1]]

\* A first value and a step define a function on 0 .. n.
LEMMA Recursion ==
    ASSUME NEW n \in Nat, NEW V, NEW base \in V, NEW F \in StepsOf(n, V)
    PROVE  RecursionIn(n, V, base, F)
<1> USE DEF StepsOf, RecursionIn
<1> DEFINE Good(h, k) == h[0] = base /\ \A j \in 1 .. k : h[j] = F[j][h[j - 1]]
           S == {k \in 0 .. n : \E h \in [0 .. k -> V] : Good(h, k)}
<1>1. 0 \in S
  <2> DEFINE h == [j \in 0 .. 0 |-> base]
  <2>1. h \in [0 .. 0 -> V] /\ Good(h, 0)
    OBVIOUS
  <2> HIDE DEF h
  <2> QED
    BY <2>1
<1>2. ASSUME NEW k \in 1 .. n, k - 1 \in S PROVE k \in S
  <2>1. PICK h \in [0 .. k - 1 -> V] : Good(h, k - 1)
    BY <1>2
  <2> DEFINE g == [j \in 0 .. k |-> IF j = k THEN F[k][h[k - 1]] ELSE h[j]]
  <2>2. F[k] \in [V -> V] /\ h[k - 1] \in V
    OBVIOUS
  <2>3. g \in [0 .. k -> V]
    BY <2>2
  <2>4. g[0] = base /\ \A j \in 1 .. k - 1 : g[j] = h[j] /\ g[j - 1] = h[j - 1]
    BY <2>1
  <2>5. g[k] = F[k][h[k - 1]] /\ g[k - 1] = h[k - 1]
    OBVIOUS
  <2> HIDE DEF g
  <2>6. Good(g, k)
    BY <2>1, <2>4, <2>5
  <2> HIDE DEF Good
  <2>7. \E f \in [0 .. k -> V] : Good(f, k)
    BY <2>3, <2>6
  <2>8. k \in 0 .. n
    OBVIOUS
  <2> QED
    BY <2>7, <2>8
<1>3. 0 .. n \subseteq S
  <2> HIDE DEF S
  <2> QED
    BY <1>1, <1>2, UpTo
<1> QED
  BY <1>3

-----------------------------------------------------------------------------
(* JSON values.                                                             *)

JsonLevel(S) == Scalars \cup ({"arr"} \X Seq(S)) \cup ({"obj"} \X Seq(Texts \X S))

IsNesting(f) ==
    f = [depth \in 0 .. MaxDepth |-> IF depth = 0 THEN Scalars ELSE JsonLevel(f[depth - 1])]

\* The recursion that defines the values up to a depth has a solution.
LEMMA JsonDefined == IsNesting(JsonUpTo)
<1> DEFINE Good(f, k) == DOMAIN f = 0 .. k /\ f[0] = Scalars
                         /\ \A j \in 1 .. k : f[j] = JsonLevel(f[j - 1])
           S == {k \in 0 .. MaxDepth : \E f : Good(f, k)}
<1>0. MaxDepth \in Nat
  BY JsonAssumption
<1>1. 0 \in S
  <2> DEFINE f == [j \in 0 .. 0 |-> Scalars]
  <2>1. Good(f, 0)
    OBVIOUS
  <2> HIDE DEF f
  <2> QED
    BY <1>0, <2>1
<1>2. ASSUME NEW k \in 1 .. MaxDepth, k - 1 \in S PROVE k \in S
  <2>1. PICK f : Good(f, k - 1)
    BY <1>2
  <2> DEFINE g == [j \in 0 .. k |-> IF j = k THEN JsonLevel(f[k - 1]) ELSE f[j]]
  <2>2. DOMAIN g = 0 .. k
    OBVIOUS
  <2>3. g[0] = Scalars /\ \A j \in 1 .. k - 1 : g[j] = f[j] /\ g[j - 1] = f[j - 1]
    BY <1>0, <2>1
  <2>4. g[k] = JsonLevel(f[k - 1]) /\ g[k - 1] = f[k - 1]
    BY <1>0
  <2> HIDE DEF g
  <2>5. Good(g, k)
    BY <1>0, <2>1, <2>2, <2>3, <2>4
  <2> HIDE DEF Good
  <2> QED
    BY <1>0, <2>5
<1>3. 0 .. MaxDepth \subseteq S
  <2> HIDE DEF S
  <2> QED
    BY <1>0, <1>1, <1>2, UpTo
<1>4. PICK f : Good(f, MaxDepth)
  <2>1. MaxDepth \in 0 .. MaxDepth
    BY <1>0
  <2>2. MaxDepth \in S
    BY <1>3, <2>1
  <2> HIDE DEF Good
  <2> QED
    BY <2>2
<1> DEFINE h == [n \in 0 .. MaxDepth |-> f[n]]
<1>5. DOMAIN h = 0 .. MaxDepth /\ h[0] = Scalars
      /\ \A j \in 1 .. MaxDepth : h[j] = JsonLevel(h[j - 1])
  BY <1>0, <1>4
<1>6. h = [depth \in 0 .. MaxDepth |-> IF depth = 0 THEN Scalars ELSE JsonLevel(h[depth - 1])]
  BY <1>0, <1>5
<1> HIDE DEF h
<1>7. IsNesting(h)
  BY <1>6 DEF IsNesting
<1>8. JsonUpTo = CHOOSE g : IsNesting(g)
  BY DEF JsonUpTo, IsNesting, JsonLevel
<1> QED
  BY <1>7, <1>8

\* A list of values, and a list of fields with values.
IsListOfValues(items) ==
    /\ Len(items) \in Nat /\ DOMAIN items = 1 .. Len(items)
    /\ \A i \in DOMAIN items : IsValue(items[i])

IsListOfFields(items) ==
    /\ Len(items) \in Nat /\ DOMAIN items = 1 .. Len(items)
    /\ \A i \in DOMAIN items : items[i][1] \in Texts /\ IsValue(items[i][2])

IsAnyOf(v) ==
    \/ v \in Numbers
    \/ v \in Strings
    \/ v \in Flags
    \/ v = Arr(v[2]) /\ IsListOfValues(v[2])
    \/ v = <<"obj", v[2]>> /\ IsListOfFields(v[2])

\* A value is a scalar, or it has entries that are values.
LEMMA ValueParts == ASSUME NEW v, IsValue(v) PROVE IsAnyOf(v)
<1>1. PICK depth \in 0 .. MaxDepth : v \in JsonUpTo[depth]
  BY DEF IsValue
<1>2. CASE v \in Scalars
  BY <1>2 DEF Scalars, IsAnyOf
<1>3. CASE v \notin Scalars
  <2>1. depth - 1 \in 0 .. MaxDepth /\ v \in JsonLevel(JsonUpTo[depth - 1])
    BY <1>1, <1>3, JsonDefined, JsonAssumption DEF IsNesting
  <2> DEFINE S == JsonUpTo[depth - 1]
  <2>2. \A w \in S : IsValue(w)
    BY <2>1 DEF IsValue
  <2>3. v \in {"arr"} \X Seq(S) \/ v \in {"obj"} \X Seq(Texts \X S)
    BY <1>3, <2>1 DEF JsonLevel
  <2> HIDE DEF S
  <2>4. CASE v \in {"arr"} \X Seq(S)
    <3>1. v = <<"arr", v[2]>> /\ v[2] \in Seq(S)
      BY <2>4
    <3>2. IsListOfValues(v[2])
      BY <2>2, <3>1 DEF IsListOfValues
    <3> QED
      BY <3>1, <3>2 DEF Arr, IsAnyOf
  <2>5. CASE v \in {"obj"} \X Seq(Texts \X S)
    <3>1. v = <<"obj", v[2]>> /\ v[2] \in Seq(Texts \X S)
      BY <2>5
    <3>2. IsListOfFields(v[2])
      BY <2>2, <3>1 DEF IsListOfFields
    <3> QED
      BY <3>1, <3>2 DEF IsAnyOf
  <2> QED
    BY <2>3, <2>4, <2>5
<1> QED
  BY <1>2, <1>3

\* The type of a value says what it has.
LEMMA NumberOf == ASSUME NEW v, IsValue(v), Type(v) = "num" PROVE v \in Numbers /\ v[2] \in Int
<1>1. IsAnyOf(v)
  BY ValueParts
<1> QED
  BY <1>1 DEF IsAnyOf, Type, Numbers, Strings, Flags, Arr

LEMMA StringOf == ASSUME NEW v, IsValue(v), Type(v) = "str" PROVE v \in Strings /\ v[2] \in Texts
<1>1. IsAnyOf(v)
  BY ValueParts
<1> QED
  BY <1>1 DEF IsAnyOf, Type, Numbers, Strings, Flags, Arr

LEMMA FlagOf == ASSUME NEW v, IsValue(v), Type(v) = "bool" PROVE v \in Flags /\ v[2] \in BOOLEAN
<1>1. IsAnyOf(v)
  BY ValueParts
<1> QED
  BY <1>1 DEF IsAnyOf, Type, Numbers, Strings, Flags, Arr

LEMMA ValuesOfList == ASSUME NEW v, IsValue(v), Type(v) = "arr" PROVE IsListOfValues(v[2])
<1>1. IsAnyOf(v)
  BY ValueParts
<1> QED
  BY <1>1 DEF IsAnyOf, Type, Numbers, Strings, Flags, Arr

LEMMA FieldsOf == ASSUME NEW v, IsValue(v), Type(v) = "obj" PROVE IsListOfFields(v[2])
<1>1. IsAnyOf(v)
  BY ValueParts
<1> QED
  BY <1>1 DEF IsAnyOf, Type, Numbers, Strings, Flags, Arr

\* The first and the last of some places in a list are among them.
LEMMA FirstPlace ==
    ASSUME NEW n \in Nat, NEW S, S \subseteq 1 .. n, S # {}
    PROVE  (CHOOSE i \in S : \A j \in S : i <= j) \in S
<1>1. S \subseteq Nat
  OBVIOUS
<1>2. \E i \in S : \A j \in S : i <= j
  BY <1>1, LeastNatural
<1> QED
  BY <1>2

LEMMA LastPlace ==
    ASSUME NEW n \in Nat, NEW S, S \subseteq 1 .. n, S # {}
    PROVE  Max(S) \in S
<1> DEFINE T == {n - i : i \in S}
<1>1. T \subseteq Nat /\ T # {}
  OBVIOUS
<1>2. PICK m \in T : \A k \in T : m <= k
  <2> HIDE DEF T
  <2> QED
    BY <1>1, LeastNatural
<1>3. PICK i \in S : m = n - i
  BY <1>2
<1>4. \A j \in S : n - i <= n - j
  BY <1>2, <1>3
<1>5. \A j \in S : i >= j
  BY <1>4
<1>6. \E x \in S : \A y \in S : x >= y
  BY <1>5
<1> QED
  BY <1>6 DEF Max

\* What is found under a key is a value.
LEMMA FoundIsValue ==
    ASSUME NEW v, IsValue(v), Type(v) = "obj", NEW key
    PROVE  /\ Found(v, key) \subseteq 1 .. Len(v[2]) /\ Len(v[2]) \in Nat
           /\ \A i \in Found(v, key) : IsValue(v[2][i][2])
           /\ Found(v, key) # {} => IsValue(First(v, key)) /\ IsValue(Latest(v, key))
<1>1. IsListOfFields(v[2])
  BY FieldsOf
<1>2. Found(v, key) \subseteq 1 .. Len(v[2]) /\ Len(v[2]) \in Nat
  BY <1>1 DEF Found, IsListOfFields
<1>3. \A i \in Found(v, key) : IsValue(v[2][i][2])
  BY <1>1, <1>2 DEF IsListOfFields
<1>4. ASSUME Found(v, key) # {} PROVE IsValue(First(v, key)) /\ IsValue(Latest(v, key))
  <2>1. (CHOOSE i \in Found(v, key) : \A j \in Found(v, key) : i <= j) \in Found(v, key)
    BY <1>2, <1>4, FirstPlace
  <2>2. Max(Found(v, key)) \in Found(v, key)
    BY <1>2, <1>4, LastPlace
  <2> QED
    BY <1>3, <2>1, <2>2 DEF First, Latest
<1> QED
  BY <1>2, <1>3, <1>4

-----------------------------------------------------------------------------
(* What properties hold.                                                    *)

\* The width and the number of components are positive.
LEMMA Widths ==
    /\ Width \in Nat /\ Width > 0 /\ Components \in Nat /\ Components > 0
    /\ MaxLength \in Nat
<1>1. {Width, Components} \subseteq Nat \ {0} /\ MaxLength \in Nat
  BY PropertiesAssumption, Zenon
<1> QED
  BY <1>1

\* A string has a length, and what it is cut to is a string that is not too long.
LEMMA StringsAreCut ==
    /\ NoText \in ByteStrings
    /\ \A t \in ByteStrings :
          /\ Cut[t] \in ByteStrings /\ LengthOf[t] \in Nat /\ LengthOf[Cut[t]] <= MaxLength
          /\ LengthOf[t] <= MaxLength => Cut[t] = t
<1>1. LengthOf \in [ByteStrings -> Nat] /\ Cut \in [ByteStrings -> ByteStrings]
  BY PropertiesAssumption, Zenon
<1>2. Texts \subseteq ByteStrings /\ NoText \in Texts
  BY PropertiesAssumption, Zenon
<1>3. \A t \in ByteStrings :
          IF LengthOf[t] <= MaxLength THEN Cut[t] = t ELSE LengthOf[Cut[t]] = MaxLength
  BY PropertiesAssumption, Zenon
<1>4. ASSUME NEW t \in ByteStrings
      PROVE  /\ Cut[t] \in ByteStrings /\ LengthOf[t] \in Nat /\ LengthOf[Cut[t]] <= MaxLength
             /\ LengthOf[t] <= MaxLength => Cut[t] = t
  <2>1. CASE LengthOf[t] <= MaxLength
    BY <1>1, <1>3, <2>1
  <2>2. CASE ~(LengthOf[t] <= MaxLength)
    BY <1>1, <1>3, <2>2, Widths
  <2> QED
    BY <2>1, <2>2
<1> QED
  BY <1>2, <1>4

\* A property's range has two bounds, which are numbers.
LEMMA RangeIsRange ==
    ASSUME NEW property \in Properties
    PROVE  property.range.min \in Int /\ property.range.max \in Int /\ property.kind \in Kinds
BY DEF Properties

IsIn(property, lo, hi, v) == v \in Numbers /\ v[2] \in lo .. hi /\ IsWithin(property, v[2])

\* A range with a number in it moves other numbers to a number in it.
LEMMA ClampedStays ==
    ASSUME NEW property \in Properties, NEW lo \in Int, NEW hi \in Int,
           NEW old, IsIn(property, lo, hi, old), NEW n \in lo .. hi
    PROVE  /\ Clamped(property.range, n) \in lo .. hi
           /\ IsWithin(property, Clamped(property.range, n))
<1>1. old[2] \in lo .. hi /\ old[2] \in property.range.min .. property.range.max
  BY DEF IsIn, IsWithin
<1> QED
  BY <1>1, RangeIsRange DEF Clamped, IsWithin

\* What is stored of a number is a number, of the same type and in the range.
LEMMA NumberStays ==
    ASSUME NEW property \in Properties, NEW lo \in Int, NEW hi \in Int,
           NEW old, IsIn(property, lo, hi, old), NEW n \in lo .. hi
    PROVE  IsIn(property, lo, hi, SetNumber(property, old, n))
<1>1. \A k \in Int : Num(k) \in Numbers /\ Num(k)[2] = k
  BY DEF Num, Numbers
<1>2. CASE IsWithin(property, n)
  <2>1. SetNumber(property, old, n) = Num(n)
    BY <1>2 DEF SetNumber
  <2> QED
    BY <1>1, <1>2, <2>1 DEF IsIn
<1>3. CASE ~IsWithin(property, n) /\ property.range.clamp
  <2> DEFINE m == Clamped(property.range, n)
  <2>1. m \in lo .. hi /\ IsWithin(property, m)
    BY ClampedStays
  <2>2. SetNumber(property, old, n) = Num(m)
    BY <1>3 DEF SetNumber
  <2> HIDE DEF m
  <2> QED
    BY <1>1, <2>1, <2>2 DEF IsIn
<1>4. CASE ~IsWithin(property, n) /\ ~property.range.clamp
  BY <1>4 DEF SetNumber
<1> QED
  BY <1>2, <1>3, <1>4

\* A number between bounds, for the numbers that have none.
LEMMA NumbersBetween ==
    ASSUME NEW m \in Int, NEW n \in Int
    PROVE  \E lo, hi \in Int : m \in lo .. hi /\ n \in lo .. hi
<1>1. CASE m <= n
  BY <1>1
<1>2. CASE n <= m
  BY <1>2
<1> QED
  BY <1>1, <1>2

LEMMA FloatStays ==
    ASSUME NEW property \in Properties, NEW old, IsFloat(property, old), NEW n \in Int
    PROVE  /\ IsFloat(property, SetNumber(property, old, n))
           /\ Clamped(property.range, n) \in Int
<1>1. old[2] \in Int
  BY DEF IsFloat, Numbers
<1>2. PICK lo \in Int, hi \in Int : old[2] \in lo .. hi /\ n \in lo .. hi
  BY <1>1, NumbersBetween
<1>3. IsIn(property, lo, hi, old)
  BY <1>2 DEF IsIn, IsFloat
<1>4. IsIn(property, lo, hi, SetNumber(property, old, n))
  BY <1>2, <1>3, NumberStays
<1>5. Clamped(property.range, n) \in lo .. hi
  BY <1>2, <1>3, ClampedStays
<1> QED
  BY <1>4, <1>5 DEF IsIn, IsFloat

LEMMA IntIsIn ==
    ASSUME NEW property, NEW v
    PROVE  IsInt(property, v) <=> IsIn(property, -Width, Width - 1, v)
BY DEF IsInt, IsIn

LEMMA UIntIsIn ==
    ASSUME NEW property, NEW v
    PROVE  IsUInt(property, v) <=> IsIn(property, 0, 2 * Width - 1, v)
BY DEF IsUInt, IsIn

\* A cast gives a number of its type.
LEMMA Casts ==
    ASSUME NEW n \in Int
    PROVE  AsInt(n) \in -Width .. Width - 1 /\ AsUInt(n) \in 0 .. 2 * Width - 1
<1> DEFINE w == 2 * Width
<1>1. w \in Nat /\ w > 0 /\ n + Width \in Int
  BY Widths
<1>2. (n + Width) % w \in 0 .. w - 1 /\ n % w \in 0 .. w - 1
  <2> HIDE DEF w
  <2> QED
    BY <1>1
<1> QED
  BY <1>2, Widths DEF AsInt, AsUInt

\* What the parser returns for a string is one that memory can hold.
LEMMA StringIsHeld ==
    ASSUME NEW v, IsValue(v), Type(v) = "str"
    PROVE  v \in HeldStrings /\ v[2] \in ByteStrings /\ v = Str(v[2])
<1>1. v \in Strings /\ v[2] \in Texts
  BY StringOf
<1>2. Texts \subseteq ByteStrings
  BY PropertiesAssumption, Zenon
<1> QED
  BY <1>1, <1>2 DEF Strings, HeldStrings, Str

\* A text that is cut fits.
LEMMA TextsFit == ASSUME NEW t \in ByteStrings PROVE IsText(SetText(t))
<1>1. Cut[t] \in ByteStrings /\ LengthOf[t] \in Nat /\ LengthOf[Cut[t]] <= MaxLength
  BY StringsAreCut
<1> QED
  BY <1>1 DEF SetText, Str, HeldStrings, IsText

LEMMA ReadTextFits ==
    ASSUME NEW old, IsText(old), NEW v, IsValue(v)
    PROVE  IsText(ReadText(old, v))
<1>1. CASE Type(v) = "str"
  BY <1>1, StringIsHeld, TextsFit DEF ReadText
<1>2. CASE Type(v) # "str"
  BY <1>2 DEF ReadText
<1> QED
  BY <1>1, <1>2

\* A path is stored whole.
LEMMA PathsFit == ASSUME NEW t \in ByteStrings PROVE IsPath(SetPath(t))
BY DEF SetPath, Str, HeldStrings, IsPath

LEMMA EmptyFits == IsPath(Str(NoText))
BY StringsAreCut DEF Str, HeldStrings, IsPath

LEMMA ReadPathFits ==
    ASSUME NEW old, IsPath(old), NEW v, IsValue(v)
    PROVE  IsPath(ReadPath(old, v))
<1>1. CASE Type(v) = "str"
  BY <1>1, StringIsHeld, PathsFit DEF ReadPath
<1>2. CASE Type(v) # "str"
  BY <1>2 DEF ReadPath
<1> QED
  BY <1>1, <1>2

\* A function on the first numbers is a sequence.
LEMMA FunctionIsSequence ==
    ASSUME NEW n \in Nat, NEW S, NEW f, f = [i \in 1 .. n |-> f[i]], \A i \in 1 .. n : f[i] \in S
    PROVE  f \in Seq(S)
BY IsASeq

\* A list that fits is the pair of its type and a sequence of paths; the same
\* said by its length and elements.
LEMMA ListOfPaths ==
    ASSUME NEW n \in Nat, NEW f, f = [i \in 1 .. n |-> f[i]], \A i \in 1 .. n : IsPath(f[i])
    PROVE  IsList(Arr(f))
<1>1. f \in Seq(HeldStrings)
  BY IsASeq DEF IsPath
<1> QED
  BY <1>1 DEF Arr, Lists, IsList

LEMMA PathsOfList ==
    ASSUME NEW v, IsList(v)
    PROVE  /\ v = Arr(v[2]) /\ v[2] \in Seq(HeldStrings)
           /\ Len(v[2]) \in Nat /\ v[2] = [i \in 1 .. Len(v[2]) |-> v[2][i]]
           /\ \A i \in DOMAIN v[2] : IsPath(v[2][i])
<1>1. v = Arr(v[2]) /\ v[2] \in Seq(HeldStrings)
  BY DEF IsList, Lists, Arr
<1>2. Len(v[2]) \in Nat /\ v[2] \in [1 .. Len(v[2]) -> HeldStrings]
  BY <1>1, LenProperties
<1> QED
  BY <1>1, <1>2 DEF IsPath

\* The types of a list and of its elements.
LEMMA TypesOfList ==
    ASSUME NEW v, IsList(v)
    PROVE  Type(v) = "arr" /\ \A i \in DOMAIN v[2] : Type(v[2][i]) = "str"
<1>1. Type(v) = "arr"
  BY DEF IsList, Lists, Type
<1>2. ASSUME NEW w, IsPath(w) PROVE Type(w) = "str"
  BY <1>2 DEF IsPath, HeldStrings, Type
<1>3. \A i \in DOMAIN v[2] : IsPath(v[2][i])
  BY PathsOfList
<1> QED
  BY <1>1, <1>2, <1>3

LEMMA ReadListFits ==
    ASSUME NEW old, IsList(old), NEW v, IsValue(v)
    PROVE  IsList(ReadList(old, v))
<1>1. CASE Type(v) # "arr"
  BY <1>1 DEF ReadList
<1>2. CASE Type(v) = "arr"
  <2>1. Len(v[2]) \in Nat /\ DOMAIN v[2] = 1 .. Len(v[2])
        /\ \A i \in 1 .. Len(v[2]) : IsValue(v[2][i])
    BY <1>2, ValuesOfList DEF IsListOfValues
  <2> DEFINE before(i) == IF i \in DOMAIN old[2] THEN old[2][i] ELSE Str(NoText)
             f == [i \in DOMAIN v[2] |-> ReadPath(before(i), v[2][i])]
  <2>2. \A i \in 1 .. Len(v[2]) : IsPath(before(i))
    BY EmptyFits, PathsOfList
  <2>3. ReadList(old, v) = Arr(f)
    BY <1>2 DEF ReadList
  <2> HIDE DEF before
  <2>4. \A i \in 1 .. Len(v[2]) : IsPath(f[i])
    BY <2>1, <2>2, ReadPathFits
  <2>5. f = [i \in 1 .. Len(v[2]) |-> f[i]]
    BY <2>1
  <2> HIDE DEF f
  <2> QED
    BY <2>1, <2>3, <2>4, <2>5, ListOfPaths
<1> QED
  BY <1>1, <1>2

\* A component that is read is a number.
LEMMA ComponentIsNumber ==
    ASSUME NEW v, IsValue(v), NEW i
    PROVE  Component(v, i) \in Numbers /\ Component(v, i)[2] \in Int
<1>1. Num(0) \in Numbers /\ Num(0)[2] \in Int
  BY DEF Num, Numbers
<1>2. CASE Type(v) = "arr" /\ i \in DOMAIN v[2] /\ Type(v[2][i]) = "num"
  <2>1. IsValue(v[2][i])
    BY <1>2, ValuesOfList DEF IsListOfValues
  <2> QED
    BY <1>2, <2>1, NumberOf DEF Component
<1>3. CASE ~(Type(v) = "arr" /\ i \in DOMAIN v[2] /\ Type(v[2][i]) = "num")
  BY <1>1, <1>3 DEF Component
<1> QED
  BY <1>2, <1>3

LEMMA ReadVecFits ==
    ASSUME NEW old, IsVec(old), NEW v, IsValue(v)
    PROVE  IsVec(ReadVec(old, v))
<1>1. CASE Type(v) # "arr"
  BY <1>1 DEF ReadVec
<1>2. CASE Type(v) = "arr"
  <2>1. [i \in 1 .. Components |-> Component(v, i)] \in [1 .. Components -> Numbers]
    BY ComponentIsNumber
  <2> QED
    BY <1>2, <2>1 DEF ReadVec, IsVec, Vectors, Arr
<1> QED
  BY <1>1, <1>2

LEMMA ReadMatFits ==
    ASSUME NEW old, IsMat(old), NEW v, IsValue(v)
    PROVE  IsMat(ReadMat(old, v))
<1>1. CASE Type(v) # "arr"
  BY <1>1 DEF ReadMat
<1>2. CASE Type(v) = "arr"
  <2> DEFINE entry(r, c) == IF r \in DOMAIN v[2] THEN Component(v[2][r], c) ELSE Num(0)
             row(r) == [c \in 1 .. Components |-> entry(r, c)]
  <2>1. \A r \in DOMAIN v[2] : IsValue(v[2][r])
    BY <1>2, ValuesOfList DEF IsListOfValues
  <2>2. \A r, c : entry(r, c) \in Numbers
    BY <2>1, ComponentIsNumber DEF Num, Numbers
  <2>3. ReadMat(old, v) = Arr([r \in 1 .. Components |-> Arr(row(r))])
    BY <1>2 DEF ReadMat
  <2> HIDE DEF entry
  <2>4. \A r : row(r) \in [1 .. Components -> Numbers]
    BY <2>2
  <2> HIDE DEF row
  <2>5. \A r : Arr(row(r)) \in Vectors
    BY <2>4 DEF Arr, Vectors
  <2>6. [r \in 1 .. Components |-> Arr(row(r))] \in [1 .. Components -> Vectors]
    BY <2>5
  <2> QED
    BY <2>3, <2>6 DEF IsMat, Matrices, Arr
<1> QED
  BY <1>1, <1>2

LEMMA ReadIntFits ==
    ASSUME NEW property \in Properties, NEW old, IsInt(property, old), NEW v, IsValue(v)
    PROVE  IsInt(property, ReadInt(property, old, v))
<1>1. CASE Type(v) # "num"
  BY <1>1 DEF ReadInt
<1>2. CASE Type(v) = "num"
  <2>1. AsInt(v[2]) \in -Width .. Width - 1
    BY <1>2, NumberOf, Casts
  <2>2. -Width \in Int /\ Width - 1 \in Int
    BY Widths
  <2>3. IsIn(property, -Width, Width - 1, SetNumber(property, old, AsInt(v[2])))
    BY <2>1, <2>2, IntIsIn, NumberStays
  <2> QED
    BY <1>2, <2>3, IntIsIn DEF ReadInt
<1> QED
  BY <1>1, <1>2

LEMMA ReadUIntFits ==
    ASSUME NEW property \in Properties, NEW old, IsUInt(property, old), NEW v, IsValue(v)
    PROVE  IsUInt(property, ReadUInt(property, old, v))
<1>1. CASE ~(Type(v) = "num" /\ v[2] >= 0)
  BY <1>1 DEF ReadUInt
<1>2. CASE Type(v) = "num" /\ v[2] >= 0
  <2>1. AsUInt(v[2]) \in 0 .. 2 * Width - 1
    BY <1>2, NumberOf, Casts
  <2>2. 0 \in Int /\ 2 * Width - 1 \in Int
    BY Widths
  <2>3. IsIn(property, 0, 2 * Width - 1, SetNumber(property, old, AsUInt(v[2])))
    BY <2>1, <2>2, UIntIsIn, NumberStays
  <2> QED
    BY <1>2, <2>3, UIntIsIn DEF ReadUInt
<1> QED
  BY <1>1, <1>2

LEMMA ReadFloatFits ==
    ASSUME NEW property \in Properties, NEW old, IsFloat(property, old), NEW v, IsValue(v)
    PROVE  IsFloat(property, ReadFloat(property, old, v))
<1>1. CASE Type(v) # "num"
  BY <1>1 DEF ReadFloat
<1>2. CASE Type(v) = "num"
  BY <1>2, NumberOf, FloatStays DEF ReadFloat
<1> QED
  BY <1>1, <1>2

LEMMA ReadFlagFits ==
    ASSUME NEW old, IsFlag(old), NEW v, IsValue(v)
    PROVE  IsFlag(ReadFlag(old, v))
BY FlagOf DEF ReadFlag, IsFlag

\* A property has one kind, and what fits it is what its kind takes.
FitsAs(property, v) ==
    /\ property.kind = "int" => (Fits(property, v) <=> IsInt(property, v))
    /\ property.kind = "uint" => (Fits(property, v) <=> IsUInt(property, v))
    /\ property.kind = "float" => (Fits(property, v) <=> IsFloat(property, v))
    /\ property.kind = "flag" => (Fits(property, v) <=> IsFlag(v))
    /\ property.kind = "text" => (Fits(property, v) <=> IsText(v))
    /\ property.kind = "path" => (Fits(property, v) <=> IsPath(v))
    /\ property.kind = "list" => (Fits(property, v) <=> IsList(v))
    /\ property.kind = "vec" => (Fits(property, v) <=> IsVec(v))
    /\ property.kind = "mat" => (Fits(property, v) <=> IsMat(v))

LEMMA FitsByKind == ASSUME NEW property, NEW v PROVE FitsAs(property, v)
BY DEF Fits, FitsAs

ReadAs(property, old, v) ==
    /\ property.kind = "int" => Read(property, old, v) = ReadInt(property, old, v)
    /\ property.kind = "uint" => Read(property, old, v) = ReadUInt(property, old, v)
    /\ property.kind = "float" => Read(property, old, v) = ReadFloat(property, old, v)
    /\ property.kind = "flag" => Read(property, old, v) = ReadFlag(old, v)
    /\ property.kind = "text" => Read(property, old, v) = ReadText(old, v)
    /\ property.kind = "path" => Read(property, old, v) = ReadPath(old, v)
    /\ property.kind = "list" => Read(property, old, v) = ReadList(old, v)
    /\ property.kind = "vec" => Read(property, old, v) = ReadVec(old, v)
    /\ property.kind = "mat" => Read(property, old, v) = ReadMat(old, v)

LEMMA ReadByKind == ASSUME NEW property, NEW old, NEW v PROVE ReadAs(property, old, v)
BY DEF Read, ReadAs

\* Whatever a file says, what is read into a property fits it.
LEMMA ReadFits ==
    ASSUME NEW property \in Properties, NEW old, Fits(property, old), NEW v, IsValue(v)
    PROVE  Fits(property, Read(property, old, v))
<1> DEFINE new == Read(property, old, v)
<1>1. FitsAs(property, old) /\ FitsAs(property, new) /\ ReadAs(property, old, v)
  BY FitsByKind, ReadByKind
<1>2. property.kind \in Kinds
  BY RangeIsRange
<1>3. CASE property.kind = "int"
  BY <1>1, <1>3, ReadIntFits DEF FitsAs, ReadAs
<1>4. CASE property.kind = "uint"
  BY <1>1, <1>4, ReadUIntFits DEF FitsAs, ReadAs
<1>5. CASE property.kind = "float"
  BY <1>1, <1>5, ReadFloatFits DEF FitsAs, ReadAs
<1>6. CASE property.kind = "flag"
  BY <1>1, <1>6, ReadFlagFits DEF FitsAs, ReadAs
<1>7. CASE property.kind = "text"
  BY <1>1, <1>7, ReadTextFits DEF FitsAs, ReadAs
<1>8. CASE property.kind = "list"
  BY <1>1, <1>8, ReadListFits DEF FitsAs, ReadAs
<1>9. CASE property.kind = "vec"
  BY <1>1, <1>9, ReadVecFits DEF FitsAs, ReadAs
<1>10. CASE property.kind = "mat"
  BY <1>1, <1>10, ReadMatFits DEF FitsAs, ReadAs
<1>11. CASE property.kind = "path"
  BY <1>1, <1>11, ReadPathFits DEF FitsAs, ReadAs
<1> HIDE DEF new
<1> QED
  BY <1>2, <1>3, <1>4, <1>5, <1>6, <1>7, <1>8, <1>9, <1>10, <1>11 DEF Kinds

-----------------------------------------------------------------------------
(* What the widgets of the inspector make of a value.                       *)

LEMMA InputTypes == Inputs.numbers \subseteq Int /\ Inputs.texts \subseteq ByteStrings
<1>1. Inputs \in [numbers : SUBSET Int, texts : SUBSET ByteStrings]
  BY PropertiesAssumption, Zenon
<1> QED
  BY <1>1

LEMMA EditIntFits ==
    ASSUME NEW property \in Properties, NEW old, IsInt(property, old),
           NEW v \in EditInt(property, old)
    PROVE  IsInt(property, v)
<1>1. PICK n \in -Width .. Width - 1 : v = SetNumber(property, old, Clamped(property.range, n))
  BY InputTypes DEF EditInt
<1>2. -Width \in Int /\ Width - 1 \in Int /\ IsIn(property, -Width, Width - 1, old)
  BY Widths, IntIsIn
<1>3. Clamped(property.range, n) \in -Width .. Width - 1
  BY <1>1, <1>2, ClampedStays
<1> QED
  BY <1>1, <1>2, <1>3, NumberStays, IntIsIn

LEMMA EditUIntFits ==
    ASSUME NEW property \in Properties, NEW old, IsUInt(property, old),
           NEW v \in EditUInt(property, old)
    PROVE  IsUInt(property, v)
<1>1. PICK n \in 0 .. 2 * Width - 1 : v = SetNumber(property, old, Clamped(property.range, n))
  BY InputTypes DEF EditUInt
<1>2. 0 \in Int /\ 2 * Width - 1 \in Int /\ IsIn(property, 0, 2 * Width - 1, old)
  BY Widths, UIntIsIn
<1>3. Clamped(property.range, n) \in 0 .. 2 * Width - 1
  BY <1>1, <1>2, ClampedStays
<1> QED
  BY <1>1, <1>2, <1>3, NumberStays, UIntIsIn

LEMMA EditFloatFits ==
    ASSUME NEW property \in Properties, NEW old, IsFloat(property, old),
           NEW v \in EditFloat(property, old)
    PROVE  IsFloat(property, v)
<1>1. PICK n \in Int : v = SetNumber(property, old, Clamped(property.range, n))
  BY InputTypes DEF EditFloat
<1>2. Clamped(property.range, n) \in Int
  BY <1>1, FloatStays
<1> QED
  BY <1>1, <1>2, FloatStays

LEMMA EditFlagFits ==
    ASSUME NEW old, IsFlag(old), NEW v \in EditFlag(old)
    PROVE  IsFlag(v)
<1> DEFINE b == ~old[2]
<1>1. v = <<"bool", b>>
  BY Zenon DEF EditFlag
<1>2. b \in BOOLEAN
  BY Zenon
<1> HIDE DEF b
<1> QED
  BY <1>1, <1>2 DEF IsFlag, Flags

LEMMA EditTextFits == ASSUME NEW v \in EditText PROVE IsText(v)
<1>1. PICK t \in ByteStrings : v = SetText(t)
  BY InputTypes DEF EditText
<1> QED
  BY <1>1, TextsFit

LEMMA EditPathFits == ASSUME NEW v \in EditPath PROVE IsPath(v)
<1>1. PICK t \in ByteStrings : v = SetPath(t)
  BY InputTypes DEF EditPath
<1> QED
  BY <1>1, PathsFit

LEMMA EditListFits ==
    ASSUME NEW old, IsList(old), NEW v \in EditList(old)
    PROVE  IsList(v)
<1> DEFINE n == Len(old[2])
<1>1. n \in Nat /\ old[2] = [i \in 1 .. n |-> old[2][i]] /\ \A i \in 1 .. n : IsPath(old[2][i])
  BY PathsOfList
<1>2. PICK i \in DOMAIN old[2], path \in EditPath : v = <<"arr", [old[2] EXCEPT ![i] = path]>>
  BY DEF EditList
<1> DEFINE f == [old[2] EXCEPT ![i] = path]
<1>3. f = [j \in 1 .. n |-> f[j]]
  BY <1>1
<1>4. \A j \in 1 .. n : IsPath(f[j])
  BY <1>1, <1>2, EditPathFits
<1>5. v = Arr(f)
  BY <1>2 DEF Arr
<1> HIDE DEF f, n
<1> QED
  BY <1>1, <1>3, <1>4, <1>5, ListOfPaths

LEMMA EditVecFits ==
    ASSUME NEW old, IsVec(old), NEW v \in EditVec(old)
    PROVE  IsVec(v)
<1>1. PICK i \in 1 .. Components, n \in Int : v = <<"arr", [old[2] EXCEPT ![i] = Num(n)]>>
  BY InputTypes DEF EditVec
<1>2. old[2] \in [1 .. Components -> Numbers] /\ Num(n) \in Numbers
  BY DEF IsVec, Vectors, Num, Numbers
<1>3. [old[2] EXCEPT ![i] = Num(n)] \in [1 .. Components -> Numbers]
  BY <1>2
<1> QED
  BY <1>1, <1>3 DEF IsVec, Vectors

LEMMA EditMatFits ==
    ASSUME NEW old, IsMat(old), NEW v \in EditMat(old)
    PROVE  IsMat(v)
<1>1. PICK r \in 1 .. Components :
         \E row \in EditVec(old[2][r]) : v = <<"arr", [old[2] EXCEPT ![r] = row]>>
  BY DEF EditMat
<1>2. PICK row \in EditVec(old[2][r]) : v = <<"arr", [old[2] EXCEPT ![r] = row]>>
  BY <1>1
<1>3. old[2] \in [1 .. Components -> Vectors]
  BY DEF IsMat, Matrices
<1>4. row \in Vectors
  BY <1>3, EditVecFits DEF IsVec
<1>5. [old[2] EXCEPT ![r] = row] \in [1 .. Components -> Vectors]
  BY <1>3, <1>4
<1> QED
  BY <1>2, <1>5 DEF IsMat, Matrices

EditedAs(property, old) ==
    /\ property.kind = "int" => Edited(property, old) = EditInt(property, old)
    /\ property.kind = "uint" => Edited(property, old) = EditUInt(property, old)
    /\ property.kind = "float" => Edited(property, old) = EditFloat(property, old)
    /\ property.kind = "flag" => Edited(property, old) = EditFlag(old)
    /\ property.kind = "text" => Edited(property, old) = EditText
    /\ property.kind = "path" => Edited(property, old) = EditPath
    /\ property.kind = "list" => Edited(property, old) = EditList(old)
    /\ property.kind = "vec" => Edited(property, old) = EditVec(old)
    /\ property.kind = "mat" => Edited(property, old) = EditMat(old)

LEMMA EditedByKind == ASSUME NEW property, NEW old PROVE EditedAs(property, old)
BY DEF Edited, EditedAs

\* Whatever is typed, what a widget makes of a value fits the property.
LEMMA EditsFit ==
    ASSUME NEW property \in Properties, NEW old, Fits(property, old),
           NEW v \in Edited(property, old)
    PROVE  Fits(property, v)
<1>1. FitsAs(property, old) /\ FitsAs(property, v) /\ EditedAs(property, old)
  BY FitsByKind, EditedByKind
<1>2. property.kind \in Kinds
  BY RangeIsRange
<1>3. CASE property.kind = "int"
  BY <1>1, <1>3, EditIntFits DEF FitsAs, EditedAs
<1>4. CASE property.kind = "uint"
  BY <1>1, <1>4, EditUIntFits DEF FitsAs, EditedAs
<1>5. CASE property.kind = "float"
  BY <1>1, <1>5, EditFloatFits DEF FitsAs, EditedAs
<1>6. CASE property.kind = "flag"
  BY <1>1, <1>6, EditFlagFits DEF FitsAs, EditedAs
<1>7. CASE property.kind = "text"
  BY <1>1, <1>7, EditTextFits DEF FitsAs, EditedAs
<1>8. CASE property.kind = "list"
  BY <1>1, <1>8, EditListFits DEF FitsAs, EditedAs
<1>9. CASE property.kind = "vec"
  BY <1>1, <1>9, EditVecFits DEF FitsAs, EditedAs
<1>10. CASE property.kind = "mat"
  BY <1>1, <1>10, EditMatFits DEF FitsAs, EditedAs
<1>11. CASE property.kind = "path"
  BY <1>1, <1>11, EditPathFits DEF FitsAs, EditedAs
<1> QED
  BY <1>2, <1>3, <1>4, <1>5, <1>6, <1>7, <1>8, <1>9, <1>10, <1>11 DEF Kinds

\* What fits a property is something properties hold.
LEMMA FittingIsHeld ==
    ASSUME NEW property \in Properties, NEW v, Fits(property, v)
    PROVE  v \in Held
<1>1. FitsAs(property, v) /\ property.kind \in Kinds
  BY FitsByKind, RangeIsRange
<1> QED
  BY <1>1 DEF FitsAs, Kinds, Held, IsInt, IsUInt, IsFloat, IsFlag, IsText, IsPath, IsList, IsVec,
              IsMat

-----------------------------------------------------------------------------
(* Classes, their properties and the values of objects.                     *)

IsClass(c) ==
    /\ PropertiesOf[c] \in Seq(Properties)
    /\ IsInjective([i \in DOMAIN PropertiesOf[c] |-> PropertiesOf[c][i].name])
    /\ IdProperty \in Range(PropertiesOf[c])
    /\ \A property \in Range(PropertiesOf[c]) :
          property.name = "transform" => property.kind = "mat"
    /\ Default[c] \in ValuesOf(c)

LEMMA ClassesAreClasses == ASSUME NEW c \in Classes PROVE IsClass(c)
<1>1. PropertiesOf \in [Classes -> Seq(Properties)]
  BY SceneFileAssumption, Zenon
<1>2. PropertiesOf[c] \in Seq(Properties)
  BY <1>1
<1> QED
  BY <1>2, SceneFileAssumption, Zenon DEF IsClass

\* A property of a class, and the one with its name.
LEMMA PropertiesAreNamed ==
    ASSUME NEW c \in Classes
    PROVE  /\ \A p \in Range(PropertiesOf[c]) : p \in Properties /\ p.name \in NamesOf(c)
           /\ \A p, q \in Range(PropertiesOf[c]) : p.name = q.name => p = q
           /\ \A name \in NamesOf(c) :
                 PropertyOf(c, name) \in Range(PropertiesOf[c]) /\ PropertyOf(c, name).name = name
<1> DEFINE s == PropertiesOf[c]
<1>1. s \in Seq(Properties) /\ IsInjective([i \in DOMAIN s |-> s[i].name])
  BY ClassesAreClasses DEF IsClass
<1>2. \A i \in DOMAIN s : s[i] \in Properties
  <2> HIDE DEF s
  <2> QED
    BY <1>1, ElementOfSeq, LenProperties
<1>3. \A i, j \in DOMAIN s : s[i].name = s[j].name => i = j
  <2> HIDE DEF s
  <2> QED
    BY <1>1 DEF IsInjective
<1>4. Range(s) = {s[i] : i \in DOMAIN s} /\ NamesOf(c) = {s[i].name : i \in DOMAIN s}
  BY DEF Range, NamesOf
<1>5. \A name : PropertyOf(c, name) = CHOOSE p \in Range(s) : p.name = name
  BY DEF PropertyOf
<1> HIDE DEF s
<1>6. \A name \in NamesOf(c) : \E p \in Range(s) : p.name = name
  BY <1>4
<1>7. \A p, q \in Range(s) : p.name = q.name => p = q
  BY <1>3, <1>4
<1>8. \A p \in Range(s) : p \in Properties /\ p.name \in NamesOf(c)
  BY <1>2, <1>4
<1>9. \A name \in NamesOf(c) : PropertyOf(c, name) \in Range(s) /\ PropertyOf(c, name).name = name
  BY <1>5, <1>6
<1> QED
  BY <1>7, <1>8, <1>9 DEF s

\* Every class has an id, which only the program changes.
LEMMA IdIsKnown ==
    ASSUME NEW c \in Classes
    PROVE  /\ IdProperty \in Range(PropertiesOf[c]) /\ IdProperty \in Properties
           /\ IdProperty.name = "object_id" /\ IdProperty.kind = "uint" /\ IdProperty.readOnly
           /\ "object_id" \in NamesOf(c)
           /\ \A p \in Range(PropertiesOf[c]) : ~p.readOnly => p.name # "object_id"
<1>1. IdProperty \in Range(PropertiesOf[c])
  BY ClassesAreClasses DEF IsClass
<1>2. IdProperty.name = "object_id" /\ IdProperty.kind = "uint" /\ IdProperty.readOnly
  BY DEF IdProperty, Property
<1>3. IdProperty \in Properties /\ "object_id" \in NamesOf(c)
  BY <1>1, <1>2, PropertiesAreNamed
<1>4. ASSUME NEW p \in Range(PropertiesOf[c]), ~p.readOnly PROVE p.name # "object_id"
  BY <1>1, <1>2, <1>4, PropertiesAreNamed
<1> QED
  BY <1>1, <1>2, <1>3, <1>4

\* Values that fit, taken together.
LEMMA ValuesTogether ==
    ASSUME NEW c \in Classes, NEW f, f = [name \in NamesOf(c) |-> f[name]],
           \A name \in NamesOf(c) : Fits(PropertyOf(c, name), f[name])
    PROVE  f \in ValuesOf(c)
<1>1. \A name \in NamesOf(c) : f[name] \in Held
  BY PropertiesAreNamed, FittingIsHeld
<1>2. \A p \in Range(PropertiesOf[c]) : PropertyOf(c, p.name) = p
  BY PropertiesAreNamed
<1>3. \A p \in Range(PropertiesOf[c]) : Fits(p, f[p.name])
  BY <1>2, PropertiesAreNamed
<1>4. f \in [NamesOf(c) -> Held]
  BY <1>1
<1> QED
  BY <1>3, <1>4 DEF ValuesOf

LEMMA ValuesFit ==
    ASSUME NEW c \in Classes, NEW f \in ValuesOf(c)
    PROVE  /\ f = [name \in NamesOf(c) |-> f[name]]
           /\ \A name \in NamesOf(c) : Fits(PropertyOf(c, name), f[name])
           /\ \A p \in Range(PropertiesOf[c]) : Fits(p, f[p.name])
BY PropertiesAreNamed DEF ValuesOf

LEMMA ValueChanged ==
    ASSUME NEW c \in Classes, NEW f \in ValuesOf(c), NEW name \in NamesOf(c), NEW v,
           Fits(PropertyOf(c, name), v)
    PROVE  /\ [f EXCEPT ![name] = v] \in ValuesOf(c)
           /\ name # "object_id" => [f EXCEPT ![name] = v]["object_id"] = f["object_id"]
<1> DEFINE g == [f EXCEPT ![name] = v]
<1>1. f = [n \in NamesOf(c) |-> f[n]] /\ \A n \in NamesOf(c) : Fits(PropertyOf(c, n), f[n])
  BY ValuesFit
<1>2. g = [n \in NamesOf(c) |-> g[n]]
  BY <1>1
<1>3. \A n \in NamesOf(c) : g[n] = IF n = name THEN v ELSE f[n]
  BY <1>1
<1>4. "object_id" \in NamesOf(c)
  BY IdIsKnown
<1> HIDE DEF g
<1>5. \A n \in NamesOf(c) : Fits(PropertyOf(c, n), g[n])
  BY <1>1, <1>3
<1>6. g \in ValuesOf(c)
  BY <1>2, <1>5, ValuesTogether
<1>7. name # "object_id" => g["object_id"] = f["object_id"]
  BY <1>3, <1>4
<1> QED
  BY <1>6, <1>7 DEF g

\* An id that fits is one, and a small number fits.
LEMMA IdFits ==
    ASSUME NEW c \in Classes, NEW f \in ValuesOf(c)
    PROVE  f["object_id"] \in Numbers /\ f["object_id"][2] \in Ids
<1>1. Fits(IdProperty, f["object_id"])
  BY IdIsKnown, ValuesFit
<1>2. FitsAs(IdProperty, f["object_id"])
  BY FitsByKind
<1>3. IsUInt(IdProperty, f["object_id"])
  BY <1>1, <1>2, IdIsKnown DEF FitsAs
<1> QED
  BY <1>3 DEF IsUInt, Ids

LEMMA IdsFit ==
    ASSUME NEW c \in Classes, NEW id \in Ids
    PROVE  Fits(PropertyOf(c, "object_id"), Num(id)) /\ Num(id)[2] = id
<1>1. PropertyOf(c, "object_id") = IdProperty
  BY IdIsKnown, PropertiesAreNamed
<1>2. 2 * Width - 1 <= Width * Width /\ 0 <= Width * Width
  BY Widths
<1>3. id \in 0 .. 2 * Width - 1 /\ Width * Width \in Int
  BY Widths DEF Ids
<1>4. id \in -(Width * Width) .. Width * Width
  BY <1>2, <1>3, Widths
<1>5. IdProperty.range.min = -Width * Width /\ IdProperty.range.max = Width * Width
  BY DEF IdProperty, Property, Unlimited
<1>6. -Width * Width = -(Width * Width)
  BY Widths
<1>7. IsUInt(IdProperty, Num(id))
  BY <1>3, <1>4, <1>5, <1>6 DEF IsUInt, Num, Numbers, IsWithin
<1>8. FitsAs(IdProperty, Num(id))
  BY FitsByKind
<1> QED
  BY <1>1, <1>7, <1>8, IdIsKnown DEF FitsAs, Num

\* What is loaded for a class fits its properties.
LEMMA LoadedFits ==
    ASSUME NEW c \in Classes, NEW entry, IsValue(entry), Type(entry) = "obj"
    PROVE  Loaded(c, entry) \in ValuesOf(c)
<1> DEFINE f == Loaded(c, entry)
<1>1. f = [name \in NamesOf(c) |-> f[name]]
  BY DEF Loaded
<1>2. ASSUME NEW name \in NamesOf(c) PROVE Fits(PropertyOf(c, name), f[name])
  <2> DEFINE p == PropertyOf(c, name)
             old == Default[c][name]
  <2>1. p \in Properties /\ p.name = name
    BY PropertiesAreNamed
  <2>2. Fits(p, old)
    BY ClassesAreClasses, ValuesFit DEF IsClass
  <2>3. f[name] = LoadedValue(p, old, entry)
    BY DEF Loaded
  <2> HIDE DEF p, old, f
  <2>4. CASE Found(entry, name) = {}
    BY <2>1, <2>2, <2>3, <2>4 DEF LoadedValue, p
  <2>5. CASE Found(entry, name) # {}
    <3>1. IsValue(First(entry, name))
      BY <2>5, FoundIsValue
    <3>2. f[name] = Read(p, old, First(entry, name))
      BY <2>1, <2>3, <2>5 DEF LoadedValue
    <3>3. Fits(p, f[name])
      BY <2>1, <2>2, <3>1, <3>2, ReadFits
    <3> QED
      BY <3>3 DEF p
  <2> QED
    BY <2>4, <2>5
<1> HIDE DEF f
<1>3. f \in ValuesOf(c)
  BY <1>1, <1>2, ValuesTogether
<1> QED
  BY <1>3 DEF f

-----------------------------------------------------------------------------
(* Scenes, and what the loader makes of one.                                *)

ObjectSet ==
    UNION {[class : {c}, values : ValuesOf(c), snapshot : ValuesOf(c)] : c \in Classes}

SpinMaps == UNION {[ids -> SpinAnimations] : ids \in SUBSET Ids}

SceneSet ==
    [objects : Seq(ObjectSet), byId : SUBSET Ids, spins : SpinMaps,
     systems : Seq(Systems), time : Int, paused : BOOLEAN, nextId : 0 .. MaxId]

WholeScenes == {s \in SceneSet : IdsAreKnown(s)}

Stagings == [scene : WholeScenes, ok : BOOLEAN]

\* The numbers that bound the model.
LEMMA Bounds == MaxId \in Nat /\ MaxId \in Ids /\ MaxEdits \in Nat
<1>1. {MaxObjects, MaxSystems, MaxTime, MaxEdits} \subseteq Nat /\ MaxId \in Ids
  BY SceneFileAssumption, Zenon
<1> QED
  BY <1>1, Widths DEF Ids

LEMMA ObjectIsObject == ASSUME NEW o PROVE IsObject(o) <=> o \in ObjectSet
<1>1. ASSUME IsObject(o) PROVE o \in ObjectSet
  BY <1>1 DEF IsObject, ObjectSet
<1>2. ASSUME o \in ObjectSet PROVE IsObject(o)
  <2>1. PICK c \in Classes : o \in [class : {c}, values : ValuesOf(c), snapshot : ValuesOf(c)]
    BY <1>2 DEF ObjectSet
  <2>2. o.class = c
    BY <2>1
  <2> QED
    BY <2>1, <2>2 DEF IsObject
<1> QED
  BY <1>1, <1>2

\* A scene is a member of the set of scenes.
LEMMA SceneIsScene == ASSUME NEW s PROVE IsScene(s) <=> s \in SceneSet
<1>1. ASSUME IsScene(s) PROVE s \in SceneSet
  <2>1. \A i \in 1 .. Len(s.objects) : s.objects[i] \in ObjectSet
    BY <1>1, ObjectIsObject DEF IsScene
  <2>2. s.objects \in Seq(ObjectSet)
    BY <1>1, <2>1, IsASeq DEF IsScene
  <2>3. s.spins \in SpinMaps
    BY <1>1 DEF IsScene, SpinMaps
  <2> QED
    BY <1>1, <2>2, <2>3 DEF IsScene, SceneSet
<1>2. ASSUME s \in SceneSet PROVE IsScene(s)
  <2>1. s.objects \in Seq(ObjectSet) /\ s.spins \in SpinMaps
    BY <1>2 DEF SceneSet
  <2>2. s.objects = [i \in 1 .. Len(s.objects) |-> s.objects[i]] /\ Len(s.objects) \in Nat
    BY <2>1, LenProperties
  <2>3. \A i \in 1 .. Len(s.objects) : IsObject(s.objects[i])
    BY <2>1, ElementOfSeq, ObjectIsObject
  <2>4. DOMAIN s.spins \subseteq Ids /\ s.spins \in [DOMAIN s.spins -> SpinAnimations]
    BY <2>1 DEF SpinMaps
  <2>5. s \in [objects : {s.objects}, byId : SUBSET Ids, spins : {s.spins},
               systems : Seq(Systems), time : Int, paused : BOOLEAN, nextId : 0 .. MaxId]
    BY <1>2 DEF SceneSet
  <2> QED
    BY <2>2, <2>3, <2>4, <2>5 DEF IsScene
<1> QED
  BY <1>1, <1>2

LEMMA IdOfObject == ASSUME NEW o \in ObjectSet PROVE IdOf(o) \in Ids
<1>1. PICK c \in Classes : o \in [class : {c}, values : ValuesOf(c), snapshot : ValuesOf(c)]
  BY DEF ObjectSet
<1>2. o.values \in ValuesOf(c)
  BY <1>1
<1> QED
  BY <1>2, IdFits DEF IdOf

\* The objects of a scene.
LEMMA ObjectsOfScene ==
    ASSUME NEW s \in SceneSet
    PROVE  /\ s.objects \in Seq(ObjectSet) /\ Len(s.objects) \in Nat
           /\ DOMAIN s.objects = 1 .. Len(s.objects)
           /\ \A i \in DOMAIN s.objects : s.objects[i] \in ObjectSet
<1>1. s.objects \in Seq(ObjectSet)
  BY DEF SceneSet
<1> QED
  BY <1>1, LenProperties, ElementOfSeq

LEMMA EmptySceneIsWhole == EmptyScene \in WholeScenes
<1>1. <<>> \in Seq(ObjectSet) /\ <<>> \in Seq(Systems) /\ Len(<<>>) = 0
  BY EmptySeq
<1>2. <<>> \in SpinMaps
  <2>1. <<>> \in [{} -> SpinAnimations] /\ {} \in SUBSET Ids
    OBVIOUS
  <2> QED
    BY <2>1 DEF SpinMaps
<1>3. EmptyScene \in SceneSet
  BY <1>1, <1>2, Bounds DEF EmptyScene, SceneSet
<1>4. EmptyScene.objects = <<>> /\ EmptyScene.byId = {} /\ DOMAIN <<>> = {}
  BY DEF EmptyScene
<1>5. IdsAreKnown(EmptyScene)
  BY <1>4 DEF IdsAreKnown
<1> QED
  BY <1>3, <1>5 DEF WholeScenes

\* What does not touch objects leaves the ids as they are.
LEMMA SameObjects ==
    ASSUME NEW s \in WholeScenes, NEW u \in SceneSet, u.objects = s.objects, u.byId = s.byId
    PROVE  u \in WholeScenes
BY DEF WholeScenes, IdsAreKnown

\* Loading goes from t to u, and has made n objects if nothing was thrown.
LoadsTo(t, u, n) ==
    /\ u \in Stagings
    /\ u.ok => t.ok /\ Len(u.scene.objects) = Len(t.scene.objects) + n

LEMMA ThrowLoads == ASSUME NEW t \in Stagings, NEW n PROVE LoadsTo(t, Throw(t), n)
<1>1. Throw(t) \in Stagings /\ ~Throw(t).ok
  BY DEF Throw, Stagings
<1> QED
  BY <1>1 DEF LoadsTo

\* An object goes into the scene and its index, unless its id is taken.
LEMMA AddObjectLoads ==
    ASSUME NEW t \in Stagings, NEW o \in ObjectSet
    PROVE  LoadsTo(t, AddObject(t, o), 1)
<1>1. CASE IdOf(o) \in t.scene.byId
  <2>1. AddObject(t, o) = Throw(t)
    BY <1>1 DEF AddObject
  <2> QED
    BY <2>1, ThrowLoads
<1>2. CASE IdOf(o) \notin t.scene.byId
  <2> DEFINE s == t.scene
             n == Len(s.objects)
             new == Append(s.objects, o)
             u == AddObject(t, o)
  <2>1. s \in SceneSet /\ IdsAreKnown(s)
    BY DEF Stagings, WholeScenes
  <2>2. u = [t EXCEPT !.scene.objects = Append(@, o), !.scene.byId = @ \union {IdOf(o)}]
    BY <1>2 DEF AddObject
  <2>3. u.ok = t.ok /\ u.scene = [s EXCEPT !.objects = new, !.byId = @ \union {IdOf(o)}]
        /\ u = [scene |-> u.scene, ok |-> u.ok]
    BY <2>2 DEF Stagings
  <2>4. new \in Seq(ObjectSet) /\ Len(new) = n + 1 /\ n \in Nat /\ new[n + 1] = o
        /\ \A i \in 1 .. n : new[i] = s.objects[i]
    BY <2>1, ObjectsOfScene, AppendProperties
  <2>5. IdOf(o) \in Ids
    BY IdOfObject
  <2>7. DOMAIN new = 1 .. n + 1 /\ DOMAIN s.objects = 1 .. n
    BY <2>1, <2>4, ObjectsOfScene, LenProperties
  <2> HIDE DEF u, new, n, s
  <2>6. u.scene \in SceneSet /\ u.scene.objects = new /\ u.scene.byId = s.byId \union {IdOf(o)}
    <3> DEFINE ids == s.byId \union {IdOf(o)}
    <3>1. ids \in SUBSET Ids
      BY <2>1, <2>5 DEF SceneSet
    <3>2. u.scene = [s EXCEPT !.objects = new, !.byId = ids]
      BY <2>3
    <3> HIDE DEF ids
    <3>3. u.scene \in SceneSet /\ u.scene.objects = new /\ u.scene.byId = ids
      BY <2>1, <2>4, <3>1, <3>2 DEF SceneSet
    <3> QED
      BY <3>3 DEF ids
  <2>8. s.byId = {IdOf(s.objects[i]) : i \in 1 .. n}
        /\ \A i, j \in 1 .. n : i # j => IdOf(s.objects[i]) # IdOf(s.objects[j])
    BY <2>1, <2>7 DEF IdsAreKnown
  <2>9. \A i \in 1 .. n + 1 : i \in 1 .. n \/ i = n + 1
    BY <2>4
  <2>10. u.scene.byId = {IdOf(new[i]) : i \in 1 .. n + 1}
    BY <2>4, <2>6, <2>8, <2>9
  <2>11. \A i \in 1 .. n : IdOf(new[i]) # IdOf(o)
    BY <1>2, <2>4, <2>8 DEF s
  <2>12. \A i, j \in 1 .. n + 1 : i # j => IdOf(new[i]) # IdOf(new[j])
    BY <2>4, <2>8, <2>9, <2>11
  <2>13. u.scene \in WholeScenes
    BY <2>6, <2>7, <2>10, <2>12 DEF WholeScenes, IdsAreKnown
  <2>14. u \in Stagings
    BY <2>3, <2>13 DEF Stagings
  <2> QED
    BY <2>3, <2>4, <2>6, <2>14 DEF LoadsTo, u, n, s
<1> QED
  BY <1>1, <1>2

LEMMA CapturedIsObject ==
    ASSUME NEW c \in Classes, NEW f \in ValuesOf(c)
    PROVE  Captured(c, f) \in ObjectSet
BY DEF Captured, ObjectSet

\* load_objects: one entry.
LEMMA LoadObjectLoads ==
    ASSUME NEW t \in Stagings, NEW entry, IsValue(entry)
    PROVE  LoadsTo(t, LoadObject(t, entry), 1)
<1>1. CASE Type(entry) # "obj" \/ ClassesIn(entry) = {}
  BY <1>1, ThrowLoads DEF LoadObject
<1>2. CASE Type(entry) = "obj" /\ ClassesIn(entry) # {}
  <2> DEFINE c == CHOOSE c \in ClassesIn(entry) : TRUE
  <2>1. c \in Classes
    BY <1>2 DEF ClassesIn
  <2>2. LoadObject(t, entry) = AddObject(t, Captured(c, Loaded(c, entry)))
    BY <1>2 DEF LoadObject
  <2> HIDE DEF c
  <2>3. Captured(c, Loaded(c, entry)) \in ObjectSet
    BY <1>2, <2>1, LoadedFits, CapturedIsObject
  <2> QED
    BY <2>2, <2>3, AddObjectLoads
<1> QED
  BY <1>1, <1>2

\* load_systems: one entry.
LEMMA LoadSystemLoads ==
    ASSUME NEW t \in Stagings, NEW entry
    PROVE  LoadsTo(t, LoadSystem(t, entry), 0)
<1> DEFINE s == t.scene
<1>1. s \in WholeScenes /\ s \in SceneSet /\ Len(s.objects) \in Nat
  BY ObjectsOfScene DEF Stagings, WholeScenes
<1>2. CASE Type(entry) # "str"
  BY <1>2, ThrowLoads DEF LoadSystem
<1>3. CASE Type(entry) = "str" /\ entry[2] \notin Systems
  BY <1>1, <1>3 DEF LoadSystem, LoadsTo
<1>4. CASE Type(entry) = "str" /\ entry[2] \in Systems
  <2> DEFINE u == LoadSystem(t, entry)
             new == Append(s.systems, entry[2])
  <2>1. s.systems \in Seq(Systems)
    BY <1>1 DEF SceneSet
  <2>2. new \in Seq(Systems)
    BY <1>4, <2>1, AppendProperties
  <2>3. u = [t EXCEPT !.scene.systems = Append(@, entry[2])]
    BY <1>4 DEF LoadSystem
  <2>4. u.ok = t.ok /\ u.scene = [s EXCEPT !.systems = new] /\ u = [scene |-> u.scene, ok |-> u.ok]
    BY <2>3 DEF Stagings
  <2> HIDE DEF u, new
  <2>5. u.scene \in SceneSet /\ u.scene.objects = s.objects /\ u.scene.byId = s.byId
    BY <1>1, <2>2, <2>4 DEF SceneSet
  <2>6. u.scene \in WholeScenes
    BY <1>1, <2>5, SameObjects
  <2>7. u \in Stagings
    BY <2>4, <2>6 DEF Stagings
  <2> QED
    BY <1>1, <2>4, <2>5, <2>7 DEF LoadsTo, u
<1> QED
  BY <1>2, <1>3, <1>4

\* A spin animation is set.
LEMMA WithSpinStays ==
    ASSUME NEW s \in WholeScenes, NEW id \in Ids, NEW spin \in SpinAnimations
    PROVE  /\ WithSpin(s, id, spin) \in WholeScenes
           /\ WithSpin(s, id, spin).objects = s.objects
<1> DEFINE ids == DOMAIN s.spins \cup {id}
           spins == [other \in ids |-> IF other = id THEN spin ELSE s.spins[other]]
           u == WithSpin(s, id, spin)
<1>1. s \in SceneSet /\ s.spins \in SpinMaps
  BY DEF WholeScenes, SceneSet
<1>2. PICK old \in SUBSET Ids : s.spins \in [old -> SpinAnimations]
  BY <1>1 DEF SpinMaps
<1>3. spins \in [ids -> SpinAnimations] /\ ids \in SUBSET Ids
  BY <1>2
<1>4. spins \in SpinMaps
  BY <1>3 DEF SpinMaps
<1>5. u = [s EXCEPT !.spins = spins]
  BY DEF WithSpin
<1> HIDE DEF spins, ids, u
<1>6. u \in SceneSet /\ u.objects = s.objects /\ u.byId = s.byId
  BY <1>1, <1>4, <1>5 DEF SceneSet
<1>7. u \in WholeScenes
  BY <1>6, SameObjects
<1> QED
  BY <1>6, <1>7 DEF u

\* The field of a spin animation that counts has the type that was asked for.
LEMMA SpinFieldHasType ==
    ASSUME NEW entry, IsValue(entry), Type(entry) = "obj", NEW key, NEW type,
           AllAre("obj", entry, "spin_animation"), SpinsWith(entry, key) # {},
           \A i \in Found(entry, "spin_animation") : AllAre(type, entry[2][i][2], key)
    PROVE  IsValue(SpinField(entry, key)) /\ Type(SpinField(entry, key)) = type
<1> DEFINE places == SpinsWith(entry, key)
           i == Max(places)
           inner == entry[2][i][2]
           found == Found(inner, key)
           j == Max(found)
<1>1. /\ Found(entry, "spin_animation") \subseteq 1 .. Len(entry[2]) /\ Len(entry[2]) \in Nat
      /\ \A k \in Found(entry, "spin_animation") : IsValue(entry[2][k][2])
  BY FoundIsValue
<1>2. places \subseteq Found(entry, "spin_animation")
      /\ \A k \in places : Found(entry[2][k][2], key) # {}
  BY DEF SpinsWith
<1>3. i \in places
  <2> HIDE DEF places
  <2>1. places \subseteq 1 .. Len(entry[2]) /\ places # {}
    BY <1>1, <1>2 DEF places
  <2> QED
    BY <1>1, <2>1, LastPlace
<1>4. IsValue(inner) /\ Type(inner) = "obj" /\ found # {} /\ AllAre(type, inner, key)
  <2> HIDE DEF places, i
  <2> QED
    BY <1>1, <1>2, <1>3 DEF AllAre
<1> HIDE DEF inner
<1>5. /\ found \subseteq 1 .. Len(inner[2]) /\ Len(inner[2]) \in Nat
      /\ \A k \in found : IsValue(inner[2][k][2])
  BY <1>4, FoundIsValue
<1>6. j \in found
  <2> HIDE DEF found
  <2> QED
    BY <1>4, <1>5, LastPlace
<1>7. SpinField(entry, key) = inner[2][j][2]
  BY DEF SpinField, Latest, inner
<1> QED
  BY <1>4, <1>5, <1>6, <1>7 DEF AllAre

\* load_spin_animations: one entry.
LEMMA LoadSpinLoads ==
    ASSUME NEW t \in Stagings, NEW entry, IsValue(entry)
    PROVE  LoadsTo(t, LoadSpin(t, entry), 0)
<1> DEFINE s == t.scene
<1>1. s \in WholeScenes /\ s \in SceneSet /\ Len(s.objects) \in Nat
  BY ObjectsOfScene DEF Stagings, WholeScenes
<1>2. CASE ~IsSpin(entry)
  BY <1>2, ThrowLoads DEF LoadSpin
<1>3. CASE IsSpin(entry) /\ ~IsWholeSpin(entry)
  BY <1>1, <1>3 DEF LoadSpin, LoadsTo
<1>4. CASE IsSpin(entry) /\ IsWholeSpin(entry)
  <2> DEFINE id == Latest(entry, "object_id")[2]
             spin == SpinOf(entry)
             u == LoadSpin(t, entry)
  <2>1. Type(entry) = "obj" /\ Found(entry, "object_id") # {}
        /\ AllAre("obj", entry, "spin_animation")
    BY <1>4 DEF IsSpin, IsWholeSpin
  <2>2. id \in Ids
    <3>1. Found(entry, "object_id") \subseteq 1 .. Len(entry[2]) /\ Len(entry[2]) \in Nat
      BY <2>1, FoundIsValue
    <3>2. Max(Found(entry, "object_id")) \in Found(entry, "object_id")
      BY <2>1, <3>1, LastPlace
    <3>3. Latest(entry, "object_id") \in {"num"} \X Ids
      BY <1>4, <3>2 DEF IsSpin, Latest
    <3> QED
      BY <3>3
  <2>3. SpinsWith(entry, "angular_speed") # {} /\ SpinsWith(entry, "phase_offset") # {}
        /\ SpinsWith(entry, "translation") # {}
    BY <1>4 DEF IsWholeSpin
  <2>4. \A i \in Found(entry, "spin_animation") :
           /\ AllAre("num", entry[2][i][2], "angular_speed")
           /\ AllAre("num", entry[2][i][2], "phase_offset")
           /\ AllAre("arr", entry[2][i][2], "translation")
    BY <1>4 DEF IsSpin
  <2>5. SpinField(entry, "angular_speed")[2] \in Int
    BY <2>1, <2>3, <2>4, SpinFieldHasType, NumberOf
  <2>6. SpinField(entry, "phase_offset")[2] \in Int
    BY <2>1, <2>3, <2>4, SpinFieldHasType, NumberOf
  <2>7. IsValue(SpinField(entry, "translation"))
    BY <2>1, <2>3, <2>4, SpinFieldHasType
  <2>8. [i \in 1 .. Components - 1 |-> Component(SpinField(entry, "translation"), i)[2]]
           \in [1 .. Components - 1 -> Int]
    BY <2>7, ComponentIsNumber
  <2>9. spin \in SpinAnimations
    BY <2>5, <2>6, <2>8 DEF SpinOf, SpinAnimations
  <2>10. u = [t EXCEPT !.scene = WithSpin(@, id, spin)]
    BY <1>4 DEF LoadSpin
  <2> HIDE DEF id, spin
  <2>11. WithSpin(s, id, spin) \in WholeScenes /\ WithSpin(s, id, spin).objects = s.objects
    BY <1>1, <2>2, <2>9, WithSpinStays
  <2>12. u.ok = t.ok /\ u.scene = WithSpin(s, id, spin) /\ u \in Stagings
    BY <2>10, <2>11 DEF Stagings
  <2> HIDE DEF u
  <2> QED
    BY <1>1, <2>11, <2>12 DEF LoadsTo, u
<1> QED
  BY <1>2, <1>3, <1>4

-----------------------------------------------------------------------------
(* A whole file.                                                            *)

Sections == {"objects", "spin_animations", "systems"}

\* How many objects an entry of a section makes.
Made(section) == IF section = "objects" THEN 1 ELSE 0

LEMMA SameLoads == ASSUME NEW t \in Stagings, NEW n, ~t.ok \/ n = 0 PROVE LoadsTo(t, t, n)
<1>1. Len(t.scene.objects) \in Nat
  BY ObjectsOfScene DEF Stagings, WholeScenes
<1> QED
  BY <1>1 DEF LoadsTo

LEMMA LoadEntryLoads ==
    ASSUME NEW t \in Stagings, NEW section \in Sections, NEW entry, IsValue(entry)
    PROVE  LoadsTo(t, LoadEntry(t, section, entry), Made(section))
<1>1. CASE ~t.ok
  BY <1>1, SameLoads DEF LoadEntry
<1>2. CASE t.ok /\ section = "objects"
  BY <1>2, LoadObjectLoads DEF LoadEntry, Made
<1>3. CASE t.ok /\ section = "spin_animations"
  BY <1>3, LoadSpinLoads DEF LoadEntry, Made
<1>4. CASE t.ok /\ section = "systems"
  BY <1>4, LoadSystemLoads DEF LoadEntry, Made
<1> QED
  BY <1>1, <1>2, <1>3, <1>4 DEF Sections

\* Steps that follow one another.
LEMMA LoadsOn ==
    ASSUME NEW t \in Stagings, NEW u, NEW w, NEW m \in Nat, NEW n \in Nat,
           LoadsTo(t, u, m), LoadsTo(u, w, n)
    PROVE  LoadsTo(t, w, m + n)
<1>1. Len(t.scene.objects) \in Nat
  BY ObjectsOfScene DEF Stagings, WholeScenes
<1>2. w \in Stagings
  BY DEF LoadsTo
<1>3. ASSUME w.ok PROVE t.ok /\ Len(w.scene.objects) = Len(t.scene.objects) + (m + n)
  <2>1. u.ok /\ Len(w.scene.objects) = Len(u.scene.objects) + n
    BY <1>3 DEF LoadsTo
  <2>2. t.ok /\ Len(u.scene.objects) = Len(t.scene.objects) + m
    BY <2>1 DEF LoadsTo
  <2> DEFINE a == Len(t.scene.objects)
             b == Len(u.scene.objects)
             c == Len(w.scene.objects)
  <2>3. a \in Nat /\ c = b + n /\ b = a + m
    BY <1>1, <2>1, <2>2
  <2> HIDE DEF a, b, c
  <2>4. c = a + (m + n)
    BY <2>3
  <2> QED
    BY <2>2, <2>4, Zenon DEF a, c
<1> QED
  BY <1>2, <1>3, Zenon DEF LoadsTo

\* A set of one has nothing else to choose.
LEMMA TheOnlyOne == \A one : (CHOOSE next \in {one} : TRUE) = one
<1>1. \A one : \E next : next \in {one} /\ TRUE
  OBVIOUS
<1> QED
  BY <1>1

\* The entries of a section, one after the other.
LEMMA LoadEachLoads ==
    ASSUME NEW t \in Stagings, NEW section \in Sections, NEW v, IsValue(v)
    PROVE  /\ LoadsTo(t, LoadEach(t, section, v), IF section = "objects" THEN Len(v[2]) ELSE 0)
           /\ LoadEach(t, section, v).ok => Type(v) = "arr"
<1>1. CASE Type(v) # "arr"
  <2>1. LoadEach(t, section, v) = Throw(t)
    BY <1>1 DEF LoadEach
  <2>2. ~Throw(t).ok
    BY DEF Throw, Stagings
  <2> QED
    BY <1>1, <2>1, <2>2, ThrowLoads
<1>2. CASE Type(v) = "arr"
  <2> DEFINE N == Len(v[2])
             made == Made(section)
             Step(acc, k) == LoadEntry(acc, section, v[2][k])
             Then(u, k) == CHOOSE next \in {Step(before, k) : before \in {u}} : TRUE
             Is(f) == f = [n \in 0 .. N |-> IF n = 0 THEN t ELSE Then(f[n - 1], n)]
             after == CHOOSE f : Is(f)
             F == [k \in 1 .. N |-> [acc \in Stagings |-> Step(acc, k)]]
  <2>1. LoadEach(t, section, v) = after[N]
    BY <1>2 DEF LoadEach, Each
  <2>2. N \in Nat /\ \A k \in 1 .. N : IsValue(v[2][k])
    BY <1>2, ValuesOfList DEF IsListOfValues
  <2>3. made \in Nat /\ (section = "objects" => made = 1) /\ (section # "objects" => made = 0)
    BY DEF Made
  <2>4. \A acc \in Stagings, k \in 1 .. N : LoadsTo(acc, Step(acc, k), made)
    BY <2>2, LoadEntryLoads
  <2> HIDE DEF Step, N, made
  <2>0. \A u, k : Then(u, k) = Step(u, k)
    <3>1. \A u, k : {Step(before, k) : before \in {u}} = {Step(u, k)}
      OBVIOUS
    <3> QED
      BY <3>1, TheOnlyOne
  <2> HIDE DEF Then
  <2>5. \A acc \in Stagings, k \in 1 .. N : Step(acc, k) \in Stagings
    BY <2>4 DEF LoadsTo
  <2>6. F \in StepsOf(N, Stagings)
    BY <2>5 DEF StepsOf
  <2>7. PICK h \in [0 .. N -> Stagings] : h[0] = t /\ \A k \in 1 .. N : h[k] = F[k][h[k - 1]]
    <3> HIDE DEF F
    <3>1. RecursionIn(N, Stagings, t, F)
      BY <2>2, <2>6, Recursion
    <3> QED
      BY <3>1 DEF RecursionIn
  <2>8. \A k \in 1 .. N : h[k - 1] \in Stagings
    BY <2>2
  <2>9. \A k \in 1 .. N : h[k] = Step(h[k - 1], k)
    BY <2>7, <2>8
  <2>10. Is(h)
    BY <2>0, <2>2, <2>7, <2>9
  <2>11. Is(after)
    BY <2>10
  <2> HIDE DEF after
  <2>12. after[0] = t /\ \A k \in 1 .. N : after[k] = Step(after[k - 1], k)
    BY <2>0, <2>2, <2>11
  <2> DEFINE S == {k \in 0 .. N : LoadsTo(t, after[k], k * made)}
  <2>13. 0 \in S
    BY <2>2, <2>3, <2>12, SameLoads
  <2>14. ASSUME NEW k \in 1 .. N, k - 1 \in S PROVE k \in S
    <3>1. LoadsTo(t, after[k - 1], (k - 1) * made)
      BY <2>14
    <3>2. LoadsTo(after[k - 1], after[k], made)
      BY <2>4, <2>12, <3>1 DEF LoadsTo
    <3>3. (k - 1) * made \in Nat /\ (k - 1) * made + made = k * made /\ k \in 0 .. N
      BY <2>2, <2>3
    <3>4. LoadsTo(t, after[k], k * made)
      BY <2>3, <3>1, <3>2, <3>3, LoadsOn
    <3> QED
      BY <3>3, <3>4
  <2>15. 0 .. N \subseteq S
    <3> HIDE DEF S
    <3> QED
      BY <2>2, <2>13, <2>14, UpTo
  <2>16. LoadsTo(t, after[N], N * made)
    BY <2>2, <2>15
  <2>17. N * made = IF section = "objects" THEN N ELSE 0
    BY <2>2, <2>3
  <2> QED
    BY <1>2, <2>1, <2>16, <2>17 DEF N
<1> QED
  BY <1>1, <1>2

\* How many objects a field of the root lists.
Listed(field) ==
    IF field[1] = "objects" /\ Type(field[2]) = "arr" THEN Len(field[2][2]) ELSE 0

LEMMA ListedIsNatural == ASSUME NEW field, IsValue(field[2]) PROVE Listed(field) \in Nat
BY ValuesOfList DEF Listed, IsListOfValues

\* What does not touch objects is loaded or refused.
LEMMA SetLoads ==
    ASSUME NEW t \in Stagings, NEW u \in Stagings, u.ok = t.ok,
           u.scene.objects = t.scene.objects
    PROVE  LoadsTo(t, u, 0)
<1>1. Len(t.scene.objects) \in Nat
  BY ObjectsOfScene DEF Stagings, WholeScenes
<1>2. Len(u.scene.objects) = Len(t.scene.objects) + 0
  BY <1>1
<1> QED
  BY <1>2, Zenon DEF LoadsTo

\* One field of the root.
LEMMA LoadSectionLoads ==
    ASSUME NEW t \in Stagings, NEW field, IsValue(field[2])
    PROVE  LoadsTo(t, LoadSection(t, field), Listed(field))
<1> DEFINE v == field[2]
           u == LoadSection(t, field)
<1>0. t.ok \in BOOLEAN /\ t.scene \in WholeScenes /\ t.scene \in SceneSet
      /\ t = [scene |-> t.scene, ok |-> t.ok]
  BY DEF Stagings, WholeScenes
<1>1. CASE ~t.ok
  BY <1>1, SameLoads DEF LoadSection
<1>2. CASE t.ok /\ field[1] \in Sections
  <2>1. u = LoadEach(t, field[1], v)
    BY <1>2 DEF LoadSection, Sections
  <2>2. CASE Type(v) # "arr"
    <3>1. u = Throw(t)
      BY <2>1, <2>2 DEF LoadEach
    <3> QED
      BY <3>1, ThrowLoads
  <2>3. CASE Type(v) = "arr"
    <3>1. Listed(field) = IF field[1] = "objects" THEN Len(v[2]) ELSE 0
      BY <2>3 DEF Listed
    <3>2. LoadsTo(t, LoadEach(t, field[1], v), IF field[1] = "objects" THEN Len(v[2]) ELSE 0)
      BY <1>2, LoadEachLoads
    <3> QED
      BY <2>1, <3>1, <3>2
  <2> QED
    BY <2>2, <2>3
<1>3. CASE t.ok /\ field[1] = "paused"
  <2>1. Listed(field) = 0
    BY <1>3 DEF Listed
  <2>2. CASE Type(v) # "bool"
    <3>1. u = Throw(t)
      BY <1>3, <2>2 DEF LoadSection, Sections
    <3> QED
      BY <3>1, ThrowLoads
  <2>3. CASE Type(v) = "bool"
    <3>1. v[2] \in BOOLEAN
      BY <2>3, FlagOf
    <3>2. u = [t EXCEPT !.scene.paused = v[2]]
      BY <1>3, <2>3 DEF LoadSection, Sections
    <3>3. u.ok = t.ok /\ u.scene = [t.scene EXCEPT !.paused = v[2]]
          /\ u = [scene |-> u.scene, ok |-> u.ok]
      BY <1>0, <3>2
    <3> HIDE DEF u, v
    <3>4. u.scene \in SceneSet /\ u.scene.objects = t.scene.objects /\ u.scene.byId = t.scene.byId
      BY <1>0, <3>1, <3>3 DEF SceneSet
    <3>5. u.scene \in WholeScenes
      BY <1>0, <3>4, SameObjects
    <3>6. u \in Stagings
      BY <1>0, <3>3, <3>5 DEF Stagings
    <3>7. LoadsTo(t, u, 0)
      BY <3>3, <3>4, <3>6, SetLoads
    <3> QED
      BY <2>1, <3>7 DEF u
  <2> QED
    BY <2>2, <2>3
<1>4. CASE t.ok /\ field[1] = "time"
  <2>1. Listed(field) = 0
    BY <1>4 DEF Listed
  <2>2. CASE Type(v) # "num"
    <3>1. u = Throw(t)
      BY <1>4, <2>2 DEF LoadSection, Sections
    <3> QED
      BY <3>1, ThrowLoads
  <2>3. CASE Type(v) = "num"
    <3>1. v[2] \in Int
      BY <2>3, NumberOf
    <3>2. u = [t EXCEPT !.scene.time = v[2]]
      BY <1>4, <2>3 DEF LoadSection, Sections
    <3>3. u.ok = t.ok /\ u.scene = [t.scene EXCEPT !.time = v[2]]
          /\ u = [scene |-> u.scene, ok |-> u.ok]
      BY <1>0, <3>2
    <3> HIDE DEF u, v
    <3>4. u.scene \in SceneSet /\ u.scene.objects = t.scene.objects /\ u.scene.byId = t.scene.byId
      BY <1>0, <3>1, <3>3 DEF SceneSet
    <3>5. u.scene \in WholeScenes
      BY <1>0, <3>4, SameObjects
    <3>6. u \in Stagings
      BY <1>0, <3>3, <3>5 DEF Stagings
    <3>7. LoadsTo(t, u, 0)
      BY <3>3, <3>4, <3>6, SetLoads
    <3> QED
      BY <2>1, <3>7 DEF u
  <2> QED
    BY <2>2, <2>3
<1>5. CASE t.ok /\ field[1] \notin Sections \cup {"paused", "time"}
  <2>1. Listed(field) = 0
    BY <1>5 DEF Listed, Sections
  <2>2. u = t
    BY <1>5 DEF LoadSection, Sections
  <2> QED
    BY <2>1, <2>2, SameLoads
<1> QED
  BY <1>1, <1>2, <1>3, <1>4, <1>5

\* How many objects the fields of a root list together.
CountsEntries(count, root) ==
    /\ count[0] = 0
    /\ \A k \in 1 .. Len(root[2]) : count[k] = count[k - 1] + Listed(root[2][k])
    /\ EntriesOf(root) = count[Len(root[2])]

LEMMA EntriesAreCounted ==
    ASSUME NEW root, IsValue(root), Type(root) = "obj"
    PROVE  \E count \in [0 .. Len(root[2]) -> Nat] : CountsEntries(count, root)
<1> DEFINE N == Len(root[2])
           Step(n, k) == IF root[2][k][1] = "objects" /\ Type(root[2][k][2]) = "arr"
                         THEN n + Len(root[2][k][2][2]) ELSE n
           Then(u, k) == CHOOSE next \in {Step(before, k) : before \in {u}} : TRUE
           Is(f) == f = [k \in 0 .. N |-> IF k = 0 THEN 0 ELSE Then(f[k - 1], k)]
           count == CHOOSE f : Is(f)
           F == [k \in 1 .. N |-> [n \in Nat |-> Step(n, k)]]
<1>1. EntriesOf(root) = count[N]
  BY DEF EntriesOf, Each
<1>2. N \in Nat /\ \A k \in 1 .. N : IsValue(root[2][k][2])
  BY FieldsOf DEF IsListOfFields
<1>3. \A k \in 1 .. N : Listed(root[2][k]) \in Nat
  BY <1>2, ListedIsNatural
<1>4. \A n \in Nat, k \in 1 .. N : Step(n, k) = n + Listed(root[2][k])
  BY DEF Listed
<1> HIDE DEF N, Step
<1>0. \A u, k : Then(u, k) = Step(u, k)
  <2>1. \A u, k : {Step(before, k) : before \in {u}} = {Step(u, k)}
    OBVIOUS
  <2> QED
    BY <2>1, TheOnlyOne
<1> HIDE DEF Then
<1>5. F \in StepsOf(N, Nat)
  BY <1>3, <1>4 DEF StepsOf
<1>6. PICK h \in [0 .. N -> Nat] : h[0] = 0 /\ \A k \in 1 .. N : h[k] = F[k][h[k - 1]]
  <2> HIDE DEF F
  <2>1. RecursionIn(N, Nat, 0, F)
    BY <1>2, <1>5, Recursion
  <2> QED
    BY <2>1 DEF RecursionIn
<1>7. \A k \in 1 .. N : h[k - 1] \in Nat
  BY <1>2
<1>8. \A k \in 1 .. N : h[k] = Step(h[k - 1], k)
  BY <1>6, <1>7
<1>9. Is(h)
  BY <1>0, <1>2, <1>6, <1>8
<1>10. Is(count)
  BY <1>9
<1> HIDE DEF count
<1>11. count[0] = 0 /\ \A k \in 1 .. N : count[k] = Step(count[k - 1], k)
  BY <1>0, <1>2, <1>10
<1> DEFINE S == {k \in 0 .. N : count[k] \in Nat}
<1>12. 0 \in S
  BY <1>2, <1>11
<1>13. ASSUME NEW k \in 1 .. N, k - 1 \in S PROVE k \in S
  <2>1. count[k - 1] \in Nat /\ k \in 0 .. N
    BY <1>2, <1>13
  <2>2. count[k] = count[k - 1] + Listed(root[2][k])
    BY <1>4, <1>11, <2>1
  <2> QED
    BY <1>3, <2>1, <2>2
<1>14. 0 .. N \subseteq S
  <2> HIDE DEF S
  <2> QED
    BY <1>2, <1>12, <1>13, UpTo
<1>15. count \in [0 .. N -> Nat]
  BY <1>10, <1>14
<1>16. \A k \in 1 .. N : count[k - 1] \in Nat
  BY <1>2, <1>14
<1>17. \A k \in 1 .. N : count[k] = count[k - 1] + Listed(root[2][k])
  BY <1>4, <1>11, <1>16
<1>18. CountsEntries(count, root)
  BY <1>1, <1>11, <1>17 DEF CountsEntries, N
<1> QED
  BY <1>15, <1>18 DEF N

Start == Staged(EmptyScene, TRUE)

LEMMA StartIsEmpty == Start \in Stagings /\ Len(Start.scene.objects) = 0 /\ Start.ok
<1>1. Start = [scene |-> EmptyScene, ok |-> TRUE]
  BY DEF Start, Staged
<1>2. EmptyScene.objects = <<>> /\ Len(<<>>) = 0
  BY EmptySeq DEF EmptyScene
<1> QED
  BY <1>1, <1>2, EmptySceneIsWhole DEF Stagings

\* A file that is loaded gives a whole scene with all the objects it lists.
LEMMA DocumentLoads ==
    ASSUME NEW root, IsValue(root), Type(root) = "obj"
    PROVE  LoadsTo(Start, LoadedFrom(root), EntriesOf(root))
<1> DEFINE N == Len(root[2])
           Step(acc, k) == LoadSection(acc, root[2][k])
           Then(u, k) == CHOOSE next \in {Step(before, k) : before \in {u}} : TRUE
           Is(f) == f = [n \in 0 .. N |-> IF n = 0 THEN Start ELSE Then(f[n - 1], n)]
           after == CHOOSE f : Is(f)
           F == [k \in 1 .. N |-> [acc \in Stagings |-> Step(acc, k)]]
<1>1. LoadedFrom(root) = after[N]
  BY DEF LoadedFrom, Each, Start
<1>2. N \in Nat /\ \A k \in 1 .. N : IsValue(root[2][k][2])
  BY FieldsOf DEF IsListOfFields
<1>3. PICK count \in [0 .. N -> Nat] : CountsEntries(count, root)
  BY EntriesAreCounted
<1>4. \A acc \in Stagings, k \in 1 .. N : LoadsTo(acc, Step(acc, k), Listed(root[2][k]))
  BY <1>2, LoadSectionLoads
<1>5. count[0] = 0 /\ EntriesOf(root) = count[N]
      /\ \A k \in 1 .. N : count[k] = count[k - 1] + Listed(root[2][k])
  BY <1>3 DEF CountsEntries
<1>6. \A k \in 1 .. N : Listed(root[2][k]) \in Nat
  BY <1>2, ListedIsNatural
<1> HIDE DEF N, Step
<1>0. \A u, k : Then(u, k) = Step(u, k)
  <2>1. \A u, k : {Step(before, k) : before \in {u}} = {Step(u, k)}
    OBVIOUS
  <2> QED
    BY <2>1, TheOnlyOne
<1> HIDE DEF Then
<1>7. \A acc \in Stagings, k \in 1 .. N : Step(acc, k) \in Stagings
  BY <1>4 DEF LoadsTo
<1>8. F \in StepsOf(N, Stagings)
  BY <1>7 DEF StepsOf
<1>9. PICK h \in [0 .. N -> Stagings] : h[0] = Start /\ \A k \in 1 .. N : h[k] = F[k][h[k - 1]]
  <2> HIDE DEF F
  <2>1. RecursionIn(N, Stagings, Start, F)
    BY <1>2, <1>8, StartIsEmpty, Recursion
  <2> QED
    BY <2>1 DEF RecursionIn
<1>10. \A k \in 1 .. N : h[k - 1] \in Stagings
  BY <1>2
<1>11. \A k \in 1 .. N : h[k] = Step(h[k - 1], k)
  BY <1>9, <1>10
<1>12. Is(h)
  BY <1>0, <1>2, <1>9, <1>11
<1>13. Is(after)
  BY <1>12
<1> HIDE DEF after
<1>14. after[0] = Start /\ \A k \in 1 .. N : after[k] = Step(after[k - 1], k)
  BY <1>0, <1>2, <1>13
<1> DEFINE S == {k \in 0 .. N : LoadsTo(Start, after[k], count[k])}
<1>15. 0 \in S
  BY <1>2, <1>5, <1>14, StartIsEmpty, SameLoads
<1>16. ASSUME NEW k \in 1 .. N, k - 1 \in S PROVE k \in S
  <2>1. LoadsTo(Start, after[k - 1], count[k - 1])
    BY <1>16
  <2>2. LoadsTo(after[k - 1], after[k], Listed(root[2][k]))
    BY <1>4, <1>14, <2>1 DEF LoadsTo
  <2>3. k \in 0 .. N /\ count[k - 1] \in Nat /\ count[k] = count[k - 1] + Listed(root[2][k])
    <3>1. k \in 0 .. N /\ k - 1 \in 0 .. N
      BY <1>2
    <3>2. count[k - 1] \in Nat
      BY <1>3, <3>1
    <3> QED
      BY <1>5, <3>1, <3>2
  <2>4. LoadsTo(Start, after[k], count[k])
    BY <1>6, <2>1, <2>2, <2>3, StartIsEmpty, LoadsOn
  <2> QED
    BY <2>3, <2>4
<1>17. 0 .. N \subseteq S
  <2> HIDE DEF S
  <2> QED
    BY <1>2, <1>15, <1>16, UpTo
<1>18. LoadsTo(Start, after[N], count[N])
  BY <1>2, <1>17
<1> QED
  BY <1>1, <1>5, <1>18

\* Whatever a file says: a load leaves a whole scene, the empty one or one with
\* all the objects that the file lists.
LEMMA EveryLoad ==
    ASSUME NEW root
    PROVE  /\ SceneFrom(root) \in WholeScenes
           /\ SceneFrom(root) = EmptyScene \/ Len(SceneFrom(root).objects) = EntriesOf(root)
<1> DEFINE t == LoadedFrom(root)
<1>1. CASE ~IsValue(root) \/ Type(root) # "obj"
  <2>1. t = Staged(EmptyScene, FALSE)
    BY <1>1 DEF LoadedFrom
  <2>2. SceneFrom(root) = EmptyScene
    BY <2>1 DEF SceneFrom, Staged
  <2> QED
    BY <2>2, EmptySceneIsWhole
<1>2. CASE IsValue(root) /\ Type(root) = "obj"
  <2>1. LoadsTo(Start, t, EntriesOf(root))
    BY <1>2, DocumentLoads
  <2>2. EntriesOf(root) \in Nat
    <3>1. PICK count \in [0 .. Len(root[2]) -> Nat] : CountsEntries(count, root)
      BY <1>2, EntriesAreCounted
    <3>2. Len(root[2]) \in Nat
      BY <1>2, FieldsOf DEF IsListOfFields
    <3> QED
      BY <3>1, <3>2 DEF CountsEntries
  <2>3. SceneFrom(root) = IF t.ok THEN t.scene ELSE EmptyScene
    BY DEF SceneFrom
  <2> HIDE DEF t
  <2>4. CASE t.ok
    <3>1. SceneFrom(root) = t.scene
      BY <2>3, <2>4
    <3>2. t \in Stagings /\ Len(t.scene.objects) = 0 + EntriesOf(root)
      BY <2>1, <2>4, StartIsEmpty DEF LoadsTo
    <3>3. t.scene \in WholeScenes
      BY <3>2 DEF Stagings
    <3>4. Len(t.scene.objects) = EntriesOf(root)
      BY <2>2, <3>2
    <3> QED
      BY <3>1, <3>3, <3>4
  <2>5. CASE ~t.ok
    BY <2>3, <2>5, EmptySceneIsWhole
  <2> QED
    BY <2>4, <2>5
<1> QED
  BY <1>1, <1>2

-----------------------------------------------------------------------------
(* What the program and the inspector do to a scene.                        *)

LEMMA InvIsWhole == SceneFileInv <=> scene \in WholeScenes /\ edits \in 0 .. MaxEdits
BY SceneIsScene DEF SceneFileInv, WholeScenes

WithValue(o, name, v) == [o EXCEPT !.values[name] = v]

\* An object with another value for a property other than its id.
LEMMA ObjectChanged ==
    ASSUME NEW o \in ObjectSet, NEW name \in NamesOf(o.class), name # "object_id", NEW v,
           Fits(PropertyOf(o.class, name), v)
    PROVE  WithValue(o, name, v) \in ObjectSet /\ IdOf(WithValue(o, name, v)) = IdOf(o)
<1> DEFINE c == o.class
           values == [o.values EXCEPT ![name] = v]
           p == WithValue(o, name, v)
<1>1. c \in Classes /\ o \in [class : {c}, values : ValuesOf(c), snapshot : ValuesOf(c)]
  BY ObjectIsObject DEF IsObject
<1>2. o.values \in ValuesOf(c)
  BY <1>1
<1>3. values \in ValuesOf(c) /\ values["object_id"] = o.values["object_id"]
  BY <1>1, <1>2, ValueChanged
<1>4. p = [o EXCEPT !.values = values]
  BY DEF WithValue
<1> HIDE DEF values, p
<1>5. p \in [class : {c}, values : ValuesOf(c), snapshot : ValuesOf(c)] /\ p.values = values
  BY <1>1, <1>3, <1>4
<1>6. p \in ObjectSet
  BY <1>1, <1>5 DEF ObjectSet
<1>7. IdOf(p) = IdOf(o)
  BY <1>3, <1>5 DEF IdOf
<1> QED
  BY <1>6, <1>7 DEF p

\* Other objects in the same places, with the same ids.
LEMMA ObjectsReplaced ==
    ASSUME NEW s \in WholeScenes, NEW u \in SceneSet, u.byId = s.byId,
           DOMAIN u.objects = DOMAIN s.objects,
           \A i \in DOMAIN s.objects : IdOf(u.objects[i]) = IdOf(s.objects[i])
    PROVE  u \in WholeScenes
<1>1. IdsAreKnown(s)
  BY DEF WholeScenes
<1>2. IdsAreKnown(u)
  BY <1>1 DEF IdsAreKnown
<1> QED
  BY <1>2 DEF WholeScenes

\* One object of a scene changed.
LEMMA OneObjectChanged ==
    ASSUME NEW s \in WholeScenes, NEW i \in DOMAIN s.objects,
           NEW p \in Range(PropertiesOf[s.objects[i].class]), ~p.readOnly, NEW v, Fits(p, v)
    PROVE  [s EXCEPT !.objects[i].values[p.name] = v] \in WholeScenes
<1> DEFINE o == s.objects[i]
           new == WithValue(o, p.name, v)
           u == [s EXCEPT !.objects[i].values[p.name] = v]
           objects == [s.objects EXCEPT ![i] = new]
<1>1. s \in SceneSet /\ s.objects \in Seq(ObjectSet) /\ o \in ObjectSet
  BY ObjectsOfScene DEF WholeScenes
<1>2. o.class \in Classes
  BY <1>1, ObjectIsObject DEF IsObject
<1>3. p.name \in NamesOf(o.class) /\ p.name # "object_id" /\ PropertyOf(o.class, p.name) = p
  BY <1>2, PropertiesAreNamed, IdIsKnown
<1>4. new \in ObjectSet /\ IdOf(new) = IdOf(o)
  BY <1>1, <1>3, ObjectChanged
<1>5. u = [s EXCEPT !.objects = objects]
  BY DEF WithValue
<1> HIDE DEF new, u
<1>6. objects \in Seq(ObjectSet) /\ DOMAIN objects = DOMAIN s.objects
      /\ \A j \in DOMAIN s.objects : objects[j] = IF j = i THEN new ELSE s.objects[j]
  BY <1>1, <1>4, ExceptSeq
<1> HIDE DEF objects
<1>7. u \in SceneSet /\ u.objects = objects /\ u.byId = s.byId
  BY <1>1, <1>5, <1>6 DEF SceneSet
<1>8. \A j \in DOMAIN s.objects : IdOf(u.objects[j]) = IdOf(s.objects[j])
  BY <1>4, <1>6, <1>7
<1>9. u \in WholeScenes
  BY <1>6, <1>7, <1>8, ObjectsReplaced
<1> QED
  BY <1>9 DEF u

LEMMA CreateStays ==
    ASSUME NEW c \in Classes, scene \in WholeScenes, Create(c)
    PROVE  scene' \in WholeScenes
<1> DEFINE id == scene.nextId + 1
           values == [Default[c] EXCEPT !["object_id"] = Num(id)]
           t == Staged([scene EXCEPT !.nextId = id], TRUE)
<1>1. scene \in SceneSet /\ scene.nextId \in 0 .. MaxId /\ scene.nextId < MaxId
  BY DEF WholeScenes, SceneSet, Create
<1>2. id \in 0 .. MaxId /\ id \in Ids
  BY <1>1, Bounds, Widths DEF Ids
<1>3. scene' = AddObject(t, Captured(c, values)).scene
  BY DEF Create
<1>4. values \in ValuesOf(c)
  <2>1. Default[c] \in ValuesOf(c) /\ "object_id" \in NamesOf(c)
    BY ClassesAreClasses, IdIsKnown DEF IsClass
  <2> QED
    BY <1>2, <2>1, IdsFit, ValueChanged
<1> HIDE DEF id, values
<1>5. [scene EXCEPT !.nextId = id] \in WholeScenes
  <2> DEFINE u == [scene EXCEPT !.nextId = id]
  <2>1. u \in SceneSet /\ u.objects = scene.objects /\ u.byId = scene.byId
    BY <1>1, <1>2 DEF SceneSet
  <2> HIDE DEF u
  <2>2. u \in WholeScenes
    BY <2>1, SameObjects
  <2> QED
    BY <2>2 DEF u
<1>6. t \in Stagings
  BY <1>5 DEF Staged, Stagings
<1>7. Captured(c, values) \in ObjectSet
  BY <1>4, CapturedIsObject
<1> HIDE DEF t
<1>8. AddObject(t, Captured(c, values)) \in Stagings
  BY <1>6, <1>7, AddObjectLoads DEF LoadsTo
<1> QED
  BY <1>3, <1>8 DEF Stagings

LEMMA AddSystemStays ==
    ASSUME NEW name \in Systems, scene \in WholeScenes, AddSystem(name)
    PROVE  scene' \in WholeScenes
<1> DEFINE new == Append(scene.systems, name)
<1>1. scene \in SceneSet /\ scene.systems \in Seq(Systems)
  BY DEF WholeScenes, SceneSet
<1>2. new \in Seq(Systems)
  BY <1>1, AppendProperties
<1>3. scene' = [scene EXCEPT !.systems = new]
  BY DEF AddSystem
<1> HIDE DEF new
<1>4. scene' \in SceneSet /\ scene'.objects = scene.objects /\ scene'.byId = scene.byId
  BY <1>1, <1>2, <1>3 DEF SceneSet
<1> QED
  BY <1>4, SameObjects

LEMMA SetSpinStays ==
    ASSUME NEW id \in 1 .. MaxId, NEW spin \in Spins, scene \in WholeScenes, SetSpin(id, spin)
    PROVE  scene' \in WholeScenes
<1>1. id \in Ids
  BY Bounds, Widths DEF Ids
<1>2. spin \in SpinAnimations
  BY SceneFileAssumption, Zenon
<1> QED
  BY <1>1, <1>2, WithSpinStays DEF SetSpin

LEMMA RemoveSpinStays ==
    ASSUME NEW id, scene \in WholeScenes, RemoveSpin(id)
    PROVE  scene' \in WholeScenes
<1> DEFINE ids == DOMAIN scene.spins \ {id}
           spins == [other \in ids |-> scene.spins[other]]
<1>1. scene \in SceneSet /\ scene.spins \in SpinMaps
  BY DEF WholeScenes, SceneSet
<1>2. PICK old \in SUBSET Ids : scene.spins \in [old -> SpinAnimations]
  BY <1>1 DEF SpinMaps
<1>3. spins \in [ids -> SpinAnimations] /\ ids \in SUBSET Ids
  BY <1>2
<1>4. spins \in SpinMaps
  BY <1>3 DEF SpinMaps
<1>5. scene' = [scene EXCEPT !.spins = spins]
  BY DEF RemoveSpin
<1> HIDE DEF spins, ids
<1>6. scene' \in SceneSet /\ scene'.objects = scene.objects /\ scene'.byId = scene.byId
  BY <1>1, <1>4, <1>5 DEF SceneSet
<1> QED
  BY <1>6, SameObjects

LEMMA SetPausedStays ==
    ASSUME NEW paused \in BOOLEAN, scene \in WholeScenes, SetPaused(paused)
    PROVE  scene' \in WholeScenes
<1>1. scene \in SceneSet
  BY DEF WholeScenes
<1>2. scene' \in SceneSet /\ scene'.objects = scene.objects /\ scene'.byId = scene.byId
  BY <1>1 DEF SceneSet, SetPaused
<1> QED
  BY <1>2, SameObjects

\* What an animation makes of a transform is a matrix.
LEMMA TurnedIsMatrix ==
    ASSUME NEW spin \in SpinAnimations, NEW time \in Int
    PROVE  Turned(spin, time) \in Matrices
<1> DEFINE angle == (spin.speed * time + spin.phase) % 2
           entry(r, c) == CASE r = c -> IF r = Components THEN 1 ELSE angle
                            [] r # c /\ c = Components -> spin.translation[r]
                            [] OTHER -> 0
           row(r) == [c \in 1 .. Components |-> Num(entry(r, c))]
<1>1. spin.speed \in Int /\ spin.phase \in Int
      /\ spin.translation \in [1 .. Components - 1 -> Int]
  BY DEF SpinAnimations
<1>2. angle \in Int
  BY <1>1
<1> HIDE DEF angle
<1>3. ASSUME NEW r \in 1 .. Components, NEW c \in 1 .. Components PROVE entry(r, c) \in Int
  <2>1. CASE r = c
    BY <1>2, <2>1
  <2>2. CASE r # c /\ c = Components
    <3>1. r \in 1 .. Components - 1
      BY <2>2, Widths
    <3> QED
      BY <1>1, <2>2, <3>1
  <2>3. CASE r # c /\ c # Components
    BY <2>3
  <2> QED
    BY <2>1, <2>2, <2>3
<1> HIDE DEF entry
<1>4. \A r \in 1 .. Components : row(r) \in [1 .. Components -> Numbers]
  BY <1>3 DEF Num, Numbers
<1>5. Turned(spin, time) = Arr([r \in 1 .. Components |-> Arr(row(r))])
  BY DEF Turned, entry, angle
<1> HIDE DEF row
<1>6. \A r \in 1 .. Components : Arr(row(r)) \in Vectors
  BY <1>4 DEF Arr, Vectors
<1> QED
  BY <1>5, <1>6 DEF Matrices, Arr

LEMMA SpunIsObject ==
    ASSUME NEW o \in ObjectSet, NEW spins \in SpinMaps, NEW time \in Int
    PROVE  Spun(o, spins, time) \in ObjectSet /\ IdOf(Spun(o, spins, time)) = IdOf(o)
<1>1. o.class \in Classes
  BY ObjectIsObject DEF IsObject
<1>2. CASE IdOf(o) \in DOMAIN spins /\ "transform" \in NamesOf(o.class)
  <2> DEFINE p == PropertyOf(o.class, "transform")
             v == Turned(spins[IdOf(o)], time)
  <2>1. PICK ids \in SUBSET Ids : spins \in [ids -> SpinAnimations]
    BY DEF SpinMaps
  <2>2. v \in Matrices
    BY <1>2, <2>1, TurnedIsMatrix
  <2>3. p \in Range(PropertiesOf[o.class]) /\ p.name = "transform"
    BY <1>1, <1>2, PropertiesAreNamed
  <2>4. p.kind = "mat"
    BY <1>1, <2>3, ClassesAreClasses DEF IsClass
  <2>5. FitsAs(p, v)
    BY FitsByKind
  <2> HIDE DEF v, p
  <2>6. Fits(p, v)
    BY <2>2, <2>4, <2>5 DEF FitsAs, IsMat
  <2>7. Spun(o, spins, time) = WithValue(o, "transform", v)
    BY <1>2 DEF Spun, WithValue, v
  <2> QED
    BY <1>2, <2>6, <2>7, ObjectChanged DEF p
<1>3. CASE ~(IdOf(o) \in DOMAIN spins /\ "transform" \in NamesOf(o.class))
  BY <1>3 DEF Spun
<1> QED
  BY <1>2, <1>3

LEMMA TickStays ==
    ASSUME scene \in WholeScenes, Tick
    PROVE  scene' \in WholeScenes
<1> DEFINE turned == [i \in DOMAIN scene.objects |->
                         Spun(scene.objects[i], scene.spins, scene.time + 1)]
           objects == IF "Animation" \in Range(scene.systems) THEN turned ELSE scene.objects
           time == scene.time + 1
<1>1. scene \in SceneSet /\ scene.spins \in SpinMaps /\ time \in Int
  BY DEF WholeScenes, SceneSet
<1>2. /\ scene.objects \in Seq(ObjectSet) /\ Len(scene.objects) \in Nat
      /\ DOMAIN scene.objects = 1 .. Len(scene.objects)
      /\ \A i \in DOMAIN scene.objects : scene.objects[i] \in ObjectSet
  BY <1>1, ObjectsOfScene
<1>3. scene' = [scene EXCEPT !.time = time, !.objects = objects]
  BY DEF Tick
<1>4. \A i \in DOMAIN scene.objects :
         turned[i] \in ObjectSet /\ IdOf(turned[i]) = IdOf(scene.objects[i])
  BY <1>1, <1>2, SpunIsObject
<1>5. DOMAIN turned = DOMAIN scene.objects /\ turned \in Seq(ObjectSet)
  <2>1. DOMAIN turned = DOMAIN scene.objects
    OBVIOUS
  <2>2. turned = [i \in 1 .. Len(scene.objects) |-> turned[i]]
    BY <1>2
  <2> HIDE DEF turned
  <2>3. \A i \in 1 .. Len(scene.objects) : turned[i] \in ObjectSet
    BY <1>2, <1>4
  <2>4. turned \in Seq(ObjectSet)
    BY <1>2, <2>2, <2>3, FunctionIsSequence
  <2> QED
    BY <2>1, <2>4
<1> HIDE DEF turned
<1>6. /\ DOMAIN objects = DOMAIN scene.objects /\ objects \in Seq(ObjectSet)
      /\ \A i \in DOMAIN scene.objects : IdOf(objects[i]) = IdOf(scene.objects[i])
  BY <1>2, <1>4, <1>5
<1> HIDE DEF objects, time
<1>7. scene' \in SceneSet /\ scene'.objects = objects /\ scene'.byId = scene.byId
  BY <1>1, <1>3, <1>6 DEF SceneSet
<1> QED
  BY <1>6, <1>7, ObjectsReplaced

LEMMA ResetPropertyStays ==
    ASSUME scene \in WholeScenes, NEW i \in DOMAIN scene.objects,
           NEW p \in Range(PropertiesOf[scene.objects[i].class]), ResetProperty(i, p)
    PROVE  scene' \in WholeScenes
<1> DEFINE o == scene.objects[i]
<1>1. scene \in SceneSet /\ o \in ObjectSet
  BY ObjectsOfScene DEF WholeScenes
<1>2. o.class \in Classes /\ o.snapshot \in ValuesOf(o.class)
  BY <1>1, ObjectIsObject DEF IsObject
<1>3. Fits(p, o.snapshot[p.name])
  BY <1>2, ValuesFit
<1> QED
  BY <1>3, OneObjectChanged DEF ResetProperty

LEMMA EditPropertyStays ==
    ASSUME scene \in WholeScenes, NEW i \in DOMAIN scene.objects,
           NEW p \in Range(PropertiesOf[scene.objects[i].class]), EditProperty(i, p)
    PROVE  scene' \in WholeScenes
<1> DEFINE o == scene.objects[i]
<1>1. scene \in SceneSet /\ o \in ObjectSet
  BY ObjectsOfScene DEF WholeScenes
<1>2. o.class \in Classes /\ o.values \in ValuesOf(o.class)
  BY <1>1, ObjectIsObject DEF IsObject
<1>3. Fits(p, o.values[p.name]) /\ p \in Properties
  BY <1>2, ValuesFit, PropertiesAreNamed
<1>4. PICK v \in Edited(p, o.values[p.name]) :
         scene' = [scene EXCEPT !.objects[i].values[p.name] = v]
  BY DEF EditProperty
<1>5. Fits(p, v)
  BY <1>3, EditsFit
<1> QED
  BY <1>4, <1>5, OneObjectChanged DEF EditProperty

-----------------------------------------------------------------------------
(* The theorems.                                                            *)

LEMMA InitIsWhole == SceneFileInit => SceneFileInv
BY EmptySceneIsWhole, Bounds, InvIsWhole DEF SceneFileInit

\* Every step keeps the scene whole.
LEMMA NextIsWhole == SceneFileInv /\ [SceneFileNext]_sceneFileVars => SceneFileInv'
<1> SUFFICES ASSUME SceneFileInv, [SceneFileNext]_sceneFileVars PROVE SceneFileInv'
  OBVIOUS
<1>1. scene \in WholeScenes /\ edits \in 0 .. MaxEdits /\ MaxEdits \in Nat
  BY InvIsWhole, Bounds
<1>2. SUFFICES scene' \in WholeScenes /\ edits' \in 0 .. MaxEdits
  <2>1. (SceneFileInv <=> scene \in WholeScenes /\ edits \in 0 .. MaxEdits)'
    BY InvIsWhole, PTL
  <2> QED
    BY <2>1
<1>3. CASE UNCHANGED sceneFileVars
  BY <1>1, <1>3 DEF sceneFileVars
<1>4. CASE Change /\ UNCHANGED edits
  <2>1. scene' \in WholeScenes
    BY <1>1, <1>4, CreateStays, AddSystemStays, SetSpinStays, RemoveSpinStays, SetPausedStays,
       TickStays, ResetPropertyStays DEF Change
  <2> QED
    BY <1>1, <1>4, <2>1
<1>5. CASE Load
  BY <1>1, <1>5, EveryLoad DEF Load
<1>6. CASE LoadDamaged
  <2>1. PICK root \in DamagedFiles : scene' = SceneFrom(root)
    BY <1>6 DEF LoadDamaged
  <2>2. edits < MaxEdits /\ edits' = edits + 1
    BY <1>6, <2>1 DEF LoadDamaged, DamagedFiles
  <2> QED
    BY <1>1, <2>1, <2>2, EveryLoad
<1>7. CASE \E i \in DOMAIN scene.objects :
              \E p \in Range(PropertiesOf[scene.objects[i].class]) : EditProperty(i, p)
  <2>1. PICK i \in DOMAIN scene.objects :
               \E p \in Range(PropertiesOf[scene.objects[i].class]) : EditProperty(i, p)
    BY <1>7
  <2>2. PICK p \in Range(PropertiesOf[scene.objects[i].class]) : EditProperty(i, p)
    BY <2>1
  <2>3. scene' \in WholeScenes
    BY <1>1, <2>2, EditPropertyStays
  <2>4. edits < MaxEdits /\ edits' = edits + 1
    BY <2>2 DEF EditProperty
  <2> QED
    BY <1>1, <2>3, <2>4
<1> QED
  BY <1>3, <1>4, <1>5, <1>6, <1>7 DEF SceneFileNext

\* The inductive invariant: whatever files held and whatever was typed, the
\* scene is well-typed, every value and snapshot is in its property's range,
\* length and shape, and the index has every object's id, once.
\* (scene.h:433-522, scene_loader.cpp:47-437, property_deserializer.cpp)
THEOREM SceneStaysWhole == SceneFileSpec => []SceneFileInv
BY InitIsWhole, NextIsWhole, PTL DEF SceneFileSpec

LEMMA WholeIsSane == SceneFileInv => SceneIsSane
<1> SUFFICES ASSUME SceneFileInv PROVE SceneIsSane
  OBVIOUS
<1>1. scene \in SceneSet /\ IdsAreKnown(scene)
  BY InvIsWhole DEF WholeScenes
<1>2. ASSUME NEW i \in DOMAIN scene.objects,
             NEW p \in Range(PropertiesOf[scene.objects[i].class])
      PROVE  /\ Fits(p, scene.objects[i].values[p.name])
             /\ Fits(p, scene.objects[i].snapshot[p.name])
  <2> DEFINE o == scene.objects[i]
  <2>1. o \in ObjectSet
    BY <1>1, ObjectsOfScene
  <2>2. o.class \in Classes /\ o.values \in ValuesOf(o.class) /\ o.snapshot \in ValuesOf(o.class)
    BY <2>1, ObjectIsObject DEF IsObject
  <2> QED
    BY <2>2, ValuesFit
<1>3. IsInjective([i \in DOMAIN scene.objects |-> IdOf(scene.objects[i])])
  BY <1>1 DEF IdsAreKnown, IsInjective
<1> QED
  BY <1>1, <1>2, <1>3 DEF SceneIsSane, IdsAreKnown

\* No file, no edit and no animation leads to a value outside its property, or
\* to two objects with one id.
\* (builtin_properties.cpp:45-75, property_deserializer.cpp, scene.h:485-503)
THEOREM SceneStaysSane == SceneFileSpec => []SceneIsSane
BY SceneStaysWhole, WholeIsSane, PTL

\* A load takes every entry of a file or leaves the scene empty, whatever the
\* file holds.
\* (scene_loader.cpp:106-159, application.cpp:1855-1905)
THEOREM LoadsAreAllOrNothing == SceneFileSpec => []LoadIsAllOrNothing
<1>1. LoadIsAllOrNothing
  BY EveryLoad DEF LoadIsAllOrNothing
<1> QED
  BY <1>1, PTL

-----------------------------------------------------------------------------
(* Sequences of anything.                                                   *)

IsSeq(s) == s = [i \in 1 .. Len(s) |-> s[i]] /\ Len(s) \in Nat

\* The first k members of a sequence.
Before(s, k) == [i \in 1 .. k |-> s[i]]

LEMMA IsSeqOf == ASSUME NEW s, IsSeq(s), NEW S, \A i \in 1 .. Len(s) : s[i] \in S PROVE s \in Seq(S)
BY IsASeq DEF IsSeq

LEMMA SeqIsSeq == ASSUME NEW S, NEW s \in Seq(S) PROVE IsSeq(s)
BY LenProperties DEF IsSeq

LEMMA ListIsSeq ==
    ASSUME NEW n \in Nat, NEW s, s = [i \in 1 .. n |-> s[i]]
    PROVE  IsSeq(s) /\ Len(s) = n
<1> DEFINE S == {s[i] : i \in 1 .. n}
<1>1. s \in Seq(S)
  BY IsASeq
<1>2. Len(s) = n
  BY <1>1, LenProperties
<1> QED
  BY <1>2 DEF IsSeq

\* What Append does.
LEMMA AppendAdds ==
    ASSUME NEW s, IsSeq(s), NEW x
    PROVE  /\ IsSeq(Append(s, x)) /\ Len(Append(s, x)) = Len(s) + 1 /\ Len(s) \in Nat
           /\ Append(s, x) = [i \in 1 .. Len(s) + 1 |-> IF i = Len(s) + 1 THEN x ELSE s[i]]
           /\ Append(s, x)[Len(s) + 1] = x /\ \A i \in 1 .. Len(s) : Append(s, x)[i] = s[i]
           /\ Append(s, x) # <<>> /\ Last(Append(s, x)) = x /\ Front(Append(s, x)) = s
<1> DEFINE S == {s[i] : i \in 1 .. Len(s)} \cup {x}
           t == Append(s, x)
           n == Len(s)
<1>1. s \in Seq(S) /\ x \in S
  BY IsSeqOf
<1>2. t \in Seq(S) /\ t # <<>> /\ Len(t) = n + 1 /\ \A i \in 1 .. n : t[i] = s[i]
  BY <1>1, AppendProperties
<1>3. t[n + 1] = x
  BY <1>1, AppendProperties
<1>4. n \in Nat /\ s = [i \in 1 .. n |-> s[i]]
  BY DEF IsSeq
<1>5. IsSeq(t)
  BY <1>2, SeqIsSeq
<1> HIDE DEF t
<1>6. t = [i \in 1 .. n + 1 |-> t[i]]
  BY <1>2, <1>5 DEF IsSeq
<1>7. t = [i \in 1 .. n + 1 |-> IF i = n + 1 THEN x ELSE s[i]]
  <2> HIDE DEF n, S
  <2>1. \A i \in 1 .. n + 1 : i = n + 1 \/ i \in 1 .. n
    BY <1>4
  <2>2. \A i \in 1 .. n : i # n + 1
    BY <1>4
  <2>3. \A i \in 1 .. n + 1 : t[i] = IF i = n + 1 THEN x ELSE s[i]
    BY <1>2, <1>3, <2>1, <2>2, Zenon
  <2> QED
    BY <1>6, <2>3, Zenon
<1>8. Last(t) = x
  BY <1>2, <1>3 DEF Last
<1>9. Front(t) = s
  <2> HIDE DEF n, S
  <2>1. Len(t) - 1 = n
    BY <1>2, <1>4
  <2>2. SubSeq(t, 1, n) = [i \in 1 .. n |-> t[i]]
    BY <1>4
  <2>3. [i \in 1 .. n |-> t[i]] = s
    BY <1>2, <1>4
  <2> QED
    BY <2>1, <2>2, <2>3 DEF Front
<1> QED
  BY <1>2, <1>3, <1>4, <1>5, <1>7, <1>8, <1>9 DEF t

\* The last member changes.
LEMMA LastChanged ==
    ASSUME NEW s, IsSeq(s), NEW x, NEW y
    PROVE  [Append(s, x) EXCEPT ![Len(s) + 1] = y] = Append(s, y)
<1> DEFINE n == Len(s)
           t == Append(s, x)
<1>1. t = [i \in 1 .. n + 1 |-> IF i = n + 1 THEN x ELSE s[i]] /\ n \in Nat
  BY AppendAdds
<1>2. Append(s, y) = [i \in 1 .. n + 1 |-> IF i = n + 1 THEN y ELSE s[i]]
  BY AppendAdds
<1>3. [t EXCEPT ![n + 1] = y] = [i \in 1 .. n + 1 |-> IF i = n + 1 THEN y ELSE s[i]]
  <2> HIDE DEF t, n
  <2> QED
    BY <1>1
<1> QED
  BY <1>2, <1>3

\* One more member.
LEMMA OneMore ==
    ASSUME NEW s, IsSeq(s), NEW k \in Nat, k < Len(s)
    PROVE  /\ IsSeq(Before(s, k)) /\ Len(Before(s, k)) = k
           /\ Append(Before(s, k), s[k + 1]) = Before(s, k + 1)
<1> DEFINE b == Before(s, k)
<1>1. b = [i \in 1 .. k |-> b[i]] /\ \A i \in 1 .. k : b[i] = s[i]
  BY DEF Before
<1> HIDE DEF b
<1>2. IsSeq(b) /\ Len(b) = k
  BY <1>1, ListIsSeq
<1>3. Append(b, s[k + 1]) = [i \in 1 .. k + 1 |-> IF i = k + 1 THEN s[k + 1] ELSE b[i]]
  BY <1>2, AppendAdds
<1>4. Append(b, s[k + 1]) = [i \in 1 .. k + 1 |-> s[i]]
  BY <1>1, <1>3
<1> QED
  BY <1>2, <1>4 DEF b, Before

LEMMA AllOfIt == ASSUME NEW s, IsSeq(s) PROVE Before(s, Len(s)) = s /\ Before(s, 0) = <<>>
BY DEF IsSeq, Before

LEMMA EmptyIsSeq == IsSeq(<<>>) /\ Len(<<>>) = 0
BY EmptySeq DEF IsSeq

-----------------------------------------------------------------------------
(* Every element of a list.                                                 *)

\* What is done with the elements of a list, one after the other.
StepOf(how, w, x) ==
    CASE how[1] = "val" -> WriteVal(w, x)
      [] how[1] = "row" -> WriteRow(w, x)
      [] how[1] = "property" -> WriteValue(WriteKey(w, x.name), x, how[2].values[x.name])
      [] how[1] = "object" -> WriteObject(w, x)
      [] how[1] = "spin" -> WriteSpin(w, x, how[2].spins[x])
      [] how[1] = "system" -> WriteSystem(w, x)
      [] how[1] = "parse" -> ParseNext(w, x)
      [] how[1] = "section" -> LoadSection(w, x)
      [] how[1] = "load" -> LoadEntry(w, how[2], x)

Walks(how, f, w, list, k) ==
    f[0] = w /\ \A j \in 1 .. k : f[j] = StepOf(how, f[j - 1], list[j])

\* There are such steps.
LEMMA ThereIsAWalk ==
    ASSUME NEW how, NEW w, NEW list, NEW N \in Nat
    PROVE  \E f : f = [n \in 0 .. N |-> f[n]] /\ Walks(how, f, w, list, N)
<1> DEFINE S == {k \in 0 .. N : \E f : DOMAIN f = 0 .. k /\ Walks(how, f, w, list, k)}
<1>1. 0 \in S
  <2> DEFINE f == [j \in 0 .. 0 |-> w]
  <2>1. DOMAIN f = 0 .. 0 /\ Walks(how, f, w, list, 0)
    BY DEF Walks
  <2> HIDE DEF f
  <2> QED
    BY <2>1
<1>2. ASSUME NEW k \in 1 .. N, k - 1 \in S PROVE k \in S
  <2>1. PICK f : DOMAIN f = 0 .. k - 1 /\ Walks(how, f, w, list, k - 1)
    BY <1>2
  <2> DEFINE g == [j \in 0 .. k |-> IF j = k THEN StepOf(how, f[k - 1], list[k]) ELSE f[j]]
  <2>2. DOMAIN g = 0 .. k
    OBVIOUS
  <2>3. g[0] = f[0] /\ \A j \in 1 .. k - 1 : g[j] = f[j] /\ g[j - 1] = f[j - 1]
    OBVIOUS
  <2>4. g[k] = StepOf(how, f[k - 1], list[k]) /\ g[k - 1] = f[k - 1]
    OBVIOUS
  <2> HIDE DEF g
  <2>5. g[0] = w /\ \A j \in 1 .. k - 1 : g[j] = StepOf(how, g[j - 1], list[j])
    BY <2>1, <2>3 DEF Walks
  <2>6. \A j \in 1 .. k : j \in 1 .. k - 1 \/ j = k
    OBVIOUS
  <2>7. Walks(how, g, w, list, k)
    BY <2>4, <2>5, <2>6 DEF Walks
  <2> QED
    BY <2>2, <2>7
<1>3. 0 .. N \subseteq S
  <2> HIDE DEF S
  <2> QED
    BY <1>1, <1>2, UpTo
<1>4. PICK h : DOMAIN h = 0 .. N /\ Walks(how, h, w, list, N)
  BY <1>3
<1> DEFINE g == [n \in 0 .. N |-> h[n]]
<1>5. g[0] = w /\ \A j \in 1 .. N : g[j] = StepOf(how, g[j - 1], list[j])
  BY <1>4 DEF Walks
<1>6. g = [n \in 0 .. N |-> g[n]]
  OBVIOUS
<1> HIDE DEF g
<1>7. Walks(how, g, w, list, N)
  BY <1>5 DEF Walks
<1> QED
  BY <1>6, <1>7

\* The same steps from the same place lead to the same place.
LEMMA WalksAgree ==
    ASSUME NEW how, NEW f, NEW g, NEW w, NEW list, NEW other, NEW n \in Nat,
           Walks(how, f, w, list, n), Walks(how, g, w, other, n),
           \A j \in 1 .. n : list[j] = other[j]
    PROVE  f[n] = g[n]
<1> DEFINE S == {k \in 0 .. n : g[k] = f[k]}
<1>1. 0 \in S
  BY DEF Walks
<1>2. ASSUME NEW k \in 1 .. n, k - 1 \in S PROVE k \in S
  <2>1. g[k - 1] = f[k - 1] /\ k \in 0 .. n
    BY <1>2
  <2>2. g[k] = StepOf(how, g[k - 1], other[k]) /\ f[k] = StepOf(how, f[k - 1], list[k])
    BY DEF Walks
  <2> QED
    BY <2>1, <2>2
<1>3. 0 .. n \subseteq S
  <2> HIDE DEF S
  <2> QED
    BY <1>1, <1>2, UpTo
<1>4. n \in S
  BY <1>3
<1> QED
  BY <1>4

\* One more element is one more step.
LEMMA OneMoreStep ==
    ASSUME NEW how, NEW f, NEW g, NEW w, NEW list, IsSeq(list), NEW x,
           Walks(how, f, w, list, Len(list)),
           Walks(how, g, w, Append(list, x), Len(Append(list, x)))
    PROVE  g[Len(Append(list, x))] = StepOf(how, f[Len(list)], x)
<1> DEFINE n == Len(list)
           more == Append(list, x)
<1>1. n \in Nat /\ Len(more) = n + 1 /\ more[n + 1] = x /\ \A i \in 1 .. n : more[i] = list[i]
  BY AppendAdds
<1> HIDE DEF more, n
<1>2. Walks(how, g, w, more, n) /\ g[n + 1] = StepOf(how, g[n], x)
  <2>1. Walks(how, g, w, more, n + 1)
    BY <1>1 DEF more
  <2>2. \A j \in 1 .. n : j \in 1 .. n + 1
    BY <1>1
  <2>3. n + 1 \in 1 .. n + 1 /\ (n + 1) - 1 = n
    BY <1>1
  <2> QED
    BY <1>1, <2>1, <2>2, <2>3 DEF Walks
<1>3. Walks(how, f, w, list, n)
  BY DEF n
<1>4. g[n] = f[n]
  BY <1>1, <1>2, <1>3, WalksAgree
<1> QED
  BY <1>1, <1>2, <1>4 DEF more, n

-----------------------------------------------------------------------------
(* The tokens of a text.                                                    *)

LEMMA EachToken ==
    ASSUME NEW list, Len(list) \in Nat
    PROVE  \E f : /\ Walks(<<"parse">>, f, NewParser, list, Len(list))
                 /\ Parsed(list) = f[Len(list)]
<1> DEFINE N == Len(list)
           how == <<"parse">>
           Then(u, x) == CHOOSE next \in {ParseNext(before, x) : before \in {u}} : TRUE
           Is(f) == f = [n \in 0 .. N |-> IF n = 0 THEN NewParser ELSE Then(f[n - 1], list[n])]
           after == CHOOSE f : Is(f)
<1>1. PICK g : g = [n \in 0 .. N |-> g[n]] /\ Walks(how, g, NewParser, list, N)
  BY ThereIsAWalk
<1>2. \A x, y : StepOf(how, x, y) = Then(x, y)
  <2>1. \A x, y : StepOf(how, x, y) = ParseNext(x, y)
    BY DEF StepOf
  <2>2. \A x, y : {ParseNext(before, y) : before \in {x}} = {ParseNext(x, y)}
    OBVIOUS
  <2> QED
    BY <2>1, <2>2, TheOnlyOne
<1>3. Is(g)
  <2> HIDE DEF Then
  <2>1. \A n \in 0 .. N : g[n] = IF n = 0 THEN NewParser ELSE Then(g[n - 1], list[n])
    BY <1>1, <1>2 DEF Walks
  <2> HIDE DEF how, N
  <2> QED
    BY <1>1, <2>1, Zenon
<1>4. Is(after)
  BY <1>3
<1>5. Parsed(list) = after[N]
  BY DEF Parsed, Each
<1> HIDE DEF after, how, Then
<1>6. Walks(how, after, NewParser, list, N)
  BY <1>2, <1>4 DEF Walks
<1> QED
  BY <1>5, <1>6 DEF how

\* One more token is one more step of the parser.
LEMMA ParsedAppend ==
    ASSUME NEW list, IsSeq(list), NEW token
    PROVE  Parsed(Append(list, token)) = ParseNext(Parsed(list), token)
<1> DEFINE more == Append(list, token)
           how == <<"parse">>
<1>1. Len(list) \in Nat /\ Len(more) \in Nat
  BY AppendAdds
<1>2. PICK f : Walks(how, f, NewParser, list, Len(list)) /\ Parsed(list) = f[Len(list)]
  BY <1>1, EachToken
<1>3. PICK g : Walks(how, g, NewParser, more, Len(more)) /\ Parsed(more) = g[Len(more)]
  <2> HIDE DEF more
  <2> QED
    BY <1>1, EachToken
<1>4. StepOf(how, Parsed(list), token) = ParseNext(Parsed(list), token)
  BY DEF StepOf
<1> HIDE DEF how
<1> QED
  BY <1>2, <1>3, <1>4, OneMoreStep

LEMMA ParsedNothing == Parsed(<<>>) = NewParser
<1>1. PICK f : Walks(<<"parse">>, f, NewParser, <<>>, 0) /\ Parsed(<<>>) = f[0]
  BY EachToken, EmptyIsSeq
<1> QED
  BY <1>1 DEF Walks

-----------------------------------------------------------------------------
(* The writer and the parser of what it has written so far.                 *)

\* Truth values as fields of records.
Yes == TRUE
No == FALSE

Context(type, first, expecting) == [type |-> type, first |-> first, expecting |-> expecting]

Entered(type, items, key, comma) ==
    [type |-> type, items |-> items, key |-> key, comma |-> comma]

Written(stack, json) == [stack |-> stack, json |-> json, assertsHold |-> Yes]

ReadSo(stack) == [stack |-> stack, ok |-> Yes]

IsFirst(items) == IF items = <<>> THEN Yes ELSE No

\* Around what is being written are ws for the writer and ps for the parser.
Around(ws, ps) == IsSeq(ws) /\ IsSeq(ps)

\* In an array or object that has some items, and nothing else.
InList(w, ws, ps, type, items) ==
    /\ Around(ws, ps) /\ IsSeq(w.json) /\ IsSeq(items)
    /\ w = Written(Append(ws, Context(type, IsFirst(items), No)), w.json)
    /\ Parsed(w.json) = ReadSo(Append(ps, Entered(type, items, <<>>, No)))

\* In an object, behind a key.
AtKey(w, ws, ps, items, key) ==
    /\ Around(ws, ps) /\ IsSeq(w.json) /\ IsSeq(items)
    /\ w = Written(Append(ws, Context("obj", No, Yes)), w.json)
    /\ Parsed(w.json) = ReadSo(Append(ps, Entered("obj", items, <<key>>, No)))

\* Where a value comes next: what is around it is ws and ps.
Awaits(w, ws, ps) ==
    LET u == PrepareValue(w)
    IN  /\ Around(ws, ps) /\ IsSeq(u.json) /\ u = Written(ws, u.json)
        /\ Parsed(u.json) = ReadSo(ps)

\* A value has been written.
HasPut(w, ws, ps, v) ==
    /\ Around(ws, ps) /\ IsSeq(w.json) /\ w = Written(ws, w.json)
    /\ Parsed(w.json) = AcceptValue(ReadSo(ps), v)

\* One token.
LEMMA PutToken ==
    ASSUME NEW stack, NEW json, IsSeq(json), NEW token
    PROVE  /\ Put(Written(stack, json), token) = Written(stack, Append(json, token))
           /\ IsSeq(Append(json, token))
           /\ Parsed(Append(json, token)) = ParseNext(Parsed(json), token)
<1>1. IsSeq(Append(json, token))
  BY AppendAdds
<1>2. Parsed(Append(json, token)) = ParseNext(Parsed(json), token)
  BY ParsedAppend
<1>3. Put(Written(stack, json), token) = Written(stack, Append(json, token))
  BY DEF Put, Written
<1> QED
  BY <1>1, <1>2, <1>3

LEMMA NextToken ==
    ASSUME NEW stack, NEW token
    PROVE  ParseNext(ReadSo(stack), token) = Consume(ReadSo(stack), token)
<1>1. ReadSo(stack).ok
  BY DEF ReadSo, Yes
<1> QED
  BY <1>1 DEF ParseNext

\* What is asserted, or expected, and holds changes nothing.
LEMMA StillHolds ==
    ASSUME NEW stack, NEW json, NEW holds, holds
    PROVE  Assuming(Written(stack, json), holds) = Written(stack, json)
<1>1. ASSUME NEW c, c = (c /\ holds)
      PROVE  [[stack |-> stack, json |-> json, assertsHold |-> c] EXCEPT !.assertsHold = @ /\ holds]
             = [stack |-> stack, json |-> json, assertsHold |-> c]
  BY <1>1
<1>2. Yes = (Yes /\ holds)
  BY DEF Yes
<1> QED
  BY <1>1, <1>2, Zenon DEF Assuming, Written

LEMMA StillOk ==
    ASSUME NEW stack, NEW holds, holds
    PROVE  Expect(ReadSo(stack), holds) = ReadSo(stack)
<1>1. ASSUME NEW c, c = (c /\ holds)
      PROVE  [[stack |-> stack, ok |-> c] EXCEPT !.ok = @ /\ holds] = [stack |-> stack, ok |-> c]
  BY <1>1
<1>2. Yes = (Yes /\ holds)
  BY DEF Yes
<1> QED
  BY <1>1, <1>2, Zenon DEF Expect, ReadSo

\* A context is opened, or closed.
LEMMA StackChanges ==
    ASSUME NEW stack, NEW json, NEW context
    PROVE  /\ [Written(stack, json) EXCEPT !.stack = Append(@, context)]
              = Written(Append(stack, context), json)
           /\ [Written(stack, json) EXCEPT !.stack = Front(@)] = Written(Front(stack), json)
           /\ [ReadSo(stack) EXCEPT !.stack = Append(@, context)] = ReadSo(Append(stack, context))
           /\ [ReadSo(stack) EXCEPT !.stack = Front(@)] = ReadSo(Front(stack))
           /\ Written(stack, json).stack = stack /\ Written(stack, json).json = json
           /\ ReadSo(stack).stack = stack
<1>1. /\ Written(stack, json).stack = stack /\ Written(stack, json).json = json
      /\ ReadSo(stack).stack = stack
  BY DEF Written, ReadSo
<1>2. \A x : [Written(stack, json) EXCEPT !.stack = x] = Written(x, json)
  BY DEF Written
<1>3. \A x : [ReadSo(stack) EXCEPT !.stack = x] = ReadSo(x)
  BY DEF ReadSo
<1> QED
  BY <1>1, <1>2, <1>3, Zenon

\* A scalar.
LEMMA PutScalar ==
    ASSUME NEW w, NEW ws, NEW ps, Awaits(w, ws, ps), NEW v
    PROVE  HasPut(WriteVal(w, v), ws, ps, v)
<1> DEFINE json == PrepareValue(w).json
           token == <<"val", v>>
<1>1. Around(ws, ps) /\ IsSeq(json) /\ PrepareValue(w) = Written(ws, json)
      /\ Parsed(json) = ReadSo(ps)
  BY DEF Awaits
<1>2. WriteVal(w, v) = Put(PrepareValue(w), token)
  BY DEF WriteVal
<1> HIDE DEF json
<1>3. WriteVal(w, v) = Written(ws, Append(json, token)) /\ IsSeq(Append(json, token))
      /\ Parsed(Append(json, token)) = ParseNext(ReadSo(ps), token)
  BY <1>1, <1>2, PutToken
<1>4. Consume(ReadSo(ps), token) = AcceptValue(ReadSo(ps), v)
  BY DEF Consume
<1>5. ParseNext(ReadSo(ps), token) = AcceptValue(ReadSo(ps), v)
  BY <1>4, NextToken
<1>6. Written(ws, Append(json, token)).json = Append(json, token)
  BY DEF Written
<1> QED
  BY <1>1, <1>3, <1>5, <1>6 DEF HasPut

\* The begin of an array or an object.
LEMMA PutOpen ==
    ASSUME NEW w, NEW ws, NEW ps, Awaits(w, ws, ps), NEW type
    PROVE  InList(Open(w, type), ws, ps, type, <<>>)
<1> DEFINE json == PrepareValue(w).json
           token == <<"open", type>>
           next == Append(json, token)
           context == Context(type, Yes, No)
           frame == Entered(type, <<>>, <<>>, No)
<1>1. Around(ws, ps) /\ IsSeq(json) /\ PrepareValue(w) = Written(ws, json)
      /\ Parsed(json) = ReadSo(ps)
  BY DEF Awaits
<1>2. Open(w, type) = [Put(PrepareValue(w), token) EXCEPT !.stack = Append(@, context)]
  <2>1. [type |-> type, first |-> TRUE, expecting |-> FALSE] = context
    BY DEF Context, Yes, No
  <2> HIDE DEF context
  <2> QED
    BY <2>1, Zenon DEF Open
<1> HIDE DEF json
<1>3. Put(PrepareValue(w), token) = Written(ws, next) /\ IsSeq(next)
      /\ Parsed(next) = ParseNext(ReadSo(ps), token)
  BY <1>1, PutToken
<1> HIDE DEF next, context
<1>4. Open(w, type) = Written(Append(ws, context), next)
  BY <1>2, <1>3, StackChanges
<1>5. Consume(ReadSo(ps), token) = ReadSo(Append(ps, frame))
  BY DEF Consume, ReadSo, Frame, Entered, No
<1>6. Parsed(next) = ReadSo(Append(ps, frame))
  BY <1>3, <1>5, NextToken
<1>7. Open(w, type).json = next
  BY <1>4 DEF Written
<1>8. context = Context(type, IsFirst(<<>>), No)
  BY DEF IsFirst, context
<1> QED
  BY <1>1, <1>3, <1>4, <1>6, <1>7, <1>8, EmptyIsSeq, Zenon DEF InList

\* The end of one.
LEMMA PutClose ==
    ASSUME NEW w, NEW ws, NEW ps, NEW type, NEW items, InList(w, ws, ps, type, items)
    PROVE  HasPut(Close(w, type), ws, ps, <<type, items>>)
<1> DEFINE json == w.json
           token == <<"close", type>>
           next == Append(json, token)
           context == Context(type, IsFirst(items), No)
           frame == Entered(type, items, <<>>, No)
           stack == Append(ws, context)
           frames == Append(ps, frame)
<1>1. Around(ws, ps) /\ IsSeq(json) /\ w = Written(stack, json) /\ Parsed(json) = ReadSo(frames)
  BY DEF InList
<1>2. stack # <<>> /\ Last(stack) = context /\ Front(stack) = ws
  BY <1>1, AppendAdds DEF Around
<1>3. Len(frames) = Len(ps) + 1 /\ frames[Len(ps) + 1] = frame /\ Front(frames) = ps
  BY <1>1, AppendAdds DEF Around
<1> HIDE DEF json, stack, frames
<1>4. w.stack = stack /\ Top(w) = context /\ context.type = type /\ ~context.expecting
  BY <1>1, <1>2 DEF Written, Top, Context, No
<1>5. Assuming(w, w.stack # <<>> /\ Top(w).type = type /\ ~Top(w).expecting) = w
  <2>1. w.stack # <<>> /\ Top(w).type = type /\ ~Top(w).expecting
    BY <1>2, <1>4
  <2> QED
    BY <1>1, <2>1, StillHolds
<1>6. Close(w, type) = [Put(w, token) EXCEPT !.stack = Front(@)]
  BY <1>5 DEF Close
<1>7. Put(w, token) = Written(stack, next) /\ IsSeq(next)
      /\ Parsed(next) = ParseNext(ReadSo(frames), token)
  BY <1>1, PutToken
<1> HIDE DEF next
<1>8. Close(w, type) = Written(ws, next)
  BY <1>2, <1>6, <1>7 DEF Written
<1>9. frame.type = type /\ frame.items = items /\ frame.key = <<>> /\ ~frame.comma
  BY DEF Entered, No
<1> HIDE DEF frame
<1>10. Consume(ReadSo(frames), token) = AcceptValue(ReadSo(ps), <<type, items>>)
  <2> DEFINE fits == frame.type = type /\ ~frame.comma /\ frame.key = <<>>
  <2>1. ReadSo(frames).stack = frames
    BY DEF ReadSo
  <2>2. Expect(ReadSo(frames), fits) = ReadSo(frames)
    BY <1>9, StillOk
  <2>3. [ReadSo(frames) EXCEPT !.stack = Front(@)] = ReadSo(ps)
    BY <1>3 DEF ReadSo
  <2>4. Consume(ReadSo(frames), token)
        = AcceptValue([Expect(ReadSo(frames), fits) EXCEPT !.stack = Front(@)],
                      <<type, frame.items>>)
    BY <1>3, <2>1 DEF Consume
  <2> QED
    BY <1>9, <2>2, <2>3, <2>4
<1>11. Parsed(next) = AcceptValue(ReadSo(ps), <<type, items>>)
  BY <1>7, <1>10, NextToken
<1>12. Close(w, type).json = next
  BY <1>8 DEF Written
<1> QED
  BY <1>1, <1>7, <1>8, <1>11, <1>12 DEF HasPut

\* The changes that the two make to what is innermost.
FirstSet(w, value) == [w EXCEPT !.stack[Len(w.stack)].first = value]
ExpectingSet(w, value) == [w EXCEPT !.stack[Len(w.stack)].expecting = value]
CommaSet(p, n, value) == [p EXCEPT !.stack[n].comma = value]
KeySet(p, n, value) == [p EXCEPT !.stack[n].key = value]
ItemsSet(p, n, value) == [p EXCEPT !.stack[n].items = value]

\* The top of the writer's and of the parser's stack, and what changes it.
LEMMA TopOfWriter ==
    ASSUME NEW ws, IsSeq(ws), NEW type, NEW first, NEW expecting, NEW json, NEW value,
           NEW w, w = Written(Append(ws, Context(type, first, expecting)), json)
    PROVE  /\ w.stack # <<>> /\ Len(w.stack) = Len(ws) + 1 /\ w.json = json
           /\ Top(w) = Context(type, first, expecting)
           /\ Top(w).type = type /\ Top(w).first = first /\ Top(w).expecting = expecting
           /\ FirstSet(w, value)
              = Written(Append(ws, Context(type, value, expecting)), json)
           /\ ExpectingSet(w, value)
              = Written(Append(ws, Context(type, first, value)), json)
<1> DEFINE c == Context(type, first, expecting)
           s == Append(ws, c)
           n == Len(ws) + 1
<1>0. w = Written(s, json)
  OBVIOUS
<1>1. c.type = type /\ c.first = first /\ c.expecting = expecting
      /\ [c EXCEPT !.first = value] = Context(type, value, expecting)
      /\ [c EXCEPT !.expecting = value] = Context(type, first, value)
  BY DEF Context
<1> HIDE DEF c
<1>2. s # <<>> /\ Len(s) = n /\ Last(s) = c /\ s[n] = c
  BY AppendAdds
<1>3. \A d : [s EXCEPT ![n] = d] = Append(ws, d)
  BY LastChanged
<1> HIDE DEF s, n
<1>4. w.stack = s /\ w.json = json /\ \A x : [w EXCEPT !.stack = x] = Written(x, json)
  BY <1>0 DEF Written
<1>5. Top(w) = c
  BY <1>2, <1>4 DEF Top
<1>6. FirstSet(w, value)
      = Written([s EXCEPT ![n] = [c EXCEPT !.first = value]], json)
  BY <1>2, <1>4 DEF FirstSet
<1>7. ExpectingSet(w, value)
      = Written([s EXCEPT ![n] = [c EXCEPT !.expecting = value]], json)
  BY <1>2, <1>4 DEF ExpectingSet
<1> QED
  BY <1>1, <1>2, <1>3, <1>4, <1>5, <1>6, <1>7 DEF s, n, c

\* Where the innermost of what is being read is kept.
Place(ps) == Len(ps) + 1

LEMMA TopOfParser ==
    ASSUME NEW ps, IsSeq(ps), NEW type, NEW items, NEW key, NEW comma, NEW value
    PROVE  LET p == ReadSo(Append(ps, Entered(type, items, key, comma)))
           IN  /\ p.ok /\ p.stack = Append(ps, Entered(type, items, key, comma))
               /\ Len(p.stack) = Place(ps) /\ p.stack[Place(ps)] = Entered(type, items, key, comma)
               /\ CommaSet(p, Place(ps), value)
                  = ReadSo(Append(ps, Entered(type, items, key, value)))
               /\ KeySet(p, Place(ps), value)
                  = ReadSo(Append(ps, Entered(type, items, value, comma)))
               /\ ItemsSet(p, Place(ps), value)
                  = ReadSo(Append(ps, Entered(type, value, key, comma)))
<1> DEFINE f == Entered(type, items, key, comma)
           s == Append(ps, f)
           p == ReadSo(s)
           n == Place(ps)
<1>1. /\ [f EXCEPT !.comma = value] = Entered(type, items, key, value)
      /\ [f EXCEPT !.key = value] = Entered(type, items, value, comma)
      /\ [f EXCEPT !.items = value] = Entered(type, value, key, comma)
  BY DEF Entered
<1> HIDE DEF f
<1>2. s # <<>> /\ Len(s) = n /\ s[n] = f
  BY AppendAdds DEF Place
<1>3. \A d : [s EXCEPT ![n] = d] = Append(ps, d)
  BY LastChanged DEF Place
<1> HIDE DEF s, n
<1>4. p.stack = s /\ \A x : [p EXCEPT !.stack = x] = ReadSo(x)
  BY DEF ReadSo
<1>5. p.ok
  BY DEF ReadSo, Yes
<1> HIDE DEF p
<1>6. CommaSet(p, n, value) = ReadSo([s EXCEPT ![n] = [f EXCEPT !.comma = value]])
  BY <1>2, <1>4 DEF CommaSet
<1>7. KeySet(p, n, value) = ReadSo([s EXCEPT ![n] = [f EXCEPT !.key = value]])
  BY <1>2, <1>4 DEF KeySet
<1>8. ItemsSet(p, n, value) = ReadSo([s EXCEPT ![n] = [f EXCEPT !.items = value]])
  BY <1>2, <1>4 DEF ItemsSet
<1>9. /\ CommaSet(p, n, value) = ReadSo(Append(ps, Entered(type, items, key, value)))
      /\ KeySet(p, n, value) = ReadSo(Append(ps, Entered(type, items, value, comma)))
      /\ ItemsSet(p, n, value) = ReadSo(Append(ps, Entered(type, value, key, comma)))
  BY <1>1, <1>3, <1>6, <1>7, <1>8
<1> QED
  BY <1>2, <1>4, <1>5, <1>9 DEF f, s, p, n


LEMMA StackOfWriter ==
    ASSUME NEW ws, IsSeq(ws), NEW type, NEW first, NEW expecting, NEW json,
           NEW w, w = Written(Append(ws, Context(type, first, expecting)), json)
    PROVE  /\ w.stack # <<>> /\ Len(w.stack) = Len(ws) + 1 /\ w.json = json
           /\ Top(w).type = type /\ Top(w).first = first /\ Top(w).expecting = expecting
<1>1. FirstSet(w, first) = Written(Append(ws, Context(type, first, expecting)), json)
  BY TopOfWriter
<1> QED
  BY <1>1, TopOfWriter

LEMMA StackOfParser ==
    ASSUME NEW ps, IsSeq(ps), NEW type, NEW items, NEW key, NEW comma
    PROVE  LET p == ReadSo(Append(ps, Entered(type, items, key, comma)))
           IN  /\ p.ok /\ p.stack = Append(ps, Entered(type, items, key, comma))
               /\ Len(p.stack) = Place(ps) /\ p.stack[Place(ps)] = Entered(type, items, key, comma)
<1>1. CommaSet(ReadSo(Append(ps, Entered(type, items, key, comma))), Place(ps), comma)
      = ReadSo(Append(ps, Entered(type, items, key, comma)))
  BY TopOfParser
<1> QED
  BY <1>1, TopOfParser

\* The parser takes a value as the next one of an array.
LEMMA AcceptedInArray ==
    ASSUME NEW ps, IsSeq(ps), NEW items, NEW comma, comma <=> items # <<>>, NEW v
    PROVE  AcceptValue(ReadSo(Append(ps, Entered("arr", items, <<>>, comma))), v)
           = ReadSo(Append(ps, Entered("arr", Append(items, v), <<>>, No)))
<1> DEFINE f == Entered("arr", items, <<>>, comma)
           p == ReadSo(Append(ps, f))
           more == Append(items, v)
           q == ReadSo(Append(ps, Entered("arr", more, <<>>, comma)))
           n == Place(ps)
<1>1. f.type = "arr" /\ f.items = items /\ f.key = <<>> /\ f.comma = comma
  BY DEF Entered
<1>2. HasRoom(f)
  BY <1>1 DEF HasRoom
<1> HIDE DEF more
<1>3. Len(p.stack) = n /\ p.stack[n] = f /\ ItemsSet(p, n, more) = q
  <2>1. Len(p.stack) = n /\ p.stack[n] = f
    BY StackOfParser
  <2>2. ItemsSet(p, n, more) = q
    BY TopOfParser
  <2> QED
    BY <2>1, <2>2
<1>4. CommaSet(q, n, No) = ReadSo(Append(ps, Entered("arr", more, <<>>, No)))
  BY TopOfParser
<1>5. Expect(p, HasRoom(f)) = p
  BY <1>2, StillOk
<1> HIDE DEF p, q, n, f
<1>6. AcceptValue(p, v) = [p EXCEPT !.stack[n].items = more, !.stack[n].comma = FALSE]
  BY <1>1, <1>3, <1>5 DEF AcceptValue, more
<1>7. [p EXCEPT !.stack[n].items = more, !.stack[n].comma = FALSE]
      = [ItemsSet(p, n, more) EXCEPT !.stack[n].comma = FALSE]
  BY DEF ItemsSet
<1>8. [q EXCEPT !.stack[n].comma = FALSE] = CommaSet(q, n, No)
  BY DEF CommaSet, No
<1>9. AcceptValue(p, v) = ReadSo(Append(ps, Entered("arr", more, <<>>, No)))
  BY <1>3, <1>4, <1>6, <1>7, <1>8
<1> QED
  BY <1>9 DEF p, f, more

\* The parser takes a value as that of the key it has just read.
LEMMA AcceptedAtKey ==
    ASSUME NEW ps, IsSeq(ps), NEW items, NEW key, NEW v
    PROVE  AcceptValue(ReadSo(Append(ps, Entered("obj", items, <<key>>, No))), v)
           = ReadSo(Append(ps, Entered("obj", Append(items, <<key, v>>), <<>>, No)))
<1> DEFINE f == Entered("obj", items, <<key>>, No)
           p == ReadSo(Append(ps, f))
           more == Append(items, <<key, v>>)
           q == ReadSo(Append(ps, Entered("obj", more, <<key>>, No)))
           n == Place(ps)
<1>1. f.type = "obj" /\ f.items = items /\ f.key = <<key>> /\ f.key # <<>> /\ f.key[1] = key
  BY DEF Entered
<1> HIDE DEF more
<1>3. Len(p.stack) = n /\ p.stack[n] = f /\ ItemsSet(p, n, more) = q
  <2>1. Len(p.stack) = n /\ p.stack[n] = f
    BY StackOfParser
  <2>2. ItemsSet(p, n, more) = q
    BY TopOfParser
  <2> QED
    BY <2>1, <2>2
<1>4. KeySet(q, n, <<>>) = ReadSo(Append(ps, Entered("obj", more, <<>>, No)))
  BY TopOfParser
<1>5. Expect(p, f.key # <<>>) = p
  BY <1>1, StillOk
<1> HIDE DEF p, q, n, f
<1>6. AcceptValue(p, v) = [p EXCEPT !.stack[n].items = more, !.stack[n].key = <<>>]
  BY <1>1, <1>3, <1>5 DEF AcceptValue, more
<1>7. [p EXCEPT !.stack[n].items = more, !.stack[n].key = <<>>]
      = [ItemsSet(p, n, more) EXCEPT !.stack[n].key = <<>>]
  BY DEF ItemsSet
<1>8. [q EXCEPT !.stack[n].key = <<>>] = KeySet(q, n, <<>>)
  BY DEF KeySet
<1>9. AcceptValue(p, v) = ReadSo(Append(ps, Entered("obj", more, <<>>, No)))
  BY <1>3, <1>4, <1>6, <1>7, <1>8
<1> QED
  BY <1>9 DEF p, f, more

\* A comma, unless the list is empty.
LEMMA PutComma ==
    ASSUME NEW w, NEW ws, NEW ps, NEW type, NEW items, InList(w, ws, ps, type, items)
    PROVE  \E json, comma :
              /\ comma <=> items # <<>>
              /\ IsSeq(json) /\ BeginValue(w) = Written(Append(ws, Context(type, No, No)), json)
              /\ Parsed(json) = ReadSo(Append(ps, Entered(type, items, <<>>, comma)))
<1> DEFINE u == BeginValue(w)
           json == w.json
           next == Append(json, <<",">>)
<1>1. /\ IsSeq(ws) /\ IsSeq(ps) /\ IsSeq(json)
      /\ w = Written(Append(ws, Context(type, IsFirst(items), No)), json)
      /\ Parsed(json) = ReadSo(Append(ps, Entered(type, items, <<>>, No)))
  BY DEF InList, Around
<1> HIDE DEF json
<1>2. /\ w.stack # <<>> /\ Top(w).first = IsFirst(items)
      /\ FirstSet(w, No) = Written(Append(ws, Context(type, No, No)), json)
  BY <1>1, TopOfWriter
<1>3. CASE items = <<>>
  <2>1. Top(w).first
    BY <1>2, <1>3 DEF IsFirst, Yes
  <2>2. u = FirstSet(w, No)
    BY <1>2, <2>1 DEF BeginValue, FirstSet, No
  <2>3. u = Written(Append(ws, Context(type, No, No)), json)
    BY <1>2, <2>2
  <2>4. No <=> items # <<>>
    BY <1>3 DEF No
  <2> HIDE DEF u
  <2> QED
    BY <1>1, <2>3, <2>4 DEF u
<1>4. CASE items # <<>>
  <2>1. ~Top(w).first /\ IsFirst(items) = No
    BY <1>2, <1>4 DEF IsFirst, No
  <2>2. u = Put(w, <<",">>)
    BY <1>2, <2>1 DEF BeginValue
  <2>3. u = Written(Append(ws, Context(type, No, No)), next) /\ IsSeq(next)
        /\ Parsed(next) = ParseNext(ReadSo(Append(ps, Entered(type, items, <<>>, No))), <<",">>)
    BY <1>1, <2>1, <2>2, PutToken
  <2> DEFINE f == Entered(type, items, <<>>, No)
             p == ReadSo(Append(ps, f))
  <2>4. f.items # <<>> /\ ~f.comma /\ f.key = <<>>
    BY <1>4 DEF Entered, No
  <2>5. p.stack[Len(p.stack)] = f /\ Len(p.stack) = Place(ps)
    BY <1>1, StackOfParser
  <2>10. CommaSet(p, Place(ps), Yes) = ReadSo(Append(ps, Entered(type, items, <<>>, Yes)))
    BY <1>1, TopOfParser
  <2>6. Expect(p, f.items # <<>> /\ ~f.comma /\ f.key = <<>>) = p
    BY <2>4, StillOk
  <2> HIDE DEF p, f, u, next
  <2>7. Consume(p, <<",">>) = CommaSet(p, Len(p.stack), Yes)
    BY <2>5, <2>6 DEF Consume, CommaSet, Yes
  <2>8. Parsed(next) = ReadSo(Append(ps, Entered(type, items, <<>>, Yes)))
    BY <2>3, <2>5, <2>7, <2>10, NextToken DEF p, f
  <2>9. Yes <=> items # <<>>
    BY <1>4 DEF Yes
  <2> QED
    BY <2>3, <2>8, <2>9 DEF u
<1> QED
  BY <1>3, <1>4

\* A key.
LEMMA PutKey ==
    ASSUME NEW w, NEW ws, NEW ps, NEW items, InList(w, ws, ps, "obj", items), NEW key
    PROVE  AtKey(WriteKey(w, key), ws, ps, items, key)
<1> DEFINE fits == w.stack # <<>> /\ Top(w).type = "obj" /\ ~Top(w).expecting
           token == <<"key", key>>
<1>1. /\ IsSeq(ws) /\ IsSeq(ps) /\ IsSeq(items)
      /\ w = Written(Append(ws, Context("obj", IsFirst(items), No)), w.json)
  BY DEF InList, Around
<1>2. fits
  <2>1. w.stack # <<>> /\ Top(w).type = "obj" /\ Top(w).expecting = No
    BY <1>1, StackOfWriter
  <2> QED
    BY <2>1 DEF No
<1>3. Assuming(w, fits) = w
  <2> HIDE DEF fits
  <2> QED
    BY <1>1, <1>2, StillHolds
<1>4. PICK json, comma :
              /\ comma <=> items # <<>>
              /\ IsSeq(json) /\ BeginValue(w) = Written(Append(ws, Context("obj", No, No)), json)
              /\ Parsed(json) = ReadSo(Append(ps, Entered("obj", items, <<>>, comma)))
  BY PutComma
<1> DEFINE next == Append(json, token)
           named == Put(BeginValue(w), token)
           frame == Entered("obj", items, <<>>, comma)
           p == ReadSo(Append(ps, frame))
           q == ReadSo(Append(ps, Entered("obj", items, <<key>>, comma)))
           n == Place(ps)
<1>5. /\ named = Written(Append(ws, Context("obj", No, No)), next) /\ IsSeq(next)
      /\ Parsed(next) = ParseNext(p, token)
  BY <1>4, PutToken
<1>6. p.stack[n] = frame /\ Len(p.stack) = n /\ KeySet(p, n, <<key>>) = q
  <2>1. p.stack[n] = frame /\ Len(p.stack) = n
    BY <1>1, StackOfParser
  <2>2. KeySet(p, n, <<key>>) = q
    BY <1>1, TopOfParser
  <2> QED
    BY <2>1, <2>2
<1>7. CommaSet(q, n, No) = ReadSo(Append(ps, Entered("obj", items, <<key>>, No)))
  BY <1>1, TopOfParser
<1>8. frame.type = "obj" /\ HasRoom(frame)
  BY <1>4 DEF Entered, HasRoom
<1>9. Expect(p, frame.type = "obj" /\ HasRoom(frame)) = p
  <2> HIDE DEF frame
  <2> QED
    BY <1>8, StillOk
<1>10. ParseNext(p, token) = Consume(p, token)
  BY NextToken
<1> HIDE DEF next, p, q, n, frame
<1>11. Consume(p, token) = [p EXCEPT !.stack[n].key = <<key>>, !.stack[n].comma = FALSE]
  BY <1>6, <1>9 DEF Consume
<1>12. [p EXCEPT !.stack[n].key = <<key>>, !.stack[n].comma = FALSE]
       = [KeySet(p, n, <<key>>) EXCEPT !.stack[n].comma = FALSE]
  BY DEF KeySet
<1>13. [q EXCEPT !.stack[n].comma = FALSE] = CommaSet(q, n, No)
  BY DEF CommaSet, No
<1>14. Parsed(next) = ReadSo(Append(ps, Entered("obj", items, <<key>>, No)))
  BY <1>5, <1>6, <1>7, <1>10, <1>11, <1>12, <1>13
<1>15. WriteKey(w, key) = ExpectingSet(named, Yes)
  <2>1. WriteKey(w, key) = [named EXCEPT !.stack[Len(named.stack)].expecting = TRUE]
    BY <1>3 DEF WriteKey
  <2> HIDE DEF named
  <2> QED
    BY <2>1 DEF ExpectingSet, Yes
<1> HIDE DEF named
<1>16. WriteKey(w, key) = Written(Append(ws, Context("obj", No, Yes)), next)
  BY <1>1, <1>5, <1>15, TopOfWriter
<1>17. WriteKey(w, key).json = next
  BY <1>16 DEF Written
<1> QED
  BY <1>1, <1>5, <1>14, <1>16, <1>17 DEF AtKey, Around

\* Behind a key, a value is next.
LEMMA KeyWaits ==
    ASSUME NEW w, NEW ws, NEW ps, NEW items, NEW key, AtKey(w, ws, ps, items, key)
    PROVE  Awaits(w, Append(ws, Context("obj", No, No)),
                  Append(ps, Entered("obj", items, <<key>>, No)))
<1>1. /\ IsSeq(ws) /\ IsSeq(ps) /\ IsSeq(w.json)
      /\ w = Written(Append(ws, Context("obj", No, Yes)), w.json)
      /\ Parsed(w.json) = ReadSo(Append(ps, Entered("obj", items, <<key>>, No)))
  BY DEF AtKey, Around
<1>2. w.stack # <<>> /\ Top(w).type = "obj" /\ Top(w).expecting
  <2>1. w.stack # <<>> /\ Top(w).type = "obj" /\ Top(w).expecting = Yes
    BY <1>1, StackOfWriter
  <2> QED
    BY <2>1 DEF Yes
<1>3. Assuming(w, Top(w).expecting) = w
  BY <1>1, <1>2, StillHolds
<1>4. PrepareValue(w) = ExpectingSet(w, No)
  BY <1>2, <1>3 DEF PrepareValue, ExpectingSet, No
<1>5. PrepareValue(w) = Written(Append(ws, Context("obj", No, No)), w.json)
  BY <1>1, <1>4, TopOfWriter
<1>6. PrepareValue(w).json = w.json
  BY <1>5 DEF Written
<1>7. IsSeq(Append(ws, Context("obj", No, No)))
      /\ IsSeq(Append(ps, Entered("obj", items, <<key>>, No)))
  BY <1>1, AppendAdds
<1> QED
  BY <1>1, <1>5, <1>6, <1>7 DEF Awaits, Around

\* In an array, a value is next.
LEMMA ItemWaits ==
    ASSUME NEW w, NEW ws, NEW ps, NEW items, InList(w, ws, ps, "arr", items)
    PROVE  \E comma : /\ comma <=> items # <<>>
                      /\ Awaits(w, Append(ws, Context("arr", No, No)),
                                Append(ps, Entered("arr", items, <<>>, comma)))
<1>1. /\ IsSeq(ws) /\ IsSeq(ps)
      /\ w = Written(Append(ws, Context("arr", IsFirst(items), No)), w.json)
  BY DEF InList, Around
<1>2. w.stack # <<>> /\ Top(w).type = "arr"
  BY <1>1, StackOfWriter
<1>3. PrepareValue(w) = BeginValue(w)
  BY <1>2 DEF PrepareValue
<1>4. PICK json, comma :
              /\ comma <=> items # <<>>
              /\ IsSeq(json) /\ BeginValue(w) = Written(Append(ws, Context("arr", No, No)), json)
              /\ Parsed(json) = ReadSo(Append(ps, Entered("arr", items, <<>>, comma)))
  BY PutComma
<1>5. PrepareValue(w).json = json
  BY <1>3, <1>4 DEF Written
<1>6. IsSeq(Append(ws, Context("arr", No, No)))
      /\ IsSeq(Append(ps, Entered("arr", items, <<>>, comma)))
  BY <1>1, AppendAdds
<1> QED
  BY <1>3, <1>4, <1>5, <1>6 DEF Awaits, Around

\* What turns w into u writes the value v, wherever one is next.
Writes(w, u, v) == \A ws, ps : Awaits(w, ws, ps) => HasPut(u, ws, ps, v)

\* An element of an array.
LEMMA ItemWritten ==
    ASSUME NEW w, NEW ws, NEW ps, NEW items, InList(w, ws, ps, "arr", items),
           NEW u, NEW v, Writes(w, u, v)
    PROVE  InList(u, ws, ps, "arr", Append(items, v))
<1>1. PICK comma :
          /\ comma <=> items # <<>>
          /\ Awaits(w, Append(ws, Context("arr", No, No)),
                    Append(ps, Entered("arr", items, <<>>, comma)))
  BY ItemWaits
<1>2. HasPut(u, Append(ws, Context("arr", No, No)),
             Append(ps, Entered("arr", items, <<>>, comma)), v)
  BY <1>1 DEF Writes
<1>3. /\ IsSeq(u.json) /\ u = Written(Append(ws, Context("arr", No, No)), u.json)
      /\ Parsed(u.json) = AcceptValue(ReadSo(Append(ps, Entered("arr", items, <<>>, comma))), v)
  BY <1>2 DEF HasPut
<1>4. IsSeq(ws) /\ IsSeq(ps) /\ IsSeq(items)
  BY DEF InList, Around
<1>5. Parsed(u.json) = ReadSo(Append(ps, Entered("arr", Append(items, v), <<>>, No)))
  BY <1>1, <1>3, <1>4, AcceptedInArray
<1>6. IsSeq(Append(items, v)) /\ IsFirst(Append(items, v)) = No
  BY <1>4, AppendAdds DEF IsFirst
<1> QED
  BY <1>3, <1>4, <1>5, <1>6 DEF InList, Around

\* A field of an object.
LEMMA FieldWritten ==
    ASSUME NEW w, NEW ws, NEW ps, NEW items, InList(w, ws, ps, "obj", items),
           NEW key, NEW u, NEW v, Writes(WriteKey(w, key), u, v)
    PROVE  InList(u, ws, ps, "obj", Append(items, <<key, v>>))
<1>1. AtKey(WriteKey(w, key), ws, ps, items, key)
  BY PutKey
<1>2. HasPut(u, Append(ws, Context("obj", No, No)),
             Append(ps, Entered("obj", items, <<key>>, No)), v)
  BY <1>1, KeyWaits DEF Writes
<1>3. /\ IsSeq(u.json) /\ u = Written(Append(ws, Context("obj", No, No)), u.json)
      /\ Parsed(u.json) = AcceptValue(ReadSo(Append(ps, Entered("obj", items, <<key>>, No))), v)
  BY <1>2 DEF HasPut
<1>4. IsSeq(ws) /\ IsSeq(ps) /\ IsSeq(items)
  BY DEF InList, Around
<1>5. Parsed(u.json) = ReadSo(Append(ps, Entered("obj", Append(items, <<key, v>>), <<>>, No)))
  BY <1>3, <1>4, AcceptedAtKey
<1>6. IsSeq(Append(items, <<key, v>>)) /\ IsFirst(Append(items, <<key, v>>)) = No
  BY <1>4, AppendAdds DEF IsFirst
<1> QED
  BY <1>3, <1>4, <1>5, <1>6 DEF InList, Around

\* A scalar, and a field that has one.
LEMMA ScalarWritten == ASSUME NEW w, NEW v PROVE Writes(w, WriteVal(w, v), v)
BY PutScalar DEF Writes

LEMMA ScalarField ==
    ASSUME NEW w, NEW ws, NEW ps, NEW items, InList(w, ws, ps, "obj", items), NEW key, NEW v
    PROVE  InList(WriteKeyVal(w, key, v), ws, ps, "obj", Append(items, <<key, v>>))
<1>1. Writes(WriteKey(w, key), WriteVal(WriteKey(w, key), v), v)
  BY ScalarWritten
<1> QED
  BY <1>1, FieldWritten DEF WriteKeyVal

\* What turns the begin of an array or object into u gives it its items.
Fills(w, u, type, items) ==
    \A ws, ps : InList(w, ws, ps, type, <<>>) => InList(u, ws, ps, type, items)

LEMMA ListWritten ==
    ASSUME NEW w, NEW u, NEW type, NEW items, Fills(Open(w, type), u, type, items)
    PROVE  Writes(w, Close(u, type), <<type, items>>)
<1> SUFFICES ASSUME NEW ws, NEW ps, Awaits(w, ws, ps)
             PROVE  HasPut(Close(u, type), ws, ps, <<type, items>>)
  BY DEF Writes
<1>1. InList(Open(w, type), ws, ps, type, <<>>)
  BY PutOpen
<1>2. InList(u, ws, ps, type, items)
  BY <1>1 DEF Fills
<1> QED
  BY <1>2, PutClose

\* What a walk writes: the items all after the first m of them.
LEMMA AllWritten ==
    ASSUME NEW how, NEW list, NEW f, NEW w, NEW N \in Nat, Walks(how, f, w, list, N),
           NEW all, IsSeq(all), NEW m \in Nat, Len(all) = m + N,
           NEW ws, NEW ps, NEW type, InList(w, ws, ps, type, Before(all, m)),
           \A j \in 1 .. N : \A u : InList(u, ws, ps, type, Before(all, m + j - 1)) =>
               InList(StepOf(how, u, list[j]), ws, ps, type,
                      Append(Before(all, m + j - 1), all[m + j]))
    PROVE  InList(f[N], ws, ps, type, all)
<1> DEFINE S == {k \in 0 .. N : InList(f[k], ws, ps, type, Before(all, m + k))}
<1>1. 0 \in S
  <2>1. m + 0 = m /\ f[0] = w
    BY DEF Walks
  <2> QED
    BY <2>1
<1>2. ASSUME NEW k \in 1 .. N, k - 1 \in S PROVE k \in S
  <2>1. m + (k - 1) = m + k - 1 /\ (m + k - 1) + 1 = m + k /\ m + k - 1 \in Nat
        /\ m + k - 1 < Len(all) /\ k \in 0 .. N
    OBVIOUS
  <2>2. InList(f[k - 1], ws, ps, type, Before(all, m + k - 1))
    BY <1>2, <2>1
  <2>3. f[k] = StepOf(how, f[k - 1], list[k])
    BY DEF Walks
  <2>4. InList(f[k], ws, ps, type, Append(Before(all, m + k - 1), all[m + k]))
    BY <2>2, <2>3
  <2>5. Append(Before(all, m + k - 1), all[m + k]) = Before(all, m + k)
    BY <2>1, OneMore
  <2> QED
    BY <2>1, <2>4, <2>5
<1>3. N \in S
  <2>1. 0 .. N \subseteq S
    <3> HIDE DEF S
    <3> QED
      BY <1>1, <1>2, UpTo
  <2> QED
    BY <2>1
<1>4. Before(all, m + N) = all
  BY AllOfIt
<1> QED
  BY <1>3, <1>4

LEMMA EachValue ==
    ASSUME NEW w, NEW list, Len(list) \in Nat
    PROVE  \E f : /\ Walks(<<"val">>, f, w, list, Len(list))
                 /\ Each(WriteVal, w, list) = f[Len(list)]
<1> DEFINE N == Len(list)
           how == <<"val">>
           Then(u, x) == CHOOSE next \in {WriteVal(before, x) : before \in {u}} : TRUE
           Is(f) == f = [n \in 0 .. N |-> IF n = 0 THEN w ELSE Then(f[n - 1], list[n])]
           after == CHOOSE f : Is(f)
<1>1. PICK g : g = [n \in 0 .. N |-> g[n]] /\ Walks(how, g, w, list, N)
  BY ThereIsAWalk
<1>2. \A x, y : StepOf(how, x, y) = Then(x, y)
  <2>1. \A x, y : StepOf(how, x, y) = WriteVal(x, y)
    BY DEF StepOf
  <2>2. \A x, y : {WriteVal(before, y) : before \in {x}} = {WriteVal(x, y)}
    OBVIOUS
  <2> QED
    BY <2>1, <2>2, TheOnlyOne
<1>3. Is(g)
  <2> HIDE DEF Then
  <2>1. \A n \in 0 .. N : g[n] = IF n = 0 THEN w ELSE Then(g[n - 1], list[n])
    BY <1>1, <1>2 DEF Walks
  <2> HIDE DEF how, N
  <2> QED
    BY <1>1, <2>1, Zenon
<1>4. Is(after)
  BY <1>3
<1>5. Each(WriteVal, w, list) = after[N]
  BY DEF Each
<1> HIDE DEF after, how, Then
<1>6. Walks(how, after, w, list, N)
  BY <1>2, <1>4 DEF Walks
<1> QED
  BY <1>5, <1>6 DEF how

LEMMA EachRow ==
    ASSUME NEW w, NEW list, Len(list) \in Nat
    PROVE  \E f : /\ Walks(<<"row">>, f, w, list, Len(list))
                 /\ Each(WriteRow, w, list) = f[Len(list)]
<1> DEFINE N == Len(list)
           how == <<"row">>
           Then(u, x) == CHOOSE next \in {WriteRow(before, x) : before \in {u}} : TRUE
           Is(f) == f = [n \in 0 .. N |-> IF n = 0 THEN w ELSE Then(f[n - 1], list[n])]
           after == CHOOSE f : Is(f)
<1>1. PICK g : g = [n \in 0 .. N |-> g[n]] /\ Walks(how, g, w, list, N)
  BY ThereIsAWalk
<1>2. \A x, y : StepOf(how, x, y) = Then(x, y)
  <2>1. \A x, y : StepOf(how, x, y) = WriteRow(x, y)
    BY DEF StepOf
  <2>2. \A x, y : {WriteRow(before, y) : before \in {x}} = {WriteRow(x, y)}
    OBVIOUS
  <2> QED
    BY <2>1, <2>2, TheOnlyOne
<1>3. Is(g)
  <2> HIDE DEF Then
  <2>1. \A n \in 0 .. N : g[n] = IF n = 0 THEN w ELSE Then(g[n - 1], list[n])
    BY <1>1, <1>2 DEF Walks
  <2> HIDE DEF how, N
  <2> QED
    BY <1>1, <2>1, Zenon
<1>4. Is(after)
  BY <1>3
<1>5. Each(WriteRow, w, list) = after[N]
  BY DEF Each
<1> HIDE DEF after, how, Then
<1>6. Walks(how, after, w, list, N)
  BY <1>2, <1>4 DEF Walks
<1> QED
  BY <1>5, <1>6 DEF how

LEMMA EachObject ==
    ASSUME NEW w, NEW list, Len(list) \in Nat
    PROVE  \E f : /\ Walks(<<"object">>, f, w, list, Len(list))
                 /\ Each(WriteObject, w, list) = f[Len(list)]
<1> DEFINE N == Len(list)
           how == <<"object">>
           Then(u, x) == CHOOSE next \in {WriteObject(before, x) : before \in {u}} : TRUE
           Is(f) == f = [n \in 0 .. N |-> IF n = 0 THEN w ELSE Then(f[n - 1], list[n])]
           after == CHOOSE f : Is(f)
<1>1. PICK g : g = [n \in 0 .. N |-> g[n]] /\ Walks(how, g, w, list, N)
  BY ThereIsAWalk
<1>2. \A x, y : StepOf(how, x, y) = Then(x, y)
  <2>1. \A x, y : StepOf(how, x, y) = WriteObject(x, y)
    BY DEF StepOf
  <2>2. \A x, y : {WriteObject(before, y) : before \in {x}} = {WriteObject(x, y)}
    OBVIOUS
  <2> QED
    BY <2>1, <2>2, TheOnlyOne
<1>3. Is(g)
  <2> HIDE DEF Then
  <2>1. \A n \in 0 .. N : g[n] = IF n = 0 THEN w ELSE Then(g[n - 1], list[n])
    BY <1>1, <1>2 DEF Walks
  <2> HIDE DEF how, N
  <2> QED
    BY <1>1, <2>1, Zenon
<1>4. Is(after)
  BY <1>3
<1>5. Each(WriteObject, w, list) = after[N]
  BY DEF Each
<1> HIDE DEF after, how, Then
<1>6. Walks(how, after, w, list, N)
  BY <1>2, <1>4 DEF Walks
<1> QED
  BY <1>5, <1>6 DEF how

LEMMA EachSystem ==
    ASSUME NEW w, NEW list, Len(list) \in Nat
    PROVE  \E f : /\ Walks(<<"system">>, f, w, list, Len(list))
                 /\ Each(WriteSystem, w, list) = f[Len(list)]
<1> DEFINE N == Len(list)
           how == <<"system">>
           Then(u, x) == CHOOSE next \in {WriteSystem(before, x) : before \in {u}} : TRUE
           Is(f) == f = [n \in 0 .. N |-> IF n = 0 THEN w ELSE Then(f[n - 1], list[n])]
           after == CHOOSE f : Is(f)
<1>1. PICK g : g = [n \in 0 .. N |-> g[n]] /\ Walks(how, g, w, list, N)
  BY ThereIsAWalk
<1>2. \A x, y : StepOf(how, x, y) = Then(x, y)
  <2>1. \A x, y : StepOf(how, x, y) = WriteSystem(x, y)
    BY DEF StepOf
  <2>2. \A x, y : {WriteSystem(before, y) : before \in {x}} = {WriteSystem(x, y)}
    OBVIOUS
  <2> QED
    BY <2>1, <2>2, TheOnlyOne
<1>3. Is(g)
  <2> HIDE DEF Then
  <2>1. \A n \in 0 .. N : g[n] = IF n = 0 THEN w ELSE Then(g[n - 1], list[n])
    BY <1>1, <1>2 DEF Walks
  <2> HIDE DEF how, N
  <2> QED
    BY <1>1, <2>1, Zenon
<1>4. Is(after)
  BY <1>3
<1>5. Each(WriteSystem, w, list) = after[N]
  BY DEF Each
<1> HIDE DEF after, how, Then
<1>6. Walks(how, after, w, list, N)
  BY <1>2, <1>4 DEF Walks
<1> QED
  BY <1>5, <1>6 DEF how

LEMMA EachProperty ==
    ASSUME NEW w, NEW object, Len(PropertiesOf[object.class]) \in Nat
    PROVE  LET list == PropertiesOf[object.class]
               opened == WriteKeyVal(Open(w, "obj"), "class", Str(object.class))
           IN  \E f : /\ Walks(<<"property", object>>, f, opened, list, Len(list))
                     /\ WriteObject(w, object) = Close(f[Len(list)], "obj")
<1> DEFINE list == PropertiesOf[object.class]
           opened == WriteKeyVal(Open(w, "obj"), "class", Str(object.class))
           N == Len(list)
           how == <<"property", object>>
           Step(u, x) == WriteValue(WriteKey(u, x.name), x, object.values[x.name])
           Then(u, x) == CHOOSE next \in {Step(before, x) : before \in {u}} : TRUE
           Is(f) == f = [n \in 0 .. N |-> IF n = 0 THEN opened ELSE Then(f[n - 1], list[n])]
           after == CHOOSE f : Is(f)
<1>1. PICK g : g = [n \in 0 .. N |-> g[n]] /\ Walks(how, g, opened, list, N)
  BY ThereIsAWalk
<1>2. \A x, y : StepOf(how, x, y) = Then(x, y)
  <2>1. \A x, y : StepOf(how, x, y) = Step(x, y)
    BY DEF StepOf
  <2>2. \A x, y : {Step(before, y) : before \in {x}} = {Step(x, y)}
    OBVIOUS
  <2> QED
    BY <2>1, <2>2, TheOnlyOne
<1>3. Is(g)
  <2>1. \A n \in 0 .. N : g[n] = IF n = 0 THEN opened ELSE Then(g[n - 1], list[n])
    <3>1. g[0] = opened /\ \A n \in 1 .. N : g[n] = StepOf(how, g[n - 1], list[n])
      BY <1>1 DEF Walks
    <3>2. \A n \in 1 .. N : g[n] = Then(g[n - 1], list[n])
      BY <1>2, <3>1
    <3>3. \A n \in 0 .. N : n = 0 \/ n \in 1 .. N
      OBVIOUS
    <3> HIDE DEF Then, opened, N, list
    <3> QED
      BY <3>1, <3>2, <3>3
  <2> HIDE DEF how, N, opened, Then
  <2> QED
    BY <1>1, <2>1, Zenon
<1>4. Is(after)
  BY <1>3
<1>5. WriteObject(w, object) = Close(after[N], "obj")
  BY DEF WriteObject, Each
<1> HIDE DEF after, how, Then, opened
<1>6. Walks(how, after, opened, list, N)
  BY <1>2, <1>4 DEF Walks
<1> QED
  BY <1>5, <1>6 DEF how, opened

LEMMA EachSpin ==
    ASSUME NEW w, NEW s, Len(SpinOrder(s)) \in Nat, DOMAIN s.spins # {}
    PROVE  LET list == SpinOrder(s)
               opened == Open(WriteKey(w, "spin_animations"), "arr")
           IN  \E f : /\ Walks(<<"spin", s>>, f, opened, list, Len(list))
                     /\ WriteSpins(w, s) = Close(f[Len(list)], "arr")
<1> DEFINE list == SpinOrder(s)
           opened == Open(WriteKey(w, "spin_animations"), "arr")
           N == Len(list)
           how == <<"spin", s>>
           Step(u, x) == WriteSpin(u, x, s.spins[x])
           Then(u, x) == CHOOSE next \in {Step(before, x) : before \in {u}} : TRUE
           Is(f) == f = [n \in 0 .. N |-> IF n = 0 THEN opened ELSE Then(f[n - 1], list[n])]
           after == CHOOSE f : Is(f)
<1>1. PICK g : g = [n \in 0 .. N |-> g[n]] /\ Walks(how, g, opened, list, N)
  BY ThereIsAWalk
<1>2. \A x, y : StepOf(how, x, y) = Then(x, y)
  <2>1. \A x, y : StepOf(how, x, y) = Step(x, y)
    BY DEF StepOf
  <2>2. \A x, y : {Step(before, y) : before \in {x}} = {Step(x, y)}
    OBVIOUS
  <2> QED
    BY <2>1, <2>2, TheOnlyOne
<1>3. Is(g)
  <2>1. \A n \in 0 .. N : g[n] = IF n = 0 THEN opened ELSE Then(g[n - 1], list[n])
    <3>1. g[0] = opened /\ \A n \in 1 .. N : g[n] = StepOf(how, g[n - 1], list[n])
      BY <1>1 DEF Walks
    <3>2. \A n \in 1 .. N : g[n] = Then(g[n - 1], list[n])
      BY <1>2, <3>1
    <3>3. \A n \in 0 .. N : n = 0 \/ n \in 1 .. N
      OBVIOUS
    <3> HIDE DEF Then, opened, N, list
    <3> QED
      BY <3>1, <3>2, <3>3
  <2> HIDE DEF how, N, opened, Then
  <2> QED
    BY <1>1, <2>1, Zenon
<1>4. Is(after)
  BY <1>3
<1>5. WriteSpins(w, s) = Close(after[N], "arr")
  BY DEF WriteSpins, WriteArray, Each
<1> HIDE DEF after, how, Then, opened
<1>6. Walks(how, after, opened, list, N)
  BY <1>2, <1>4 DEF Walks
<1> QED
  BY <1>5, <1>6 DEF how, opened

\* The elements of an array, written one after the other.
LEMMA ElementsWritten ==
    ASSUME NEW w, NEW how, NEW list, NEW N \in Nat, NEW f, Walks(how, f, Open(w, "arr"), list, N),
           NEW items, IsSeq(items), Len(items) = N,
           \A j \in 1 .. N : \A u : Writes(u, StepOf(how, u, list[j]), items[j])
    PROVE  Writes(w, Close(f[N], "arr"), Arr(items))
<1> DEFINE opened == Open(w, "arr")
<1>1. ASSUME NEW ws, NEW ps, InList(opened, ws, ps, "arr", <<>>)
      PROVE  InList(f[N], ws, ps, "arr", items)
  <2>1. Before(items, 0) = <<>> /\ Len(items) = 0 + N
    BY AllOfIt
  <2>2. ASSUME NEW j \in 1 .. N, NEW u, InList(u, ws, ps, "arr", Before(items, 0 + j - 1))
        PROVE  InList(StepOf(how, u, list[j]), ws, ps, "arr",
                      Append(Before(items, 0 + j - 1), items[0 + j]))
    <3>1. 0 + j = j /\ Writes(u, StepOf(how, u, list[j]), items[j])
      OBVIOUS
    <3>2. InList(StepOf(how, u, list[j]), ws, ps, "arr",
                 Append(Before(items, 0 + j - 1), items[j]))
      BY <2>2, <3>1, ItemWritten
    <3> QED
      BY <3>1, <3>2
  <2> HIDE DEF opened
  <2> QED
    BY <1>1, <2>1, <2>2, AllWritten DEF opened
<1>2. Fills(opened, f[N], "arr", items)
  BY <1>1 DEF Fills
<1> QED
  BY <1>2, ListWritten DEF Arr

\* An array of scalars.
LEMMA ScalarsWritten ==
    ASSUME NEW w, NEW items, IsSeq(items)
    PROVE  Writes(w, WriteArray(WriteVal, w, items), Arr(items))
<1> DEFINE N == Len(items)
<1>1. N \in Nat
  BY DEF IsSeq
<1>2. PICK f : /\ Walks(<<"val">>, f, Open(w, "arr"), items, N)
               /\ Each(WriteVal, Open(w, "arr"), items) = f[N]
  BY <1>1, EachValue
<1>3. WriteArray(WriteVal, w, items) = Close(f[N], "arr")
  BY <1>2 DEF WriteArray
<1>4. \A j \in 1 .. N : \A u : Writes(u, StepOf(<<"val">>, u, items[j]), items[j])
  BY ScalarWritten DEF StepOf
<1> DEFINE how == <<"val">>
           opened == Open(w, "arr")
<1>5. Walks(how, f, opened, items, N) /\ Len(items) = N
  BY <1>2
<1>6. \A j \in 1 .. N : \A u : Writes(u, StepOf(how, u, items[j]), items[j])
  BY <1>4
<1> HIDE DEF how, N
<1> QED
  BY <1>1, <1>3, <1>5, <1>6, ElementsWritten

LEMMA RowWritten ==
    ASSUME NEW w, NEW row, row = Arr(row[2]), IsSeq(row[2])
    PROVE  Writes(w, WriteRow(w, row), row)
BY ScalarsWritten DEF WriteRow

\* An array of rows.
LEMMA RowsWritten ==
    ASSUME NEW w, NEW items, IsSeq(items),
           \A i \in 1 .. Len(items) : items[i] = Arr(items[i][2]) /\ IsSeq(items[i][2])
    PROVE  Writes(w, WriteArray(WriteRow, w, items), Arr(items))
<1> DEFINE N == Len(items)
<1>1. N \in Nat
  BY DEF IsSeq
<1>2. PICK f : /\ Walks(<<"row">>, f, Open(w, "arr"), items, N)
               /\ Each(WriteRow, Open(w, "arr"), items) = f[N]
  BY <1>1, EachRow
<1>3. WriteArray(WriteRow, w, items) = Close(f[N], "arr")
  BY <1>2 DEF WriteArray
<1>4. \A j \in 1 .. N : \A u : Writes(u, StepOf(<<"row">>, u, items[j]), items[j])
  <2>1. \A u, v : StepOf(<<"row">>, u, v) = WriteRow(u, v)
    BY DEF StepOf
  <2> QED
    BY <2>1, RowWritten
<1> DEFINE how == <<"row">>
           opened == Open(w, "arr")
<1>5. Walks(how, f, opened, items, N) /\ Len(items) = N
  BY <1>2
<1>6. \A j \in 1 .. N : \A u : Writes(u, StepOf(how, u, items[j]), items[j])
  BY <1>4
<1> HIDE DEF how, N
<1> QED
  BY <1>1, <1>3, <1>5, <1>6, ElementsWritten

\* What fits a property.
LEMMA ValueWritten ==
    ASSUME NEW w, NEW property, property.kind \in Kinds, NEW v, Fits(property, v)
    PROVE  Writes(w, WriteValue(w, property, v), v)
<1>1. CASE property.kind = "mat"
  <2>1. v \in Matrices
    BY <1>1, FitsByKind DEF FitsAs, IsMat
  <2>2. v = Arr(v[2]) /\ v[2] \in [1 .. Components -> Vectors]
    BY <2>1 DEF Matrices, Arr
  <2>3. v[2] = [i \in 1 .. Components |-> v[2][i]]
    BY <2>2
  <2>4. IsSeq(v[2]) /\ Len(v[2]) = Components
    BY <2>3, Widths, ListIsSeq
  <2>5. ASSUME NEW i \in 1 .. Components PROVE v[2][i] = Arr(v[2][i][2]) /\ IsSeq(v[2][i][2])
    <3> DEFINE row == v[2][i]
    <3>1. row \in Vectors
      BY <2>2
    <3> HIDE DEF row
    <3>2. row = Arr(row[2]) /\ row[2] \in [1 .. Components -> Numbers]
      BY <3>1 DEF Vectors, Arr
    <3>3. row[2] = [k \in 1 .. Components |-> row[2][k]]
      BY <3>2
    <3>4. IsSeq(row[2])
      BY <3>3, Widths, ListIsSeq
    <3> QED
      BY <3>2, <3>4 DEF row
  <2>6. WriteValue(w, property, v) = WriteArray(WriteRow, w, v[2])
    BY <1>1 DEF WriteValue
  <2>7. Writes(w, WriteArray(WriteRow, w, v[2]), Arr(v[2]))
    BY <2>4, <2>5, RowsWritten
  <2> QED
    BY <2>2, <2>6, <2>7
<1>2. CASE property.kind \in {"list", "vec"}
  <2>1. v = Arr(v[2]) /\ IsSeq(v[2])
    <3>1. CASE property.kind = "list"
      <4>1. IsList(v)
        BY <3>1, FitsByKind DEF FitsAs
      <4> QED
        BY <4>1, PathsOfList, SeqIsSeq
    <3>2. CASE property.kind = "vec"
      <4>1. v \in Vectors
        BY <3>2, FitsByKind DEF FitsAs, IsVec
      <4>2. v = Arr(v[2]) /\ v[2] \in [1 .. Components -> Numbers]
        BY <4>1 DEF Vectors, Arr
      <4>3. v[2] = [k \in 1 .. Components |-> v[2][k]]
        BY <4>2
      <4> QED
        BY <4>2, <4>3, Widths, ListIsSeq
    <3> QED
      BY <1>2, <3>1, <3>2
  <2>2. WriteValue(w, property, v) = WriteArray(WriteVal, w, v[2])
    BY <1>2 DEF WriteValue
  <2>3. Writes(w, WriteArray(WriteVal, w, v[2]), Arr(v[2]))
    BY <2>1, ScalarsWritten
  <2> QED
    BY <2>1, <2>2, <2>3
<1>3. CASE property.kind \notin {"mat", "list", "vec"}
  <2>1. WriteValue(w, property, v) = WriteVal(w, v)
    BY <1>3 DEF WriteValue
  <2> QED
    BY <2>1, ScalarWritten
<1> QED
  BY <1>1, <1>2, <1>3

-----------------------------------------------------------------------------
(* What is written for an object, a spin animation and a scene.             *)

\* The fields of an object: its class, and its properties in order.
FieldAt(o, i) ==
    IF i = 1 THEN <<"class", Str(o.class)>>
    ELSE LET name == PropertiesOf[o.class][i - 1].name IN <<name, o.values[name]>>

EntryOf(o) == <<"obj", [i \in 1 .. Len(PropertiesOf[o.class]) + 1 |-> FieldAt(o, i)]>>

\* The properties of a class, in order.
LEMMA PropertiesInOrder ==
    ASSUME NEW c \in Classes
    PROVE  /\ Len(PropertiesOf[c]) \in Nat /\ DOMAIN PropertiesOf[c] = 1 .. Len(PropertiesOf[c])
           /\ \A i \in 1 .. Len(PropertiesOf[c]) :
                 /\ PropertiesOf[c][i] \in Range(PropertiesOf[c])
                 /\ PropertiesOf[c][i] \in Properties
           /\ \A p \in Range(PropertiesOf[c]) :
                 \E i \in 1 .. Len(PropertiesOf[c]) : p = PropertiesOf[c][i]
           /\ \A i, j \in 1 .. Len(PropertiesOf[c]) :
                 PropertiesOf[c][i].name = PropertiesOf[c][j].name => i = j
<1> DEFINE s == PropertiesOf[c]
<1>1. s \in Seq(Properties) /\ IsInjective([i \in DOMAIN s |-> s[i].name])
  BY ClassesAreClasses DEF IsClass
<1> HIDE DEF s
<1>2. Len(s) \in Nat /\ DOMAIN s = 1 .. Len(s)
  BY <1>1, LenProperties
<1>3. Range(s) = {s[i] : i \in DOMAIN s}
  BY DEF Range
<1>4. \A i, j \in DOMAIN s : s[i].name = s[j].name => i = j
  BY <1>1 DEF IsInjective
<1>5. \A i \in DOMAIN s : s[i] \in Properties
  BY <1>1, ElementOfSeq, LenProperties
<1> QED
  BY <1>2, <1>3, <1>4, <1>5 DEF s

LEMMA ObjectWritten ==
    ASSUME NEW w, NEW o \in ObjectSet
    PROVE  Writes(w, WriteObject(w, o), EntryOf(o))
<1> DEFINE c == o.class
           list == PropertiesOf[c]
           N == Len(list)
           all == [i \in 1 .. N + 1 |-> FieldAt(o, i)]
           opened == WriteKeyVal(Open(w, "obj"), "class", Str(c))
           how == <<"property", o>>
<1>0. c \in Classes /\ o.values \in ValuesOf(c)
  BY ObjectIsObject DEF IsObject
<1>1. N \in Nat /\ \A i \in 1 .. N : list[i] \in Range(list) /\ list[i] \in Properties
  BY <1>0, PropertiesInOrder
<1>2. PICK f : Walks(how, f, opened, list, N) /\ WriteObject(w, o) = Close(f[N], "obj")
  BY <1>1, EachProperty
<1>3. \A u, x : StepOf(how, u, x) = WriteValue(WriteKey(u, x.name), x, o.values[x.name])
  BY DEF StepOf
<1>4. /\ all = [i \in 1 .. N + 1 |-> all[i]] /\ all[1] = <<"class", Str(c)>>
      /\ \A j \in 1 .. N : all[1 + j] = <<list[j].name, o.values[list[j].name]>>
  <2>1. all[1] = <<"class", Str(c)>>
    BY <1>1 DEF FieldAt
  <2>2. ASSUME NEW j \in 1 .. N PROVE all[1 + j] = <<list[j].name, o.values[list[j].name]>>
    <3>1. 1 + j \in 1 .. N + 1 /\ 1 + j # 1 /\ (1 + j) - 1 = j
      BY <1>1
    <3> QED
      BY <3>1 DEF FieldAt
  <2> QED
    BY <2>1, <2>2
<1>5. EntryOf(o) = <<"obj", all>>
  BY DEF EntryOf
<1> HIDE DEF all, how
<1>6. IsSeq(all) /\ Len(all) = 1 + N
  BY <1>1, <1>4, ListIsSeq
<1>7. Before(all, 1) = Append(<<>>, <<"class", Str(c)>>)
  <2>1. 0 \in Nat /\ 0 < Len(all) /\ 0 + 1 = 1
    BY <1>1, <1>6
  <2>2. Append(Before(all, 0), all[0 + 1]) = Before(all, 0 + 1)
    BY <1>6, <2>1, OneMore
  <2>3. Append(Before(all, 0), all[1]) = Before(all, 1)
    BY <2>1, <2>2
  <2>4. Before(all, 0) = <<>>
    BY <1>6, AllOfIt
  <2> QED
    BY <1>4, <2>3, <2>4
<1>8. ASSUME NEW ws, NEW ps, InList(Open(w, "obj"), ws, ps, "obj", <<>>)
      PROVE  InList(f[N], ws, ps, "obj", all)
  <2>1. InList(opened, ws, ps, "obj", Before(all, 1))
    BY <1>7, <1>8, ScalarField
  <2>2. ASSUME NEW j \in 1 .. N, NEW u, InList(u, ws, ps, "obj", Before(all, 1 + j - 1))
        PROVE  InList(StepOf(how, u, list[j]), ws, ps, "obj",
                      Append(Before(all, 1 + j - 1), all[1 + j]))
    <3> DEFINE p == list[j]
               v == o.values[p.name]
    <3>1. Fits(p, v) /\ p.kind \in Kinds
      <4>1. p \in Range(list) /\ p \in Properties
        BY <1>1
      <4>2. Fits(p, v)
        BY <1>0, <4>1, ValuesFit
      <4>3. p.kind \in Kinds
        BY <4>1, RangeIsRange
      <4> QED
        BY <4>2, <4>3
    <3>2. Writes(WriteKey(u, p.name), WriteValue(WriteKey(u, p.name), p, v), v)
      BY <3>1, ValueWritten
    <3>3. InList(WriteValue(WriteKey(u, p.name), p, v), ws, ps, "obj",
                 Append(Before(all, 1 + j - 1), <<p.name, v>>))
      <4> HIDE DEF p, v
      <4> QED
        BY <2>2, <3>2, FieldWritten
    <3> QED
      BY <1>3, <1>4, <3>3
  <2> HIDE DEF opened, list, N
  <2> QED
    BY <1>1, <1>2, <1>6, <2>1, <2>2, AllWritten
<1>9. Fills(Open(w, "obj"), f[N], "obj", all)
  BY <1>8 DEF Fills
<1> QED
  BY <1>2, <1>5, <1>9, ListWritten

\* A spin animation.
SpinFields(spin) ==
    Append(Append(Append(<<>>, <<"angular_speed", Num(spin.speed)>>),
                  <<"phase_offset", Num(spin.phase)>>),
           <<"translation", Nums(spin.translation)>>)

SpinEntry(id, spin) ==
    <<"obj", Append(Append(<<>>, <<"object_id", Num(id)>>),
                    <<"spin_animation", <<"obj", SpinFields(spin)>>>>)>>

LEMMA SpinWritten ==
    ASSUME NEW w, NEW id, NEW spin \in SpinAnimations
    PROVE  Writes(w, WriteSpin(w, id, spin), SpinEntry(id, spin))
<1> DEFINE opened == WriteKeyVal(Open(w, "obj"), "object_id", Num(id))
           key == WriteKey(opened, "spin_animation")
           speed == WriteKeyVal(Open(key, "obj"), "angular_speed", Num(spin.speed))
           phase == WriteKeyVal(speed, "phase_offset", Num(spin.phase))
           row == Nums(spin.translation)
           moved == WriteRow(WriteKey(phase, "translation"), row)
           one == Append(<<>>, <<"angular_speed", Num(spin.speed)>>)
           two == Append(one, <<"phase_offset", Num(spin.phase)>>)
           fields == SpinFields(spin)
           first == Append(<<>>, <<"object_id", Num(id)>>)
<1>1. WriteSpin(w, id, spin) = Close(Close(moved, "obj"), "obj")
  BY DEF WriteSpin
<1>2. row = Arr(row[2]) /\ IsSeq(row[2])
  <2> DEFINE t == spin.translation
             list == [i \in DOMAIN t |-> Num(t[i])]
             n == Components - 1
  <2>1. t \in [1 .. n -> Int] /\ n \in Nat
    BY Widths DEF SpinAnimations
  <2> HIDE DEF t, n
  <2>2. list = [i \in 1 .. n |-> list[i]]
    BY <2>1
  <2> HIDE DEF list
  <2>3. IsSeq(list)
    BY <2>1, <2>2, ListIsSeq
  <2>4. row = <<"arr", list>>
    BY DEF Nums, Arr, list, t
  <2> HIDE DEF row
  <2> QED
    BY <2>3, <2>4 DEF Arr
<1>3. fields = Append(two, <<"translation", row>>)
  BY DEF SpinFields
<1>4. SpinEntry(id, spin) = <<"obj", Append(first, <<"spin_animation", <<"obj", fields>>>>)>>
  BY DEF SpinEntry
<1>5. Fills(Open(key, "obj"), moved, "obj", fields)
  <2> SUFFICES ASSUME NEW ws, NEW ps, InList(Open(key, "obj"), ws, ps, "obj", <<>>)
               PROVE  InList(moved, ws, ps, "obj", fields)
    BY DEF Fills
  <2>1. InList(speed, ws, ps, "obj", one)
    BY ScalarField
  <2>2. InList(phase, ws, ps, "obj", two)
    <3> HIDE DEF speed, one
    <3> QED
      BY <2>1, ScalarField
  <2>3. Writes(WriteKey(phase, "translation"), moved, row)
    <3> HIDE DEF phase, row
    <3> QED
      BY <1>2, RowWritten
  <2> HIDE DEF phase, two, row, moved, fields
  <2>4. InList(moved, ws, ps, "obj", Append(two, <<"translation", row>>))
    BY <2>2, <2>3, FieldWritten
  <2> QED
    BY <1>3, <2>4
<1>6. Writes(key, Close(moved, "obj"), <<"obj", fields>>)
  <2> HIDE DEF key, moved, fields
  <2> QED
    BY <1>5, ListWritten
<1>7. Fills(Open(w, "obj"), Close(moved, "obj"), "obj",
            Append(first, <<"spin_animation", <<"obj", fields>>>>))
  <2> SUFFICES ASSUME NEW ws, NEW ps, InList(Open(w, "obj"), ws, ps, "obj", <<>>)
               PROVE  InList(Close(moved, "obj"), ws, ps, "obj",
                             Append(first, <<"spin_animation", <<"obj", fields>>>>))
    BY DEF Fills
  <2>1. InList(opened, ws, ps, "obj", first)
    BY ScalarField
  <2> HIDE DEF opened, first, moved, fields
  <2> QED
    BY <1>6, <2>1, FieldWritten
<1> HIDE DEF moved, fields, first
<1> QED
  BY <1>1, <1>4, <1>7, ListWritten

\* The spin animations in some order.
LEMMA SpinsInOrder ==
    ASSUME NEW s \in SceneSet
    PROVE  /\ Len(SpinOrder(s)) \in Nat
           /\ \A j \in 1 .. Len(SpinOrder(s)) : SpinOrder(s)[j] \in DOMAIN s.spins
           /\ \A id \in DOMAIN s.spins : \E j \in 1 .. Len(SpinOrder(s)) : id = SpinOrder(s)[j]
<1> DEFINE S == DOMAIN s.spins
           list == SpinOrder(s)
<1>1. S \in SUBSET (0 .. 2 * Width - 1) /\ 0 \in Int /\ 2 * Width - 1 \in Int
  <2>1. S \subseteq Ids
    <3>1. s.spins \in SpinMaps
      BY DEF SceneSet
    <3> QED
      BY <3>1 DEF SpinMaps
  <2> HIDE DEF S
  <2> QED
    BY <2>1, Widths DEF Ids
<1>2. IsFiniteSet(S)
  <2> HIDE DEF S
  <2>1. IsFiniteSet(0 .. 2 * Width - 1)
    BY <1>1, FS_Interval
  <2> QED
    BY <1>1, <2>1, FS_Subset
<1> HIDE DEF S
<1>3. PICK n \in Nat : ExistsBijection(1 .. n, S)
  BY <1>2, FS_NatBijection
<1>4. Cardinality(S) = n
  BY <1>3, FS_CountingElements
<1>5. PICK f : f \in [1 .. n -> S] /\ IsInjective(f)
  BY <1>3 DEF ExistsBijection, Bijection, Injection
<1>6. list = CHOOSE g \in [1 .. n -> S] : IsInjective(g)
  BY <1>4 DEF SpinOrder, SetToSeq, S
<1>7. list \in [1 .. n -> S] /\ IsInjective(list)
  BY <1>5, <1>6
<1> HIDE DEF list
<1>8. list \in Injection(1 .. n, S)
  BY <1>7 DEF Injection
<1>9. list \in Surjection(1 .. n, S)
  <2> DEFINE T == Range(list)
  <2>1. T \in SUBSET S
    BY <1>7 DEF Range
  <2>2. list \in [1 .. n -> T] /\ \A x \in T : \E i \in 1 .. n : list[i] = x
    BY <1>7 DEF Range
  <2> HIDE DEF T
  <2>3. list \in Bijection(1 .. n, T)
    BY <1>7, <2>2 DEF Bijection, Injection, Surjection
  <2>4. Cardinality(T) = n
    BY <2>3, FS_CountingElements DEF ExistsBijection
  <2>5. S = T
    BY <1>2, <1>4, <2>1, <2>4, FS_Subset
  <2> QED
    BY <2>2, <2>5 DEF Surjection
<1>10. list = [i \in 1 .. n |-> list[i]]
  BY <1>7
<1>11. Len(list) = n
  BY <1>10, ListIsSeq
<1>12. \A id \in S : \E j \in 1 .. n : id = list[j]
  BY <1>9 DEF Surjection
<1> QED
  BY <1>7, <1>11, <1>12 DEF S, list

ObjectEntries(s) == [i \in 1 .. Len(s.objects) |-> EntryOf(s.objects[i])]

SpinEntries(s) ==
    [i \in 1 .. Len(SpinOrder(s)) |-> SpinEntry(SpinOrder(s)[i], s.spins[SpinOrder(s)[i]])]

SystemEntries(s) == [i \in 1 .. Len(s.systems) |-> Str(s.systems[i])]

UpToObjects(s) ==
    Append(Append(Append(<<>>, <<"time", Num(s.time)>>), <<"paused", <<"bool", s.paused>>>>),
           <<"objects", Arr(ObjectEntries(s))>>)

UpToSpins(s) ==
    IF DOMAIN s.spins = {} THEN UpToObjects(s)
    ELSE Append(UpToObjects(s), <<"spin_animations", Arr(SpinEntries(s))>>)

DocumentOf(s) == <<"obj", Append(UpToSpins(s), <<"systems", Arr(SystemEntries(s))>>)>>

LEMMA ObjectsWritten ==
    ASSUME NEW s \in SceneSet, NEW w
    PROVE  Writes(w, WriteArray(WriteObject, w, s.objects), Arr(ObjectEntries(s)))
<1> DEFINE list == s.objects
           N == Len(list)
           items == ObjectEntries(s)
           how == <<"object">>
           opened == Open(w, "arr")
<1>1. N \in Nat /\ \A j \in 1 .. N : list[j] \in ObjectSet
  BY ObjectsOfScene
<1>2. items = [i \in 1 .. N |-> items[i]] /\ \A j \in 1 .. N : items[j] = EntryOf(list[j])
  BY DEF ObjectEntries
<1>3. PICK f : Walks(how, f, opened, list, N) /\ Each(WriteObject, opened, list) = f[N]
  BY <1>1, EachObject
<1>4. WriteArray(WriteObject, w, list) = Close(f[N], "arr")
  BY <1>3 DEF WriteArray
<1>5. \A u, v : StepOf(how, u, v) = WriteObject(u, v)
  BY DEF StepOf
<1> HIDE DEF how, N, items, list
<1>6. IsSeq(items) /\ Len(items) = N
  BY <1>1, <1>2, ListIsSeq
<1>7. \A j \in 1 .. N : \A u : Writes(u, StepOf(how, u, list[j]), items[j])
  BY <1>1, <1>2, <1>5, ObjectWritten
<1>8. Writes(w, Close(f[N], "arr"), Arr(items))
  BY <1>1, <1>3, <1>6, <1>7, ElementsWritten
<1> QED
  BY <1>4, <1>8 DEF items, list

LEMMA SpinsWritten ==
    ASSUME NEW s \in SceneSet, DOMAIN s.spins # {}, NEW w
    PROVE  Writes(WriteKey(w, "spin_animations"), WriteSpins(w, s), Arr(SpinEntries(s)))
<1> DEFINE list == SpinOrder(s)
           N == Len(list)
           items == SpinEntries(s)
           how == <<"spin", s>>
           key == WriteKey(w, "spin_animations")
           opened == Open(key, "arr")
<1>1. N \in Nat /\ \A j \in 1 .. N : s.spins[list[j]] \in SpinAnimations
  <2>1. \A id \in DOMAIN s.spins : s.spins[id] \in SpinAnimations
    BY DEF SceneSet, SpinMaps
  <2> QED
    BY <2>1, SpinsInOrder
<1>2. items = [i \in 1 .. N |-> items[i]]
      /\ \A j \in 1 .. N : items[j] = SpinEntry(list[j], s.spins[list[j]])
  BY DEF SpinEntries
<1>3. PICK f : Walks(how, f, opened, list, N) /\ WriteSpins(w, s) = Close(f[N], "arr")
  BY <1>1, EachSpin
<1>5. \A u, v : StepOf(how, u, v) = WriteSpin(u, v, s.spins[v])
  BY DEF StepOf
<1> HIDE DEF how, N, items, list, key
<1>6. IsSeq(items) /\ Len(items) = N
  BY <1>1, <1>2, ListIsSeq
<1>7. \A j \in 1 .. N : \A u : Writes(u, StepOf(how, u, list[j]), items[j])
  BY <1>1, <1>2, <1>5, SpinWritten
<1>8. Writes(key, Close(f[N], "arr"), Arr(items))
  BY <1>1, <1>3, <1>6, <1>7, ElementsWritten
<1> QED
  BY <1>3, <1>8 DEF items, key

LEMMA SystemsWritten ==
    ASSUME NEW s \in SceneSet, NEW w
    PROVE  Writes(w, WriteArray(WriteSystem, w, s.systems), Arr(SystemEntries(s)))
<1> DEFINE list == s.systems
           N == Len(list)
           items == SystemEntries(s)
           how == <<"system">>
           opened == Open(w, "arr")
<1>1. N \in Nat
  <2>1. s.systems \in Seq(Systems)
    BY DEF SceneSet
  <2> QED
    BY <2>1, LenProperties
<1>2. items = [i \in 1 .. N |-> items[i]] /\ \A j \in 1 .. N : items[j] = Str(list[j])
  BY DEF SystemEntries
<1>3. PICK f : Walks(how, f, opened, list, N) /\ Each(WriteSystem, opened, list) = f[N]
  BY <1>1, EachSystem
<1>4. WriteArray(WriteSystem, w, list) = Close(f[N], "arr")
  BY <1>3 DEF WriteArray
<1>5. \A u, v : StepOf(how, u, v) = WriteVal(u, Str(v))
  BY DEF StepOf, WriteSystem
<1> HIDE DEF how, N, items, list
<1>6. IsSeq(items) /\ Len(items) = N
  BY <1>1, <1>2, ListIsSeq
<1>7. \A j \in 1 .. N : \A u : Writes(u, StepOf(how, u, list[j]), items[j])
  BY <1>1, <1>2, <1>5, ScalarWritten
<1>8. Writes(w, Close(f[N], "arr"), Arr(items))
  BY <1>1, <1>3, <1>6, <1>7, ElementsWritten
<1> QED
  BY <1>4, <1>8 DEF items, list

\* The text is the only entry of what the parser begins with.
Outside == Append(<<>>, Entered("arr", <<>>, <<>>, No))

LEMMA RootWaits == Awaits(NewWriter, <<>>, Outside)
<1>1. NewWriter = Written(<<>>, <<>>) /\ NewWriter.stack = <<>> /\ NewWriter.json = <<>>
  BY DEF NewWriter, Written, Yes
<1>2. PrepareValue(NewWriter) = NewWriter
  <2>1. \A w : w.stack = <<>> => PrepareValue(w) = w
    BY DEF PrepareValue, BeginValue
  <2> QED
    BY <1>1, <2>1
<1>3. NewParser = ReadSo(Outside)
  <2>1. Frame("arr") = Entered("arr", <<>>, <<>>, No)
    BY DEF Frame, Entered, No
  <2>2. Append(<<>>, Frame("arr")) = <<Frame("arr")>>
    OBVIOUS
  <2>3. NewParser = ReadSo(<<Frame("arr")>>)
    BY DEF NewParser, ReadSo, Yes
  <2> QED
    BY <2>1, <2>2, <2>3 DEF Outside
<1>4. IsSeq(<<>>) /\ IsSeq(Outside)
  BY EmptyIsSeq, AppendAdds DEF Outside
<1> QED
  BY <1>1, <1>2, <1>3, <1>4, ParsedNothing DEF Awaits, Around

\* A scene is written as its document.
LEMMA SavedWritten ==
    ASSUME NEW s \in SceneSet
    PROVE  HasPut(Saved(s), <<>>, Outside, DocumentOf(s))
<1> DEFINE opened == Open(NewWriter, "obj")
           time == WriteKeyVal(opened, "time", Num(s.time))
           paused == WriteKeyVal(time, "paused", <<"bool", s.paused>>)
           objects == WriteArray(WriteObject, WriteKey(paused, "objects"), s.objects)
           spins == WriteSpins(objects, s)
           systems == WriteArray(WriteSystem, WriteKey(spins, "systems"), s.systems)
           one == Append(<<>>, <<"time", Num(s.time)>>)
           two == Append(one, <<"paused", <<"bool", s.paused>>>>)
           three == UpToObjects(s)
           four == UpToSpins(s)
           all == Append(four, <<"systems", Arr(SystemEntries(s))>>)
           In(w, items) == InList(w, <<>>, Outside, "obj", items)
<1>1. Saved(s) = Close(systems, "obj")
  BY DEF Saved
<1>2. DocumentOf(s) = <<"obj", all>>
  BY DEF DocumentOf
<1>3. In(opened, <<>>)
  BY RootWaits, PutOpen
<1>4. In(time, one)
  <2> HIDE DEF opened
  <2> QED
    BY <1>3, ScalarField
<1>5. In(paused, two)
  <2> HIDE DEF time, one
  <2> QED
    BY <1>4, ScalarField
<1>6. In(objects, three)
  <2>1. Writes(WriteKey(paused, "objects"), objects, Arr(ObjectEntries(s)))
    BY ObjectsWritten
  <2>2. three = Append(two, <<"objects", Arr(ObjectEntries(s))>>)
    BY DEF UpToObjects
  <2> HIDE DEF paused, objects, two, three
  <2> QED
    BY <1>5, <2>1, <2>2, FieldWritten
<1>7. In(spins, four)
  <2>1. CASE DOMAIN s.spins = {}
    <3>1. spins = objects /\ four = three
      BY <2>1 DEF WriteSpins, UpToSpins
    <3> QED
      BY <1>6, <3>1
  <2>2. CASE DOMAIN s.spins # {}
    <3>1. Writes(WriteKey(objects, "spin_animations"), spins, Arr(SpinEntries(s)))
      BY <2>2, SpinsWritten
    <3>2. four = Append(three, <<"spin_animations", Arr(SpinEntries(s))>>)
      BY <2>2 DEF UpToSpins
    <3> HIDE DEF objects, spins, three, four
    <3> QED
      BY <1>6, <3>1, <3>2, FieldWritten
  <2> QED
    BY <2>1, <2>2
<1>8. In(systems, all)
  <2>1. Writes(WriteKey(spins, "systems"), systems, Arr(SystemEntries(s)))
    BY SystemsWritten
  <2> HIDE DEF spins, systems, four
  <2> QED
    BY <1>7, <2>1, FieldWritten
<1> HIDE DEF systems, all
<1>9. HasPut(Close(systems, "obj"), <<>>, Outside, <<"obj", all>>)
  BY <1>8, PutClose
<1> QED
  BY <1>1, <1>2, <1>9

\* The writer's assertions hold, and the parser finds that document.
LEMMA SceneIsSaved ==
    ASSUME NEW s \in SceneSet
    PROVE  /\ Saved(s).assertsHold /\ Saved(s).stack = <<>>
           /\ IsJson(Parsed(Saved(s).json))
           /\ Parsed(Saved(s).json).stack[1].items[1] = DocumentOf(s)
<1> DEFINE w == Saved(s)
           v == DocumentOf(s)
           f == Entered("arr", Append(<<>>, v), <<>>, No)
           p == Parsed(w.json)
<1>1. /\ w = Written(<<>>, w.json)
      /\ p = AcceptValue(ReadSo(Outside), v)
  BY SavedWritten DEF HasPut
<1>2. w.assertsHold = Yes /\ w.stack = <<>>
  <2> HIDE DEF w
  <2> QED
    BY <1>1 DEF Written
<1>3. p = ReadSo(Append(<<>>, f))
  <2>1. IsSeq(<<>>) /\ (No <=> <<>> # <<>>)
    BY EmptyIsSeq DEF No
  <2> HIDE DEF p, v
  <2>2. AcceptValue(ReadSo(Append(<<>>, Entered("arr", <<>>, <<>>, No))), v)
        = ReadSo(Append(<<>>, Entered("arr", Append(<<>>, v), <<>>, No)))
    BY <2>1, AcceptedInArray
  <2> QED
    BY <1>1, <2>2 DEF Outside
<1> HIDE DEF p, f, v
<1>4. p.ok = Yes /\ p.stack = Append(<<>>, f)
  BY <1>3 DEF ReadSo
<1>5. Len(p.stack) = 1 /\ p.stack[1] = f
  BY <1>4
<1>6. f.items = Append(<<>>, v)
  BY DEF f, Entered
<1>7. Len(f.items) = 1 /\ f.items[1] = v
  BY <1>6
<1>8. IsJson(p)
  BY <1>4, <1>5, <1>7 DEF IsJson, Yes
<1>9. w.assertsHold
  BY <1>2 DEF Yes
<1> QED
  BY <1>2, <1>5, <1>7, <1>8, <1>9 DEF p, v

-----------------------------------------------------------------------------
(* The document of a scene is a JSON value.                                 *)

\* What scalars, arrays and objects are at which depth.
LEMMA Depths ==
    /\ MaxDepth \in Nat /\ MaxDepth >= 5
    /\ \A k \in 0 .. MaxDepth : Scalars \subseteq JsonUpTo[k]
    /\ \A k \in 1 .. MaxDepth :
          /\ \A items \in Seq(JsonUpTo[k - 1]) : Arr(items) \in JsonUpTo[k]
          /\ \A fields \in Seq(Texts \X JsonUpTo[k - 1]) : <<"obj", fields>> \in JsonUpTo[k]
<1>1. MaxDepth \in Nat /\ MaxDepth >= 5
  BY JsonAssumption, DocumentAssumption
<1>2. JsonUpTo[0] = Scalars
      /\ \A k \in 1 .. MaxDepth : JsonUpTo[k] = JsonLevel(JsonUpTo[k - 1])
  BY <1>1, JsonDefined DEF IsNesting
<1>3. ASSUME NEW k \in 1 .. MaxDepth
      PROVE  /\ Scalars \subseteq JsonUpTo[k]
             /\ \A items \in Seq(JsonUpTo[k - 1]) : Arr(items) \in JsonUpTo[k]
             /\ \A fields \in Seq(Texts \X JsonUpTo[k - 1]) : <<"obj", fields>> \in JsonUpTo[k]
  <2> DEFINE S == JsonUpTo[k - 1]
  <2>1. JsonUpTo[k] = Scalars \cup ({"arr"} \X Seq(S)) \cup ({"obj"} \X Seq(Texts \X S))
    BY <1>2 DEF JsonLevel
  <2> HIDE DEF S
  <2>2. \A items \in Seq(S) : Arr(items) \in JsonUpTo[k]
    BY <2>1 DEF Arr
  <2>3. \A fields \in Seq(Texts \X S) : <<"obj", fields>> \in JsonUpTo[k]
    BY <2>1
  <2> QED
    BY <2>1, <2>2, <2>3 DEF S
<1>4. \A k \in 0 .. MaxDepth : k = 0 \/ k \in 1 .. MaxDepth
  BY <1>1
<1> QED
  BY <1>1, <1>2, <1>3, <1>4

\* What is a value at a depth is one at every larger depth.
LEMMA Deeper == ASSUME NEW k \in 1 .. MaxDepth PROVE JsonUpTo[k - 1] \subseteq JsonUpTo[k]
<1> DEFINE S == {j \in 0 .. MaxDepth : j = 0 \/ JsonUpTo[j - 1] \subseteq JsonUpTo[j]}
<1>0. MaxDepth \in Nat /\ JsonUpTo[0] = Scalars
      /\ \A j \in 1 .. MaxDepth : JsonUpTo[j] = JsonLevel(JsonUpTo[j - 1])
  BY JsonAssumption, JsonDefined DEF IsNesting
<1>1. 0 \in S
  BY <1>0
<1>2. ASSUME NEW j \in 1 .. MaxDepth, j - 1 \in S PROVE j \in S
  <2>1. CASE j = 1
    <3>1. JsonUpTo[0] \subseteq JsonUpTo[1]
      BY <1>0, Depths
    <3> QED
      BY <1>0, <2>1, <3>1
  <2>2. CASE j # 1
    <3> DEFINE A == JsonUpTo[j - 2]
               B == JsonUpTo[j - 1]
    <3>1. j - 1 \in 1 .. MaxDepth /\ (j - 1) - 1 = j - 2
      BY <1>0, <2>2
    <3>2. A \subseteq B
      BY <1>2, <3>1
    <3>3. B = JsonLevel(A) /\ JsonUpTo[j] = JsonLevel(B)
      BY <1>0, <3>1
    <3> HIDE DEF A, B
    <3>4. Seq(A) \subseteq Seq(B)
      <4>1. \A x \in Seq(A) : Len(x) \in Nat /\ x \in [1 .. Len(x) -> A]
        BY LenProperties
      <4>2. \A x \in Seq(A) : x \in [1 .. Len(x) -> B]
        BY <3>2, <4>1
      <4> QED
        BY <4>1, <4>2
    <3>5. Seq(Texts \X A) \subseteq Seq(Texts \X B)
      <4> DEFINE C == Texts \X A
                 D == Texts \X B
      <4>1. C \subseteq D
        BY <3>2
      <4> HIDE DEF C, D
      <4>2. \A x \in Seq(C) : Len(x) \in Nat /\ x \in [1 .. Len(x) -> C]
        BY LenProperties
      <4>3. \A x \in Seq(C) : x \in [1 .. Len(x) -> D]
        BY <4>1, <4>2
      <4>4. Seq(C) \subseteq Seq(D)
        BY <4>2, <4>3
      <4> QED
        BY <4>4 DEF C, D
    <3>6. JsonLevel(A) \subseteq JsonLevel(B)
      BY <3>4, <3>5 DEF JsonLevel
    <3> QED
      BY <3>3, <3>6 DEF B
  <2> QED
    BY <2>1, <2>2
<1>3. 0 .. MaxDepth \subseteq S
  <2> HIDE DEF S
  <2> QED
    BY <1>0, <1>1, <1>2, UpTo
<1>4. k \in 0 .. MaxDepth /\ k # 0
  BY <1>0
<1>5. k \in S
  BY <1>3, <1>4
<1> QED
  BY <1>4, <1>5

\* The strings in a list are those of its elements.
LEMMA StringsOfList ==
    ASSUME NEW v \in Lists, NEW i \in DOMAIN v[2]
    PROVE  v[2][i][2] \in StringsIn(v)
<1>1. v \notin HeldStrings
  BY DEF Lists, HeldStrings
<1> QED
  BY <1>1 DEF StringsIn

\* What a property holds is two levels deep at most, as long as it is UTF-8.
LEMMA HeldIsDeep ==
    ASSUME NEW v \in Held, StringsIn(v) \subseteq Texts
    PROVE  v \in JsonUpTo[2]
<1>0. /\ 1 \in 1 .. MaxDepth /\ 2 \in 1 .. MaxDepth /\ 0 \in 0 .. MaxDepth /\ 2 \in 0 .. MaxDepth
      /\ 1 - 1 = 0 /\ 2 - 1 = 1
  BY Depths
<1>1. Scalars \subseteq JsonUpTo[0] /\ Scalars \subseteq JsonUpTo[2]
      /\ JsonUpTo[1] \subseteq JsonUpTo[2]
  BY <1>0, Depths, Deeper
<1>2. /\ \A items \in Seq(JsonUpTo[0]) : Arr(items) \in JsonUpTo[1]
      /\ \A items \in Seq(JsonUpTo[1]) : Arr(items) \in JsonUpTo[2]
  BY <1>0, Depths
<1>3. ASSUME NEW u \in Vectors PROVE u \in JsonUpTo[1]
  <2>1. u = Arr(u[2]) /\ u[2] \in [1 .. Components -> Numbers]
    BY <1>3 DEF Vectors, Arr
  <2>2. u[2] = [i \in 1 .. Components |-> u[2][i]]
        /\ \A i \in 1 .. Components : u[2][i] \in JsonUpTo[0]
    BY <1>1, <2>1 DEF Scalars
  <2>3. u[2] \in Seq(JsonUpTo[0])
    BY <2>2, Widths, IsASeq
  <2> QED
    BY <1>2, <2>1, <2>3
<1>4. CASE v \in Numbers \cup Flags \cup HeldStrings
  <2>1. v \in HeldStrings => v[2] \in Texts
    BY DEF StringsIn
  <2>2. v \in Scalars
    BY <1>4, <2>1 DEF Scalars, HeldStrings, Strings
  <2> QED
    BY <1>1, <2>2
<1>5. CASE v \in Lists
  <2>1. v = Arr(v[2]) /\ Len(v[2]) \in Nat /\ v[2] = [i \in 1 .. Len(v[2]) |-> v[2][i]]
        /\ \A i \in 1 .. Len(v[2]) : v[2][i] \in HeldStrings
    BY <1>5, PathsOfList DEF IsList, IsPath
  <2>2. \A i \in 1 .. Len(v[2]) : v[2][i][2] \in Texts
    BY <1>5, <2>1, StringsOfList
  <2>3. \A i \in 1 .. Len(v[2]) : v[2][i] \in JsonUpTo[0]
    BY <1>1, <2>1, <2>2 DEF Scalars, HeldStrings, Strings
  <2>4. v[2] \in Seq(JsonUpTo[0])
    BY <2>1, <2>3, IsASeq
  <2> QED
    BY <1>1, <1>2, <2>1, <2>4
<1>6. CASE v \in Vectors
  BY <1>1, <1>3, <1>6
<1>7. CASE v \in Matrices
  <2>1. v = Arr(v[2]) /\ v[2] \in [1 .. Components -> Vectors]
    BY <1>7 DEF Matrices, Arr
  <2>2. v[2] = [i \in 1 .. Components |-> v[2][i]]
        /\ \A i \in 1 .. Components : v[2][i] \in JsonUpTo[1]
    BY <1>3, <2>1
  <2>3. v[2] \in Seq(JsonUpTo[1])
    BY <2>2, Widths, IsASeq
  <2> QED
    BY <1>2, <2>1, <2>3
<1> QED
  BY <1>4, <1>5, <1>6, <1>7 DEF Held

\* A list that is given by its members.
LEMMA ListOf ==
    ASSUME NEW n \in Nat, NEW list, list = [i \in 1 .. n |-> list[i]],
           NEW S, \A i \in 1 .. n : list[i] \in S
    PROVE  list \in Seq(S) /\ Len(list) = n
BY IsASeq, ListIsSeq

\* A field with a value at a depth.
Fields(k) == Texts \X JsonUpTo[k]

LEMMA FieldIsDeep ==
    ASSUME NEW key \in Texts, NEW k, NEW v \in JsonUpTo[k]
    PROVE  <<key, v>> \in Fields(k)
BY DEF Fields

Keys == {"class", "object_id", "spin_animation", "angular_speed", "phase_offset", "translation",
         "time", "paused", "objects", "spin_animations", "systems"}

LEMMA KeysAreTexts == Keys \subseteq Texts
BY DocumentAssumption DEF Keys

LEMMA KeyIsDeep ==
    ASSUME NEW key \in Keys, NEW k, NEW v \in JsonUpTo[k]
    PROVE  <<key, v>> \in Fields(k)
BY KeysAreTexts, FieldIsDeep

\* What the depths of a document are made of.
LEMMA SomeDepths ==
    /\ \A k \in 0 .. 5 : Scalars \subseteq JsonUpTo[k]
    /\ \A items \in Seq(JsonUpTo[0]) : Arr(items) \in JsonUpTo[1]
    /\ \A items \in Seq(JsonUpTo[3]) : Arr(items) \in JsonUpTo[4]
    /\ \A fields \in Seq(Fields(1)) : <<"obj", fields>> \in JsonUpTo[2]
    /\ \A fields \in Seq(Fields(2)) : <<"obj", fields>> \in JsonUpTo[3]
    /\ \A fields \in Seq(Fields(4)) : <<"obj", fields>> \in JsonUpTo[5]
    /\ 5 \in 0 .. MaxDepth
<1>1. /\ \A k \in 0 .. 5 : k \in 0 .. MaxDepth
      /\ \A k \in 1 .. 5 : k \in 1 .. MaxDepth
      /\ 5 \in 0 .. 5 /\ 1 \in 1 .. 5 /\ 2 \in 1 .. 5 /\ 3 \in 1 .. 5 /\ 4 \in 1 .. 5
      /\ 5 \in 1 .. 5
      /\ 1 - 1 = 0 /\ 2 - 1 = 1 /\ 3 - 1 = 2 /\ 4 - 1 = 3 /\ 5 - 1 = 4
  BY Depths
<1>2. \A k \in 0 .. 5 : Scalars \subseteq JsonUpTo[k]
  BY <1>1, Depths
<1>3. \A k \in 1 .. 5 :
          /\ \A items \in Seq(JsonUpTo[k - 1]) : Arr(items) \in JsonUpTo[k]
          /\ \A fields \in Seq(Fields(k - 1)) : <<"obj", fields>> \in JsonUpTo[k]
  BY <1>1, Depths DEF Fields
<1>4. /\ \A items \in Seq(JsonUpTo[0]) : Arr(items) \in JsonUpTo[1]
      /\ \A items \in Seq(JsonUpTo[3]) : Arr(items) \in JsonUpTo[4]
  BY <1>1, <1>3
<1>5. /\ \A fields \in Seq(Fields(1)) : <<"obj", fields>> \in JsonUpTo[2]
      /\ \A fields \in Seq(Fields(2)) : <<"obj", fields>> \in JsonUpTo[3]
      /\ \A fields \in Seq(Fields(4)) : <<"obj", fields>> \in JsonUpTo[5]
  BY <1>1, <1>3
<1> QED
  BY <1>1, <1>2, <1>4, <1>5

LEMMA EntryIsDeep ==
    ASSUME NEW o \in ObjectSet, HoldsUtf8(o)
    PROVE  EntryOf(o) \in JsonUpTo[3]
<1> DEFINE c == o.class
           list == PropertiesOf[c]
           n == Len(list) + 1
           fields == [i \in 1 .. n |-> FieldAt(o, i)]
<1>1. c \in Classes /\ o.values \in ValuesOf(c)
  BY ObjectIsObject DEF IsObject
<1>2. n \in Nat /\ \A i \in 1 .. Len(list) : list[i] \in Range(list) /\ list[i] \in Properties
  BY <1>1, PropertiesInOrder
<1>3. ASSUME NEW i \in 1 .. n PROVE FieldAt(o, i) \in Fields(2)
  <2>1. CASE i = 1
    <3>1. Str(c) \in Scalars
      BY <1>1, DocumentAssumption DEF Str, Scalars, Strings
    <3>2. Str(c) \in JsonUpTo[2]
      BY <3>1, SomeDepths
    <3>3. FieldAt(o, i) = <<"class", Str(c)>>
      BY <2>1 DEF FieldAt
    <3> QED
      BY <3>2, <3>3, KeyIsDeep DEF Keys
  <2>2. CASE i # 1
    <3> DEFINE p == list[i - 1]
    <3>1. i - 1 \in 1 .. Len(list)
      BY <1>1, <2>2, PropertiesInOrder
    <3>2. p \in Properties /\ p \in Range(list)
      BY <1>2, <3>1
    <3>3. FieldAt(o, i) = <<p.name, o.values[p.name]>>
      BY <2>2 DEF FieldAt
    <3> HIDE DEF p
    <3>4. p.name \in Texts
      BY <3>2 DEF Properties
    <3>5. o.values[p.name] \in JsonUpTo[2]
      <4>1. Fits(p, o.values[p.name])
        BY <1>1, <3>2, ValuesFit
      <4>2. o.values[p.name] \in Held
        BY <3>2, <4>1, FittingIsHeld
      <4>3. p.name \in NamesOf(c)
        BY <1>1, <3>2, PropertiesAreNamed
      <4>4. StringsIn(o.values[p.name]) \subseteq Texts
        BY <4>3 DEF HoldsUtf8
      <4> QED
        BY <4>2, <4>4, HeldIsDeep
    <3> QED
      BY <3>3, <3>4, <3>5, FieldIsDeep
  <2> QED
    BY <2>1, <2>2
<1>4. fields \in Seq(Fields(2))
  <2>1. fields = [i \in 1 .. n |-> fields[i]] /\ \A i \in 1 .. n : fields[i] \in Fields(2)
    BY <1>3
  <2> HIDE DEF fields, n
  <2> QED
    BY <1>2, <2>1, ListOf
<1>5. EntryOf(o) = <<"obj", fields>>
  BY DEF EntryOf
<1> HIDE DEF fields
<1> QED
  BY <1>4, <1>5, SomeDepths

LEMMA SpinEntryIsDeep ==
    ASSUME NEW id \in Ids, NEW spin \in SpinAnimations
    PROVE  SpinEntry(id, spin) \in JsonUpTo[3]
<1> DEFINE row == Nums(spin.translation)
           fields == SpinFields(spin)
           inner == <<"obj", fields>>
           outer == Append(Append(<<>>, <<"object_id", Num(id)>>), <<"spin_animation", inner>>)
<1>1. row \in JsonUpTo[1]
  <2> DEFINE t == spin.translation
             list == [i \in DOMAIN t |-> Num(t[i])]
             n == Components - 1
  <2>1. t \in [1 .. n -> Int] /\ n \in Nat
    BY Widths DEF SpinAnimations
  <2> HIDE DEF t, n
  <2>2. \A i \in 1 .. n : list[i] \in Scalars
    BY <2>1 DEF Num, Scalars, Numbers
  <2>3. list = [i \in 1 .. n |-> list[i]]
    BY <2>1
  <2> HIDE DEF list
  <2>4. \A i \in 1 .. n : list[i] \in JsonUpTo[0]
    BY <2>2, SomeDepths
  <2>5. list \in Seq(JsonUpTo[0])
    BY <2>1, <2>3, <2>4, ListOf
  <2>6. row = Arr(list)
    BY DEF Nums, list, t
  <2> QED
    BY <2>5, <2>6, SomeDepths
<1>2. Num(spin.speed) \in JsonUpTo[1] /\ Num(spin.phase) \in JsonUpTo[1] /\ Num(id) \in JsonUpTo[2]
  <2>1. Num(spin.speed) \in Scalars /\ Num(spin.phase) \in Scalars /\ Num(id) \in Scalars
    BY Widths DEF Num, Scalars, Numbers, SpinAnimations, Ids
  <2> QED
    BY <2>1, SomeDepths
<1> HIDE DEF row
<1>3. fields \in Seq(Fields(1))
  <2>1. /\ <<"angular_speed", Num(spin.speed)>> \in Fields(1)
        /\ <<"phase_offset", Num(spin.phase)>> \in Fields(1)
        /\ <<"translation", row>> \in Fields(1)
    BY <1>1, <1>2, KeyIsDeep DEF Keys
  <2>2. <<>> \in Seq(Fields(1))
    BY EmptySeq
  <2> QED
    BY <2>1, <2>2, AppendProperties DEF SpinFields, row
<1>4. inner \in JsonUpTo[2]
  BY <1>3, SomeDepths
<1> HIDE DEF inner
<1>5. outer \in Seq(Fields(2))
  <2>1. <<"object_id", Num(id)>> \in Fields(2) /\ <<"spin_animation", inner>> \in Fields(2)
    BY <1>2, <1>4, KeyIsDeep DEF Keys
  <2>2. <<>> \in Seq(Fields(2))
    BY EmptySeq
  <2> QED
    BY <2>1, <2>2, AppendProperties
<1>6. SpinEntry(id, spin) = <<"obj", outer>>
  BY DEF SpinEntry, inner
<1> HIDE DEF outer
<1> QED
  BY <1>5, <1>6, SomeDepths

\* A scene whose strings are UTF-8 is a document that the parser can return.
LEMMA DocumentIsValue == ASSUME NEW s \in SceneSet, IsUtf8(s) PROVE IsValue(DocumentOf(s))
<1> DEFINE D == JsonUpTo[4]
           F == Fields(4)
<1>1. Arr(ObjectEntries(s)) \in D
  <2> DEFINE n == Len(s.objects)
             list == ObjectEntries(s)
  <2>1. n \in Nat /\ list = [i \in 1 .. n |-> list[i]]
    BY ObjectsOfScene DEF ObjectEntries
  <2>2. \A i \in 1 .. n : list[i] \in JsonUpTo[3]
    BY ObjectsOfScene, EntryIsDeep DEF ObjectEntries, IsUtf8
  <2> HIDE DEF n, list
  <2>3. list \in Seq(JsonUpTo[3])
    BY <2>1, <2>2, ListOf
  <2> QED
    BY <2>3, SomeDepths DEF list
<1>2. Arr(SpinEntries(s)) \in D
  <2> DEFINE n == Len(SpinOrder(s))
             list == SpinEntries(s)
  <2>1. n \in Nat /\ list = [i \in 1 .. n |-> list[i]]
    BY SpinsInOrder DEF SpinEntries
  <2>2. \A id \in DOMAIN s.spins : id \in Ids /\ s.spins[id] \in SpinAnimations
    BY DEF SceneSet, SpinMaps
  <2>3. \A i \in 1 .. n : list[i] \in JsonUpTo[3]
    BY <2>2, SpinsInOrder, SpinEntryIsDeep DEF SpinEntries
  <2> HIDE DEF n, list
  <2>4. list \in Seq(JsonUpTo[3])
    BY <2>1, <2>3, ListOf
  <2> QED
    BY <2>4, SomeDepths DEF list
<1>3. Arr(SystemEntries(s)) \in D
  <2> DEFINE n == Len(s.systems)
             list == SystemEntries(s)
  <2>1. s.systems \in Seq(Systems)
    BY DEF SceneSet
  <2>2. n \in Nat /\ list = [i \in 1 .. n |-> list[i]]
    BY <2>1, LenProperties DEF SystemEntries
  <2>3. \A i \in 1 .. n : list[i] \in Scalars
    BY <2>1, ElementOfSeq, DocumentAssumption DEF SystemEntries, Str, Scalars, Strings
  <2>4. \A i \in 1 .. n : list[i] \in JsonUpTo[3]
    BY <2>3, SomeDepths
  <2> HIDE DEF n, list
  <2>5. list \in Seq(JsonUpTo[3])
    BY <2>2, <2>4, ListOf
  <2> QED
    BY <2>5, SomeDepths DEF list
<1>4. Num(s.time) \in D /\ <<"bool", s.paused>> \in D
  <2>1. Num(s.time) \in Scalars /\ <<"bool", s.paused>> \in Scalars
    BY DEF SceneSet, Num, Scalars, Numbers, Flags
  <2> QED
    BY <2>1, SomeDepths
<1>5. /\ <<"time", Num(s.time)>> \in F /\ <<"paused", <<"bool", s.paused>>>> \in F
      /\ <<"objects", Arr(ObjectEntries(s))>> \in F
      /\ <<"spin_animations", Arr(SpinEntries(s))>> \in F
      /\ <<"systems", Arr(SystemEntries(s))>> \in F
  BY <1>1, <1>2, <1>3, <1>4, KeyIsDeep DEF Keys
<1> HIDE DEF D, F
<1>6. UpToObjects(s) \in Seq(F)
  <2>1. <<>> \in Seq(F)
    BY EmptySeq
  <2> QED
    BY <1>5, <2>1, AppendProperties DEF UpToObjects
<1>7. UpToSpins(s) \in Seq(F)
  BY <1>5, <1>6, AppendProperties DEF UpToSpins
<1>8. Append(UpToSpins(s), <<"systems", Arr(SystemEntries(s))>>) \in Seq(F)
  BY <1>5, <1>7, AppendProperties
<1>9. DocumentOf(s) \in JsonUpTo[5]
  BY <1>8, SomeDepths DEF DocumentOf, F
<1> QED
  BY <1>9, SomeDepths DEF IsValue

-----------------------------------------------------------------------------
(* What is read back is what was written.                                   *)

\* A number of a type is left alone by the cast to it.
LEMMA CastsLeave ==
    /\ \A n \in -Width .. Width - 1 : AsInt(n) = n
    /\ \A n \in 0 .. 2 * Width - 1 : AsUInt(n) = n
<1> DEFINE w == 2 * Width
<1>1. w \in Nat /\ w > 0 /\ Width \in Nat /\ w = Width + Width
  BY Widths
<1>2. \A n \in 0 .. w - 1 : n % w = n
  <2> HIDE DEF w
  <2> QED
    BY <1>1
<1>3. ASSUME NEW n \in -Width .. Width - 1 PROVE AsInt(n) = n
  <2>1. n + Width \in 0 .. w - 1 /\ n \in Int
    BY <1>1
  <2>2. (n + Width) % w = n + Width
    BY <1>2, <2>1
  <2>3. AsInt(n) = ((n + Width) % w) - Width
    BY DEF AsInt
  <2> HIDE DEF w
  <2> QED
    BY <1>1, <2>1, <2>2, <2>3
<1> QED
  BY <1>2, <1>3 DEF AsUInt

\* A number in the range is stored as it is.
LEMMA SetSame ==
    ASSUME NEW property, NEW old, NEW v \in Numbers, IsWithin(property, v[2])
    PROVE  SetNumber(property, old, v[2]) = v /\ Type(v) = "num" /\ v[2] \in Int
<1>1. v = Num(v[2]) /\ v[2] \in Int
  BY DEF Numbers, Num
<1> QED
  BY <1>1 DEF SetNumber, Num, Type

LEMMA ReadTextSame == ASSUME NEW old, NEW v, IsText(v) PROVE ReadText(old, v) = v
<1>1. v = Str(v[2]) /\ Type(v) = "str" /\ v[2] \in ByteStrings /\ LengthOf[v[2]] <= MaxLength
  BY DEF IsText, HeldStrings, Str, Type
<1>2. Cut[v[2]] = v[2]
  BY <1>1, StringsAreCut
<1> QED
  BY <1>1, <1>2 DEF ReadText, SetText

LEMMA ReadPathSame == ASSUME NEW old, NEW v, IsPath(v) PROVE ReadPath(old, v) = v
<1>1. v = Str(v[2]) /\ Type(v) = "str"
  BY DEF IsPath, HeldStrings, Str, Type
<1> QED
  BY <1>1 DEF ReadPath, SetPath

LEMMA ReadListSame == ASSUME NEW old, NEW v, IsList(v) PROVE ReadList(old, v) = v
<1> DEFINE list == v[2]
           Old(i) == IF i \in DOMAIN old[2] THEN old[2][i] ELSE Str(NoText)
<1>1. v = Arr(list) /\ Type(v) = "arr" /\ list \in Seq(HeldStrings)
      /\ \A i \in DOMAIN list : IsPath(list[i])
  BY PathsOfList, TypesOfList
<1>2. ReadList(old, v) = Arr([i \in DOMAIN list |-> ReadPath(Old(i), list[i])])
  BY <1>1 DEF ReadList
<1>3. \A i \in DOMAIN list : ReadPath(Old(i), list[i]) = list[i]
  BY <1>1, ReadPathSame
<1>4. list = [i \in DOMAIN list |-> list[i]]
  <2>1. list \in [1 .. Len(list) -> HeldStrings]
    BY <1>1, LenProperties
  <2> HIDE DEF list
  <2> QED
    BY <2>1
<1> HIDE DEF list, Old
<1>5. [i \in DOMAIN list |-> ReadPath(Old(i), list[i])] = [i \in DOMAIN list |-> list[i]]
  BY <1>3
<1> QED
  BY <1>1, <1>2, <1>4, <1>5

\* The components of a vector.
LEMMA ComponentsSame ==
    ASSUME NEW v \in Vectors
    PROVE  Type(v) = "arr" /\ v = Arr([i \in 1 .. Components |-> Component(v, i)])
<1>1. v = Arr(v[2]) /\ v[2] \in [1 .. Components -> Numbers] /\ Type(v) = "arr"
  BY DEF Vectors, Arr, Type
<1>2. v[2] = [i \in 1 .. Components |-> v[2][i]] /\ DOMAIN v[2] = 1 .. Components
      /\ \A i \in 1 .. Components : v[2][i] \in Numbers
  BY <1>1
<1>3. \A i \in 1 .. Components : Type(v[2][i]) = "num"
  BY <1>2 DEF Numbers, Type
<1>4. \A i \in 1 .. Components : Component(v, i) = v[2][i]
  BY <1>1, <1>2, <1>3 DEF Component
<1>5. [i \in 1 .. Components |-> v[2][i]] = [i \in 1 .. Components |-> Component(v, i)]
  BY <1>4
<1> QED
  BY <1>1, <1>2, <1>5

LEMMA ReadVecSame == ASSUME NEW old, NEW v \in Vectors PROVE ReadVec(old, v) = v
<1>1. Type(v) = "arr" /\ v = Arr([i \in 1 .. Components |-> Component(v, i)])
  BY ComponentsSame
<1> QED
  BY <1>1, Zenon DEF ReadVec

LEMMA ReadMatSame == ASSUME NEW old, NEW v \in Matrices PROVE ReadMat(old, v) = v
<1> DEFINE Read1(r, c) == IF r \in DOMAIN v[2] THEN Component(v[2][r], c) ELSE Num(0)
           Row(r) == Arr([c \in 1 .. Components |-> Read1(r, c)])
<1>1. v = Arr(v[2]) /\ v[2] \in [1 .. Components -> Vectors] /\ Type(v) = "arr"
  BY DEF Matrices, Arr, Type
<1>2. v[2] = [r \in 1 .. Components |-> v[2][r]] /\ DOMAIN v[2] = 1 .. Components
  BY <1>1
<1>3. ReadMat(old, v) = Arr([r \in 1 .. Components |-> Row(r)])
  BY <1>1 DEF ReadMat
<1>4. ASSUME NEW r \in 1 .. Components PROVE Row(r) = v[2][r]
  <2> DEFINE row == v[2][r]
  <2>1. row \in Vectors /\ r \in DOMAIN v[2]
    BY <1>1, <1>2
  <2>2. \A c : Read1(r, c) = Component(row, c)
    BY <2>1
  <2> HIDE DEF row, Read1
  <2>3. row = Arr([c \in 1 .. Components |-> Component(row, c)])
    BY <2>1, ComponentsSame
  <2>4. [c \in 1 .. Components |-> Read1(r, c)] = [c \in 1 .. Components |-> Component(row, c)]
    BY <2>2
  <2>5. Row(r) = row
    BY <2>3, <2>4
  <2> QED
    BY <2>5 DEF row
<1> HIDE DEF Row
<1>5. [r \in 1 .. Components |-> Row(r)] = [r \in 1 .. Components |-> v[2][r]]
  BY <1>4
<1> QED
  BY <1>1, <1>2, <1>3, <1>5

\* Reading what fits a property gives just that, whatever was there before.
LEMMA ReadSame ==
    ASSUME NEW property \in Properties, NEW old, NEW v, Fits(property, v)
    PROVE  Read(property, old, v) = v
<1>1. FitsAs(property, v) /\ ReadAs(property, old, v) /\ property.kind \in Kinds
  BY FitsByKind, ReadByKind, RangeIsRange
<1>2. CASE property.kind = "int"
  <2>1. IsInt(property, v)
    BY <1>1, <1>2 DEF FitsAs
  <2>2. AsInt(v[2]) = v[2] /\ SetNumber(property, old, v[2]) = v /\ Type(v) = "num"
    BY <2>1, CastsLeave, SetSame DEF IsInt
  <2> QED
    BY <1>1, <1>2, <2>2 DEF ReadAs, ReadInt
<1>3. CASE property.kind = "uint"
  <2>1. IsUInt(property, v)
    BY <1>1, <1>3 DEF FitsAs
  <2>2. AsUInt(v[2]) = v[2] /\ SetNumber(property, old, v[2]) = v /\ Type(v) = "num"
    BY <2>1, CastsLeave, SetSame DEF IsUInt
  <2>3. v[2] >= 0
    BY <2>1, Widths DEF IsUInt
  <2> QED
    BY <1>1, <1>3, <2>2, <2>3 DEF ReadAs, ReadUInt
<1>4. CASE property.kind = "float"
  BY <1>1, <1>4, SetSame DEF FitsAs, ReadAs, ReadFloat, IsFloat
<1>5. CASE property.kind = "flag"
  BY <1>1, <1>5 DEF FitsAs, ReadAs, ReadFlag, IsFlag, Type, Flags
<1>6. CASE property.kind = "text"
  BY <1>1, <1>6, ReadTextSame DEF FitsAs, ReadAs
<1>7. CASE property.kind = "list"
  BY <1>1, <1>7, ReadListSame DEF FitsAs, ReadAs
<1>8. CASE property.kind = "vec"
  BY <1>1, <1>8, ReadVecSame DEF FitsAs, ReadAs, IsVec
<1>9. CASE property.kind = "mat"
  BY <1>1, <1>9, ReadMatSame DEF FitsAs, ReadAs, IsMat
<1>10. CASE property.kind = "path"
  BY <1>1, <1>10, ReadPathSame DEF FitsAs, ReadAs
<1> QED
  BY <1>1, <1>2, <1>3, <1>4, <1>5, <1>6, <1>7, <1>8, <1>9, <1>10 DEF Kinds

\* What is found at one place only.
LEMMA FoundOnce ==
    ASSUME NEW v, NEW key, NEW i \in Int, Found(v, key) = {i}
    PROVE  First(v, key) = v[2][i][2] /\ Latest(v, key) = v[2][i][2]
<1>1. (CHOOSE k \in {i} : \A j \in {i} : k <= j) = i
  OBVIOUS
<1>2. Max({i}) = i
  BY DEF Max
<1> QED
  BY <1>1, <1>2 DEF First, Latest

\* The class and the properties in the entry of an object.
LEMMA EntryHas ==
    ASSUME NEW o \in ObjectSet
    PROVE  /\ Type(EntryOf(o)) = "obj"
           /\ Found(EntryOf(o), "class") = {1} /\ First(EntryOf(o), "class") = Str(o.class)
           /\ \A name \in NamesOf(o.class) :
                 /\ Found(EntryOf(o), name) # {}
                 /\ First(EntryOf(o), name) = o.values[name]
<1> DEFINE c == o.class
           list == PropertiesOf[c]
           N == Len(list)
           entry == EntryOf(o)
           fields == entry[2]
<1>1. c \in Classes
  BY ObjectIsObject DEF IsObject
<1>2. /\ N \in Nat /\ \A i \in 1 .. N : list[i] \in Range(list)
      /\ \A i, j \in 1 .. N : list[i].name = list[j].name => i = j
  BY <1>1, PropertiesInOrder
<1>3. \A i \in 1 .. N : list[i].name \in NamesOf(c)
  BY <1>1, <1>2, PropertiesAreNamed
<1>4. \A name \in NamesOf(c) : \E i \in 1 .. N : name = list[i].name
  BY <1>1, PropertiesInOrder DEF NamesOf
<1>5. "class" \notin NamesOf(c)
  BY <1>1, DocumentAssumption
<1>6. entry[1] = "obj" /\ DOMAIN fields = 1 .. N + 1
      /\ \A i \in 1 .. N + 1 : fields[i] = FieldAt(o, i)
  BY DEF EntryOf
<1>7. fields[1] = <<"class", Str(c)>> /\ 1 \in 1 .. N + 1
  <2>1. 1 \in 1 .. N + 1
    BY <1>2
  <2>2. \A i : i = 1 => FieldAt(o, i) = <<"class", Str(c)>>
    BY DEF FieldAt
  <2>3. fields[1] = FieldAt(o, 1)
    BY <1>6, <2>1
  <2> HIDE DEF fields
  <2> QED
    BY <2>1, <2>2, <2>3
<1>8. ASSUME NEW i \in 2 .. N + 1
      PROVE  /\ i - 1 \in 1 .. N /\ i \in 1 .. N + 1
             /\ fields[i] = <<list[i - 1].name, o.values[list[i - 1].name]>>
  <2>1. i - 1 \in 1 .. N /\ i \in 1 .. N + 1 /\ i # 1
    BY <1>2
  <2> QED
    BY <1>6, <2>1 DEF FieldAt
<1> HIDE DEF fields
<1>9. \A key : Found(entry, key) = {i \in 1 .. N + 1 : fields[i][1] = key}
  BY <1>6 DEF Found, fields
<1>10. \A i \in 1 .. N + 1 : i = 1 \/ i \in 2 .. N + 1
  BY <1>2
<1> HIDE DEF entry, N, list, c
<1>11. Found(entry, "class") = {1}
  <2>1. \A i \in 2 .. N + 1 : fields[i][1] # "class"
    BY <1>3, <1>5, <1>8
  <2> QED
    BY <1>7, <1>9, <1>10, <2>1
<1>12. First(entry, "class") = Str(c)
  <2>1. First(entry, "class") = entry[2][1][2]
    BY <1>11, FoundOnce
  <2> QED
    BY <1>7, <2>1 DEF fields
<1>13. ASSUME NEW name \in NamesOf(c)
       PROVE  Found(entry, name) # {} /\ First(entry, name) = o.values[name]
  <2>1. PICK i \in 1 .. N : name = list[i].name
    BY <1>4
  <2>2. i + 1 \in 2 .. N + 1 /\ (i + 1) - 1 = i /\ i + 1 \in Int
    BY <1>2
  <2>3. fields[i + 1] = <<name, o.values[name]>>
    BY <1>8, <2>1, <2>2
  <2>4. \A k \in 1 .. N + 1 : fields[k][1] = name => k = i + 1
    <3> SUFFICES ASSUME NEW k \in 1 .. N + 1, fields[k][1] = name PROVE k = i + 1
      OBVIOUS
    <3>1. k # 1
      BY <1>5, <1>7
    <3>2. k \in 2 .. N + 1
      BY <1>10, <3>1
    <3>3. list[k - 1].name = name /\ k - 1 \in 1 .. N
      BY <1>8, <3>2
    <3>4. k - 1 = i
      BY <1>2, <2>1, <3>3
    <3> QED
      BY <3>2, <3>4, <1>2
  <2>5. i + 1 \in 1 .. N + 1
    BY <1>8, <2>2
  <2>6. Found(entry, name) = {i + 1}
    BY <1>9, <2>3, <2>4, <2>5
  <2>7. First(entry, name) = entry[2][i + 1][2]
    BY <2>2, <2>6, FoundOnce
  <2>8. First(entry, name) = o.values[name]
    BY <2>3, <2>7 DEF fields
  <2> QED
    BY <2>6, <2>8
<1>14. Type(entry) = "obj"
  BY <1>6 DEF Type
<1> QED
  BY <1>11, <1>12, <1>13, <1>14 DEF entry, c

LEMMA LoadedSame == ASSUME NEW o \in ObjectSet PROVE Loaded(o.class, EntryOf(o)) = o.values
<1> DEFINE c == o.class
           entry == EntryOf(o)
           Value(name) == LoadedValue(PropertyOf(c, name), Default[c][name], entry)
<1>1. c \in Classes /\ o.values \in ValuesOf(c)
  BY ObjectIsObject DEF IsObject
<1>2. Loaded(c, entry) = [name \in NamesOf(c) |-> Value(name)]
  BY DEF Loaded
<1>3. o.values = [name \in NamesOf(c) |-> o.values[name]]
  BY <1>1, ValuesFit
<1>4. ASSUME NEW name \in NamesOf(c) PROVE Value(name) = o.values[name]
  <2> DEFINE p == PropertyOf(c, name)
  <2>1. p \in Properties /\ p.name = name
    BY <1>1, PropertiesAreNamed
  <2>2. Fits(p, o.values[name])
    BY <1>1, ValuesFit
  <2>3. Found(entry, name) # {} /\ First(entry, name) = o.values[name]
    BY EntryHas
  <2> HIDE DEF p, entry
  <2>4. LoadedValue(p, Default[c][name], entry) = Read(p, Default[c][name], o.values[name])
    BY <2>1, <2>3 DEF LoadedValue
  <2>5. Read(p, Default[c][name], o.values[name]) = o.values[name]
    BY <2>1, <2>2, ReadSame
  <2> QED
    BY <2>4, <2>5 DEF p
<1> HIDE DEF Value
<1>5. [name \in NamesOf(c) |-> Value(name)] = [name \in NamesOf(c) |-> o.values[name]]
  BY <1>4
<1> QED
  BY <1>2, <1>3, <1>5

\* Scenes, field by field.
SceneOf(objects, byId, spins, systems, time, paused) ==
    [objects |-> objects, byId |-> byId, spins |-> spins, systems |-> systems,
     time |-> time, paused |-> paused, nextId |-> 0]

LEMMA SceneParts ==
    ASSUME NEW objects, NEW byId, NEW spins, NEW systems, NEW time, NEW paused, NEW ok,
           NEW t, t = Staged(SceneOf(objects, byId, spins, systems, time, paused), ok)
    PROVE  /\ t.ok = ok /\ t.scene = SceneOf(objects, byId, spins, systems, time, paused)
           /\ t.scene.objects = objects /\ t.scene.byId = byId /\ t.scene.spins = spins
           /\ t.scene.systems = systems
<1>1. t.ok = ok /\ t.scene = SceneOf(objects, byId, spins, systems, time, paused)
  BY DEF Staged
<1> QED
  BY <1>1 DEF SceneOf

\* What a step of the loader changes.
WithObject(t, x, id) == [t EXCEPT !.scene.objects = Append(@, x), !.scene.byId = @ \union {id}]

WithTheSpin(t, id, spin) == [t EXCEPT !.scene = WithSpin(@, id, spin)]

MoreSpins(spins, id, spin) ==
    [other \in DOMAIN spins \cup {id} |-> IF other = id THEN spin ELSE spins[other]]

LEMMA ObjectsPut ==
    ASSUME NEW objects, NEW byId, NEW spins, NEW systems, NEW time, NEW paused, NEW ok,
           NEW x, NEW y
    PROVE  WithObject(Staged(SceneOf(objects, byId, spins, systems, time, paused), ok), x, y)
           = Staged(SceneOf(Append(objects, x), byId \union {y}, spins, systems, time, paused), ok)
<1> DEFINE s == SceneOf(objects, byId, spins, systems, time, paused)
           a == Append(objects, x)
           b == byId \union {y}
           half == SceneOf(a, byId, spins, systems, time, paused)
           all == SceneOf(a, b, spins, systems, time, paused)
           t == Staged(s, ok)
<1>1. s.objects = objects /\ half.byId = byId
  BY DEF SceneOf
<1>2. [s EXCEPT !.objects = a] = half
  <2> HIDE DEF a
  <2> QED
    BY DEF SceneOf
<1>3. [half EXCEPT !.byId = b] = all
  <2> HIDE DEF a, b
  <2> QED
    BY DEF SceneOf
<1> HIDE DEF s, half, all
<1>4. [t EXCEPT !.scene.objects = Append(@, x)] = Staged(half, ok)
  <2>1. [t EXCEPT !.scene.objects = Append(@, x)] = Staged([s EXCEPT !.objects = Append(@, x)], ok)
    BY DEF Staged
  <2>2. [s EXCEPT !.objects = Append(@, x)] = half
    BY <1>1, <1>2
  <2> QED
    BY <2>1, <2>2
<1>5. [Staged(half, ok) EXCEPT !.scene.byId = @ \union {y}] = Staged(all, ok)
  <2>1. [Staged(half, ok) EXCEPT !.scene.byId = @ \union {y}]
        = Staged([half EXCEPT !.byId = @ \union {y}], ok)
    BY DEF Staged
  <2>2. [half EXCEPT !.byId = @ \union {y}] = all
    BY <1>1, <1>3
  <2> QED
    BY <2>1, <2>2
<1>6. [t EXCEPT !.scene.objects = Append(@, x), !.scene.byId = @ \union {y}]
      = [[t EXCEPT !.scene.objects = Append(@, x)] EXCEPT !.scene.byId = @ \union {y}]
  BY DEF Staged
<1> HIDE DEF t
<1> QED
  BY <1>4, <1>5, <1>6 DEF WithObject, s, all, t

LEMMA SystemPut ==
    ASSUME NEW objects, NEW byId, NEW spins, NEW systems, NEW time, NEW paused, NEW ok, NEW x
    PROVE  [Staged(SceneOf(objects, byId, spins, systems, time, paused), ok) EXCEPT
               !.scene.systems = Append(@, x)]
           = Staged(SceneOf(objects, byId, spins, Append(systems, x), time, paused), ok)
<1> DEFINE s == SceneOf(objects, byId, spins, systems, time, paused)
           more == Append(systems, x)
<1>1. s.systems = systems
  BY DEF SceneOf
<1>2. [s EXCEPT !.systems = Append(@, x)] = [s EXCEPT !.systems = more]
  <2> HIDE DEF s
  <2> QED
    BY <1>1, Zenon
<1> HIDE DEF more
<1>3. [s EXCEPT !.systems = more] = SceneOf(objects, byId, spins, more, time, paused)
  BY DEF SceneOf
<1> HIDE DEF s
<1>4. [Staged(s, ok) EXCEPT !.scene.systems = Append(@, x)]
      = Staged([s EXCEPT !.systems = Append(@, x)], ok)
  BY DEF Staged
<1> QED
  BY <1>2, <1>3, <1>4 DEF s, more

LEMMA TimePut ==
    ASSUME NEW objects, NEW byId, NEW spins, NEW systems, NEW time, NEW paused, NEW ok, NEW x
    PROVE  [Staged(SceneOf(objects, byId, spins, systems, time, paused), ok) EXCEPT
               !.scene.time = x]
           = Staged(SceneOf(objects, byId, spins, systems, x, paused), ok)
<1> DEFINE s == SceneOf(objects, byId, spins, systems, time, paused)
<1>1. [s EXCEPT !.time = x] = SceneOf(objects, byId, spins, systems, x, paused)
  BY DEF SceneOf
<1> HIDE DEF s
<1>2. [Staged(s, ok) EXCEPT !.scene.time = x] = Staged([s EXCEPT !.time = x], ok)
  BY DEF Staged
<1> QED
  BY <1>1, <1>2 DEF s

LEMMA PausedPut ==
    ASSUME NEW objects, NEW byId, NEW spins, NEW systems, NEW time, NEW paused, NEW ok, NEW x
    PROVE  [Staged(SceneOf(objects, byId, spins, systems, time, paused), ok) EXCEPT
               !.scene.paused = x]
           = Staged(SceneOf(objects, byId, spins, systems, time, x), ok)
<1> DEFINE s == SceneOf(objects, byId, spins, systems, time, paused)
<1>1. [s EXCEPT !.paused = x] = SceneOf(objects, byId, spins, systems, time, x)
  BY DEF SceneOf
<1> HIDE DEF s
<1>2. [Staged(s, ok) EXCEPT !.scene.paused = x] = Staged([s EXCEPT !.paused = x], ok)
  BY DEF Staged
<1> QED
  BY <1>1, <1>2 DEF s

LEMMA SpinPut ==
    ASSUME NEW objects, NEW byId, NEW spins, NEW systems, NEW time, NEW paused, NEW ok,
           NEW id, NEW spin
    PROVE  WithTheSpin(Staged(SceneOf(objects, byId, spins, systems, time, paused), ok), id, spin)
           = Staged(SceneOf(objects, byId, MoreSpins(spins, id, spin), systems, time, paused), ok)
<1> DEFINE s == SceneOf(objects, byId, spins, systems, time, paused)
           more == MoreSpins(spins, id, spin)
<1>1. s.spins = spins
  BY DEF SceneOf
<1>2. WithSpin(s, id, spin) = [s EXCEPT !.spins = more]
  <2> HIDE DEF s
  <2> QED
    BY <1>1 DEF WithSpin, MoreSpins
<1> HIDE DEF more
<1>3. [s EXCEPT !.spins = more] = SceneOf(objects, byId, more, systems, time, paused)
  BY DEF SceneOf
<1> HIDE DEF s
<1>4. [Staged(s, ok) EXCEPT !.scene = WithSpin(@, id, spin)] = Staged(WithSpin(s, id, spin), ok)
  BY DEF Staged
<1> QED
  BY <1>2, <1>3, <1>4 DEF WithTheSpin, s, more

\* A staged scene of which nothing was refused.
Loading(objects, byId, spins, systems, time, paused) ==
    Staged(SceneOf(objects, byId, spins, systems, time, paused), Yes)

LEMMA LoadingIsOk ==
    ASSUME NEW objects, NEW byId, NEW spins, NEW systems, NEW time, NEW paused
    PROVE  Loading(objects, byId, spins, systems, time, paused).ok
<1>1. Loading(objects, byId, spins, systems, time, paused).ok = Yes
  BY SceneParts DEF Loading
<1> QED
  BY <1>1 DEF Yes

-----------------------------------------------------------------------------
(* An entry of a section.                                                   *)

\* The objects with one more that is loaded.
WithLoaded(objects, o) == Append(objects, Captured(o.class, o.values))

LEMMA LoadObjectSame ==
    ASSUME NEW o \in ObjectSet, NEW objects, NEW byId, NEW spins, NEW systems, NEW time,
           NEW paused, IdOf(o) \notin byId
    PROVE  LoadObject(Loading(objects, byId, spins, systems, time, paused), EntryOf(o))
           = Loading(WithLoaded(objects, o), byId \union {IdOf(o)}, spins, systems, time, paused)
<1> DEFINE c == o.class
           t == Loading(objects, byId, spins, systems, time, paused)
           entry == EntryOf(o)
           loaded == Captured(c, o.values)
<1>1. c \in Classes
  BY ObjectIsObject DEF IsObject
<1>2. Type(entry) = "obj" /\ Found(entry, "class") # {} /\ First(entry, "class") = Str(c)
  BY EntryHas
<1>3. Loaded(c, entry) = o.values
  BY LoadedSame
<1> HIDE DEF entry
<1>4. ClassesIn(entry) = {c}
  <2>1. \A d : Str(c) = Str(d) => c = d
    BY DEF Str
  <2> HIDE DEF c
  <2> QED
    BY <1>1, <1>2, <2>1 DEF ClassesIn
<1>5. (CHOOSE d \in {c} : TRUE) = c
  OBVIOUS
<1> HIDE DEF c, t
<1>6. LoadObject(t, entry) = AddObject(t, Captured(c, Loaded(c, entry)))
  BY <1>2, <1>4, <1>5 DEF LoadObject
<1>7. LoadObject(t, entry) = AddObject(t, loaded)
  BY <1>3, <1>6
<1>8. IdOf(loaded) = IdOf(o)
  BY DEF Captured, IdOf
<1> HIDE DEF loaded
<1>9. t.scene.byId = byId
  BY SceneParts DEF t, Loading
<1>10. AddObject(t, loaded)
       = WithObject(t, loaded, IdOf(o))
  BY <1>8, <1>9 DEF AddObject, WithObject
<1>11. WithObject(t, loaded, IdOf(o))
       = Loading(Append(objects, loaded), byId \union {IdOf(o)}, spins, systems, time, paused)
  BY ObjectsPut DEF t, Loading
<1> QED
  BY <1>7, <1>10, <1>11 DEF WithLoaded, t, loaded, entry, c

LEMMA LoadSystemSame ==
    ASSUME NEW name \in Systems, NEW objects, NEW byId, NEW spins, NEW systems, NEW time,
           NEW paused
    PROVE  LoadSystem(Loading(objects, byId, spins, systems, time, paused), Str(name))
           = Loading(objects, byId, spins, Append(systems, name), time, paused)
<1> DEFINE t == Loading(objects, byId, spins, systems, time, paused)
           entry == Str(name)
<1>1. Type(entry) = "str" /\ entry[2] = name
  BY DEF Str, Type
<1> HIDE DEF t, entry
<1>2. LoadSystem(t, entry) = [t EXCEPT !.scene.systems = Append(@, name)]
  BY <1>1 DEF LoadSystem
<1> QED
  BY <1>2, SystemPut DEF t, entry, Loading

\* Lists with one, two and three members.
LEMMA OneMember ==
    ASSUME NEW x
    PROVE  LET one == Append(<<>>, x) IN IsSeq(one) /\ Len(one) = 1 /\ one[1] = x
<1> DEFINE none == <<>>
<1>1. IsSeq(none) /\ Len(none) = 0
  BY EmptyIsSeq
<1> HIDE DEF none
<1>2. Len(none) + 1 = 1
  BY <1>1
<1> DEFINE one == Append(none, x)
<1>3. IsSeq(one) /\ Len(one) = Len(none) + 1 /\ one[Len(none) + 1] = x
  BY <1>1, AppendAdds
<1> HIDE DEF one
<1>4. IsSeq(one) /\ Len(one) = 1 /\ one[1] = x
  BY <1>2, <1>3
<1> QED
  BY <1>4 DEF one, none

LEMMA TwoMembers ==
    ASSUME NEW x, NEW y
    PROVE  LET two == Append(Append(<<>>, x), y)
           IN  IsSeq(two) /\ Len(two) = 2 /\ two[1] = x /\ two[2] = y
<1> DEFINE one == Append(<<>>, x)
<1>1. IsSeq(one) /\ Len(one) = 1 /\ one[1] = x
  BY OneMember
<1> HIDE DEF one
<1>2. Len(one) + 1 = 2 /\ 1 \in 1 .. Len(one)
  BY <1>1
<1>3. LET two == Append(one, y) IN IsSeq(two) /\ Len(two) = 2 /\ two[1] = x /\ two[2] = y
  BY <1>1, <1>2, AppendAdds
<1> QED
  BY <1>3 DEF one

LEMMA ThreeMembers ==
    ASSUME NEW x, NEW y, NEW z
    PROVE  LET three == Append(Append(Append(<<>>, x), y), z)
           IN  /\ IsSeq(three) /\ Len(three) = 3
               /\ three[1] = x /\ three[2] = y /\ three[3] = z
<1> DEFINE two == Append(Append(<<>>, x), y)
<1>1. IsSeq(two) /\ Len(two) = 2 /\ two[1] = x /\ two[2] = y
  BY TwoMembers
<1> HIDE DEF two
<1>2. Len(two) + 1 = 3 /\ 1 \in 1 .. Len(two) /\ 2 \in 1 .. Len(two)
  BY <1>1
<1> DEFINE three == Append(two, z)
<1>3. /\ IsSeq(three) /\ Len(three) = Len(two) + 1 /\ three[Len(two) + 1] = z
      /\ \A i \in 1 .. Len(two) : three[i] = two[i]
  BY <1>1, AppendAdds
<1> HIDE DEF three
<1>4. IsSeq(three) /\ Len(three) = 3 /\ three[1] = x /\ three[2] = y /\ three[3] = z
  BY <1>1, <1>2, <1>3
<1> QED
  BY <1>4 DEF two, three

\* Objects with two and with three fields.
LEMMA TwoFields ==
    ASSUME NEW k1, NEW v1, NEW k2, NEW v2, k1 # k2, NEW e,
           e = <<"obj", Append(Append(<<>>, <<k1, v1>>), <<k2, v2>>)>>
    PROVE  /\ Type(e) = "obj" /\ Found(e, k1) = {1} /\ Found(e, k2) = {2}
           /\ e[2][1][2] = v1 /\ e[2][2][2] = v2
<1> DEFINE two == Append(Append(<<>>, <<k1, v1>>), <<k2, v2>>)
<1>1. Len(two) = 2 /\ IsSeq(two) /\ two[1] = <<k1, v1>> /\ two[2] = <<k2, v2>>
  BY TwoMembers
<1>2. e[1] = "obj" /\ e[2] = two
  OBVIOUS
<1> HIDE DEF two
<1>3. DOMAIN two = {1, 2}
  BY <1>1 DEF IsSeq
<1>4. two[1][1] = k1 /\ two[2][1] = k2 /\ two[1][2] = v1 /\ two[2][2] = v2
  BY <1>1
<1> QED
  BY <1>2, <1>3, <1>4 DEF Type, Found

LEMMA ThreeFields ==
    ASSUME NEW k1, NEW v1, NEW k2, NEW v2, NEW k3, NEW v3, k1 # k2, k1 # k3, k2 # k3, NEW e,
           e = <<"obj", Append(Append(Append(<<>>, <<k1, v1>>), <<k2, v2>>), <<k3, v3>>)>>
    PROVE  /\ Type(e) = "obj" /\ Found(e, k1) = {1} /\ Found(e, k2) = {2} /\ Found(e, k3) = {3}
           /\ e[2][1][2] = v1 /\ e[2][2][2] = v2 /\ e[2][3][2] = v3
<1> DEFINE three == Append(Append(Append(<<>>, <<k1, v1>>), <<k2, v2>>), <<k3, v3>>)
<1>1. Len(three) = 3 /\ IsSeq(three) /\ three[1] = <<k1, v1>> /\ three[2] = <<k2, v2>>
      /\ three[3] = <<k3, v3>>
  BY ThreeMembers
<1>2. e[1] = "obj" /\ e[2] = three
  OBVIOUS
<1> HIDE DEF three
<1>3. DOMAIN three = {1, 2, 3}
  BY <1>1 DEF IsSeq
<1>4. /\ three[1][1] = k1 /\ three[2][1] = k2 /\ three[3][1] = k3
      /\ three[1][2] = v1 /\ three[2][2] = v2 /\ three[3][2] = v3
  BY <1>1
<1> QED
  BY <1>2, <1>3, <1>4 DEF Type, Found

-----------------------------------------------------------------------------
(* The entry of a spin animation.                                           *)

LEMMA SpinEntryHas ==
    ASSUME NEW id \in Ids, NEW spin \in SpinAnimations, NEW e, e = SpinEntry(id, spin)
    PROVE  /\ Type(e) = "obj" /\ Found(e, "object_id") = {1} /\ Found(e, "spin_animation") = {2}
           /\ e[2][1][2] = Num(id) /\ e[2][2][2] = <<"obj", SpinFields(spin)>>
BY TwoFields DEF SpinEntry

LEMMA SpinFieldsHave ==
    ASSUME NEW spin \in SpinAnimations, NEW e, e = <<"obj", SpinFields(spin)>>
    PROVE  /\ Type(e) = "obj" /\ Found(e, "angular_speed") = {1}
           /\ Found(e, "phase_offset") = {2} /\ Found(e, "translation") = {3}
           /\ Latest(e, "angular_speed") = Num(spin.speed) /\ e[2][1][2] = Num(spin.speed)
           /\ Latest(e, "phase_offset") = Num(spin.phase) /\ e[2][2][2] = Num(spin.phase)
           /\ Latest(e, "translation") = Nums(spin.translation)
           /\ e[2][3][2] = Nums(spin.translation)
<1>1. /\ Type(e) = "obj" /\ Found(e, "angular_speed") = {1}
      /\ Found(e, "phase_offset") = {2} /\ Found(e, "translation") = {3}
      /\ e[2][1][2] = Num(spin.speed) /\ e[2][2][2] = Num(spin.phase)
      /\ e[2][3][2] = Nums(spin.translation)
  <2> DEFINE speed == Num(spin.speed)
             phase == Num(spin.phase)
             row == Nums(spin.translation)
  <2>1. e = <<"obj", Append(Append(Append(<<>>, <<"angular_speed", speed>>),
                                   <<"phase_offset", phase>>), <<"translation", row>>)>>
    BY DEF SpinFields
  <2> HIDE DEF speed, phase, row
  <2>2. /\ Type(e) = "obj" /\ Found(e, "angular_speed") = {1}
        /\ Found(e, "phase_offset") = {2} /\ Found(e, "translation") = {3}
        /\ e[2][1][2] = speed /\ e[2][2][2] = phase /\ e[2][3][2] = row
    BY <2>1, ThreeFields
  <2> QED
    BY <2>2 DEF speed, phase, row
<1>2. Latest(e, "angular_speed") = e[2][1][2]
  BY <1>1, FoundOnce
<1>3. Latest(e, "phase_offset") = e[2][2][2]
  BY <1>1, FoundOnce
<1>4. Latest(e, "translation") = e[2][3][2]
  BY <1>1, FoundOnce
<1> QED
  BY <1>1, <1>2, <1>3, <1>4

LEMMA LoadSpinSame ==
    ASSUME NEW id \in Ids, NEW spin \in SpinAnimations, NEW objects, NEW byId, NEW spins,
           NEW systems, NEW time, NEW paused
    PROVE  LoadSpin(Loading(objects, byId, spins, systems, time, paused), SpinEntry(id, spin))
           = Loading(objects, byId, MoreSpins(spins, id, spin), systems, time, paused)
<1> DEFINE t == Loading(objects, byId, spins, systems, time, paused)
           entry == SpinEntry(id, spin)
           inner == <<"obj", SpinFields(spin)>>
<1>1. /\ Type(entry) = "obj" /\ Found(entry, "object_id") = {1}
      /\ Found(entry, "spin_animation") = {2}
      /\ entry[2][1][2] = Num(id) /\ entry[2][2][2] = inner
  BY SpinEntryHas
<1>2. /\ Type(inner) = "obj" /\ Found(inner, "angular_speed") = {1}
      /\ Found(inner, "phase_offset") = {2} /\ Found(inner, "translation") = {3}
      /\ Latest(inner, "angular_speed") = Num(spin.speed) /\ inner[2][1][2] = Num(spin.speed)
      /\ Latest(inner, "phase_offset") = Num(spin.phase) /\ inner[2][2][2] = Num(spin.phase)
      /\ Latest(inner, "translation") = Nums(spin.translation)
      /\ inner[2][3][2] = Nums(spin.translation)
  BY SpinFieldsHave
<1>3. /\ Num(id) \in {"num"} \X Ids /\ Num(id)[2] = id
      /\ \A n : Type(Num(n)) = "num" /\ Num(n)[2] = n
      /\ Type(Nums(spin.translation)) = "arr"
  BY DEF Num, Nums, Arr, Type
<1> HIDE DEF entry, inner, t
<1>4. IsSpin(entry)
  <2>1. \A i \in Found(entry, "object_id") : entry[2][i][2] \in {"num"} \X Ids
    BY <1>1, <1>3
  <2>2. AllAre("obj", entry, "spin_animation")
    BY <1>1, <1>2 DEF AllAre
  <2>3. /\ AllAre("num", inner, "angular_speed") /\ AllAre("num", inner, "phase_offset")
        /\ AllAre("arr", inner, "translation")
    BY <1>2, <1>3 DEF AllAre
  <2> QED
    BY <1>1, <2>1, <2>2, <2>3 DEF IsSpin
<1>5. \A key \in {"angular_speed", "phase_offset", "translation"} :
          SpinsWith(entry, key) = {2} /\ SpinField(entry, key) = Latest(inner, key)
  <2>1. Max({2}) = 2
    BY DEF Max
  <2>2. \A key \in {"angular_speed", "phase_offset", "translation"} : SpinsWith(entry, key) = {2}
    BY <1>1, <1>2 DEF SpinsWith
  <2> QED
    BY <1>1, <2>1, <2>2 DEF SpinField
<1>6. IsWholeSpin(entry)
  BY <1>1, <1>5 DEF IsWholeSpin
<1>7. SpinOf(entry) = spin
  <2> DEFINE move == spin.translation
             n == Components - 1
  <2>1. spin = [speed |-> spin.speed, phase |-> spin.phase, translation |-> move]
        /\ move = [i \in 1 .. n |-> move[i]]
    BY DEF SpinAnimations
  <2>2. \A i \in 1 .. n : Component(Nums(move), i)[2] = move[i]
    <3>1. DOMAIN move = 1 .. n
      BY <2>1
    <3>2. Nums(move)[2] = [i \in DOMAIN move |-> Num(move[i])]
      BY DEF Nums, Arr
    <3> HIDE DEF n, move
    <3> QED
      BY <1>3, <3>1, <3>2 DEF Component, move
  <2>3. /\ SpinField(entry, "angular_speed")[2] = spin.speed
        /\ SpinField(entry, "phase_offset")[2] = spin.phase
        /\ SpinField(entry, "translation") = Nums(move)
    BY <1>2, <1>3, <1>5
  <2> HIDE DEF move, n
  <2>4. [i \in 1 .. n |-> Component(Nums(move), i)[2]] = move
    BY <2>1, <2>2
  <2>5. SpinOf(entry) = [speed |-> spin.speed, phase |-> spin.phase,
                         translation |-> [i \in 1 .. n |-> Component(Nums(move), i)[2]]]
    BY <2>3 DEF SpinOf, n
  <2> QED
    BY <2>1, <2>4, <2>5
<1>8. Latest(entry, "object_id")[2] = id
  <2>1. Latest(entry, "object_id") = entry[2][1][2]
    BY <1>1, FoundOnce
  <2> QED
    BY <1>1, <1>3, <2>1
<1>9. LoadSpin(t, entry) = WithTheSpin(t, id, spin)
  BY <1>4, <1>6, <1>7, <1>8 DEF LoadSpin, WithTheSpin
<1> QED
  BY <1>9, SpinPut DEF t, entry, Loading

-----------------------------------------------------------------------------
(* A section, and the fields of a document.                                 *)

LEMMA EachLoaded ==
    ASSUME NEW t, NEW section, NEW entries, Len(entries) \in Nat
    PROVE  \E f : /\ Walks(<<"load", section>>, f, t, entries, Len(entries))
                  /\ LoadEach(t, section, Arr(entries)) = f[Len(entries)]
<1> DEFINE N == Len(entries)
           how == <<"load", section>>
           Step(u, x) == LoadEntry(u, section, x)
           Then(u, x) == CHOOSE next \in {Step(before, x) : before \in {u}} : TRUE
           Is(f) == f = [n \in 0 .. N |-> IF n = 0 THEN t ELSE Then(f[n - 1], entries[n])]
           after == CHOOSE f : Is(f)
<1>1. PICK g : g = [n \in 0 .. N |-> g[n]] /\ Walks(how, g, t, entries, N)
  BY ThereIsAWalk
<1>2. \A x, y : StepOf(how, x, y) = Then(x, y)
  <2>1. \A x, y : StepOf(how, x, y) = Step(x, y)
    BY DEF StepOf
  <2>2. \A x, y : {Step(before, y) : before \in {x}} = {Step(x, y)}
    OBVIOUS
  <2> QED
    BY <2>1, <2>2, TheOnlyOne
<1>3. Is(g)
  <2>1. \A n \in 0 .. N : g[n] = IF n = 0 THEN t ELSE Then(g[n - 1], entries[n])
    <3>1. g[0] = t /\ \A n \in 1 .. N : g[n] = StepOf(how, g[n - 1], entries[n])
      BY <1>1 DEF Walks
    <3>2. \A n \in 1 .. N : g[n] = Then(g[n - 1], entries[n])
      BY <1>2, <3>1
    <3>3. \A n \in 0 .. N : n = 0 \/ n \in 1 .. N
      OBVIOUS
    <3> HIDE DEF Then, N
    <3> QED
      BY <3>1, <3>2, <3>3
  <2> HIDE DEF how, N, Then
  <2> QED
    BY <1>1, <2>1, Zenon
<1>4. Is(after)
  BY <1>3
<1>5. LoadEach(t, section, Arr(entries)) = after[N]
  <2>1. Type(Arr(entries)) = "arr" /\ Arr(entries)[2] = entries
    BY DEF Type, Arr
  <2> HIDE DEF N
  <2>2. LoadEach(t, section, Arr(entries)) = Each(Step, t, Arr(entries)[2])
    BY <2>1 DEF LoadEach
  <2> QED
    BY <2>1, <2>2 DEF Each, N
<1> HIDE DEF after, how, Then
<1>6. Walks(how, after, t, entries, N)
  BY <1>2, <1>4 DEF Walks
<1> QED
  BY <1>5, <1>6 DEF how

\* A section that goes as it should ends where it should.
LEMMA LoadedSo ==
    ASSUME NEW t, NEW section, NEW entries, NEW N \in Nat, Len(entries) = N, NEW g, g[0] = t,
           \A j \in 1 .. N : g[j] = LoadEntry(g[j - 1], section, entries[j])
    PROVE  LoadEach(t, section, Arr(entries)) = g[N]
<1> DEFINE how == <<"load", section>>
<1>1. PICK f : Walks(how, f, t, entries, N) /\ LoadEach(t, section, Arr(entries)) = f[N]
  BY EachLoaded
<1>2. \A x, y : StepOf(how, x, y) = LoadEntry(x, section, y)
  BY DEF StepOf
<1> HIDE DEF how
<1>3. Walks(how, g, t, entries, N)
  BY <1>2 DEF Walks
<1> QED
  BY <1>1, <1>3, WalksAgree

\* What a field of the root does.
FromFields(fields) == Each(LoadSection, Start, fields)

LEMMA EachSection ==
    ASSUME NEW fields, Len(fields) \in Nat
    PROVE  \E f : /\ Walks(<<"section">>, f, Start, fields, Len(fields))
                  /\ FromFields(fields) = f[Len(fields)]
<1> DEFINE N == Len(fields)
           how == <<"section">>
           Then(u, x) == CHOOSE next \in {LoadSection(before, x) : before \in {u}} : TRUE
           Is(f) == f = [n \in 0 .. N |-> IF n = 0 THEN Start ELSE Then(f[n - 1], fields[n])]
           after == CHOOSE f : Is(f)
<1>1. PICK g : g = [n \in 0 .. N |-> g[n]] /\ Walks(how, g, Start, fields, N)
  BY ThereIsAWalk
<1>2. \A x, y : StepOf(how, x, y) = Then(x, y)
  <2>1. \A x, y : StepOf(how, x, y) = LoadSection(x, y)
    BY DEF StepOf
  <2>2. \A x, y : {LoadSection(before, y) : before \in {x}} = {LoadSection(x, y)}
    OBVIOUS
  <2> QED
    BY <2>1, <2>2, TheOnlyOne
<1>3. Is(g)
  <2> HIDE DEF Then
  <2>1. \A n \in 0 .. N : g[n] = IF n = 0 THEN Start ELSE Then(g[n - 1], fields[n])
    BY <1>1, <1>2 DEF Walks
  <2> HIDE DEF how, N
  <2> QED
    BY <1>1, <2>1, Zenon
<1>4. Is(after)
  BY <1>3
<1>5. FromFields(fields) = after[N]
  BY DEF Each, FromFields
<1> HIDE DEF after, how, Then
<1>6. Walks(how, after, Start, fields, N)
  BY <1>2, <1>4 DEF Walks
<1> QED
  BY <1>5, <1>6 DEF how

\* One more field is one more step of the loader.
LEMMA OneMoreField ==
    ASSUME NEW fields, IsSeq(fields), NEW field
    PROVE  FromFields(Append(fields, field)) = LoadSection(FromFields(fields), field)
<1> DEFINE more == Append(fields, field)
           how == <<"section">>
<1>1. Len(fields) \in Nat /\ Len(more) \in Nat
  BY AppendAdds
<1>2. PICK f : Walks(how, f, Start, fields, Len(fields)) /\ FromFields(fields) = f[Len(fields)]
  BY <1>1, EachSection
<1>3. PICK g : Walks(how, g, Start, more, Len(more)) /\ FromFields(more) = g[Len(more)]
  <2> HIDE DEF more
  <2> QED
    BY <1>1, EachSection
<1>4. StepOf(how, FromFields(fields), field) = LoadSection(FromFields(fields), field)
  BY DEF StepOf
<1> HIDE DEF how
<1> QED
  BY <1>2, <1>3, <1>4, OneMoreStep

LEMMA NoFields == FromFields(<<>>) = Start
<1>1. PICK f : Walks(<<"section">>, f, Start, <<>>, 0) /\ FromFields(<<>>) = f[0]
  BY EachSection, EmptyIsSeq
<1> QED
  BY <1>1 DEF Walks

\* The objects as they are loaded, and the ids of the first of them.
CapturedAll(s) ==
    [i \in 1 .. Len(s.objects) |-> Captured(s.objects[i].class, s.objects[i].values)]

IdsUpTo(s, k) == {IdOf(s.objects[i]) : i \in 1 .. k}

LEMMA OneMoreId ==
    ASSUME NEW s \in WholeScenes, NEW j \in 1 .. Len(s.objects)
    PROVE  /\ IdOf(s.objects[j]) \notin IdsUpTo(s, j - 1)
           /\ IdsUpTo(s, j - 1) \union {IdOf(s.objects[j])} = IdsUpTo(s, j)
<1>1. Len(s.objects) \in Nat /\ DOMAIN s.objects = 1 .. Len(s.objects)
  BY ObjectsOfScene DEF WholeScenes
<1>2. \A i, k \in 1 .. Len(s.objects) : i # k => IdOf(s.objects[i]) # IdOf(s.objects[k])
  BY <1>1 DEF WholeScenes, IdsAreKnown
<1>3. \A i \in 1 .. j - 1 : i \in 1 .. Len(s.objects) /\ i # j
  BY <1>1
<1>4. \A i : i \in 1 .. j <=> i \in 1 .. j - 1 \/ i = j
  BY <1>1
<1>5. IdOf(s.objects[j]) \notin IdsUpTo(s, j - 1)
  BY <1>2, <1>3 DEF IdsUpTo
<1>6. IdsUpTo(s, j - 1) \union {IdOf(s.objects[j])} = IdsUpTo(s, j)
  BY <1>4 DEF IdsUpTo
<1> QED
  BY <1>5, <1>6

LEMMA NoIds == ASSUME NEW s PROVE IdsUpTo(s, 0) = {}
BY DEF IdsUpTo

LEMMA AllIds == ASSUME NEW s \in WholeScenes PROVE IdsUpTo(s, Len(s.objects)) = s.byId
BY ObjectsOfScene DEF IdsUpTo, WholeScenes, IdsAreKnown

LEMMA ObjectsLoaded ==
    ASSUME NEW s \in WholeScenes, NEW spins, NEW systems, NEW time, NEW paused
    PROVE  LoadEach(Loading(<<>>, {}, spins, systems, time, paused), "objects",
                    Arr(ObjectEntries(s)))
           = Loading(CapturedAll(s), s.byId, spins, systems, time, paused)
<1> DEFINE list == s.objects
           N == Len(list)
           all == CapturedAll(s)
           entries == ObjectEntries(s)
           Now(objects, byId) == Loading(objects, byId, spins, systems, time, paused)
           g == [k \in 0 .. N |-> Now(Before(all, k), IdsUpTo(s, k))]
<1>1. N \in Nat /\ \A j \in 1 .. N : list[j] \in ObjectSet
  BY ObjectsOfScene DEF WholeScenes
<1>2. /\ entries = [i \in 1 .. N |-> entries[i]]
      /\ \A j \in 1 .. N : entries[j] = EntryOf(list[j])
      /\ all = [i \in 1 .. N |-> all[i]]
      /\ \A j \in 1 .. N : all[j] = Captured(list[j].class, list[j].values)
  BY DEF ObjectEntries, CapturedAll
<1>3. \A k \in 0 .. N : g[k] = Now(Before(all, k), IdsUpTo(s, k))
  OBVIOUS
<1>4. \A j \in 1 .. N : /\ IdOf(list[j]) \notin IdsUpTo(s, j - 1)
                        /\ IdsUpTo(s, j - 1) \union {IdOf(list[j])} = IdsUpTo(s, j)
  BY OneMoreId
<1>5. \A objects, byId : Now(objects, byId).ok
  BY LoadingIsOk
<1>6. \A o \in ObjectSet : \A objects, byId :
          IdOf(o) \notin byId =>
              LoadObject(Now(objects, byId), EntryOf(o))
              = Now(WithLoaded(objects, o), byId \union {IdOf(o)})
  BY LoadObjectSame
<1>7. IdsUpTo(s, 0) = {} /\ IdsUpTo(s, N) = s.byId
  BY NoIds, AllIds
<1>8. \A t, entry : t.ok => LoadEntry(t, "objects", entry) = LoadObject(t, entry)
  BY DEF LoadEntry
<1> HIDE DEF Now, g, all, entries, N, list
<1>9. IsSeq(all) /\ Len(all) = N /\ Len(entries) = N
  BY <1>1, <1>2, ListIsSeq
<1>10. ASSUME NEW j \in 1 .. N PROVE g[j] = LoadEntry(g[j - 1], "objects", entries[j])
  <2> DEFINE o == list[j]
             before == Before(all, j - 1)
             ids == IdsUpTo(s, j - 1)
  <2>1. j - 1 \in 0 .. N /\ j \in 0 .. N /\ j - 1 \in Nat /\ j - 1 < Len(all) /\ (j - 1) + 1 = j
    BY <1>1, <1>9
  <2>2. g[j - 1] = Now(before, ids) /\ g[j] = Now(Before(all, j), IdsUpTo(s, j))
    BY <1>3, <2>1
  <2>3. o \in ObjectSet /\ entries[j] = EntryOf(o)
    BY <1>1, <1>2
  <2>4. WithLoaded(before, o) = Before(all, j)
    <3>1. all[j] = Captured(o.class, o.values)
      BY <1>2
    <3>2. Append(before, all[j]) = Before(all, j)
      BY <1>9, <2>1, OneMore
    <3> QED
      BY <3>1, <3>2 DEF WithLoaded
  <2>5. IdOf(o) \notin ids /\ ids \union {IdOf(o)} = IdsUpTo(s, j)
    BY <1>4
  <2> HIDE DEF o, before, ids
  <2>6. LoadObject(Now(before, ids), EntryOf(o)) = Now(WithLoaded(before, o), ids \union {IdOf(o)})
    BY <1>6, <2>3, <2>5
  <2>7. LoadEntry(g[j - 1], "objects", entries[j]) = LoadObject(Now(before, ids), EntryOf(o))
    BY <1>5, <1>8, <2>2, <2>3
  <2> QED
    BY <2>2, <2>4, <2>5, <2>6, <2>7
<1>11. Before(all, 0) = <<>> /\ Before(all, N) = all
  BY <1>9, AllOfIt
<1>12. g[0] = Now(<<>>, {}) /\ g[N] = Now(all, s.byId)
  <2>1. 0 \in 0 .. N /\ N \in 0 .. N
    BY <1>1
  <2> QED
    BY <1>3, <1>7, <1>11, <2>1
<1> DEFINE start == Now(<<>>, {})
<1>13. g[0] = start
  BY <1>12
<1>14. LoadEach(start, "objects", Arr(entries)) = g[N]
  <2> HIDE DEF start
  <2> QED
    BY <1>1, <1>9, <1>10, <1>13, LoadedSo
<1> QED
  BY <1>12, <1>14 DEF Now, entries, all

\* The first of the animations.
SpinsUpTo(s, k) == [id \in {SpinOrder(s)[i] : i \in 1 .. k} |-> s.spins[id]]

LEMMA OneMoreSpin ==
    ASSUME NEW s \in SceneSet, NEW j \in 1 .. Len(SpinOrder(s))
    PROVE  MoreSpins(SpinsUpTo(s, j - 1), SpinOrder(s)[j], s.spins[SpinOrder(s)[j]])
           = SpinsUpTo(s, j)
<1> DEFINE list == SpinOrder(s)
           S(k) == {list[i] : i \in 1 .. k}
           old == SpinsUpTo(s, j - 1)
           id == list[j]
<1>1. \A i : i \in 1 .. j <=> i \in 1 .. j - 1 \/ i = j
  BY SpinsInOrder
<1> HIDE DEF list
<1>2. S(j - 1) \cup {id} = S(j)
  BY <1>1
<1>3. DOMAIN old = S(j - 1) /\ \A other \in S(j - 1) : old[other] = s.spins[other]
  BY DEF SpinsUpTo, list
<1> HIDE DEF S, old
<1>4. MoreSpins(old, id, s.spins[id])
      = [other \in S(j) |-> IF other = id THEN s.spins[id] ELSE old[other]]
  BY <1>2, <1>3 DEF MoreSpins
<1>5. \A other \in S(j) : (IF other = id THEN s.spins[id] ELSE old[other]) = s.spins[other]
  BY <1>2, <1>3
<1>6. [other \in S(j) |-> IF other = id THEN s.spins[id] ELSE old[other]]
      = [other \in S(j) |-> s.spins[other]]
  BY <1>5
<1> QED
  BY <1>4, <1>6 DEF SpinsUpTo, S, old, list

LEMMA NoSpins == ASSUME NEW s PROVE SpinsUpTo(s, 0) = <<>>
BY DEF SpinsUpTo

LEMMA AllSpins ==
    ASSUME NEW s \in SceneSet
    PROVE  SpinsUpTo(s, Len(SpinOrder(s))) = s.spins /\ (DOMAIN s.spins = {} => s.spins = <<>>)
<1> DEFINE list == SpinOrder(s)
           N == Len(list)
<1>1. s.spins = [id \in DOMAIN s.spins |-> s.spins[id]]
  BY DEF SceneSet, SpinMaps
<1>2. {list[i] : i \in 1 .. N} = DOMAIN s.spins
  BY SpinsInOrder
<1> HIDE DEF list, N
<1>3. SpinsUpTo(s, N) = s.spins
  BY <1>1, <1>2 DEF SpinsUpTo, list
<1>4. DOMAIN s.spins = {} => s.spins = <<>>
  BY <1>1
<1> QED
  BY <1>3, <1>4 DEF N, list

LEMMA SpinsLoaded ==
    ASSUME NEW s \in SceneSet, NEW objects, NEW byId, NEW systems, NEW time, NEW paused
    PROVE  LoadEach(Loading(objects, byId, <<>>, systems, time, paused), "spin_animations",
                    Arr(SpinEntries(s)))
           = Loading(objects, byId, s.spins, systems, time, paused)
<1> DEFINE list == SpinOrder(s)
           N == Len(list)
           entries == SpinEntries(s)
           Now(spins) == Loading(objects, byId, spins, systems, time, paused)
           g == [k \in 0 .. N |-> Now(SpinsUpTo(s, k))]
<1>1. N \in Nat /\ \A j \in 1 .. N : list[j] \in Ids /\ s.spins[list[j]] \in SpinAnimations
  <2>1. \A id \in DOMAIN s.spins : id \in Ids /\ s.spins[id] \in SpinAnimations
    BY DEF SceneSet, SpinMaps
  <2> QED
    BY <2>1, SpinsInOrder
<1>2. /\ entries = [i \in 1 .. N |-> entries[i]]
      /\ \A j \in 1 .. N : entries[j] = SpinEntry(list[j], s.spins[list[j]])
  BY DEF SpinEntries
<1>3. \A k \in 0 .. N : g[k] = Now(SpinsUpTo(s, k))
  OBVIOUS
<1>4. \A j \in 1 .. N :
          MoreSpins(SpinsUpTo(s, j - 1), list[j], s.spins[list[j]]) = SpinsUpTo(s, j)
  BY OneMoreSpin
<1>5. \A spins : Now(spins).ok
  BY LoadingIsOk
<1>6. \A id \in Ids : \A spin \in SpinAnimations : \A spins :
          LoadSpin(Now(spins), SpinEntry(id, spin)) = Now(MoreSpins(spins, id, spin))
  BY LoadSpinSame
<1>7. SpinsUpTo(s, 0) = <<>> /\ SpinsUpTo(s, N) = s.spins
  BY NoSpins, AllSpins
<1>8. \A t, entry : t.ok => LoadEntry(t, "spin_animations", entry) = LoadSpin(t, entry)
  BY DEF LoadEntry
<1> HIDE DEF Now, g, entries, N, list
<1>9. Len(entries) = N
  BY <1>1, <1>2, ListIsSeq
<1>10. ASSUME NEW j \in 1 .. N PROVE g[j] = LoadEntry(g[j - 1], "spin_animations", entries[j])
  <2> DEFINE spin == s.spins[list[j]]
             before == SpinsUpTo(s, j - 1)
  <2>1. j - 1 \in 0 .. N /\ j \in 0 .. N
    BY <1>1
  <2>2. g[j - 1] = Now(before) /\ g[j] = Now(SpinsUpTo(s, j))
    BY <1>3, <2>1
  <2>3. MoreSpins(before, list[j], spin) = SpinsUpTo(s, j)
    BY <1>4
  <2>4. entries[j] = SpinEntry(list[j], spin) /\ list[j] \in Ids /\ spin \in SpinAnimations
    BY <1>1, <1>2
  <2> HIDE DEF spin, before
  <2>5. LoadSpin(Now(before), entries[j]) = Now(MoreSpins(before, list[j], spin))
    BY <1>6, <2>4
  <2>6. LoadEntry(g[j - 1], "spin_animations", entries[j]) = LoadSpin(Now(before), entries[j])
    BY <1>5, <1>8, <2>2
  <2> QED
    BY <2>2, <2>3, <2>5, <2>6
<1>11. g[0] = Now(<<>>) /\ g[N] = Now(s.spins)
  <2>1. 0 \in 0 .. N /\ N \in 0 .. N
    BY <1>1
  <2> QED
    BY <1>3, <1>7, <2>1
<1>12. LoadEach(Now(<<>>), "spin_animations", Arr(entries)) = g[N]
  BY <1>1, <1>9, <1>10, <1>11, LoadedSo
<1> QED
  BY <1>11, <1>12 DEF Now, entries

LEMMA SystemsLoaded ==
    ASSUME NEW s \in SceneSet, NEW objects, NEW byId, NEW spins, NEW time, NEW paused
    PROVE  LoadEach(Loading(objects, byId, spins, <<>>, time, paused), "systems",
                    Arr(SystemEntries(s)))
           = Loading(objects, byId, spins, s.systems, time, paused)
<1> DEFINE list == s.systems
           N == Len(list)
           entries == SystemEntries(s)
           Now(systems) == Loading(objects, byId, spins, systems, time, paused)
           g == [k \in 0 .. N |-> Now(Before(list, k))]
<1>1. list \in Seq(Systems)
  BY DEF SceneSet
<1>2. /\ entries = [i \in 1 .. N |-> entries[i]] /\ \A j \in 1 .. N : entries[j] = Str(list[j])
  BY DEF SystemEntries
<1>3. \A k \in 0 .. N : g[k] = Now(Before(list, k))
  OBVIOUS
<1>4. \A systems : Now(systems).ok
  BY LoadingIsOk
<1>5. \A name \in Systems : \A systems :
          LoadSystem(Now(systems), Str(name)) = Now(Append(systems, name))
  BY LoadSystemSame
<1>6. \A t, entry : t.ok => LoadEntry(t, "systems", entry) = LoadSystem(t, entry)
  BY DEF LoadEntry
<1> HIDE DEF list
<1>7. N \in Nat /\ IsSeq(list) /\ \A j \in 1 .. N : list[j] \in Systems
  BY <1>1, ElementOfSeq, SeqIsSeq DEF IsSeq
<1> HIDE DEF Now, g, entries, N
<1>8. Len(entries) = N
  BY <1>2, <1>7, ListIsSeq
<1>9. ASSUME NEW j \in 1 .. N PROVE g[j] = LoadEntry(g[j - 1], "systems", entries[j])
  <2> DEFINE before == Before(list, j - 1)
  <2>1. j - 1 \in 0 .. N /\ j \in 0 .. N /\ j - 1 \in Nat /\ j - 1 < Len(list) /\ (j - 1) + 1 = j
    BY <1>7 DEF N
  <2>2. g[j - 1] = Now(before) /\ g[j] = Now(Before(list, j))
    BY <1>3, <2>1
  <2>3. Append(before, list[j]) = Before(list, j)
    BY <1>7, <2>1, OneMore
  <2>4. entries[j] = Str(list[j]) /\ list[j] \in Systems
    BY <1>2, <1>7
  <2> HIDE DEF before
  <2>5. LoadSystem(Now(before), entries[j]) = Now(Append(before, list[j]))
    BY <1>5, <2>4
  <2>6. LoadEntry(g[j - 1], "systems", entries[j]) = LoadSystem(Now(before), entries[j])
    BY <1>4, <1>6, <2>2
  <2> QED
    BY <2>2, <2>3, <2>5, <2>6
<1>10. Before(list, 0) = <<>> /\ Before(list, N) = list
  BY <1>7, AllOfIt DEF N
<1>11. g[0] = Now(<<>>) /\ g[N] = Now(list)
  <2>1. 0 \in 0 .. N /\ N \in 0 .. N
    BY <1>7
  <2> QED
    BY <1>3, <1>10, <2>1
<1>12. LoadEach(Now(<<>>), "systems", Arr(entries)) = g[N]
  BY <1>7, <1>8, <1>9, <1>11, LoadedSo
<1> QED
  BY <1>11, <1>12 DEF Now, entries, list

-----------------------------------------------------------------------------
(* The whole document.                                                      *)

\* The fields of a document, one by one.
LEMMA TimeLoaded ==
    ASSUME NEW objects, NEW byId, NEW spins, NEW systems, NEW time, NEW paused, NEW x
    PROVE  LoadSection(Loading(objects, byId, spins, systems, time, paused), <<"time", Num(x)>>)
           = Loading(objects, byId, spins, systems, x, paused)
<1> DEFINE t == Loading(objects, byId, spins, systems, time, paused)
           field == <<"time", Num(x)>>
<1>1. t.ok
  BY LoadingIsOk
<1>2. field[1] = "time" /\ Type(field[2]) = "num" /\ field[2][2] = x
  BY DEF Num, Type
<1> HIDE DEF t, field
<1>3. LoadSection(t, field) = [t EXCEPT !.scene.time = x]
  BY <1>1, <1>2 DEF LoadSection
<1>4. [t EXCEPT !.scene.time = x] = Loading(objects, byId, spins, systems, x, paused)
  BY TimePut DEF t, Loading
<1> QED
  BY <1>3, <1>4 DEF t, field

LEMMA PausedLoaded ==
    ASSUME NEW objects, NEW byId, NEW spins, NEW systems, NEW time, NEW paused, NEW x
    PROVE  LoadSection(Loading(objects, byId, spins, systems, time, paused),
                       <<"paused", <<"bool", x>>>>)
           = Loading(objects, byId, spins, systems, time, x)
<1> DEFINE t == Loading(objects, byId, spins, systems, time, paused)
           field == <<"paused", <<"bool", x>>>>
<1>1. t.ok
  BY LoadingIsOk
<1>2. field[1] = "paused" /\ Type(field[2]) = "bool" /\ field[2][2] = x
  BY DEF Type
<1> HIDE DEF t, field
<1>3. LoadSection(t, field) = [t EXCEPT !.scene.paused = x]
  BY <1>1, <1>2 DEF LoadSection
<1>4. [t EXCEPT !.scene.paused = x] = Loading(objects, byId, spins, systems, time, x)
  BY PausedPut DEF t, Loading
<1> QED
  BY <1>3, <1>4 DEF t, field

LEMMA EntriesLoaded ==
    ASSUME NEW t, NEW section \in {"objects", "spin_animations", "systems"}, NEW v, t.ok
    PROVE  LoadSection(t, <<section, v>>) = LoadEach(t, section, v)
BY DEF LoadSection

\* What there is before the first field.
LEMMA StartIsLoading == Start = Loading(<<>>, {}, <<>>, <<>>, 0, No)
BY DEF Start, Staged, EmptyScene, Loading, SceneOf, Yes, No

\* What the fields of a scene's document leave.
LEMMA FieldsLoaded ==
    ASSUME NEW s \in WholeScenes
    PROVE  FromFields(Append(UpToSpins(s), <<"systems", Arr(SystemEntries(s))>>))
           = Loading(CapturedAll(s), s.byId, s.spins, s.systems, s.time, s.paused)
<1> DEFINE none == <<>>
           noIds == {}
           one == Append(none, <<"time", Num(s.time)>>)
           two == Append(one, <<"paused", <<"bool", s.paused>>>>)
           objects == <<"objects", Arr(ObjectEntries(s))>>
           spins == <<"spin_animations", Arr(SpinEntries(s))>>
           systems == <<"systems", Arr(SystemEntries(s))>>
           three == UpToObjects(s)
           four == UpToSpins(s)
           all == CapturedAll(s)
<1>1. s \in SceneSet
  BY DEF WholeScenes
<1>2. FromFields(none) = Loading(none, noIds, none, none, 0, No) /\ IsSeq(none)
  BY NoFields, StartIsLoading, EmptyIsSeq
<1>3. three = Append(two, objects)
  BY DEF UpToObjects
<1>4. four = IF DOMAIN s.spins = {} THEN three ELSE Append(three, spins)
  BY DEF UpToSpins
<1>5. \A t1, p1 :
          LoadEach(Loading(none, noIds, none, none, t1, p1), "objects", Arr(ObjectEntries(s)))
                  = Loading(all, s.byId, none, none, t1, p1)
  BY ObjectsLoaded
<1>6. LoadEach(Loading(all, s.byId, none, none, s.time, s.paused), "spin_animations",
               Arr(SpinEntries(s)))
      = Loading(all, s.byId, s.spins, none, s.time, s.paused)
  <2> HIDE DEF all
  <2> QED
    BY <1>1, SpinsLoaded
<1>7. LoadEach(Loading(all, s.byId, s.spins, none, s.time, s.paused), "systems",
               Arr(SystemEntries(s)))
      = Loading(all, s.byId, s.spins, s.systems, s.time, s.paused)
  <2> HIDE DEF all
  <2> QED
    BY <1>1, SystemsLoaded
<1>8. DOMAIN s.spins = {} => s.spins = none
  BY <1>1, AllSpins
<1> HIDE DEF none, noIds, all, three, four
<1>9. IsSeq(one) /\ FromFields(one) = Loading(none, noIds, none, none, s.time, No)
  <2>1. IsSeq(one) /\ FromFields(one) = LoadSection(FromFields(none), <<"time", Num(s.time)>>)
    BY <1>2, AppendAdds, OneMoreField
  <2> QED
    BY <1>2, <2>1, TimeLoaded
<1> HIDE DEF one
<1>10. IsSeq(two) /\ FromFields(two) = Loading(none, noIds, none, none, s.time, s.paused)
  <2>1. IsSeq(two) /\ FromFields(two)
                         = LoadSection(FromFields(one), <<"paused", <<"bool", s.paused>>>>)
    BY <1>9, AppendAdds, OneMoreField
  <2> QED
    BY <1>9, <2>1, PausedLoaded
<1> HIDE DEF two
<1>11. IsSeq(three) /\ FromFields(three) = Loading(all, s.byId, none, none, s.time, s.paused)
  <2>1. IsSeq(three) /\ FromFields(three) = LoadSection(FromFields(two), objects)
    BY <1>3, <1>10, AppendAdds, OneMoreField
  <2>2. LoadSection(FromFields(two), objects)
        = LoadEach(FromFields(two), "objects", Arr(ObjectEntries(s)))
    BY <1>10, LoadingIsOk, EntriesLoaded
  <2> QED
    BY <1>5, <1>10, <2>1, <2>2
<1>12. IsSeq(four) /\ FromFields(four) = Loading(all, s.byId, s.spins, none, s.time, s.paused)
  <2>1. CASE DOMAIN s.spins = {}
    BY <1>4, <1>8, <1>11, <2>1
  <2>2. CASE DOMAIN s.spins # {}
    <3>1. IsSeq(four) /\ FromFields(four) = LoadSection(FromFields(three), spins)
      BY <1>4, <1>11, <2>2, AppendAdds, OneMoreField
    <3>2. LoadSection(FromFields(three), spins)
          = LoadEach(FromFields(three), "spin_animations", Arr(SpinEntries(s)))
      BY <1>11, LoadingIsOk, EntriesLoaded
    <3> QED
      BY <1>6, <1>11, <3>1, <3>2
  <2> QED
    BY <2>1, <2>2
<1>13. FromFields(Append(four, systems)) = LoadSection(FromFields(four), systems)
  BY <1>12, OneMoreField
<1>14. LoadSection(FromFields(four), systems)
       = LoadEach(FromFields(four), "systems", Arr(SystemEntries(s)))
  BY <1>12, LoadingIsOk, EntriesLoaded
<1>15. FromFields(Append(four, systems))
       = Loading(all, s.byId, s.spins, s.systems, s.time, s.paused)
  BY <1>7, <1>12, <1>13, <1>14
<1> QED
  BY <1>15 DEF four, all

\* What properties hold and the parser can return is UTF-8.
LEMMA HeldIsUtf8 ==
    ASSUME NEW v \in Held, IsValue(v)
    PROVE  StringsIn(v) \subseteq Texts
<1>1. CASE v \in HeldStrings
  <2>1. Type(v) = "str" /\ StringsIn(v) = {v[2]}
    BY <1>1 DEF HeldStrings, Type, StringsIn
  <2> QED
    BY <2>1, StringOf
<1>2. CASE v \in Lists
  <2>1. Type(v) = "arr" /\ \A i \in DOMAIN v[2] : Type(v[2][i]) = "str"
    <3>1. IsList(v)
      BY <1>2 DEF IsList
    <3> QED
      BY <3>1, TypesOfList
  <2>2. \A i \in DOMAIN v[2] : IsValue(v[2][i])
    BY <2>1, ValuesOfList DEF IsListOfValues
  <2>3. \A i \in DOMAIN v[2] : v[2][i][2] \in Texts
    BY <2>1, <2>2, StringOf
  <2>4. StringsIn(v) = {v[2][i][2] : i \in DOMAIN v[2]}
    BY <1>2 DEF StringsIn, Lists, HeldStrings
  <2> QED
    BY <2>3, <2>4
<1>3. CASE v \notin HeldStrings /\ v \notin Lists
  BY <1>3 DEF StringsIn
<1> QED
  BY <1>1, <1>2, <1>3

LEMMA LongerKeeps ==
    ASSUME NEW t, IsSeq(t), NEW x, NEW u, u = Append(t, x)
    PROVE  IsSeq(u) /\ Len(u) = Len(t) + 1 /\ \A i \in 1 .. Len(t) : u[i] = t[i]
BY AppendAdds

\* If the parser returns the document of a scene, all its strings are UTF-8.
LEMMA ReturnedIsUtf8 == ASSUME NEW s \in SceneSet, IsValue(DocumentOf(s)) PROVE IsUtf8(s)
<1> DEFINE root == DocumentOf(s)
           fields == root[2]
           objects == <<"objects", Arr(ObjectEntries(s))>>
<1>1. IsListOfFields(fields)
  BY FieldsOf DEF DocumentOf, Type
<1>2. 3 \in DOMAIN fields /\ fields[3] = objects
  <2> DEFINE three == UpToObjects(s)
             some == UpToSpins(s)
  <2>1. IsSeq(three) /\ Len(three) = 3 /\ three[3] = objects
    BY ThreeMembers DEF UpToObjects
  <2> HIDE DEF three, objects
  <2>2. IsSeq(some) /\ Len(some) >= 3 /\ Len(some) \in Nat /\ some[3] = objects
    <3>1. CASE DOMAIN s.spins = {}
      BY <2>1, <3>1 DEF UpToSpins, three
    <3>2. CASE DOMAIN s.spins # {}
      <4> DEFINE spins == <<"spin_animations", Arr(SpinEntries(s))>>
      <4>1. some = Append(three, spins)
        BY <3>2 DEF UpToSpins, three
      <4> HIDE DEF some, spins
      <4>2. IsSeq(three)
        BY <2>1
      <4> HIDE DEF root
      <4>3. IsSeq(some) /\ Len(some) = Len(three) + 1
            /\ \A i \in 1 .. Len(three) : some[i] = three[i]
        BY ONLY <4>2, <4>1, LongerKeeps
      <4> QED
        BY <2>1, <4>3
    <3> QED
      BY <3>1, <3>2
  <2>3. fields = Append(some, <<"systems", Arr(SystemEntries(s))>>)
    BY DEF DocumentOf
  <2> HIDE DEF some, fields
  <2>4. /\ fields = [i \in 1 .. Len(some) + 1 |-> IF i = Len(some) + 1
                                                THEN <<"systems", Arr(SystemEntries(s))>> ELSE some[i]]
    BY <2>2, <2>3, AppendAdds
  <2> QED
    BY <2>2, <2>4
<1> HIDE DEF fields
<1>3. IsValue(Arr(ObjectEntries(s)))
  BY <1>1, <1>2 DEF IsListOfFields
<1>4. IsListOfValues(ObjectEntries(s))
  BY <1>3, ValuesOfList DEF Arr, Type
<1>5. ASSUME NEW i \in DOMAIN s.objects PROVE HoldsUtf8(s.objects[i])
  <2> DEFINE o == s.objects[i]
  <2>1. o \in ObjectSet /\ i \in 1 .. Len(s.objects)
    BY ObjectsOfScene
  <2>2. IsValue(EntryOf(o))
    BY <1>4, <2>1 DEF IsListOfValues, ObjectEntries
  <2> HIDE DEF o
  <2>3. ASSUME NEW name \in NamesOf(o.class) PROVE StringsIn(o.values[name]) \subseteq Texts
    <3>1. IsValue(o.values[name])
      BY <2>1, <2>2, EntryHas, FoundIsValue
    <3>2. o.class \in Classes /\ o.values \in ValuesOf(o.class)
      BY <2>1, ObjectIsObject DEF IsObject
    <3>3. /\ PropertyOf(o.class, name) \in Properties
          /\ Fits(PropertyOf(o.class, name), o.values[name])
      BY <3>2, PropertiesAreNamed, ValuesFit
    <3> QED
      BY <3>1, <3>3, FittingIsHeld, HeldIsUtf8
  <2> QED
    BY <2>3 DEF HoldsUtf8, o
<1> QED
  BY <1>5 DEF IsUtf8

\* The scene that is saved is the scene that is loaded.
LEMMA SceneIsLoaded ==
    ASSUME NEW s \in WholeScenes, IsUtf8(s)
    PROVE  LoadedFrom(DocumentOf(s))
           = Staged([s EXCEPT
                        !.nextId = 0,
                        !.objects = [i \in DOMAIN @ |-> Captured(@[i].class, @[i].values)]], TRUE)
<1> DEFINE root == DocumentOf(s)
           all == CapturedAll(s)
           fields == Append(UpToSpins(s), <<"systems", Arr(SystemEntries(s))>>)
           loaded == [s EXCEPT !.nextId = 0, !.objects = all]
<1>1. s \in SceneSet
  BY DEF WholeScenes
<1>2. IsValue(root) /\ Type(root) = "obj" /\ root[2] = fields
  BY <1>1, DocumentIsValue DEF DocumentOf, Type
<1>3. FromFields(fields) = Loading(all, s.byId, s.spins, s.systems, s.time, s.paused)
  BY FieldsLoaded
<1>4. all = [i \in DOMAIN s.objects |-> Captured(s.objects[i].class, s.objects[i].values)]
  BY <1>1, ObjectsOfScene DEF CapturedAll
<1> HIDE DEF root, all, fields
<1>5. LoadedFrom(root) = FromFields(fields)
  BY <1>2 DEF LoadedFrom, FromFields, Start
<1>6. loaded = SceneOf(all, s.byId, s.spins, s.systems, s.time, s.paused)
  <2> DEFINE half == [s EXCEPT !.nextId = 0]
  <2>1. s = [objects |-> s.objects, byId |-> s.byId, spins |-> s.spins, systems |-> s.systems,
             time |-> s.time, paused |-> s.paused, nextId |-> s.nextId]
    BY <1>1 DEF SceneSet
  <2>2. half = SceneOf(s.objects, s.byId, s.spins, s.systems, s.time, s.paused)
    BY <2>1 DEF SceneOf
  <2> HIDE DEF half
  <2>3. [half EXCEPT !.objects = all] = SceneOf(all, s.byId, s.spins, s.systems, s.time, s.paused)
    BY <2>2 DEF SceneOf
  <2>4. loaded = [half EXCEPT !.objects = all]
    BY DEF half
  <2> QED
    BY <2>3, <2>4
<1>7. [s EXCEPT !.nextId = 0,
                !.objects = [i \in DOMAIN @ |-> Captured(@[i].class, @[i].values)]] = loaded
  <2>1. [s EXCEPT !.nextId = 0,
                  !.objects = [i \in DOMAIN @ |-> Captured(@[i].class, @[i].values)]]
        = [s EXCEPT !.nextId = 0,
                    !.objects = [i \in DOMAIN s.objects |->
                                    Captured(s.objects[i].class, s.objects[i].values)]]
    BY <1>1 DEF SceneSet
  <2> QED
    BY <1>4, <2>1
<1> HIDE DEF loaded
<1> QED
  BY <1>3, <1>5, <1>6, <1>7 DEF root, Loading, Yes

LEMMA WholeIsLoaded == SceneFileInv => RoundTrip
<1> SUFFICES ASSUME SceneFileInv PROVE RoundTrip
  OBVIOUS
<1> DEFINE parsed == Parsed(Saved(scene).json)
           again == [scene EXCEPT
                        !.nextId = 0,
                        !.objects = [i \in DOMAIN @ |-> Captured(@[i].class, @[i].values)]]
<1>1. scene \in WholeScenes /\ scene \in SceneSet
  BY InvIsWhole DEF WholeScenes
<1>2. /\ Saved(scene).assertsHold /\ Saved(scene).stack = <<>>
      /\ IsJson(parsed) /\ parsed.stack[1].items[1] = DocumentOf(scene)
  BY <1>1, SceneIsSaved
<1>3. CASE IsUtf8(scene)
  <2>1. IsValue(DocumentOf(scene))
    BY <1>1, <1>3, DocumentIsValue
  <2>2. LoadedFrom(DocumentOf(scene)) = Staged(again, TRUE)
    BY <1>1, <1>3, SceneIsLoaded
  <2> HIDE DEF parsed, again
  <2>3. RootOf(parsed) = DocumentOf(scene)
    BY <1>2, <2>1 DEF RootOf
  <2> QED
    BY <1>2, <1>3, <2>2, <2>3 DEF RoundTrip, parsed, again
<1>4. CASE ~IsUtf8(scene)
  <2>1. ~IsValue(DocumentOf(scene))
    BY <1>1, <1>4, ReturnedIsUtf8
  <2> HIDE DEF parsed
  <2>2. RootOf(parsed) = NoDocument
    BY <1>2, <2>1 DEF RootOf
  <2>3. Type(NoDocument) # "obj"
    BY DEF NoDocument, Type
  <2>4. LoadedFrom(NoDocument) = Staged(EmptyScene, FALSE)
    BY <2>3 DEF LoadedFrom
  <2> QED
    BY <1>2, <1>4, <2>2, <2>4 DEF RoundTrip, parsed
<1> QED
  BY <1>3, <1>4

\* Whatever the program, the inspector or a damaged file made of the scene: the
\* writer's assertions hold while it is saved and what is written has the form of
\* JSON; the loader reads the same scene out of it if all strings are UTF-8, and
\* refuses it as a whole if one was cut inside a character.
\* (writer.h:78-252, scene_loader.cpp:353-437, builtin_properties.cpp:368-375)
THEOREM SavedIsLoaded == SceneFileSpec => []RoundTrip
BY SceneStaysWhole, WholeIsLoaded, PTL
=============================================================================
