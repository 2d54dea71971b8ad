------------------------------- MODULE FileLog -------------------------------
(***************************************************************************)
(* FileLog: FileLogDevice, the log device that writes records to a file on *)
(* a thread of its own, and the global log device behind LogDevice::set.   *)
(*                                                                         *)
(* Producers call the device; main installs it, uninstalls it and destroys *)
(* it.  The writer and the producers that OverflowPolicy::Block holds back *)
(* share one condition variable, so a notify_one meant for the writer may  *)
(* wake a producer.  What happens under file_mutex is one step; what       *)
(* happens after it is released, the notifications above all, is another.  *)
(*                                                                         *)
(* A record is its number in the order in which enqueue_record got the     *)
(* mutex.  The in-memory buffer of BufferedLogDevice and the text of the   *)
(* records are left out.                                                   *)
(***************************************************************************)
EXTENDS Naturals, Sequences, FiniteSets

CONSTANTS
    Producers,    \* threads that log
    Main,         \* the thread that owns the device
    Writer,       \* writer_thread
    MaxPending,   \* FileLogDeviceOptions::max_pending_records
    NotifyBatch,  \* FileLogDeviceOptions::notify_batch_size
    Policies,     \* the overflow policies considered
    MaxRecords    \* bound: calls of enqueue_record, lifecycle markers included

Threads == Producers \cup {Main}

ASSUME FileLogAssumption ==
    /\ Main \notin Producers /\ Writer \notin Threads
    /\ MaxPending \in Nat \ {0} /\ NotifyBatch \in Nat /\ MaxRecords \in Nat
    /\ Policies \subseteq {"Block", "DropNewest", "DropOldest"}

VARIABLES
    policy,    \* options.overflow_policy
    installed, \* LogDevice::instance is the device
    setting,   \* LogDevice::set holds g_log_device_mutex
    session,   \* session_active
    stop,      \* stop_requested
    pending,   \* pending_records
    dropped,   \* dropped_records
    pc,        \* where each thread is
    sleeping,  \* threads asleep on file_condition
    batch,     \* the writer's batch
    summary,   \* the writer's `dropped'
    offered,   \* records that enqueue_record decided about
    written,   \* the records in the file, and the last of them
    last,
    reported   \* records that the summaries in the file account for

global == <<policy, installed, setting>>
device == <<session, stop, pending, dropped>>
file   == <<batch, summary, written, last, reported>>
vars   == <<global, device, file, pc, sleeping, offered>>

-----------------------------------------------------------------------------
(* Faulty variants: each stands for a plausible slip in the code.           *)

\* The writer waits without a time limit.
NoTimeout == FALSE

\* The writer leaves as soon as it is told to stop.
StopAtOnce == stop

-----------------------------------------------------------------------------
Goto(t, where) == pc' = [pc EXCEPT ![t] = where]

Full == Len(pending) >= MaxPending

\* What a producer waits for under OverflowPolicy::Block.
CanEnqueue == stop \/ ~Full

PushBack(q, r) == Append(q, r)

\* dropped_records grows when the oldest record makes room.
CountOldest(overwrite) == IF overwrite THEN 1 ELSE 0

-----------------------------------------------------------------------------
(* A producer: LogDevice::get, then write_record. *)

\* The bound on the records, those under way included.
MayLog ==
    offered + Cardinality({t \in Threads : pc[t] \in {"get", "enqueue"}}) < MaxRecords

\* main has not called the destructor.
DeviceLives == pc[Main] = "idle" \/ setting

\* Through the global functions, which ask for the device first, or through a
\* Logger that holds a reference to it.
Log(t) ==
    /\ t \in Producers
    /\ pc[t] = "idle"
    /\ DeviceLives
    /\ MayLog
    /\ Goto(t, "get") \/ Goto(t, "enqueue")
    /\ UNCHANGED <<global, device, file, sleeping, offered>>

\* Under g_log_device_mutex.  The null device ignores the record.
Get(t) ==
    /\ pc[t] = "get"
    /\ ~setting
    /\ Goto(t, IF installed THEN "enqueue" ELSE "idle")
    /\ UNCHANGED <<global, device, file, sleeping, offered>>

\* The record is put in the queue.  A lifecycle marker, which only main
\* writes, wakes somebody at once.
Accept(t) ==
    LET overwrite == Full /\ policy = "DropOldest"
        queue == PushBack(IF overwrite THEN Tail(pending) ELSE pending, offered + 1)
    IN  /\ pending' = queue
        /\ dropped' = dropped + CountOldest(overwrite)
        /\ Goto(t, IF t = Main \/ Len(queue) >= NotifyBatch THEN "notify" ELSE "done")

Refuse(t) ==
    /\ dropped' = dropped + 1
    /\ Goto(t, "done")
    /\ UNCHANGED pending

WaitForRoom(t) ==
    /\ pc[t] = "enqueue" /\ t \notin sleeping
    /\ policy = "Block" /\ ~CanEnqueue
    /\ sleeping' = sleeping \cup {t}
    /\ UNCHANGED <<global, device, file, pc, offered>>

Enqueue(t) ==
    /\ pc[t] = "enqueue" /\ t \notin sleeping
    /\ policy = "Block" => CanEnqueue
    /\ offered' = offered + 1
    /\ IF (policy = "Block" /\ stop) \/ (policy = "DropNewest" /\ Full)
         THEN Refuse(t)
         ELSE Accept(t)
    /\ UNCHANGED <<global, session, stop, file, sleeping>>

\* notify_one: any thread that sleeps, the writer or a producer.
Notify(t) ==
    /\ pc[t] = "notify"
    /\ IF sleeping = {}
         THEN UNCHANGED sleeping
         ELSE \E s \in sleeping : sleeping' = sleeping \ {s}
    /\ Goto(t, "done")
    /\ UNCHANGED <<global, device, file, offered>>

Logged(t) ==
    /\ t \in Producers
    /\ pc[t] = "done"
    /\ Goto(t, "idle")
    /\ UNCHANGED <<global, device, file, sleeping, offered>>

-----------------------------------------------------------------------------
(* main: LogDevice::set, the lifecycle markers, the destructor. *)

\* set(device): the instance changes, then on_initialized.
Install ==
    /\ pc[Main] = "idle"
    /\ ~installed
    /\ MayLog
    /\ installed' = TRUE
    /\ setting' = TRUE
    /\ session' = TRUE
    /\ Goto(Main, IF session \/ stop THEN "done" ELSE "enqueue")
    /\ UNCHANGED <<policy, stop, pending, dropped, file, sleeping, offered>>

\* set(nullptr): on_shutdown, then the instance changes.
Uninstall ==
    /\ pc[Main] = "idle"
    /\ installed
    /\ installed' = FALSE
    /\ setting' = TRUE
    /\ session' = FALSE
    /\ Goto(Main, IF session /\ ~stop THEN "enqueue" ELSE "done")
    /\ UNCHANGED <<policy, stop, pending, dropped, file, sleeping, offered>>

SetReturns ==
    /\ pc[Main] = "done"
    /\ setting
    /\ setting' = FALSE
    /\ Goto(Main, "idle")
    /\ UNCHANGED <<policy, installed, device, file, sleeping, offered>>

\* ~FileLogDevice, when no other thread uses the device any more: on_shutdown,
\* whose marker is written while a session is active ...
Destroy ==
    /\ pc[Main] = "idle"
    /\ \A t \in Producers : pc[t] = "idle"
    /\ session' = FALSE
    /\ Goto(Main, IF session THEN "enqueue" ELSE "stop")
    /\ UNCHANGED <<global, stop, pending, dropped, file, sleeping, offered>>

MarkerOut ==
    /\ pc[Main] = "done"
    /\ ~setting
    /\ Goto(Main, "stop")
    /\ UNCHANGED <<global, device, file, sleeping, offered>>

\* ... then the writer is told to stop, woken and joined.
RequestStop ==
    /\ pc[Main] = "stop"
    /\ stop' = TRUE
    /\ Goto(Main, "notify_stop")
    /\ UNCHANGED <<global, session, pending, dropped, file, sleeping, offered>>

NotifyStop ==
    /\ pc[Main] = "notify_stop"
    /\ sleeping' = {}
    /\ Goto(Main, "join")
    /\ UNCHANGED <<global, device, file, offered>>

Join ==
    /\ pc[Main] = "join"
    /\ pc[Writer] = "exited"
    /\ Goto(Main, "gone")
    /\ UNCHANGED <<global, device, file, sleeping, offered>>

-----------------------------------------------------------------------------
(* The writer: writer_loop. *)

SomethingToDo == stop \/ pending # <<>> \/ dropped > 0

\* The writer leaves when it is told to and nothing is left.
NothingLeft == stop /\ pending = <<>> /\ dropped = 0

\* pending_records and dropped_records are taken and emptied.
Take ==
    /\ batch' = pending
    /\ summary' = dropped
    /\ pending' = <<>>
    /\ dropped' = 0
    /\ Goto(Writer, IF NothingLeft THEN "exited" ELSE "notify_all")
    /\ UNCHANGED <<global, session, stop, written, last, reported, offered>>

WriterTakes ==
    /\ pc[Writer] = "test"
    /\ SomethingToDo
    /\ Take
    /\ UNCHANGED sleeping

WriterSleeps ==
    /\ pc[Writer] = "test"
    /\ ~SomethingToDo
    /\ sleeping' = sleeping \cup {Writer}
    /\ Goto(Writer, "wait")
    /\ UNCHANGED <<global, device, file, offered>>

WriterWakes ==
    /\ pc[Writer] = "wait"
    /\ Writer \notin sleeping
    /\ Goto(Writer, "test")
    /\ UNCHANGED <<global, device, file, sleeping, offered>>

\* flush_interval may run out at any time.
TimeIsUp == TRUE

\* wait_for returns after flush_interval, whatever its predicate says.
WriterTimeout ==
    /\ pc[Writer] = "wait"
    /\ Writer \in sleeping
    /\ TimeIsUp
    /\ Take
    /\ sleeping' = sleeping \ {Writer}

WriterNotifyAll ==
    /\ pc[Writer] = "notify_all"
    /\ sleeping' = {}
    /\ Goto(Writer, "write")
    /\ UNCHANGED <<global, device, file, offered>>

\* The batch, then the summary of the dropped records.
WriterWrites ==
    /\ pc[Writer] = "write"
    /\ written' = written + Len(batch)
    /\ last' = IF batch = <<>> THEN last ELSE batch[Len(batch)]
    /\ reported' = reported + summary
    /\ batch' = <<>>
    /\ summary' = 0
    /\ Goto(Writer, "test")
    /\ UNCHANGED <<global, device, sleeping, offered>>

WriterStep ==
    \/ WriterTakes \/ WriterSleeps \/ WriterWakes \/ WriterTimeout
    \/ WriterNotifyAll \/ WriterWrites

-----------------------------------------------------------------------------
Init ==
    /\ policy \in Policies
    /\ installed = FALSE /\ setting = FALSE
    /\ session = FALSE /\ stop = FALSE
    /\ pending = <<>> /\ dropped = 0
    /\ pc = [t \in Threads \cup {Writer} |-> IF t = Writer THEN "test" ELSE "idle"]
    /\ sleeping = {}
    /\ batch = <<>> /\ summary = 0
    /\ offered = 0 /\ written = 0 /\ last = 0 /\ reported = 0

\* A call of the device goes on until it returns.
CallStep(t) == Get(t) \/ WaitForRoom(t) \/ Enqueue(t) \/ Notify(t) \/ Logged(t)

MainStep == SetReturns \/ MarkerOut \/ RequestStop \/ NotifyStop \/ Join

Gone == pc[Main] = "gone" /\ UNCHANGED vars

Next ==
    \/ \E t \in Threads : Log(t) \/ CallStep(t)
    \/ Install \/ Uninstall \/ Destroy \/ MainStep
    \/ WriterStep
    \/ Gone

Spec == Init /\ [][Next]_vars

\* Threads run, and flush_interval passes.
FairSpec ==
    /\ Spec
    /\ \A t \in Threads : WF_vars(CallStep(t))
    /\ WF_vars(MainStep)
    /\ WF_vars(WriterStep)

-----------------------------------------------------------------------------
(* Properties. *)

\* The types, and the limit that every overflow policy keeps: the queue never
\* holds more than max_pending_records.
TypeOK ==
    /\ policy \in Policies
    /\ {installed, setting, session, stop} \subseteq BOOLEAN
    /\ pending \in Seq(Nat) /\ batch \in Seq(Nat)
    /\ Len(pending) <= MaxPending /\ Len(batch) <= MaxPending
    /\ {dropped, summary, offered, written, last, reported} \subseteq Nat
    /\ pc \in [Threads \cup {Writer} ->
                 {"idle", "get", "enqueue", "notify", "done", "stop", "notify_stop", "join",
                  "gone", "test", "wait", "notify_all", "write", "exited"}]
    /\ sleeping \subseteq {t \in Threads \cup {Writer} : pc[t] \in {"enqueue", "wait"}}

\* No record disappears: enqueue_record's records are in the file, on their
\* way to it, or counted as dropped by a summary that is in the file, on its
\* way to it, or still to be taken.
RecordsAccounted ==
    offered = written + Len(batch) + Len(pending) + reported + summary + dropped

\* The file holds its records in the order in which they were enqueued, under
\* every overflow policy: the batches are swapped out whole and written before
\* the next one is.
FileInOrder ==
    LET rest == batch \o pending
    IN  /\ \A i \in 1..Len(rest) : rest[i] > last
        /\ \A i, j \in 1..Len(rest) : i < j => rest[i] < rest[j]

\* Once the destructor has joined the writer, the file accounts for every
\* record: nothing is left in the queue, the batch or the counters.
DestroyedMeansFlushed ==
    pc[Main] = "gone" => offered = written + reported

\* Whatever the policy and whoever fills the queue, the file is complete: every record
\* is accounted for, in order, and after the destructor for good (FileLogDevice).
FileIsComplete == TypeOK /\ RecordsAccounted /\ FileInOrder /\ DestroyedMeansFlushed

\* A call of the device returns, and so do set and the destructor, though a
\* notify_one may go to a blocked producer instead of the writer and set keeps
\* g_log_device_mutex while its marker waits for room.
CallsReturn ==
    /\ \A t \in Producers : (pc[t] # "idle") ~> (pc[t] = "idle")
    /\ (pc[Main] # "idle") ~> (pc[Main] \in {"idle", "gone"})

-----------------------------------------------------------------------------
(* The inductive invariant behind the theorem of FileLogProofs.             *)

Increasing(q) == \A i, j \in 1..Len(q) : i < j => q[i] < q[j]
Between(q, low, high) == \A i \in 1..Len(q) : low < q[i] /\ q[i] <= high

\* FileInOrder, part by part.
Ordered ==
    /\ last <= offered
    /\ Between(batch, last, offered) /\ Between(pending, last, offered)
    /\ Increasing(batch) /\ Increasing(pending)
    /\ \A i \in 1..Len(batch) : \A j \in 1..Len(pending) : batch[i] < pending[j]

\* The writer has a batch in hand only between taking and writing it, and it has
\* left only when nothing was there to take.
WriterConsistent ==
    /\ pc[Writer] \in {"test", "wait", "exited"} => batch = <<>> /\ summary = 0
    /\ pc[Writer] = "exited" => stop /\ pending = <<>> /\ dropped = 0

\* Nobody but main is inside the device when its destructor runs.
DestructorAlone ==
    /\ setting => pc[Main] \in {"enqueue", "notify", "done"}
    /\ ~setting /\ pc[Main] # "idle" => \A t \in Producers : pc[t] = "idle"
    /\ stop => pc[Main] \in {"notify_stop", "join", "gone"}
    /\ pc[Main] = "gone" => pc[Writer] = "exited"

LogInv ==
    TypeOK /\ RecordsAccounted /\ Ordered /\ WriterConsistent /\ DestructorAlone
=============================================================================
