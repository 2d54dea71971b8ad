------------------------------- MODULE Allocators -------------------------------
(***************************************************************************)
(* Allocators: the heap with its statistics, and the memory of a frame.    *)
(*                                                                         *)
(* Every thread allocates from the heap; TrackingAllocator counts with     *)
(* relaxed atomics, one at a time, before or after the memory really       *)
(* changes hands.  BumpAllocator is a pointer that threads move with       *)
(* compare-and-swap.  ArenaAllocator, which only the main thread uses,     *)
(* takes pages from the heap.  Both are reset when a frame begins.         *)
(*                                                                         *)
(* A step is one access to an atomic; the two counters of a tag, which no   *)
(* allocation reads, are one.  Each property looks at one atomic at a time, *)
(* so that interleaving the accesses is all that relaxed ordering allows.   *)
(* Counters wrap around at Limit.  Histograms, the total and the statistics   *)
(* of the frame allocators, which are read at reset only, are left out.     *)
(***************************************************************************)
EXTENDS Integers, Sequences, FiniteSets, FiniteSetsExt

CONSTANTS
    Threads, Main,    \* the main thread is one of them
    Sizes, Alignments,\* what is asked for
    Tags,             \* MemoryTag of the program's blocks
    Limit,            \* the values of size_t: counters wrap around
    Capacity,         \* size of the bump allocator's memory
    PageSize, Header, \* default_page_size, sizeof(ArenaPage)
    Phases,           \* addresses the heap returns, modulo the largest alignment
    MaxCalls,         \* bound: calls of allocate
    None

Page == "Page"
AllTags == Tags \cup {Page}

ASSUME AllocatorAssumption ==
    /\ Main \in Threads
    /\ Page \notin Tags
    /\ Sizes \subseteq Nat \ {0} /\ Alignments \subseteq Nat \ {0}
    /\ Limit \in Nat \ {0}
    /\ {Capacity, PageSize, Header, MaxCalls} \subseteq Nat
    /\ Phases \subseteq Nat

VARIABLES
    blocks,                \* heap blocks that belong to somebody
    live, peak,            \* bytes_live, bytes_peak
    allocations, deallocations,
    bytesPerTag, allocationsPerTag,
    call,                  \* what each thread is doing
    base,                  \* BumpAllocator::base
    scratch,               \* pieces of the bump allocator's memory in use
    pages,                 \* ArenaPage's, the oldest first
    rooms,                 \* pieces of pages in use
    calls,                 \* calls of allocate so far
    highest                \* the highest value of bytes_live so far

tagged == <<bytesPerTag, allocationsPerTag>>
counters == <<live, peak, allocations, deallocations, tagged>>
frame == <<base, scratch, pages, rooms>>
vars == <<blocks, counters, call, frame, calls, highest>>

Counter == 0 .. Limit - 1
Plus(x, n)  == (x + n) % Limit
Minus(x, n) == (x - n) % Limit

Idle == [pc |-> "idle", block |-> None, level |-> 0, seen |-> 0, start |-> 0,
         next |-> 0, phase |-> 0, alignment |-> 1]

At(t, step) == call[t].pc = step
CountCall == calls < MaxCalls /\ calls' = calls + 1
Goto(t, step) == call' = [call EXCEPT ![t].pc = step]

-----------------------------------------------------------------------------
(* Faulty variants: each stands for a plausible slip in the code.           *)

\* The peak is stored when it looked lower, without comparing again.
StoreAnyway(t) == TRUE

\* The bump pointer is stored without comparing.
MoveAnyway(t) == TRUE

\* The tag given to deallocate is not that of the block.
AnyTag(block) == CHOOSE tag \in Tags : TRUE

-----------------------------------------------------------------------------
(* TrackingAllocator::allocate.                                             *)

\* No two blocks are at one address while both are in use; a number stands for it.
NewId == calls + 1

\* The block that a thread asks the heap for, and what the page it is for will be.
Asks(t, size, tag, more) ==
    /\ CountCall
    /\ call' = [call EXCEPT ![t] = [more EXCEPT
         !.pc = "obtain", !.block = [id |-> NewId, size |-> size, tag |-> tag]]]

Allocate(t, size, tag) ==
    /\ At(t, "idle")
    /\ Asks(t, size, tag, Idle)
    /\ UNCHANGED <<blocks, counters, frame, highest>>

\* Upstream has no memory: bad_alloc, and nothing was counted.
OutOfMemory(t) ==
    /\ At(t, "obtain")
    /\ call' = [call EXCEPT ![t] = Idle]
    /\ UNCHANGED <<blocks, counters, frame, calls, highest>>

Obtain(t) ==
    /\ At(t, "obtain")
    /\ allocations' = Plus(allocations, 1)
    /\ Goto(t, "addlive")
    /\ UNCHANGED <<blocks, live, peak, deallocations, tagged, frame, calls, highest>>

\* live_after is what fetch_add returned, and the block.
AddLive(t) ==
    /\ At(t, "addlive")
    /\ live' = Plus(live, call[t].block.size)
    /\ highest' = IF live' > highest THEN live' ELSE highest
    /\ call' = [call EXCEPT ![t].pc = "loadpeak", ![t].level = live']
    /\ UNCHANGED <<blocks, peak, allocations, deallocations, tagged, frame, calls>>

PeakDone(t) == call' = [call EXCEPT ![t].pc = "addtag", ![t].level = 0, ![t].seen = 0]

\* The loop goes on while the level is above the peak that was seen.
Compares(t) ==
    IF call[t].level > peak
      THEN call' = [call EXCEPT ![t].pc = "swappeak", ![t].seen = peak]
      ELSE PeakDone(t)

LoadPeak(t) ==
    /\ At(t, "loadpeak")
    /\ Compares(t)
    /\ UNCHANGED <<blocks, counters, frame, calls, highest>>

PeakUnmoved(t) == peak = call[t].seen

\* compare_exchange_weak stores the level, or fails, which it may do for no reason.
SwapPeak(t) ==
    /\ At(t, "swappeak")
    /\ \/ /\ PeakUnmoved(t)
          /\ peak' = call[t].level
          /\ PeakDone(t)
       \/ Compares(t) /\ UNCHANGED peak
    /\ UNCHANGED <<blocks, live, allocations, deallocations, tagged, frame, calls, highest>>

\* The block is returned.  The arena makes a page of it, and of that the piece
\* that did not fit in any other.
AddTag(t) ==
    LET c == call[t]
    IN  /\ At(t, "addtag")
        /\ bytesPerTag' = [bytesPerTag EXCEPT ![c.block.tag] = Plus(@, c.block.size)]
        /\ allocationsPerTag' = [allocationsPerTag EXCEPT ![c.block.tag] = Plus(@, 1)]
        /\ blocks' = blocks \cup {c.block}
        /\ call' = [call EXCEPT ![t] = Idle]
        /\ IF c.block.tag = Page
             THEN /\ pages' = Append(pages, [phase |-> c.phase, data |-> c.start,
                                             capacity |-> c.block.size - c.start,
                                             used |-> c.next - c.start])
                  /\ rooms' = rooms \cup {[page |-> Len(pages) + 1, start |-> c.start,
                                           next |-> c.next, alignment |-> c.alignment]}
             ELSE UNCHANGED <<pages, rooms>>
        /\ UNCHANGED <<live, peak, allocations, deallocations, base, scratch, calls, highest>>

-----------------------------------------------------------------------------
(* TrackingAllocator::deallocate.  The memory goes first.                   *)

Deallocate(t, block) ==
    /\ At(t, "idle")
    /\ block \in blocks /\ block.tag # Page
    /\ blocks' = blocks \ {block}
    /\ call' = [call EXCEPT ![t].pc = "count", ![t].block = block]
    /\ UNCHANGED <<counters, frame, calls, highest>>

Count(t) ==
    /\ At(t, "count")
    /\ deallocations' = Plus(deallocations, 1)
    /\ Goto(t, "sublive")
    /\ UNCHANGED <<blocks, live, peak, allocations, tagged, frame, calls, highest>>

SubLive(t) ==
    /\ At(t, "sublive")
    /\ live' = Minus(live, call[t].block.size)
    /\ Goto(t, "subtag")
    /\ UNCHANGED <<blocks, peak, allocations, deallocations, tagged, frame, calls, highest>>

TagOf(block) == block.tag

SubTag(t) ==
    LET block == call[t].block
    IN  /\ At(t, "subtag")
        /\ bytesPerTag' = [bytesPerTag EXCEPT ![TagOf(block)] = Minus(@, block.size)]
        /\ allocationsPerTag' = [allocationsPerTag EXCEPT ![TagOf(block)] = Minus(@, 1)]
        /\ call' = [call EXCEPT ![t] = Idle]
        /\ UNCHANGED <<blocks, live, peak, allocations, deallocations, frame, calls, highest>>

-----------------------------------------------------------------------------
(* BumpAllocator::allocate.                                                 *)

AlignUp(x, alignment) == ((x + alignment - 1) \div alignment) * alignment

LoadBase(t, size, alignment) ==
    /\ At(t, "idle")
    /\ CountCall
    /\ LET start == AlignUp(base, alignment)
       IN  call' = [call EXCEPT ![t] = [Idle EXCEPT
             !.pc = "swapbase", !.seen = base, !.start = start, !.next = start + size,
             !.alignment = alignment]]
    /\ UNCHANGED <<blocks, counters, frame, highest>>

BaseUnmoved(t) == base = call[t].seen

\* Memory is exhausted, the pointer is moved, or it is loaded once more.
SwapBase(t) ==
    LET c == call[t]
        again == AlignUp(base, c.alignment)
    IN  /\ At(t, "swapbase")
        /\ \/ /\ c.next > Capacity
              /\ call' = [call EXCEPT ![t] = Idle]
              /\ UNCHANGED <<base, scratch>>
           \/ /\ c.next <= Capacity /\ BaseUnmoved(t)
              /\ base' = c.next
              /\ scratch' = scratch \cup {[start |-> c.start, next |-> c.next,
                                           alignment |-> c.alignment]}
              /\ call' = [call EXCEPT ![t] = Idle]
           \/ /\ c.next <= Capacity
              /\ call' = [call EXCEPT ![t].seen = base, ![t].start = again,
                                      ![t].next = again + c.next - c.start]
              /\ UNCHANGED <<base, scratch>>
        /\ UNCHANGED <<blocks, counters, pages, rooms, calls, highest>>

-----------------------------------------------------------------------------
(* ArenaAllocator::allocate, on the main thread.                            *)

\* Where a piece with this alignment begins on page p.
StartOn(p, alignment) == AlignUp(p.phase + p.data + p.used, alignment) - p.phase

EndsInside(p, start, size) == start + size <= p.data + p.capacity

Fits(p, size, alignment) == EndsInside(p, StartOn(p, alignment), size)

\* new_page's page_size.
PageFor(size, alignment) == Max({PageSize, Header + alignment - 1 + size})

\* What the calls can ask for fits in a size_t.
BlockSizes == Sizes \cup {PageFor(size, alignment) : size \in Sizes, alignment \in Alignments}

ASSUME MemoryAssumption ==
    /\ MaxCalls < Limit
    /\ \E most \in Counter : /\ \A size \in BlockSizes : size <= most
                             /\ MaxCalls * most < Limit

\* The newest page with room, or a new page.
AllocateInArena(size, alignment) ==
    /\ At(Main, "idle")
    /\ \/ \E i \in DOMAIN pages :
            LET start == StartOn(pages[i], alignment)
            IN  /\ Fits(pages[i], size, alignment)
                /\ \A j \in i + 1 .. Len(pages) : ~Fits(pages[j], size, alignment)
                /\ pages' = [pages EXCEPT ![i].used = start + size - pages[i].data]
                /\ rooms' = rooms \cup {[page |-> i, start |-> start, next |-> start + size,
                                         alignment |-> alignment]}
                /\ CountCall
                /\ UNCHANGED call
       \/ \E phase \in Phases :
            LET data == AlignUp(phase + Header, alignment) - phase
            IN  /\ \A j \in DOMAIN pages : ~Fits(pages[j], size, alignment)
                /\ Asks(Main, PageFor(size, alignment), Page,
                        [Idle EXCEPT !.phase = phase, !.start = data, !.next = data + size,
                                     !.alignment = alignment])
                /\ UNCHANGED <<pages, rooms>>
    /\ UNCHANGED <<blocks, counters, base, scratch, highest>>

\* BumpAllocator::reset and ArenaAllocator::reset, when a frame begins and what the
\* last one used is gone.
Reset ==
    /\ At(Main, "idle")
    /\ base' = 0
    /\ scratch' = {}
    /\ pages' = [i \in DOMAIN pages |-> [pages[i] EXCEPT !.used = 0]]
    /\ rooms' = {}
    /\ UNCHANGED <<blocks, counters, call, calls, highest>>

-----------------------------------------------------------------------------
Init ==
    /\ blocks = {}
    /\ live = 0 /\ peak = 0 /\ highest = 0
    /\ allocations = 0 /\ deallocations = 0
    /\ bytesPerTag = [tag \in AllTags |-> 0]
    /\ allocationsPerTag = [tag \in AllTags |-> 0]
    /\ call = [t \in Threads |-> Idle]
    /\ base = 0 /\ scratch = {}
    /\ pages = <<>> /\ rooms = {}
    /\ calls = 0

Next ==
    \/ \E t \in Threads :
         \/ \E size \in Sizes, tag \in Tags : Allocate(t, size, tag)
         \/ OutOfMemory(t) \/ Obtain(t) \/ AddLive(t) \/ LoadPeak(t) \/ SwapPeak(t)
         \/ AddTag(t)
         \/ \E block \in blocks : Deallocate(t, block)
         \/ Count(t) \/ SubLive(t) \/ SubTag(t)
         \/ \E size \in Sizes, alignment \in Alignments : LoadBase(t, size, alignment)
         \/ SwapBase(t)
    \/ \E size \in Sizes, alignment \in Alignments : AllocateInArena(size, alignment)
    \/ Reset

Spec == Init /\ [][Next]_vars

-----------------------------------------------------------------------------
(* Properties.                                                              *)

\* Every variable holds a value of its type, and blocks are told apart.
TypeOK ==
    /\ \A b \in blocks : b.size \in Nat \ {0} /\ b.tag \in AllTags
    /\ \A b, c \in blocks : b.id = c.id => b = c
    /\ {live, peak, highest, allocations, deallocations} \subseteq Counter
    /\ bytesPerTag \in [AllTags -> Counter]
    /\ allocationsPerTag \in [AllTags -> Counter]
    /\ \A t \in Threads :
         call[t].pc \in {"idle", "obtain", "addlive", "loadpeak", "swappeak", "addtag", "count",
                         "sublive", "subtag", "swapbase"}
    /\ base \in 0 .. Capacity
    /\ \A i \in DOMAIN pages : pages[i].used \in 0 .. pages[i].capacity
    /\ calls \in 0 .. MaxCalls

\* The bytes of blocks, counted one by one.
Slots(S) == UNION {{b} \X (1 .. b.size) : b \in S}
Bytes(S) == Cardinality(Slots(S))

\* The blocks threads are dealing with while they are at one of these steps.
Dealt(steps) == {call[t].block : t \in {u \in Threads : call[u].pc \in steps}}

\* The blocks in the program's hands, and those of the threads at these steps.
Charged(steps) == blocks \cup Dealt(steps)

\* The steps at which a counter has a block that is being obtained, or still has one
\* that is being given back.
InLive  == {"loadpeak", "swappeak", "addtag", "count", "sublive"}
InCalls == {"addlive", "loadpeak", "swappeak", "addtag", "count"}
InTag   == {"count", "sublive", "subtag"}

\* Threads change the counters one after the other and in any order, and yet each
\* counter is at every moment what the blocks in the program's hands and those it
\* is just getting or giving back make it, so that it is right when all is quiet
\* and never falls below zero (TrackingAllocator).
Counted ==
    /\ live = Bytes(Charged(InLive))
    /\ Minus(allocations, deallocations) = Cardinality(Charged(InCalls))
    /\ \A tag \in AllTags :
         LET ofTag == {b \in Charged(InTag) : b.tag = tag}
         IN  /\ bytesPerTag[tag] = Bytes(ofTag)
             /\ allocationsPerTag[tag] = Cardinality(ofTag)

\* The counters are those of the blocks, and wrap nowhere (TrackingAllocator).
CountersRight == TypeOK /\ Counted

\* Whichever thread's compare-and-swap succeeds, no level that bytes_live has
\* reached is lost: it is the peak, or a thread is about to make it so, and the
\* peak is never one that was not reached (the loop in allocate).
PeakIsHighest ==
    /\ peak <= highest
    /\ peak = highest \/ \E t \in Threads :
         /\ call[t].pc \in {"loadpeak", "swappeak"}
         /\ call[t].level = highest

Apart(x, y) == x.next <= y.start \/ y.next <= x.start

\* No byte of frame memory is in two hands, whatever threads allocate while the
\* frame begins, and every piece lies inside its memory, at its alignment; a new
\* page has room for what it was made for (the assertion in ArenaAllocator::allocate).
BlocksApart ==
    /\ \A x \in scratch : x.next <= Capacity /\ x.start % x.alignment = 0
    /\ \A x, y \in scratch : x = y \/ Apart(x, y)
    /\ \A x \in rooms :
         LET p == pages[x.page]
         IN  /\ x.start >= Header /\ x.next <= p.data + p.capacity
             /\ (p.phase + x.start) % x.alignment = 0
    /\ \A x, y \in rooms : x = y \/ x.page # y.page \/ Apart(x, y)

-----------------------------------------------------------------------------
(* The inductive invariants behind the theorems of AllocatorsProofs: first  *)
(* that of the race for the peak.                                           *)

Racing == {"loadpeak", "swappeak"}

\* What a thread carries through the loop that raises the peak: a level that was
\* reached, and above the peak it has seen if it is about to swap.
RacersConsistent ==
    /\ live \in Nat /\ peak \in Nat /\ highest \in Nat
    /\ \A b \in blocks : b.size \in Nat
    /\ \A t \in Threads :
         /\ call[t].pc \notin {"idle", "swapbase"} => call[t].block.size \in Nat
         /\ call[t].pc \in Racing => call[t].level \in Nat /\ call[t].level <= highest
         /\ call[t].pc = "swappeak" => call[t].seen \in Nat /\ call[t].level > call[t].seen

\* Every thread's record has the fields of Idle.
CallsShaped ==
    call = [t \in Threads |->
             [pc |-> call[t].pc, block |-> call[t].block, level |-> call[t].level,
              seen |-> call[t].seen, start |-> call[t].start, next |-> call[t].next,
              phase |-> call[t].phase, alignment |-> call[t].alignment]]

PeakInv == CallsShaped /\ RacersConsistent /\ PeakIsHighest

-----------------------------------------------------------------------------
(* That of the counters and of the frame's memory.                          *)

Getting == {"obtain", "addlive", "loadpeak", "swappeak", "addtag"}
Giving  == {"count", "sublive", "subtag"}
Holding(t) == call[t].pc \in Getting \cup Giving

Steps  == {"idle", "swapbase"} \cup Getting \cup Giving
Blocks == [id : Nat, size : BlockSizes, tag : AllTags]
Held   == Blocks \cup {None}
Calls  == [pc : Steps, block : Held, level : Nat, seen : Nat, start : Nat, next : Nat,
           phase : Nat, alignment : Nat \ {0}]

CallsTyped ==
    /\ call \in [Threads -> Calls]
    /\ blocks \subseteq Blocks
    /\ calls \in 0 .. MaxCalls
    /\ \A t \in Threads : Holding(t) => call[t].block \in Blocks

\* No two blocks have the same number, whoever has them.
BlocksTold ==
    /\ \A b \in blocks : b.id \in 1 .. calls
    /\ \A b, c \in blocks : b.id = c.id => b = c
    /\ \A t \in Threads : Holding(t) =>
         /\ call[t].block.id \in 1 .. calls
         /\ \A b \in blocks : b.id # call[t].block.id
         /\ \A u \in Threads : Holding(u) /\ call[u].block.id = call[t].block.id => u = t

CountersTyped ==
    /\ {live, allocations, deallocations} \subseteq Counter
    /\ bytesPerTag \in [AllTags -> Counter]
    /\ allocationsPerTag \in [AllTags -> Counter]

Room == [start : Nat, next : Nat, alignment : Nat \ {0}]

\* What lies below the bump pointer is all that is in use, and a thread that is about
\* to move the pointer starts where it found it.
ScratchInv ==
    /\ base \in 0 .. Capacity
    /\ scratch \subseteq Room
    /\ \A x \in scratch : x.start <= x.next /\ x.next <= base /\ x.start % x.alignment = 0
    /\ \A x, y \in scratch : x = y \/ Apart(x, y)
    /\ \A t \in Threads : call[t].pc = "swapbase" =>
         /\ call[t].start = AlignUp(call[t].seen, call[t].alignment)
         /\ call[t].start <= call[t].next

\* A piece of a page, or one that will be, at the address phase of the page.
Inside(x, phase, end) ==
    /\ Header <= x.start /\ x.start <= x.next /\ x.next <= end
    /\ (phase + x.start) % x.alignment = 0

\* What lies below a page's used bytes is all of it that is in use, and a page on its
\* way has room for the piece it is made for.
ArenaInv ==
    /\ pages \in Seq([phase : Nat, data : Nat, capacity : Nat, used : Nat])
    /\ \A i \in DOMAIN pages : Header <= pages[i].data /\ pages[i].used <= pages[i].capacity
    /\ rooms \subseteq [page : DOMAIN pages, start : Nat, next : Nat, alignment : Nat \ {0}]
    /\ \A x \in rooms : LET p == pages[x.page] IN Inside(x, p.phase, p.data + p.used)
    /\ \A x, y \in rooms : x = y \/ x.page # y.page \/ Apart(x, y)
    /\ \A t \in Threads : call[t].pc \in Getting /\ call[t].block.tag = Page =>
         Inside(call[t], call[t].phase, call[t].block.size)

CountInv == CallsTyped /\ BlocksTold /\ CountersTyped /\ Counted
FrameInv == CallsTyped /\ ScratchInv /\ ArenaInv

MemoryInv == PeakInv /\ CountInv /\ FrameInv /\ highest \in Counter
=============================================================================
