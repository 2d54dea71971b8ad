--------------------------- MODULE AllocatorsProofs ---------------------------
(***************************************************************************)
(* Proofs about Allocators, for every number of threads, every size and    *)
(* tag, every width of the counters: the loop of compare-and-swaps in      *)
(* TrackingAllocator::allocate loses no peak, the counters are those of    *)
(* the blocks, and no byte of a frame's memory is given out twice.         *)
(***************************************************************************)
EXTENDS Allocators, SequenceTheorems, FiniteSetTheorems, TLAPS

-----------------------------------------------------------------------------
(* Arithmetic: remainders, alignment, counters that wrap around.            *)

LEMMA SmallMod ==
    ASSUME NEW x \in Nat, x < Limit
    PROVE  x % Limit = x
BY AllocatorAssumption

LEMMA Euclid ==
    ASSUME NEW n \in Nat \ {0}, NEW x \in Int
    PROVE  /\ x \div n \in Int /\ x % n \in 0 .. n - 1
           /\ x = n * (x \div n) + (x % n)
OBVIOUS

LEMMA Multiple ==
    ASSUME NEW n \in Nat \ {0}, NEW q \in Int
    PROVE  (q * n) % n = 0
<1> DEFINE x == q * n
<1>1. x \in Int
  OBVIOUS
<1>2. x \div n \in Int /\ x % n \in 0 .. n - 1 /\ x = n * (x \div n) + (x % n)
  BY <1>1, Euclid
<1>3. (q - (x \div n)) * n = x % n
  BY <1>1, <1>2
<1>4. q - (x \div n) = 0
  BY <1>2, <1>3
<1> QED
  BY <1>3, <1>4

LEMMA Unique ==
    ASSUME NEW n \in Nat \ {0}, NEW q \in Int, NEW r \in 0 .. n - 1
    PROVE  (n * q + r) % n = r
<1> DEFINE x == n * q + r
<1>1. x \in Int
  OBVIOUS
<1>2. x \div n \in Int /\ x % n \in 0 .. n - 1 /\ x = n * (x \div n) + (x % n)
  BY <1>1, Euclid
<1>3. PICK d \in Int : d = q - (x \div n)
  BY <1>2
<1>4. n * d = (x % n) - r
  BY <1>1, <1>2, <1>3
<1>5. CASE d = 0
  BY <1>2, <1>4, <1>5
<1>6. CASE d >= 1
  <2>1. n * d >= n
    BY <1>6
  <2> QED BY <2>1, <1>4, <1>2
<1>7. CASE d <= -1
  <2>1. n * d <= -n
    BY <1>7
  <2> QED BY <2>1, <1>4, <1>2
<1> QED
  BY <1>3, <1>5, <1>6, <1>7

LEMMA AlignUpIs ==
    ASSUME NEW x \in Nat, NEW a \in Nat \ {0}
    PROVE  /\ AlignUp(x, a) \in Nat
           /\ x <= AlignUp(x, a) /\ AlignUp(x, a) < x + a
           /\ AlignUp(x, a) % a = 0
<1> DEFINE y == x + a - 1
           q == y \div a
<1>1. q \in Int /\ y % a \in 0 .. a - 1 /\ y = a * q + (y % a)
  BY Euclid
<1>2. AlignUp(x, a) = q * a
  BY DEF AlignUp
<1> HIDE DEF q
<1>3. q * a = a * q
  BY <1>1
<1>5. (q * a) % a = 0
  BY <1>1, Multiple
<1>4. x <= q * a /\ q * a < x + a /\ q * a \in Int
  BY <1>1, <1>3
<1> QED
  BY <1>2, <1>5, <1>4

LEMMA AddMod ==
    ASSUME NEW x \in Int, NEW y \in Int, NEW n \in Nat \ {0}
    PROVE  ((x % n) + y) % n = (x + y) % n
<1> DEFINE p == x \div n
           z == (x % n) + y
           q == z \div n
<1>1. p \in Int /\ x % n \in Int /\ x = n * p + (x % n)
  BY Euclid
<1> HIDE DEF p
<1>2. z \in Int
  BY <1>1
<1>3. q \in Int /\ z % n \in 0 .. n - 1 /\ z = n * q + (z % n)
  BY <1>2, Euclid
<1>4. x + y = n * p + z
  BY <1>1
<1> HIDE DEF z, q
<1>5. x + y = n * (p + q) + (z % n)
  <2>1. PICK u \in Int : u = z % n
    BY <1>3
  <2>2. z = n * q + u
    BY <1>3, <2>1
  <2>3. n * p + (n * q + u) = n * (p + q) + u
    BY <1>1, <1>3, <2>1
  <2> QED
    BY <1>4, <2>1, <2>2, <2>3
<1>6. p + q \in Int
  BY <1>1, <1>3
<1>7. (n * (p + q) + (z % n)) % n = z % n
  BY <1>3, <1>6, Unique
<1> QED
  BY <1>5, <1>7 DEF z

\* What the counters do, wherever they are: one more, one less.
LEMMA DifferenceMod ==
    ASSUME NEW a \in Nat, NEW d \in Nat, NEW n \in Nat, Minus(a, d) = n
    PROVE  /\ n + 1 < Limit => Minus(Plus(a, 1), d) = n + 1
           /\ n >= 1 /\ n < Limit => Minus(a, Plus(d, 1)) = n - 1
<1>1. Limit \in Nat \ {0}
  BY AllocatorAssumption
<1>2. n + 1 < Limit => Minus(Plus(a, 1), d) = n + 1
  <2>1. a + 1 \in Int /\ -d \in Int /\ a - d \in Int
    OBVIOUS
  <2>2. Minus(Plus(a, 1), d) = (((a + 1) % Limit) + (-d)) % Limit
    <3>1. (a + 1) % Limit \in Int
      BY <1>1, <2>1, Euclid
    <3> QED
      BY <3>1 DEF Minus, Plus
  <2>3. (((a + 1) % Limit) + (-d)) % Limit = ((a + 1) + (-d)) % Limit
    BY <1>1, <2>1, AddMod
  <2>4. (((a - d) % Limit) + 1) % Limit = ((a - d) + 1) % Limit
    <3>1. \A x, y \in Int : ((x % Limit) + y) % Limit = (x + y) % Limit
      BY <1>1, AddMod
    <3> QED
      BY <2>1, <3>1
  <2>5. ((a + 1) + (-d)) = ((a - d) + 1)
    OBVIOUS
  <2>6. Minus(Plus(a, 1), d) = (n + 1) % Limit
    BY <2>2, <2>3, <2>4, <2>5 DEF Minus
  <2> QED
    BY <2>6, SmallMod
<1>3. n >= 1 /\ n < Limit => Minus(a, Plus(d, 1)) = n - 1
  <2> SUFFICES ASSUME n >= 1, n < Limit
               PROVE  Minus(a, Plus(d, 1)) = n - 1
    OBVIOUS
  <2> DEFINE e == (d + 1) % Limit
             p == (d + 1) \div Limit
  <2>2. e \in Int /\ p \in Int /\ d + 1 = Limit * p + e
    BY <1>1, Euclid
  <2> HIDE DEF e, p
  <2>3. a - e = Limit * p + (a - d - 1)
    BY <1>1, <2>2
  <2>4. (a - d) % Limit = n
    BY DEF Minus
  <2> DEFINE q == (a - d) \div Limit
  <2>5. q \in Int /\ a - d = Limit * q + n
    <3>1. a - d \in Int
      OBVIOUS
    <3> QED
      BY <1>1, <2>4, <3>1, Euclid
  <2> HIDE DEF q
  <2>6. a - e = Limit * (p + q) + (n - 1)
    BY <1>1, <2>2, <2>3, <2>5
  <2>7. p + q \in Int /\ n - 1 \in 0 .. Limit - 1
    BY <1>1, <2>2, <2>5
  <2>8. (Limit * (p + q) + (n - 1)) % Limit = n - 1
    BY <1>1, <2>7, Unique
  <2> QED
    BY <2>6, <2>8 DEF Minus, Plus, e
<1> QED
  BY <1>2, <1>3

\* The counters stay natural numbers, though they wrap around.
LEMMA Wraps ==
    ASSUME NEW x \in Nat, NEW n \in Nat
    PROVE  Plus(x, n) \in Nat /\ Minus(x, n) \in Nat
BY AllocatorAssumption DEF Plus, Minus

-----------------------------------------------------------------------------
(* Blocks, their bytes, and how many there are.                             *)

\* A page has room for what it is made for.
LEMMA PageHolds ==
    ASSUME NEW size \in Sizes, NEW alignment \in Alignments
    PROVE  /\ PageFor(size, alignment) \in Nat
           /\ Header + alignment - 1 + size <= PageFor(size, alignment)
<1> DEFINE need == Header + alignment - 1 + size
<1>1. need \in Nat /\ PageSize \in Nat
  BY AllocatorAssumption
<1> HIDE DEF need
<1>2. \E x \in {PageSize, need} : \A y \in {PageSize, need} : x >= y
  BY <1>1
<1>3. PageFor(size, alignment) \in Nat /\ need <= PageFor(size, alignment)
  BY <1>1, <1>2 DEF PageFor, Max, need
<1> QED
  BY <1>3 DEF need

LEMMA SizesArePositive == BlockSizes \subseteq Nat \ {0}
<1>1. ASSUME NEW size \in Sizes, NEW alignment \in Alignments
      PROVE  PageFor(size, alignment) \in Nat \ {0}
  BY PageHolds, AllocatorAssumption
<1>2. SUFFICES ASSUME NEW x \in BlockSizes
             PROVE  x \in Nat \ {0}
  OBVIOUS
<1>3. CASE x \in Sizes
  BY <1>3, AllocatorAssumption
<1>4. CASE x \notin Sizes
  <2>1. PICK size \in Sizes, alignment \in Alignments : x = PageFor(size, alignment)
    BY <1>4 DEF BlockSizes
  <2> QED
    BY <1>1, <2>1
<1> QED
  BY <1>3, <1>4

\* Blocks that are told apart by their numbers are few, and so are their bytes.
LEMMA FewBlocks ==
    ASSUME NEW S \in SUBSET Blocks, \A b, c \in S : b.id = c.id => b = c,
           \A b \in S : b.id \in 1 .. MaxCalls
    PROVE  /\ IsFiniteSet(S) /\ Cardinality(S) \in Nat /\ Cardinality(S) < Limit
           /\ IsFiniteSet(Slots(S)) /\ Bytes(S) \in Nat /\ Bytes(S) < Limit
<1>1. PICK most \in Nat : (\A size \in BlockSizes : size <= most) /\ MaxCalls * most < Limit
  BY MemoryAssumption, AllocatorAssumption DEF Counter
<1>2. MaxCalls \in Nat /\ MaxCalls < Limit /\ Limit \in Nat
  BY MemoryAssumption, AllocatorAssumption
<1>3. IsFiniteSet(S) /\ Cardinality(S) <= MaxCalls /\ Cardinality(S) \in Nat
  <2> DEFINE number == [b \in S |-> b.id]
  <2>1. number \in Injection(S, 1 .. MaxCalls)
    BY DEF Injection, IsInjective
  <2>2. IsFiniteSet(1 .. MaxCalls) /\ Cardinality(1 .. MaxCalls) = MaxCalls
    BY <1>2, FS_Interval
  <2> QED
    BY <2>1, <2>2, FS_Injection, FS_CardinalityType
<1>4. /\ IsFiniteSet(1 .. most) /\ Cardinality(1 .. most) = most
  BY FS_Interval
<1>5. IsFiniteSet(S \X (1 .. most)) /\ Cardinality(S \X (1 .. most)) = Cardinality(S) * most
  BY <1>3, <1>4, FS_Product
<1>6. Slots(S) \subseteq S \X (1 .. most)
  <2>1. ASSUME NEW b \in S
        PROVE  {b} \X (1 .. b.size) \subseteq S \X (1 .. most)
    <3>1. b.size \in Nat /\ b.size <= most
      BY <1>1, SizesArePositive DEF Blocks
    <3> QED
      BY <3>1
  <2> QED
    BY <2>1 DEF Slots
<1>7. IsFiniteSet(Slots(S)) /\ Bytes(S) \in Nat /\ Bytes(S) <= Cardinality(S) * most
  BY <1>5, <1>6, FS_Subset, FS_CardinalityType DEF Bytes
<1>8. Cardinality(S) * most <= MaxCalls * most
  BY <1>2, <1>3
<1>9. Cardinality(S) * most \in Nat /\ MaxCalls * most \in Nat
  BY <1>2, <1>3
<1> QED
  BY <1>1, <1>2, <1>3, <1>7, <1>8, <1>9

\* One block more.
LEMMA OneMore ==
    ASSUME NEW S \in SUBSET Blocks, IsFiniteSet(S), IsFiniteSet(Slots(S)),
           NEW b \in Blocks, b \notin S
    PROVE  /\ Cardinality(S \cup {b}) = Cardinality(S) + 1
           /\ Bytes(S \cup {b}) = Bytes(S) + b.size
<1> DEFINE own == {b} \X (1 .. b.size)
<1>1. b.size \in Nat \ {0}
  BY SizesArePositive DEF Blocks
<1>2. IsFiniteSet(own) /\ Cardinality(own) = b.size
  <2>1. IsFiniteSet(1 .. b.size) /\ Cardinality(1 .. b.size) = b.size
    BY <1>1, FS_Interval
  <2>2. IsFiniteSet({b}) /\ Cardinality({b}) = 1
    BY FS_Singleton
  <2>3. IsFiniteSet(own) /\ Cardinality(own) = 1 * b.size
    BY <2>1, <2>2, FS_Product
  <2> QED
    BY <1>1, <2>3
<1>3. Slots(S \cup {b}) = Slots(S) \cup own /\ Slots(S) \cap own = {}
  BY DEF Slots
<1>4. Cardinality(Slots(S)) \in Nat /\ Cardinality({}) = 0
  BY FS_CardinalityType, FS_EmptySet
<1> HIDE DEF own
<1>5. Cardinality(Slots(S) \cup own) = Cardinality(Slots(S)) + Cardinality(own) - 0
  BY <1>2, <1>3, <1>4, FS_Union
<1>6. Cardinality(Slots(S \cup {b})) = Cardinality(Slots(S) \cup own)
  BY <1>3
<1>7. Cardinality(Slots(S) \cup own) = Cardinality(Slots(S)) + b.size
  BY <1>1, <1>2, <1>4, <1>5
<1>8. Bytes(S \cup {b}) = Bytes(S) + b.size
  BY <1>6, <1>7 DEF Bytes
<1> QED
  BY <1>8, FS_AddElement

LEMMA NoBlocks == Cardinality({}) = 0 /\ Bytes({}) = 0
<1>1. Slots({}) = {}
  BY DEF Slots
<1> QED
  BY <1>1, FS_EmptySet DEF Bytes

-----------------------------------------------------------------------------
(* The race for the peak: first the steps that take no part in it.          *)

LEMMA InitPeak == Init => PeakInv
BY AllocatorAssumption
DEF Init, PeakInv, CallsShaped, RacersConsistent, PeakIsHighest, Racing, Idle

\* A record with the fields of Idle.
Shaped(r) ==
    r = [pc |-> r.pc, block |-> r.block, level |-> r.level, seen |-> r.seen,
         start |-> r.start, next |-> r.next, phase |-> r.phase, alignment |-> r.alignment]

LEMMA ShapeKept ==
    ASSUME CallsShaped, NEW t \in Threads, NEW r, Shaped(r), call' = [call EXCEPT ![t] = r]
    PROVE  CallsShaped'
<1>1. DOMAIN call = Threads /\ \A u \in Threads : Shaped(call[u])
  BY DEF CallsShaped, Shaped
<1>2. call' = [u \in Threads |-> call'[u]]
  BY <1>1
<1>3. \A u \in Threads : Shaped(call'[u])
  BY <1>1
<1> QED
  BY <1>2, <1>3 DEF CallsShaped, Shaped

\* What a thread may leave behind when it is not in the race.
LEMMA OutsideTheRace ==
    ASSUME PeakInv, NEW t \in Threads, NEW r, Shaped(r),
           call' = [call EXCEPT ![t] = r],
           call[t].pc \notin Racing, r.pc \notin Racing,
           r.pc \notin {"idle", "swapbase"} => r.block.size \in Nat,
           live' \in Nat, UNCHANGED <<peak, highest>>,
           \A b \in blocks' : b.size \in Nat
    PROVE  PeakInv'
<1>1. DOMAIN call = Threads
  BY DEF PeakInv, CallsShaped
<1>2. call'[t] = r /\ \A u \in Threads \ {t} : call'[u] = call[u]
  BY <1>1
<1>3. CallsShaped'
  BY ShapeKept DEF PeakInv
<1>4. RacersConsistent'
  BY <1>2 DEF PeakInv, RacersConsistent, Racing
<1>5. PeakIsHighest'
  BY <1>2 DEF PeakInv, PeakIsHighest, Racing
<1> QED
  BY <1>3, <1>4, <1>5 DEF PeakInv

\* A new program counter leaves the other fields what they are.
LEMMA StepShape ==
    ASSUME PeakInv, NEW t \in Threads, NEW step
    PROVE  /\ [call EXCEPT ![t].pc = step] = [call EXCEPT ![t] = [call[t] EXCEPT !.pc = step]]
           /\ Shaped([call[t] EXCEPT !.pc = step])
           /\ [call[t] EXCEPT !.pc = step].pc = step
           /\ [call[t] EXCEPT !.pc = step].block = call[t].block
BY DEF PeakInv, CallsShaped, Shaped

LEMMA IdleShape == Shaped(Idle) /\ Idle.pc = "idle"
BY DEF Shaped, Idle

\* A record with other places in the bump allocator's memory.
Placed(r, s, seen, start, next, alignment) ==
    r = [s EXCEPT !.seen = seen, !.start = start, !.next = next, !.alignment = alignment]

\* So do other places in the bump allocator's memory.
LEMMA PlacesShape ==
    ASSUME NEW s, Shaped(s), NEW seen, NEW start, NEW next, NEW alignment, NEW r,
           Placed(r, s, seen, start, next, alignment)
    PROVE  Shaped(r) /\ r.pc = s.pc
<1> DEFINE first == [s EXCEPT !.seen = seen]
           second == [first EXCEPT !.start = start]
           third == [second EXCEPT !.next = next]
           fourth == [third EXCEPT !.alignment = alignment]
<1>1. fourth = r
  BY DEF Placed
<1>2. Shaped(first) /\ first.pc = s.pc
  BY DEF Shaped
<1> HIDE DEF first
<1>3. Shaped(second) /\ second.pc = s.pc
  BY <1>2 DEF Shaped
<1> HIDE DEF second
<1>4. Shaped(third) /\ third.pc = s.pc
  BY <1>3 DEF Shaped
<1> HIDE DEF third
<1>5. Shaped(fourth) /\ fourth.pc = s.pc
  BY <1>4 DEF Shaped
<1> HIDE DEF fourth
<1> QED
  BY <1>1, <1>5

\* Outside the race a thread moves on, or gets idle.
LEMMA MovesOn ==
    ASSUME PeakInv, NEW t \in Threads, NEW step, Goto(t, step),
           call[t].pc \notin Racing \cup {"idle", "swapbase"}, step \notin Racing,
           live' \in Nat, UNCHANGED <<peak, highest>>,
           \A b \in blocks' : b.size \in Nat
    PROVE  PeakInv'
<1> DEFINE r == [call[t] EXCEPT !.pc = step]
<1>1. Shaped(r) /\ r.pc = step /\ r.block = call[t].block /\ call' = [call EXCEPT ![t] = r]
  BY StepShape DEF Goto
<1>2. call[t].block.size \in Nat
  BY DEF PeakInv, RacersConsistent
<1> HIDE DEF r
<1> QED
  BY <1>1, <1>2, OutsideTheRace

LEMMA GetsIdle ==
    ASSUME PeakInv, NEW t \in Threads,
           call' = [call EXCEPT ![t] = Idle], call[t].pc \notin Racing,
           live' \in Nat, UNCHANGED <<peak, highest>>,
           \A b \in blocks' : b.size \in Nat
    PROVE  PeakInv'
BY IdleShape, OutsideTheRace DEF Racing

\* A block asked for, whatever it is for.
LEMMA AskingStep ==
    ASSUME PeakInv, NEW t \in Threads, NEW size \in Nat, NEW tag, NEW more, Shaped(more),
           Asks(t, size, tag, more), call[t].pc = "idle",
           UNCHANGED <<live, peak, highest, blocks>>
    PROVE  PeakInv'
<1> DEFINE id == NewId
           r == [more EXCEPT !.pc = "obtain", !.block = [id |-> id, size |-> size, tag |-> tag]]
<1>1. call' = [call EXCEPT ![t] = r]
  BY DEF Asks
<1> HIDE DEF id
<1>2. Shaped(r) /\ r.pc = "obtain" /\ r.block.size = size
  <2> DEFINE block == [id |-> id, size |-> size, tag |-> tag]
             first == [more EXCEPT !.pc = "obtain"]
  <2>1. r = [first EXCEPT !.block = block]
    OBVIOUS
  <2>2. Shaped(first) /\ first.pc = "obtain"
    BY DEF Shaped
  <2>3. block.size = size
    OBVIOUS
  <2> HIDE DEF first, block, r
  <2> QED
    BY <2>1, <2>2, <2>3 DEF Shaped
<1> HIDE DEF r
<1> QED
  BY <1>1, <1>2, OutsideTheRace DEF Racing, PeakInv, RacersConsistent

-----------------------------------------------------------------------------
(* The race for the peak.                                                   *)

\* A level that was just reached is the highest, or what was the highest still is.
LEMMA AddLiveStep ==
    ASSUME PeakInv, NEW t \in Threads, AddLive(t)
    PROVE  PeakInv'
<1> DEFINE r == [call[t] EXCEPT !.pc = "loadpeak", !.level = live']
<1>1. /\ live' \in Nat /\ highest' \in Nat /\ live' <= highest' /\ highest <= highest'
      /\ highest' = highest \/ highest' = live'
      /\ UNCHANGED <<blocks, peak>>
  BY Wraps DEF AddLive, At, PeakInv, RacersConsistent
<1>2. call' = [call EXCEPT ![t] = r] /\ call[t].pc = "addlive"
  BY DEF AddLive, At, PeakInv, CallsShaped
<1>3. Shaped(r) /\ r.pc = "loadpeak" /\ r.level = live' /\ r.block = call[t].block
  <2> DEFINE first == [call[t] EXCEPT !.pc = "loadpeak"]
  <2>1. r = [first EXCEPT !.level = live']
    OBVIOUS
  <2>2. Shaped(call[t])
    BY DEF PeakInv, CallsShaped, Shaped
  <2>3. Shaped(first) /\ first.pc = "loadpeak" /\ first.block = call[t].block
    BY <2>2 DEF Shaped
  <2> HIDE DEF first, r
  <2> QED
    BY <2>1, <2>3 DEF Shaped
<1>4. DOMAIN call = Threads
  BY DEF PeakInv, CallsShaped
<1> HIDE DEF r
<1>5. call'[t] = r /\ \A u \in Threads \ {t} : call'[u] = call[u]
  BY <1>2, <1>4
<1>6. CallsShaped'
  BY <1>2, <1>3, ShapeKept DEF PeakInv
<1>7. RacersConsistent'
  BY <1>1, <1>2, <1>3, <1>5 DEF PeakInv, RacersConsistent, Racing
<1>8. PeakIsHighest'
  <2>1. peak' <= highest'
    BY <1>1 DEF PeakInv, RacersConsistent, PeakIsHighest
  <2>2. CASE highest' = live'
    BY <1>3, <1>5, <2>1, <2>2 DEF PeakIsHighest
  <2>3. CASE highest' = highest
    BY <1>1, <1>2, <1>5, <2>1, <2>3 DEF PeakInv, PeakIsHighest
  <2> QED
    BY <1>1, <2>2, <2>3
<1> QED
  BY <1>6, <1>7, <1>8 DEF PeakInv

\* The record of a thread that leaves the loop.
LEMMA DoneShape ==
    ASSUME NEW r, Shaped(r)
    PROVE  LET done == [r EXCEPT !.pc = "addtag", !.level = 0, !.seen = 0]
           IN  Shaped(done) /\ done.block = r.block /\ done.pc = "addtag"
<1> DEFINE first == [r EXCEPT !.pc = "addtag"]
           second == [first EXCEPT !.level = 0]
<1>1. [r EXCEPT !.pc = "addtag", !.level = 0, !.seen = 0] = [second EXCEPT !.seen = 0]
  OBVIOUS
<1>2. Shaped(first) /\ first.pc = "addtag" /\ first.block = r.block
  BY DEF Shaped
<1> HIDE DEF first
<1>3. Shaped(second) /\ second.pc = "addtag" /\ second.block = r.block
  BY <1>2 DEF Shaped
<1> HIDE DEF second
<1>4. /\ Shaped([second EXCEPT !.seen = 0])
      /\ [second EXCEPT !.seen = 0].block = r.block
      /\ [second EXCEPT !.seen = 0].pc = "addtag"
  BY <1>3 DEF Shaped
<1> QED
  BY <1>1, <1>4

\* A comparison gives up only what the peak has reached already.
LEMMA ComparesStep ==
    ASSUME PeakInv, NEW t \in Threads, Compares(t), call[t].pc \in Racing,
           UNCHANGED <<live, peak, highest, blocks>>
    PROVE  PeakInv'
<1> DEFINE r == IF call[t].level > peak
                  THEN [call[t] EXCEPT !.pc = "swappeak", !.seen = peak]
                  ELSE [call[t] EXCEPT !.pc = "addtag", !.level = 0, !.seen = 0]
<1>1. DOMAIN call = Threads /\ Shaped(call[t])
  BY DEF PeakInv, CallsShaped, Shaped
<1>2. call' = [call EXCEPT ![t] = r]
  BY <1>1 DEF Compares, PeakDone
<1>3. /\ Shaped(r) /\ r.block = call[t].block
      /\ r.pc = IF call[t].level > peak THEN "swappeak" ELSE "addtag"
      /\ call[t].level > peak => r.level = call[t].level /\ r.seen = peak
  <2>1. CASE ~(call[t].level > peak)
    BY <1>1, <2>1, DoneShape
  <2>2. CASE call[t].level > peak
    <3> DEFINE first == [call[t] EXCEPT !.pc = "swappeak"]
    <3>1. r = [first EXCEPT !.seen = peak]
      BY <2>2
    <3>2. /\ Shaped(first) /\ first.pc = "swappeak" /\ first.block = call[t].block
          /\ first.level = call[t].level
      BY <1>1 DEF Shaped
    <3> HIDE DEF first, r
    <3> QED
      BY <2>2, <3>1, <3>2 DEF Shaped
  <2> QED
    BY <2>1, <2>2
<1> HIDE DEF r
<1>4. call'[t] = r /\ \A u \in Threads \ {t} : call'[u] = call[u]
  BY <1>1, <1>2
<1>5. CallsShaped'
  BY <1>2, <1>3, ShapeKept DEF PeakInv
<1>6. call[t].block.size \in Nat
  BY DEF PeakInv, RacersConsistent, Racing
<1>7. RacersConsistent'
  BY <1>3, <1>4, <1>6 DEF PeakInv, RacersConsistent, Racing
<1>8. PeakIsHighest'
  <2>1. CASE call[t].level > peak
    BY <1>3, <1>4, <2>1 DEF PeakInv, PeakIsHighest
  <2>2. CASE ~(call[t].level > peak)
    BY <1>4, <2>2 DEF PeakInv, PeakIsHighest, RacersConsistent, Racing
  <2> QED
    BY <2>1, <2>2
<1> QED
  BY <1>5, <1>7, <1>8 DEF PeakInv

\* A swap that succeeds raises the peak, and loses nobody else's level.
LEMMA SwapStep ==
    ASSUME PeakInv, NEW t \in Threads, call[t].pc = "swappeak", PeakUnmoved(t),
           peak' = call[t].level, PeakDone(t), UNCHANGED <<live, highest, blocks>>
    PROVE  PeakInv'
<1> DEFINE r == [call[t] EXCEPT !.pc = "addtag", !.level = 0, !.seen = 0]
<1>1. DOMAIN call = Threads /\ Shaped(call[t])
  BY DEF PeakInv, CallsShaped, Shaped
<1>2. call' = [call EXCEPT ![t] = r]
  BY <1>1 DEF PeakDone
<1>3. Shaped(r) /\ r.block = call[t].block /\ r.pc = "addtag"
  BY <1>1, DoneShape
<1> HIDE DEF r
<1>4. call'[t] = r /\ \A u \in Threads \ {t} : call'[u] = call[u]
  BY <1>1, <1>2
<1>5. CallsShaped'
  BY <1>2, <1>3, ShapeKept DEF PeakInv
<1>6. /\ call[t].block.size \in Nat
      /\ peak' \in Nat /\ peak' <= highest /\ peak < peak'
  BY DEF PeakInv, RacersConsistent, Racing, PeakUnmoved
<1>7. RacersConsistent'
  BY <1>3, <1>4, <1>6 DEF PeakInv, RacersConsistent, Racing
<1>8. PeakIsHighest'
  <2>1. CASE call[t].level = highest
    BY <1>6, <2>1 DEF PeakIsHighest
  <2>2. CASE call[t].level # highest
    <3>1. PICK u \in Threads : call[u].pc \in Racing /\ call[u].level = highest
      BY <1>6 DEF PeakInv, PeakIsHighest, RacersConsistent, Racing
    <3> QED
      BY <1>4, <1>6, <2>2, <3>1 DEF PeakIsHighest, Racing
  <2> QED
    BY <2>1, <2>2
<1> QED
  BY <1>5, <1>7, <1>8 DEF PeakInv

-----------------------------------------------------------------------------
(* The theorem.                                                             *)

LEMMA PeakStep ==
    ASSUME PeakInv, [Next]_vars
    PROVE  PeakInv'
<1> USE DEF At, counters, frame
<1>1. live \in Nat /\ \A b \in blocks : b.size \in Nat
  BY DEF PeakInv, RacersConsistent
<1>2. ASSUME NEW t \in Threads, NEW size \in Sizes, NEW tag \in Tags, Allocate(t, size, tag)
      PROVE  PeakInv'
  <2>1. size \in Nat
    BY AllocatorAssumption
  <2> QED
    BY <1>2, <2>1, IdleShape, AskingStep DEF Allocate
<1>3. ASSUME NEW t \in Threads, OutOfMemory(t)
      PROVE  PeakInv'
  BY <1>1, <1>3, GetsIdle DEF OutOfMemory, Racing
<1>4. ASSUME NEW t \in Threads, Obtain(t)
      PROVE  PeakInv'
  <2>1. /\ call[t].pc = "obtain" /\ Goto(t, "addlive")
        /\ UNCHANGED <<live, peak, highest, blocks>>
    BY <1>4 DEF Obtain
  <2> QED
    BY <1>1, <2>1, MovesOn DEF Racing
<1>5. ASSUME NEW t \in Threads, LoadPeak(t)
      PROVE  PeakInv'
  BY <1>5, ComparesStep DEF LoadPeak, Racing
<1>6. ASSUME NEW t \in Threads, SwapPeak(t)
      PROVE  PeakInv'
  BY <1>6, ComparesStep, SwapStep DEF SwapPeak, Racing
<1>7. ASSUME NEW t \in Threads, AddTag(t)
      PROVE  PeakInv'
  <2>1. /\ call' = [call EXCEPT ![t] = Idle] /\ call[t].pc = "addtag"
        /\ blocks' = blocks \cup {call[t].block} /\ UNCHANGED <<live, peak, highest>>
    BY <1>7 DEF AddTag
  <2>2. call[t].block.size \in Nat
    BY <2>1 DEF PeakInv, RacersConsistent
  <2> QED
    BY <1>1, <2>1, <2>2, GetsIdle DEF Racing
<1>8. ASSUME NEW t \in Threads, NEW block \in blocks, Deallocate(t, block)
      PROVE  PeakInv'
  <2> DEFINE first == [call[t] EXCEPT !.pc = "count"]
             r == [first EXCEPT !.block = block]
  <2>1. DOMAIN call = Threads /\ Shaped(call[t])
    BY DEF PeakInv, CallsShaped, Shaped
  <2>2. call' = [call EXCEPT ![t] = r] /\ call[t].pc = "idle"
    BY <1>8, <2>1 DEF Deallocate
  <2>3. Shaped(first) /\ first.pc = "count"
    BY <2>1 DEF Shaped
  <2> HIDE DEF first
  <2>4. Shaped(r) /\ r.pc = "count" /\ r.block = block
    BY <2>3 DEF Shaped
  <2> HIDE DEF r
  <2> QED
    BY <1>1, <1>8, <2>2, <2>4, OutsideTheRace DEF Deallocate, Racing
<1>9. ASSUME NEW t \in Threads, Count(t)
      PROVE  PeakInv'
  <2>1. /\ call[t].pc = "count" /\ Goto(t, "sublive")
        /\ UNCHANGED <<live, peak, highest, blocks>>
    BY <1>9 DEF Count
  <2> QED
    BY <1>1, <2>1, MovesOn DEF Racing
<1>10. ASSUME NEW t \in Threads, SubLive(t)
       PROVE  PeakInv'
  <2>1. /\ call[t].pc = "sublive" /\ Goto(t, "subtag")
        /\ UNCHANGED <<peak, highest, blocks>>
    BY <1>10 DEF SubLive
  <2>2. live' \in Nat
    BY <1>10, Wraps DEF SubLive, PeakInv, RacersConsistent
  <2> QED
    BY <1>1, <2>1, <2>2, MovesOn DEF Racing
<1>11. ASSUME NEW t \in Threads, SubTag(t)
       PROVE  PeakInv'
  BY <1>1, <1>11, GetsIdle DEF SubTag, Racing
<1>12. ASSUME NEW t \in Threads, NEW size \in Sizes, NEW alignment \in Alignments,
              LoadBase(t, size, alignment)
       PROVE  PeakInv'
  <2> DEFINE start == AlignUp(base, alignment)
             r0 == [Idle EXCEPT !.pc = "swapbase"]
             r == [Idle EXCEPT !.pc = "swapbase", !.seen = base, !.start = start,
                               !.next = start + size, !.alignment = alignment]
  <2>1. /\ call[t].pc = "idle" /\ call' = [call EXCEPT ![t] = r]
        /\ UNCHANGED <<live, peak, highest, blocks>>
    BY <1>12 DEF LoadBase
  <2> HIDE DEF start
  <2>2. Shaped(r0) /\ r0.pc = "swapbase"
    BY IdleShape DEF Shaped
  <2>3. Placed(r, r0, base, start, start + size, alignment)
    BY DEF Placed
  <2> HIDE DEF r0, r
  <2>4. Shaped(r) /\ r.pc = "swapbase"
    BY <2>2, <2>3, PlacesShape
  <2> QED
    BY <1>1, <2>1, <2>4, OutsideTheRace DEF Racing
<1>13. ASSUME NEW t \in Threads, SwapBase(t)
       PROVE  PeakInv'
  <2>1. call[t].pc = "swapbase" /\ UNCHANGED <<live, peak, highest, blocks>>
    BY <1>13 DEF SwapBase
  <2>2. CASE call' = [call EXCEPT ![t] = Idle]
    BY <1>1, <2>1, <2>2, GetsIdle DEF Racing
  <2>3. ASSUME NEW again, NEW next,
               call' = [call EXCEPT ![t].seen = base, ![t].start = again, ![t].next = next]
        PROVE  PeakInv'
    <3> DEFINE r == [call[t] EXCEPT !.seen = base, !.start = again, !.next = next]
    <3>1. DOMAIN call = Threads /\ Shaped(call[t])
      BY DEF PeakInv, CallsShaped, Shaped
    <3>2. call' = [call EXCEPT ![t] = r]
      BY <2>3, <3>1
    <3>3. Placed(r, call[t], base, again, next, call[t].alignment)
      BY <3>1 DEF Shaped, Placed
    <3> HIDE DEF r
    <3>4. Shaped(r) /\ r.pc = "swapbase"
      BY <2>1, <3>1, <3>3, PlacesShape
    <3> QED
      BY <1>1, <2>1, <3>2, <3>4, OutsideTheRace DEF Racing
  <2> QED
    BY <1>13, <2>2, <2>3 DEF SwapBase
<1>14. ASSUME NEW size \in Sizes, NEW alignment \in Alignments,
              AllocateInArena(size, alignment)
       PROVE  PeakInv'
  <2>1. call[Main].pc = "idle" /\ Main \in Threads /\ UNCHANGED <<live, peak, highest, blocks>>
    BY <1>14, AllocatorAssumption DEF AllocateInArena
  <2>2. CASE UNCHANGED call
    BY <2>1, <2>2 DEF PeakInv, CallsShaped, RacersConsistent, PeakIsHighest
  <2>3. ASSUME NEW phase \in Phases, NEW data,
               Asks(Main, PageFor(size, alignment), Page,
                    [Idle EXCEPT !.phase = phase, !.start = data, !.next = data + size,
                                 !.alignment = alignment])
        PROVE  PeakInv'
    <3> DEFINE r0 == [Idle EXCEPT !.phase = phase]
               r == [Idle EXCEPT !.phase = phase, !.start = data, !.next = data + size,
                                 !.alignment = alignment]
               need == PageFor(size, alignment)
    <3>1. need \in Nat
      BY PageHolds
    <3>2. Shaped(r0)
      BY IdleShape DEF Shaped
    <3>3. Placed(r, r0, r0.seen, data, data + size, alignment)
      BY DEF Idle, Placed
    <3>4. Asks(Main, need, Page, r)
      BY <2>3
    <3> HIDE DEF r0, r, need
    <3>5. Shaped(r)
      BY <3>2, <3>3, PlacesShape
    <3> QED
      BY <2>1, <3>1, <3>4, <3>5, AskingStep
  <2> QED
    BY <1>14, <2>2, <2>3 DEF AllocateInArena
<1>15. CASE Reset \/ UNCHANGED vars
  BY <1>15 DEF Reset, vars, PeakInv, CallsShaped, RacersConsistent, PeakIsHighest
<1>16. ASSUME NEW t \in Threads, AddLive(t)
       PROVE  PeakInv'
  BY <1>16, AddLiveStep
<1> QED
  BY <1>2, <1>3, <1>4, <1>5, <1>6, <1>7, <1>8, <1>9, <1>10, <1>11, <1>12, <1>13, <1>14,
     <1>15, <1>16
  DEF Next

\* bytes_peak is at every moment the highest level bytes_live has reached, or a thread is
\* about to make it so: no interleaving of the loads and swaps of any number of threads
\* loses a peak.
THEOREM PeakIsNeverLost == Spec => []PeakIsHighest
<1>1. PeakInv /\ [Next]_vars => PeakInv'
  BY PeakStep
<1>2. PeakInv => PeakIsHighest
  BY DEF PeakInv
<1> QED
  BY <1>1, <1>2, InitPeak, PTL DEF Spec

-----------------------------------------------------------------------------
(* The records of what threads are doing.                                   *)
LEMMA Names ==
    {"idle", "swapbase", "obtain", "addlive", "loadpeak", "swappeak", "addtag", "count",
     "sublive", "subtag"} \subseteq Steps
BY DEF Steps, Getting, Giving

\* What a thread does next, where it changes nothing else.
LEMMA IdleCall == Idle \in Calls
BY Names DEF Idle, Calls, Held

LEMMA Goes ==
    ASSUME NEW c \in Calls, NEW step \in Steps
    PROVE  LET r == [c EXCEPT !.pc = step]
           IN  /\ r \in Calls /\ r.pc = step /\ r.block = c.block
               /\ r.start = c.start /\ r.next = c.next /\ r.phase = c.phase
               /\ r.alignment = c.alignment /\ r.seen = c.seen
BY DEF Calls

LEMMA Takes ==
    ASSUME NEW c \in Calls, NEW step \in Steps, NEW block \in Held
    PROVE  LET r == [c EXCEPT !.pc = step, !.block = block]
           IN  /\ r \in Calls /\ r.pc = step /\ r.block = block
               /\ r.start = c.start /\ r.next = c.next /\ r.phase = c.phase
               /\ r.alignment = c.alignment /\ r.seen = c.seen
BY DEF Calls

-----------------------------------------------------------------------------
(* What a step of one thread does to the blocks that are charged.           *)

\* One thread moves.
LEMMA OneCall ==
    ASSUME call \in [Threads -> Calls], NEW t \in Threads, NEW r \in Calls,
           call' = [call EXCEPT ![t] = r]
    PROVE  /\ call' \in [Threads -> Calls] /\ call'[t] = r
           /\ \A u \in Threads \ {t} : call'[u] = call[u]
OBVIOUS

\* The blocks charged when bs are in the program's hands and the threads do c.
ChargedBy(bs, c, steps) == bs \cup {c[t].block : t \in {u \in Threads : c[u].pc \in steps}}

\* The charged blocks other than b, while thread t deals with b.
Elsewhere(t, b, steps) ==
    (blocks \ {b}) \cup {call[u].block : u \in {v \in Threads \ {t} : call[v].pc \in steps}}

LEMMA ChargedIs ==
    ASSUME CallsTyped, BlocksTold, NEW t \in Threads, NEW b \in Blocks,
           NEW steps, steps \subseteq Getting \cup Giving,
           Holding(t) => b = call[t].block,
           Holding(t) \/ b \in blocks
    PROVE  /\ Charged(steps) = Elsewhere(t, b, steps)
                \cup IF b \in blocks \/ call[t].pc \in steps THEN {b} ELSE {}
           /\ b \notin Elsewhere(t, b, steps)
           /\ Elsewhere(t, b, steps) \subseteq Blocks
<1>1. \A u \in Threads : call[u].pc \in steps => Holding(u)
  BY DEF Holding
<1>2. ASSUME NEW u \in Threads \ {t}, call[u].pc \in steps
      PROVE  call[u].block # b /\ call[u].block \in Blocks
  BY <1>1, <1>2 DEF CallsTyped, BlocksTold
<1>3. b \notin Elsewhere(t, b, steps) /\ Elsewhere(t, b, steps) \subseteq Blocks
  BY <1>2 DEF Elsewhere, CallsTyped
<1>4. call[t].pc \in steps => call[t].block = b
  BY <1>1
<1>5. Charged(steps) = Elsewhere(t, b, steps)
        \cup IF b \in blocks \/ call[t].pc \in steps THEN {b} ELSE {}
  BY <1>4 DEF Charged, Dealt, Elsewhere
<1> QED
  BY <1>3, <1>5

\* Charged blocks are few.
LEMMA FewCharged ==
    ASSUME CallsTyped, BlocksTold, NEW steps, steps \subseteq Getting \cup Giving,
           NEW S, S \subseteq Charged(steps)
    PROVE  /\ S \subseteq Blocks
           /\ IsFiniteSet(S) /\ Cardinality(S) \in Nat /\ Cardinality(S) < Limit
           /\ IsFiniteSet(Slots(S)) /\ Bytes(S) \in Nat /\ Bytes(S) < Limit
<1>1. \A u \in Threads : call[u].pc \in steps => Holding(u)
  BY DEF Holding
<1>2. \A b \in Charged(steps) : b \in Blocks /\ b.id \in 1 .. calls
  BY <1>1 DEF CallsTyped, BlocksTold, Charged, Dealt
<1>3. ASSUME NEW b \in Charged(steps), NEW c \in Charged(steps), b.id = c.id
      PROVE  b = c
  <2>1. CASE b \in blocks /\ c \in blocks
    BY <1>3, <2>1 DEF BlocksTold
  <2>2. CASE b \notin blocks
    <3>1. PICK t \in Threads : call[t].block = b /\ Holding(t)
      BY <1>1, <2>2 DEF Charged, Dealt
    <3> QED
      BY <1>1, <1>3, <3>1 DEF BlocksTold, Charged, Dealt
  <2>3. CASE c \notin blocks
    <3>1. PICK t \in Threads : call[t].block = c /\ Holding(t)
      BY <1>1, <2>3 DEF Charged, Dealt
    <3> QED
      BY <1>1, <1>3, <3>1 DEF BlocksTold, Charged, Dealt
  <2> QED
    BY <2>1, <2>2, <2>3
<1>4. calls \in 0 .. MaxCalls
  BY DEF CallsTyped
<1>5. S \subseteq Blocks /\ \A b \in S : b.id \in 1 .. MaxCalls
  BY <1>2, <1>4, AllocatorAssumption
<1> QED
  BY <1>3, <1>5, FewBlocks

\* How a set of charged blocks changes when block b is charged before and after, or not.
Moves(new, old, b, before, after) ==
    /\ (before <=> after) => new = old
    /\ ~before /\ after => b \notin old /\ new = old \cup {b}
    /\ before /\ ~after => b \in old /\ new = old \ {b}

\* A block that thread t deals with, wherever it is before and after the step.
LEMMA ChargedMoves ==
    ASSUME CallsTyped, BlocksTold, NEW t \in Threads, NEW b \in Blocks, NEW r \in Calls,
           NEW steps, steps \subseteq Getting \cup Giving,
           Holding(t) => b = call[t].block, Holding(t) \/ b \in blocks,
           call' = [call EXCEPT ![t] = r], blocks' \ {b} = blocks \ {b},
           r.pc \in steps => r.block = b
    PROVE  Moves(ChargedBy(blocks', call', steps), Charged(steps), b,
                 b \in blocks \/ call[t].pc \in steps, b \in blocks' \/ r.pc \in steps)
<1>1. /\ Charged(steps) = Elsewhere(t, b, steps)
                        \cup IF b \in blocks \/ call[t].pc \in steps THEN {b} ELSE {}
      /\ b \notin Elsewhere(t, b, steps)
  BY ChargedIs
<1>2. ChargedBy(blocks', call', steps) = Elsewhere(t, b, steps)
        \cup IF b \in blocks' \/ r.pc \in steps THEN {b} ELSE {}
  <2>1. call'[t] = r /\ \A u \in Threads \ {t} : call'[u] = call[u]
    BY OneCall DEF CallsTyped
  <2>2. {call'[u].block : u \in {v \in Threads : call'[v].pc \in steps}}
          = {call[u].block : u \in {v \in Threads \ {t} : call[v].pc \in steps}}
              \cup IF r.pc \in steps THEN {b} ELSE {}
    BY <2>1
  <2> QED
    BY <2>2 DEF ChargedBy, Elsewhere
<1> QED
  BY <1>1, <1>2 DEF Moves

\* A thread that has no block at these steps, before or after.
LEMMA ChargedStays ==
    ASSUME CallsTyped, NEW t \in Threads, NEW r \in Calls, NEW steps,
           call' = [call EXCEPT ![t] = r], blocks' = blocks,
           call[t].pc \notin steps, r.pc \notin steps
    PROVE  ChargedBy(blocks', call', steps) = Charged(steps)
<1>1. call'[t] = r /\ \A u \in Threads \ {t} : call'[u] = call[u]
  BY OneCall DEF CallsTyped
<1> QED
  BY <1>1 DEF Charged, Dealt, ChargedBy

\* A counter goes up by a block, or down, and does not wrap around.
LEMMA CountUp ==
    ASSUME CallsTyped, BlocksTold, NEW t \in Threads, Holding(t),
           NEW S, S \subseteq Charged(Getting \cup Giving), call[t].block \notin S
    PROVE  LET b == call[t].block
           IN  /\ Bytes(S \cup {b}) = Plus(Bytes(S), b.size) /\ Bytes(S \cup {b}) \in Counter
               /\ Cardinality(S \cup {b}) = Plus(Cardinality(S), 1)
               /\ Cardinality(S \cup {b}) = Cardinality(S) + 1
               /\ Cardinality(S \cup {b}) \in Counter
<1> DEFINE b == call[t].block
           more == S \cup {b}
<1>1. b \in Blocks /\ b \in Charged(Getting \cup Giving)
  BY DEF CallsTyped, Holding, Charged, Dealt
<1>2. more \subseteq Charged(Getting \cup Giving)
  BY <1>1
<1>3. /\ IsFiniteSet(S) /\ IsFiniteSet(Slots(S)) /\ S \subseteq Blocks
      /\ Bytes(S) \in Nat /\ Cardinality(S) \in Nat
  BY FewCharged
<1>4. Bytes(more) \in Nat /\ Bytes(more) < Limit /\ Cardinality(more) \in Nat /\ Cardinality(more) < Limit
  BY <1>2, FewCharged
<1>5. Cardinality(more) = Cardinality(S) + 1 /\ Bytes(more) = Bytes(S) + b.size
  BY <1>1, <1>3, OneMore
<1>6. b.size \in Nat /\ Limit \in Nat
  BY <1>1, SizesArePositive, AllocatorAssumption DEF Blocks
<1> HIDE DEF b, more
<1>7. Bytes(more) % Limit = Bytes(more) /\ Cardinality(more) % Limit = Cardinality(more)
  BY <1>4, SmallMod
<1>8. /\ Bytes(more) = Plus(Bytes(S), b.size) /\ Bytes(more) \in Counter
      /\ Cardinality(more) = Plus(Cardinality(S), 1) /\ Cardinality(more) \in Counter
  BY <1>4, <1>5, <1>6, <1>7 DEF Plus, Counter
<1> QED
  BY <1>5, <1>8 DEF b, more

LEMMA CountDown ==
    ASSUME CallsTyped, BlocksTold, NEW b, NEW S, S \subseteq Charged(Getting \cup Giving), b \in S
    PROVE  /\ Bytes(S \ {b}) = Minus(Bytes(S), b.size) /\ Bytes(S \ {b}) \in Counter
           /\ Cardinality(S \ {b}) = Minus(Cardinality(S), 1)
           /\ Cardinality(S \ {b}) = Cardinality(S) - 1
           /\ Cardinality(S \ {b}) \in Counter
<1> DEFINE less == S \ {b}
<1>1. /\ IsFiniteSet(less) /\ IsFiniteSet(Slots(less)) /\ less \subseteq Blocks
      /\ Bytes(less) \in Nat /\ Bytes(less) < Limit
      /\ Cardinality(less) \in Nat /\ Cardinality(less) < Limit
  BY FewCharged
<1>2. S \subseteq Blocks /\ S = less \cup {b} /\ b \notin less /\ b \in Blocks
  BY FewCharged
<1> HIDE DEF less
<1>3. Cardinality(S) = Cardinality(less) + 1 /\ Bytes(S) = Bytes(less) + b.size
  BY <1>1, <1>2, OneMore
<1>4. b.size \in Nat /\ Limit \in Nat
  BY <1>2, SizesArePositive, AllocatorAssumption DEF Blocks
<1>5. Bytes(S) - b.size = Bytes(less) /\ Cardinality(S) - 1 = Cardinality(less)
  BY <1>1, <1>3, <1>4
<1>6. Bytes(less) % Limit = Bytes(less) /\ Cardinality(less) % Limit = Cardinality(less)
  BY <1>1, SmallMod
<1>7. /\ Bytes(less) = Minus(Bytes(S), b.size) /\ Bytes(less) \in Counter
      /\ Cardinality(less) = Minus(Cardinality(S), 1) /\ Cardinality(less) \in Counter
  BY <1>1, <1>4, <1>5, <1>6 DEF Minus, Counter
<1> QED
  BY <1>5, <1>7 DEF less

-----------------------------------------------------------------------------
(* The steps of a thread, and what they keep.                               *)

\* A thread that asks for a block, or does nothing with blocks at all.
LEMMA QuietCall ==
    ASSUME CallsTyped, BlocksTold, NEW t \in Threads, NEW r \in Calls,
           call' = [call EXCEPT ![t] = r], blocks' = blocks,
           calls' \in calls .. MaxCalls, call[t].pc \notin Giving, r.pc \notin Giving,
           r.pc \in Getting => /\ r.block \in Blocks
                               /\ r.block.id \in calls + 1 .. calls'
    PROVE  CallsTyped' /\ BlocksTold'
<1>1. call' \in [Threads -> Calls] /\ call'[t] = r /\ \A u \in Threads \ {t} : call'[u] = call[u]
  BY OneCall DEF CallsTyped
<1>2. calls \in 0 .. MaxCalls /\ MaxCalls \in Nat
  BY AllocatorAssumption DEF CallsTyped
<1>3. CallsTyped'
  BY <1>1, <1>2 DEF CallsTyped, Holding
<1>4. (\A b \in blocks : b.id \in 1 .. calls)'
  BY <1>2 DEF BlocksTold
<1>5. ASSUME NEW u \in Threads, Holding(u)'
      PROVE  (/\ call[u].block.id \in 1 .. calls
              /\ \A b \in blocks : b.id # call[u].block.id)'
  <2>1. CASE u = t
    BY <1>1, <1>2, <1>5, <2>1 DEF Holding, BlocksTold
  <2>2. CASE u # t
    BY <1>1, <1>2, <1>5, <2>2 DEF Holding, BlocksTold
  <2> QED
    BY <2>1, <2>2
<1>6. ASSUME NEW u \in Threads, NEW v \in Threads, Holding(u)', Holding(v)',
             (call[u].block.id = call[v].block.id)'
      PROVE  u = v
  <2>1. CASE u = t /\ v # t
    BY <1>1, <1>2, <1>6, <2>1 DEF Holding, BlocksTold
  <2>2. CASE u # t /\ v = t
    BY <1>1, <1>2, <1>6, <2>2 DEF Holding, BlocksTold
  <2>3. CASE u # t /\ v # t
    BY <1>1, <1>6, <2>3 DEF Holding, BlocksTold
  <2> QED
    BY <2>1, <2>2, <2>3
<1>7. BlocksTold'
  BY <1>4, <1>5, <1>6 DEF BlocksTold
<1> QED
  BY <1>3, <1>7

\* A thread that takes, passes or gives a block.
LEMMA BlockCall ==
    ASSUME CallsTyped, BlocksTold, NEW t \in Threads, NEW b \in Blocks, NEW r \in Calls,
           Holding(t) => b = call[t].block, Holding(t) \/ b \in blocks,
           call' = [call EXCEPT ![t] = r], blocks' \ {b} = blocks \ {b}, calls' = calls,
           r.pc \in Getting \cup Giving => r.block = b /\ b \notin blocks'
    PROVE  CallsTyped' /\ BlocksTold'
<1>1. call' \in [Threads -> Calls] /\ call'[t] = r /\ \A u \in Threads \ {t} : call'[u] = call[u]
  BY OneCall DEF CallsTyped
<1>2. blocks' \subseteq blocks \cup {b}
  OBVIOUS
<1>3. CallsTyped'
  BY <1>1, <1>2 DEF CallsTyped, Holding
<1>4. b.id \in 1 .. calls /\ \A c \in blocks \ {b} : c.id # b.id
  BY DEF BlocksTold
<1>5. (\A c \in blocks : c.id \in 1 .. calls)'
  BY <1>2, <1>4 DEF BlocksTold
<1>6. (\A c, d \in blocks : c.id = d.id => c = d)'
  BY <1>2, <1>4 DEF BlocksTold
<1>7. ASSUME NEW u \in Threads \ {t}, Holding(u)'
      PROVE  /\ Holding(u) /\ call'[u].block = call[u].block
             /\ call[u].block.id # b.id
             /\ \A c \in blocks : c.id # call[u].block.id
  BY <1>1, <1>7 DEF Holding, BlocksTold
<1>8. Holding(t)' => call'[t].block = b /\ b \notin blocks'
  BY <1>1 DEF Holding
<1>9. ASSUME NEW u \in Threads, Holding(u)'
      PROVE  (/\ call[u].block.id \in 1 .. calls
              /\ \A c \in blocks : c.id # call[u].block.id
              /\ \A v \in Threads : Holding(v) /\ call[v].block.id = call[u].block.id => v = u)'
  <2>1. (call[u].block.id \in 1 .. calls)'
    BY <1>4, <1>7, <1>8, <1>9 DEF BlocksTold
  <2>2. (\A c \in blocks : c.id # call[u].block.id)'
    BY <1>2, <1>4, <1>7, <1>8, <1>9
  <2>3. ASSUME NEW v \in Threads, Holding(v)', call'[v].block.id = call'[u].block.id
        PROVE  v = u
    <3>1. CASE u # t /\ v # t
      BY <1>7, <1>9, <2>3, <3>1 DEF BlocksTold
    <3>2. CASE u = t \/ v = t
      BY <1>7, <1>8, <1>9, <2>3, <3>2
    <3> QED
      BY <3>1, <3>2
  <2> QED
    BY <2>1, <2>2, <2>3
<1>10. BlocksTold'
  BY <1>5, <1>6, <1>9 DEF BlocksTold
<1> QED
  BY <1>3, <1>10

\* The counters, when what is charged stays.
LEMMA QuietStep ==
    ASSUME CountInv, NEW t \in Threads, NEW r \in Calls,
           call' = [call EXCEPT ![t] = r], UNCHANGED <<blocks, counters>>,
           calls' \in calls .. MaxCalls,
           call[t].pc \in {"idle", "swapbase", "obtain"},
           r.pc \in {"idle", "swapbase", "obtain"},
           r.pc = "obtain" => r.block \in Blocks /\ r.block.id \in calls + 1 .. calls'
    PROVE  CountInv'
<1>1. CallsTyped' /\ BlocksTold'
  BY QuietCall DEF CountInv, Getting, Giving
<1>2. /\ Charged(InLive)' = Charged(InLive) /\ Charged(InCalls)' = Charged(InCalls)
      /\ Charged(InTag)' = Charged(InTag)
  <2>1. ASSUME NEW steps, "idle" \notin steps, "swapbase" \notin steps, "obtain" \notin steps
        PROVE  ChargedBy(blocks', call', steps) = Charged(steps)
    BY <2>1, ChargedStays DEF CountInv, counters
  <2> QED
    BY <2>1 DEF InLive, InCalls, InTag, Charged, Dealt, ChargedBy
<1>3. Counted' /\ CountersTyped'
  BY <1>2 DEF CountInv, Counted, CountersTyped, counters, tagged
<1> QED
  BY <1>1, <1>3 DEF CountInv

LEMMA BlockStep ==
    ASSUME CountInv, NEW t \in Threads, NEW b \in Blocks, NEW r \in Calls,
           Holding(t) => b = call[t].block, Holding(t) \/ b \in blocks,
           call' = [call EXCEPT ![t] = r], blocks' \ {b} = blocks \ {b}, calls' = calls,
           r.pc \in Getting \cup Giving => r.block = b /\ b \notin blocks'
    PROVE  /\ CallsTyped' /\ BlocksTold'
           /\ Moves(Charged(InLive)', Charged(InLive), b,
                    b \in blocks \/ call[t].pc \in InLive, b \in blocks' \/ r.pc \in InLive)
           /\ Moves(Charged(InCalls)', Charged(InCalls), b,
                    b \in blocks \/ call[t].pc \in InCalls, b \in blocks' \/ r.pc \in InCalls)
           /\ Moves(Charged(InTag)', Charged(InTag), b,
                    b \in blocks \/ call[t].pc \in InTag, b \in blocks' \/ r.pc \in InTag)
<1>1. CallsTyped' /\ BlocksTold'
  BY BlockCall DEF CountInv
<1>2. ASSUME NEW steps, steps \subseteq Getting \cup Giving
      PROVE  Moves(ChargedBy(blocks', call', steps), Charged(steps), b,
                   b \in blocks \/ call[t].pc \in steps, b \in blocks' \/ r.pc \in steps)
  <2>1. r.pc \in steps => r.block = b
    BY <1>2
  <2> QED
    BY <1>2, <2>1, ChargedMoves DEF CountInv
<1>3. /\ Charged(InLive)' = ChargedBy(blocks', call', InLive)
      /\ Charged(InCalls)' = ChargedBy(blocks', call', InCalls)
      /\ Charged(InTag)' = ChargedBy(blocks', call', InTag)
  BY DEF Charged, Dealt, ChargedBy, InLive, InCalls, InTag
<1>4. /\ InLive \subseteq Getting \cup Giving /\ InCalls \subseteq Getting \cup Giving
      /\ InTag \subseteq Getting \cup Giving
  BY DEF InLive, InCalls, InTag, Getting, Giving
<1> QED
  BY <1>1, <1>2, <1>3, <1>4

\* The number of allocations and that of deallocations.
LEMMA CallsCounted ==
    ASSUME CountInv, NEW t \in Threads, Holding(t)
    PROVE  LET b == call[t].block
               S == Charged(InCalls)
           IN  /\ b \notin S => Minus(Plus(allocations, 1), deallocations) = Cardinality(S \cup {b})
               /\ b \in S => Minus(allocations, Plus(deallocations, 1)) = Cardinality(S \ {b})
               /\ Plus(allocations, 1) \in Counter /\ Plus(deallocations, 1) \in Counter
<1> DEFINE b == call[t].block
           S == Charged(InCalls)
<1>1. S \subseteq Charged(Getting \cup Giving)
  BY DEF Charged, Dealt, InCalls, Getting, Giving
<1>2. /\ allocations \in Nat /\ deallocations \in Nat /\ Limit \in Nat \ {0}
      /\ Minus(allocations, deallocations) = Cardinality(S)
  BY AllocatorAssumption DEF CountInv, CountersTyped, Counter, Counted
<1>3. CallsTyped /\ BlocksTold
  BY DEF CountInv
<1>4. Cardinality(S) \in Nat /\ Cardinality(S) < Limit
  BY <1>3, FewCharged DEF InCalls, Getting, Giving
<1>7. Plus(allocations, 1) \in Counter /\ Plus(deallocations, 1) \in Counter
  BY <1>2 DEF Plus, Counter
<1>5. CASE b \notin S
  <2>1. Cardinality(S \cup {b}) = Cardinality(S) + 1 /\ Cardinality(S \cup {b}) \in Counter
    BY <1>1, <1>3, <1>5, CountUp
  <2>2. Cardinality(S) + 1 < Limit
    BY <1>2, <1>4, <2>1 DEF Counter
  <2>3. Minus(Plus(allocations, 1), deallocations) = Cardinality(S) + 1
    BY <1>2, <1>4, <2>2, DifferenceMod
  <2> QED
    BY <1>5, <1>7, <2>1, <2>3
<1>6. CASE b \in S
  <2>1. Cardinality(S \ {b}) = Cardinality(S) - 1 /\ Cardinality(S \ {b}) \in Counter
    BY <1>1, <1>3, <1>6, CountDown
  <2>2. Cardinality(S) >= 1
    BY <1>4, <2>1 DEF Counter
  <2>3. Minus(allocations, Plus(deallocations, 1)) = Cardinality(S) - 1
    BY <1>2, <1>4, <2>2, DifferenceMod
  <2> QED
    BY <1>6, <1>7, <2>1, <2>3
<1> QED
  BY <1>5, <1>6, <1>7

\* The counters of the block's tag, and of the others.
OfTag(S, tag) == {b \in S : b.tag = tag}

LEMMA TagsCounted ==
    ASSUME CountInv, NEW t \in Threads, Holding(t), NEW tag \in AllTags
    PROVE  LET b == call[t].block
               S == Charged(InTag)
           IN  /\ b.tag \in AllTags
               /\ tag = b.tag /\ b \notin S =>
                    /\ Bytes(OfTag(S \cup {b}, tag)) = Plus(bytesPerTag[tag], b.size)
                    /\ Cardinality(OfTag(S \cup {b}, tag)) = Plus(allocationsPerTag[tag], 1)
                    /\ Bytes(OfTag(S \cup {b}, tag)) \in Counter
                    /\ Cardinality(OfTag(S \cup {b}, tag)) \in Counter
               /\ tag = b.tag /\ b \in S =>
                    /\ Bytes(OfTag(S \ {b}, tag)) = Minus(bytesPerTag[tag], b.size)
                    /\ Cardinality(OfTag(S \ {b}, tag)) = Minus(allocationsPerTag[tag], 1)
                    /\ Bytes(OfTag(S \ {b}, tag)) \in Counter
                    /\ Cardinality(OfTag(S \ {b}, tag)) \in Counter
               /\ tag # b.tag =>
                    /\ OfTag(S \cup {b}, tag) = OfTag(S, tag)
                    /\ OfTag(S \ {b}, tag) = OfTag(S, tag)
<1> DEFINE b == call[t].block
           S == Charged(InTag)
           T == OfTag(S, tag)
<1>1. T \subseteq Charged(Getting \cup Giving)
  BY DEF Charged, Dealt, InTag, Getting, Giving, OfTag
<1>2. CallsTyped /\ BlocksTold /\ b.tag \in AllTags
  BY DEF CountInv, CallsTyped, Blocks
<1>3. bytesPerTag[tag] = Bytes(T) /\ allocationsPerTag[tag] = Cardinality(T)
  BY DEF CountInv, Counted, OfTag
<1>4. CASE tag = b.tag /\ b \notin S
  <2>1. OfTag(S \cup {b}, tag) = T \cup {b} /\ b \notin T
    BY <1>4 DEF OfTag
  <2> QED
    BY <1>1, <1>2, <1>3, <1>4, <2>1, CountUp
<1>5. CASE tag = b.tag /\ b \in S
  <2>1. OfTag(S \ {b}, tag) = T \ {b} /\ b \in T
    BY <1>5 DEF OfTag
  <2>2. /\ Bytes(T \ {b}) = Minus(Bytes(T), b.size) /\ Bytes(T \ {b}) \in Counter
        /\ Cardinality(T \ {b}) = Minus(Cardinality(T), 1)
        /\ Cardinality(T \ {b}) \in Counter
    BY <1>1, <1>2, <2>1, CountDown
  <2> QED
    BY <1>2, <1>3, <1>5, <2>1, <2>2
<1>6. CASE tag # b.tag
  BY <1>2, <1>6 DEF OfTag
<1> QED
  BY <1>2, <1>4, <1>5, <1>6

\* What CountInv' asks of the tags.
LEMMA TagsThen ==
    ASSUME \A tag \in AllTags : /\ bytesPerTag'[tag] = Bytes(OfTag(Charged(InTag)', tag))
                                /\ allocationsPerTag'[tag] = Cardinality(OfTag(Charged(InTag)', tag)),
           live' = Bytes(Charged(InLive)'),
           Minus(allocations', deallocations') = Cardinality(Charged(InCalls)')
    PROVE  Counted'
BY DEF Counted, OfTag, Bytes, Slots

LEMMA TagsStay ==
    ASSUME CountInv, UNCHANGED tagged, Charged(InTag)' = Charged(InTag)
    PROVE  \A tag \in AllTags : /\ bytesPerTag'[tag] = Bytes(OfTag(Charged(InTag)', tag))
                                /\ allocationsPerTag'[tag] = Cardinality(OfTag(Charged(InTag)', tag))
BY DEF CountInv, Counted, OfTag, tagged

\* A step that changes what is charged to no counter.
LEMMA PassStep ==
    ASSUME CountInv, NEW t \in Threads, NEW b \in Blocks, NEW r \in Calls,
           Holding(t) => b = call[t].block, Holding(t) \/ b \in blocks,
           call' = [call EXCEPT ![t] = r], blocks' \ {b} = blocks \ {b}, calls' = calls,
           r.pc \in Getting \cup Giving => r.block = b /\ b \notin blocks',
           b \in blocks \/ call[t].pc \in InLive <=> b \in blocks' \/ r.pc \in InLive,
           b \in blocks \/ call[t].pc \in InCalls <=> b \in blocks' \/ r.pc \in InCalls,
           b \in blocks \/ call[t].pc \in InTag <=> b \in blocks' \/ r.pc \in InTag,
           UNCHANGED <<live, allocations, deallocations, tagged>>
    PROVE  CountInv'
<1>1. /\ CallsTyped' /\ BlocksTold' /\ Charged(InLive)' = Charged(InLive)
      /\ Charged(InCalls)' = Charged(InCalls) /\ Charged(InTag)' = Charged(InTag)
  BY BlockStep DEF Moves
<1>2. Counted'
  BY <1>1 DEF CountInv, Counted, tagged
<1>3. CountersTyped'
  BY DEF CountInv, CountersTyped, tagged
<1> QED
  BY <1>1, <1>2, <1>3 DEF CountInv

LEMMA ObtainCounts == ASSUME CountInv, NEW t \in Threads, Obtain(t) PROVE CountInv'
<1> DEFINE b == call[t].block
           r == [call[t] EXCEPT !.pc = "addlive"]
<1>1. /\ call[t] \in Calls /\ call[t].pc = "obtain" /\ Holding(t) /\ b \in Blocks
      /\ \A c \in blocks : c # b
  BY DEF Obtain, At, CountInv, CallsTyped, BlocksTold, Holding, Getting
<1>2. r \in Calls /\ r.pc = "addlive" /\ r.block = b
  BY <1>1, Goes, Names
<1>3. /\ call' = [call EXCEPT ![t] = r]
      /\ allocations' = Plus(allocations, 1)
      /\ UNCHANGED <<blocks, live, deallocations, tagged, calls>>
  BY <1>1 DEF Obtain, Goto, CountInv, CallsTyped
<1> HIDE DEF b, r
<1>4. /\ CallsTyped' /\ BlocksTold' /\ Charged(InLive)' = Charged(InLive)
      /\ b \notin Charged(InCalls) /\ Charged(InCalls)' = Charged(InCalls) \cup {b}
      /\ Charged(InTag)' = Charged(InTag)
  <2>1. /\ call[t].pc \notin InLive \cup InCalls \cup InTag
        /\ r.pc \notin InLive /\ r.pc \in InCalls /\ r.pc \notin InTag /\ b \notin blocks
    BY <1>1, <1>2 DEF InLive, InCalls, InTag
  <2> QED
    BY <1>1, <1>2, <1>3, <2>1, BlockStep DEF Moves, b
<1>5. /\ Minus(allocations', deallocations') = Cardinality(Charged(InCalls)')
      /\ allocations' \in Counter
  BY <1>1, <1>3, <1>4, CallsCounted DEF b
<1>6. live' = Bytes(Charged(InLive)')
  BY <1>3, <1>4 DEF CountInv, Counted
<1>7. Counted'
  BY <1>3, <1>4, <1>5, <1>6, TagsStay, TagsThen
<1>8. CountersTyped'
  BY <1>3, <1>5 DEF CountInv, CountersTyped, tagged
<1> QED
  BY <1>4, <1>7, <1>8 DEF CountInv

LEMMA CountCounts == ASSUME CountInv, NEW t \in Threads, Count(t) PROVE CountInv'
<1> DEFINE b == call[t].block
           r == [call[t] EXCEPT !.pc = "sublive"]
<1>1. /\ call[t] \in Calls /\ call[t].pc = "count" /\ Holding(t) /\ b \in Blocks
      /\ \A c \in blocks : c # b
  BY DEF Count, At, CountInv, CallsTyped, BlocksTold, Holding, Giving
<1>2. r \in Calls /\ r.pc = "sublive" /\ r.block = b
  BY <1>1, Goes, Names
<1>3. /\ call' = [call EXCEPT ![t] = r]
      /\ deallocations' = Plus(deallocations, 1)
      /\ UNCHANGED <<blocks, live, allocations, tagged, calls>>
  BY <1>1 DEF Count, Goto, CountInv, CallsTyped
<1> HIDE DEF b, r
<1>4. /\ CallsTyped' /\ BlocksTold' /\ Charged(InLive)' = Charged(InLive)
      /\ b \in Charged(InCalls) /\ Charged(InCalls)' = Charged(InCalls) \ {b}
      /\ Charged(InTag)' = Charged(InTag)
  <2>1. /\ call[t].pc \in InLive \cap InCalls \cap InTag
        /\ r.pc \in InLive /\ r.pc \notin InCalls /\ r.pc \in InTag /\ b \notin blocks
    BY <1>1, <1>2 DEF InLive, InCalls, InTag
  <2> QED
    BY <1>1, <1>2, <1>3, <2>1, BlockStep DEF Moves, b
<1>5. /\ Minus(allocations', deallocations') = Cardinality(Charged(InCalls)')
      /\ deallocations' \in Counter
  BY <1>1, <1>3, <1>4, CallsCounted DEF b
<1>6. live' = Bytes(Charged(InLive)')
  BY <1>3, <1>4 DEF CountInv, Counted
<1>7. Counted'
  BY <1>3, <1>4, <1>5, <1>6, TagsStay, TagsThen
<1>8. CountersTyped'
  BY <1>3, <1>5 DEF CountInv, CountersTyped, tagged
<1> QED
  BY <1>4, <1>7, <1>8 DEF CountInv

LEMMA AddLiveCounts == ASSUME CountInv, NEW t \in Threads, AddLive(t) PROVE CountInv'
<1> DEFINE b == call[t].block
           r == [call[t] EXCEPT !.pc = "loadpeak", !.level = live']
<1>1. /\ call[t] \in Calls /\ call[t].pc = "addlive" /\ Holding(t) /\ b \in Blocks
      /\ \A c \in blocks : c # b
  BY DEF AddLive, At, CountInv, CallsTyped, BlocksTold, Holding, Getting
<1>2. live' = Plus(live, b.size) /\ live' \in Nat
  <2>1. b.size \in Nat
    BY <1>1, SizesArePositive DEF Blocks
  <2>2. live \in Nat
    BY AllocatorAssumption DEF CountInv, CountersTyped, Counter
  <2> QED
    BY <2>1, <2>2, Wraps DEF AddLive
<1>3. r \in Calls /\ r.pc = "loadpeak" /\ r.block = b
  <2>1. "loadpeak" \in Steps
    BY Names
  <2> QED
    BY <1>1, <1>2, <2>1 DEF Calls
<1>4. /\ call' = [call EXCEPT ![t] = r]
      /\ UNCHANGED <<blocks, allocations, deallocations, tagged, calls>>
  BY <1>1 DEF AddLive, CountInv, CallsTyped
<1> HIDE DEF b, r
<1>5. /\ CallsTyped' /\ BlocksTold' /\ Charged(InCalls)' = Charged(InCalls)
      /\ b \notin Charged(InLive) /\ Charged(InLive)' = Charged(InLive) \cup {b}
      /\ Charged(InTag)' = Charged(InTag)
  <2>1. /\ call[t].pc \notin InLive \cup InTag /\ call[t].pc \in InCalls
        /\ r.pc \in InLive /\ r.pc \in InCalls /\ r.pc \notin InTag /\ b \notin blocks
    BY <1>1, <1>3 DEF InLive, InCalls, InTag
  <2> QED
    BY <1>1, <1>3, <1>4, <2>1, BlockStep DEF Moves, b
<1>6. live' = Bytes(Charged(InLive)') /\ live' \in Counter
  <2>1. Charged(InLive) \subseteq Charged(Getting \cup Giving)
    BY DEF Charged, Dealt, InLive, Getting, Giving
  <2> QED
    BY <1>1, <1>2, <1>5, <2>1, CountUp DEF CountInv, Counted, b
<1>7. Minus(allocations', deallocations') = Cardinality(Charged(InCalls)')
  BY <1>4, <1>5 DEF CountInv, Counted
<1>8. Counted'
  BY <1>4, <1>5, <1>6, <1>7, TagsStay, TagsThen
<1>9. CountersTyped'
  BY <1>4, <1>6 DEF CountInv, CountersTyped, tagged
<1> QED
  BY <1>5, <1>8, <1>9 DEF CountInv

LEMMA SubLiveCounts == ASSUME CountInv, NEW t \in Threads, SubLive(t) PROVE CountInv'
<1> DEFINE b == call[t].block
           r == [call[t] EXCEPT !.pc = "subtag"]
<1>1. /\ call[t] \in Calls /\ call[t].pc = "sublive" /\ Holding(t) /\ b \in Blocks
      /\ \A c \in blocks : c # b
  BY DEF SubLive, At, CountInv, CallsTyped, BlocksTold, Holding, Giving
<1>2. r \in Calls /\ r.pc = "subtag" /\ r.block = b
  BY <1>1, Goes, Names
<1>3. /\ call' = [call EXCEPT ![t] = r]
      /\ live' = Minus(live, b.size)
      /\ UNCHANGED <<blocks, allocations, deallocations, tagged, calls>>
  BY <1>1 DEF SubLive, Goto, CountInv, CallsTyped
<1> HIDE DEF b, r
<1>4. /\ CallsTyped' /\ BlocksTold' /\ Charged(InCalls)' = Charged(InCalls)
      /\ b \in Charged(InLive) /\ Charged(InLive)' = Charged(InLive) \ {b}
      /\ Charged(InTag)' = Charged(InTag)
  <2>1. /\ call[t].pc \in InLive \cap InTag /\ call[t].pc \notin InCalls
        /\ r.pc \notin InLive /\ r.pc \notin InCalls /\ r.pc \in InTag /\ b \notin blocks
    BY <1>1, <1>2 DEF InLive, InCalls, InTag
  <2> QED
    BY <1>1, <1>2, <1>3, <2>1, BlockStep DEF Moves, b
<1>5. live' = Bytes(Charged(InLive)') /\ live' \in Counter
  <2>1. Charged(InLive) \subseteq Charged(Getting \cup Giving)
    BY DEF Charged, Dealt, InLive, Getting, Giving
  <2> QED
    BY <1>3, <1>4, <2>1, CountDown DEF CountInv, Counted
<1>6. Minus(allocations', deallocations') = Cardinality(Charged(InCalls)')
  BY <1>3, <1>4 DEF CountInv, Counted
<1>7. Counted'
  BY <1>3, <1>4, <1>5, <1>6, TagsStay, TagsThen
<1>8. CountersTyped'
  BY <1>3, <1>5 DEF CountInv, CountersTyped, tagged
<1> QED
  BY <1>4, <1>7, <1>8 DEF CountInv

LEMMA AddTagCounts == ASSUME CountInv, NEW t \in Threads, AddTag(t) PROVE CountInv'
<1> DEFINE b == call[t].block
           S == Charged(InTag)
<1>1. /\ call[t] \in Calls /\ call[t].pc = "addtag" /\ Holding(t) /\ b \in Blocks
      /\ \A c \in blocks : c # b
  BY DEF AddTag, At, CountInv, CallsTyped, BlocksTold, Holding, Getting
<1>2. /\ call' = [call EXCEPT ![t] = Idle] /\ Idle \in Calls /\ Idle.pc = "idle"
      /\ bytesPerTag' = [bytesPerTag EXCEPT ![b.tag] = Plus(@, b.size)]
      /\ allocationsPerTag' = [allocationsPerTag EXCEPT ![b.tag] = Plus(@, 1)]
      /\ blocks' = blocks \cup {b}
      /\ UNCHANGED <<live, allocations, deallocations, calls>>
  BY IdleCall DEF AddTag, Idle
<1>3. /\ bytesPerTag \in [AllTags -> Counter] /\ allocationsPerTag \in [AllTags -> Counter]
  BY DEF CountInv, CountersTyped
<1> HIDE DEF b
<1>4. /\ CallsTyped' /\ BlocksTold' /\ Charged(InCalls)' = Charged(InCalls)
      /\ Charged(InLive)' = Charged(InLive)
      /\ b \notin S /\ Charged(InTag)' = S \cup {b}
  <2>1. /\ call[t].pc \in InLive /\ call[t].pc \in InCalls /\ call[t].pc \notin InTag
        /\ Idle.pc \notin InTag /\ Idle.pc \notin Getting \cup Giving
        /\ b \notin blocks /\ b \in blocks' /\ blocks' \ {b} = blocks \ {b}
    BY <1>1, <1>2 DEF InLive, InCalls, InTag, Getting, Giving
  <2> QED
    BY <1>1, <1>2, <2>1, BlockStep DEF Moves, b
<1> HIDE DEF S
<1>5. ASSUME NEW tag \in AllTags
      PROVE  /\ bytesPerTag'[tag] = Bytes(OfTag(Charged(InTag)', tag))
             /\ allocationsPerTag'[tag] = Cardinality(OfTag(Charged(InTag)', tag))
             /\ bytesPerTag'[tag] \in Counter /\ allocationsPerTag'[tag] \in Counter
  <2>1. CASE tag = b.tag
    BY <1>1, <1>2, <1>3, <1>4, <2>1, TagsCounted DEF b, S
  <2>2. CASE tag # b.tag
    <3>1. OfTag(Charged(InTag)', tag) = OfTag(S, tag)
      BY <1>1, <1>4, <2>2, TagsCounted DEF b, S
    <3>2. bytesPerTag'[tag] = bytesPerTag[tag] /\ allocationsPerTag'[tag] = allocationsPerTag[tag]
      BY <1>2, <1>3, <2>2
    <3>3. bytesPerTag[tag] = Bytes(OfTag(S, tag)) /\ allocationsPerTag[tag] = Cardinality(OfTag(S, tag))
      BY DEF CountInv, Counted, OfTag, S
    <3> QED
      BY <1>3, <3>1, <3>2, <3>3
  <2> QED
    BY <2>1, <2>2
<1>6. live' = Bytes(Charged(InLive)') /\ Minus(allocations', deallocations') = Cardinality(Charged(InCalls)')
  BY <1>2, <1>4 DEF CountInv, Counted
<1>7. Counted'
  BY <1>5, <1>6, TagsThen
<1>8. /\ bytesPerTag' \in [AllTags -> Counter] /\ allocationsPerTag' \in [AllTags -> Counter]
  BY <1>2, <1>3, <1>5
<1>9. CountersTyped'
  BY <1>2, <1>8 DEF CountInv, CountersTyped
<1> QED
  BY <1>4, <1>7, <1>9 DEF CountInv

LEMMA SubTagCounts == ASSUME CountInv, NEW t \in Threads, SubTag(t) PROVE CountInv'
<1> DEFINE b == call[t].block
           S == Charged(InTag)
<1>1. /\ call[t] \in Calls /\ call[t].pc = "subtag" /\ Holding(t) /\ b \in Blocks
      /\ \A c \in blocks : c # b
  BY DEF SubTag, At, CountInv, CallsTyped, BlocksTold, Holding, Giving
<1>2. /\ call' = [call EXCEPT ![t] = Idle] /\ Idle \in Calls /\ Idle.pc = "idle"
      /\ bytesPerTag' = [bytesPerTag EXCEPT ![b.tag] = Minus(@, b.size)]
      /\ allocationsPerTag' = [allocationsPerTag EXCEPT ![b.tag] = Minus(@, 1)]
      /\ UNCHANGED <<blocks, live, allocations, deallocations, calls>>
  BY IdleCall DEF SubTag, TagOf, Idle
<1>3. /\ bytesPerTag \in [AllTags -> Counter] /\ allocationsPerTag \in [AllTags -> Counter]
  BY DEF CountInv, CountersTyped
<1> HIDE DEF b
<1>4. /\ CallsTyped' /\ BlocksTold' /\ Charged(InCalls)' = Charged(InCalls)
      /\ Charged(InLive)' = Charged(InLive)
      /\ b \in S /\ Charged(InTag)' = S \ {b}
  <2>1. /\ call[t].pc \notin InLive /\ call[t].pc \notin InCalls /\ call[t].pc \in InTag
        /\ Idle.pc \notin InTag /\ Idle.pc \notin Getting \cup Giving
        /\ Idle.pc \notin InLive /\ Idle.pc \notin InCalls /\ b \notin blocks
    BY <1>1, <1>2 DEF InLive, InCalls, InTag, Getting, Giving
  <2> QED
    BY <1>1, <1>2, <2>1, BlockStep DEF Moves, b
<1> HIDE DEF S
<1>5. ASSUME NEW tag \in AllTags
      PROVE  /\ bytesPerTag'[tag] = Bytes(OfTag(Charged(InTag)', tag))
             /\ allocationsPerTag'[tag] = Cardinality(OfTag(Charged(InTag)', tag))
             /\ bytesPerTag'[tag] \in Counter /\ allocationsPerTag'[tag] \in Counter
  <2>1. CASE tag = b.tag
    BY <1>1, <1>2, <1>3, <1>4, <2>1, TagsCounted DEF b, S
  <2>2. CASE tag # b.tag
    <3>1. OfTag(Charged(InTag)', tag) = OfTag(S, tag)
      BY <1>1, <1>4, <2>2, TagsCounted DEF b, S
    <3>2. bytesPerTag'[tag] = bytesPerTag[tag] /\ allocationsPerTag'[tag] = allocationsPerTag[tag]
      BY <1>2, <1>3, <2>2
    <3>3. bytesPerTag[tag] = Bytes(OfTag(S, tag)) /\ allocationsPerTag[tag] = Cardinality(OfTag(S, tag))
      BY DEF CountInv, Counted, OfTag, S
    <3> QED
      BY <1>3, <3>1, <3>2, <3>3
  <2> QED
    BY <2>1, <2>2
<1>6. live' = Bytes(Charged(InLive)') /\ Minus(allocations', deallocations') = Cardinality(Charged(InCalls)')
  BY <1>2, <1>4 DEF CountInv, Counted
<1>7. Counted'
  BY <1>5, <1>6, TagsThen
<1>8. /\ bytesPerTag' \in [AllTags -> Counter] /\ allocationsPerTag' \in [AllTags -> Counter]
  BY <1>2, <1>3, <1>5
<1>9. CountersTyped'
  BY <1>2, <1>8 DEF CountInv, CountersTyped
<1> QED
  BY <1>4, <1>7, <1>9 DEF CountInv

\* A thread races for the peak, or takes a block from the program.
LEMMA RaceCounts ==
    ASSUME CountInv, peak \in Nat, NEW t \in Threads, LoadPeak(t) \/ SwapPeak(t)
    PROVE  CountInv'
<1> DEFINE b == call[t].block
<1>1. /\ call[t] \in Calls /\ call[t].pc \in {"loadpeak", "swappeak"} /\ Holding(t) /\ b \in Blocks
      /\ \A c \in blocks : c # b
  BY DEF LoadPeak, SwapPeak, At, CountInv, CallsTyped, BlocksTold, Holding, Getting
<1>2. /\ Compares(t) \/ PeakDone(t)
      /\ UNCHANGED <<blocks, live, allocations, deallocations, tagged, calls>>
  BY DEF LoadPeak, SwapPeak, counters
<1>3. \E r \in Calls : /\ r.pc \in {"swappeak", "addtag"} /\ r.block = b
                       /\ call' = [call EXCEPT ![t] = r]
  <2> DEFINE r1 == [call[t] EXCEPT !.pc = "swappeak", !.seen = peak]
             r2 == [call[t] EXCEPT !.pc = "addtag", !.level = 0, !.seen = 0]
  <2>1. r1 \in Calls /\ r1.pc = "swappeak" /\ r1.block = b
    <3>1. "swappeak" \in Steps
      BY Names
    <3> QED
      BY <1>1, <3>1 DEF Calls
  <2>2. r2 \in Calls /\ r2.pc = "addtag" /\ r2.block = b
    <3>1. "addtag" \in Steps /\ 0 \in Nat
      BY Names
    <3> QED
      BY <1>1, <3>1 DEF Calls
  <2>3. call' = [call EXCEPT ![t] = r1] \/ call' = [call EXCEPT ![t] = r2]
    BY <1>2 DEF Compares, PeakDone, CountInv, CallsTyped
  <2> HIDE DEF r1, r2
  <2> QED
    BY <2>1, <2>2, <2>3
<1>4. PICK r \in Calls : /\ r.pc \in {"swappeak", "addtag"} /\ r.block = b
                         /\ call' = [call EXCEPT ![t] = r]
  BY <1>3
<1>5. /\ call[t].pc \in InLive /\ call[t].pc \in InCalls /\ call[t].pc \notin InTag
      /\ r.pc \in InLive /\ r.pc \in InCalls /\ r.pc \notin InTag /\ b \notin blocks
  BY <1>1, <1>4 DEF InLive, InCalls, InTag
<1> QED
  BY <1>1, <1>2, <1>4, <1>5, PassStep

LEMMA DeallocateCounts ==
    ASSUME CountInv, NEW t \in Threads, NEW b \in blocks, Deallocate(t, b)
    PROVE  CountInv'
<1> DEFINE r == [call[t] EXCEPT !.pc = "count", !.block = b]
<1>1. /\ call[t] \in Calls /\ call[t].pc = "idle" /\ b \in Blocks
  BY DEF Deallocate, At, CountInv, CallsTyped
<1>2. r \in Calls /\ r.pc = "count" /\ r.block = b
  <2>1. "count" \in Steps /\ b \in Held
    BY <1>1, Names DEF Held
  <2> QED
    BY <1>1, <2>1, Takes
<1>3. /\ call' = [call EXCEPT ![t] = r] /\ blocks' = blocks \ {b}
      /\ UNCHANGED <<live, allocations, deallocations, tagged, calls>>
  BY <1>1 DEF Deallocate, CountInv, CallsTyped, counters
<1> HIDE DEF r
<1>4. ~Holding(t) /\ r.pc \in InLive /\ r.pc \in InCalls /\ r.pc \in InTag
  BY <1>1, <1>2 DEF InLive, InCalls, InTag, Holding, Getting, Giving
<1> QED
  BY <1>1, <1>2, <1>3, <1>4, PassStep

\* The record of a call that asks for a block.
LEMMA AsksCall ==
    ASSUME CallsTyped, NEW t \in Threads, NEW size \in BlockSizes, NEW tag \in AllTags,
           NEW more \in Calls, Asks(t, size, tag, more)
    PROVE  \E r \in Calls :
             /\ call' = [call EXCEPT ![t] = r] /\ r.pc = "obtain"
             /\ r.block \in Blocks /\ r.block.id = calls + 1
             /\ r.block.size = size /\ r.block.tag = tag
             /\ r.start = more.start /\ r.next = more.next /\ r.phase = more.phase
             /\ r.alignment = more.alignment
<1> DEFINE id == NewId
           block == [id |-> id, size |-> size, tag |-> tag]
           r == [more EXCEPT !.pc = "obtain", !.block = block]
<1>1. id \in Nat /\ id = calls + 1
  BY AllocatorAssumption DEF CallsTyped, NewId
<1>2. call' = [call EXCEPT ![t] = r]
  BY DEF Asks
<1> HIDE DEF id
<1>3. block \in Blocks /\ block.id = id /\ block.size = size /\ block.tag = tag
  BY <1>1 DEF Blocks
<1>4. block \in Held /\ "obtain" \in Steps
  BY <1>3, Names DEF Held
<1> HIDE DEF block
<1>5. /\ r \in Calls /\ r.pc = "obtain" /\ r.block = block
      /\ r.start = more.start /\ r.next = more.next /\ r.phase = more.phase
      /\ r.alignment = more.alignment
  BY <1>4 DEF Calls
<1> HIDE DEF r
<1> QED
  BY <1>1, <1>2, <1>3, <1>5

LEMMA AskCounts ==
    ASSUME CountInv, NEW t \in Threads, NEW size \in BlockSizes, NEW tag \in AllTags,
           NEW more \in Calls, Asks(t, size, tag, more), call[t].pc = "idle",
           UNCHANGED <<blocks, counters>>
    PROVE  CountInv'
<1>1. PICK r \in Calls : /\ call' = [call EXCEPT ![t] = r] /\ r.pc = "obtain"
                         /\ r.block \in Blocks /\ r.block.id = calls + 1
  BY AsksCall DEF CountInv
<1>2. calls' \in calls .. MaxCalls /\ r.block.id \in calls + 1 .. calls'
  BY <1>1, AllocatorAssumption DEF CountInv, CallsTyped, Asks, CountCall
<1> QED
  BY <1>1, <1>2, QuietStep

LEMMA IdleCounts ==
    ASSUME CountInv, NEW t \in Threads, call' = [call EXCEPT ![t] = Idle],
           call[t].pc \in {"swapbase", "obtain"}, UNCHANGED <<blocks, counters, calls>>
    PROVE  CountInv'
<1>1. Idle \in Calls /\ Idle.pc = "idle"
  BY IdleCall DEF Idle
<1>2. calls' \in calls .. MaxCalls
  BY AllocatorAssumption DEF CountInv, CallsTyped
<1> QED
  BY <1>1, <1>2, QuietStep

LEMMA BumpCounts ==
    ASSUME CountInv, base \in Nat, NEW t \in Threads, NEW size \in Sizes,
           NEW alignment \in Alignments, LoadBase(t, size, alignment)
    PROVE  CountInv'
<1> DEFINE start == AlignUp(base, alignment)
           r == [Idle EXCEPT !.pc = "swapbase", !.seen = base, !.start = start, !.next = start + size,
                             !.alignment = alignment]
<1>1. alignment \in Nat \ {0} /\ size \in Nat /\ start \in Nat /\ start + size \in Nat
  <2>1. alignment \in Nat \ {0} /\ size \in Nat
    BY AllocatorAssumption
  <2>2. start \in Nat
    BY <2>1, AlignUpIs
  <2> QED
    BY <2>1, <2>2
<1>2. /\ call' = [call EXCEPT ![t] = r] /\ call[t].pc = "idle" /\ UNCHANGED <<blocks, counters>>
      /\ calls' \in calls .. MaxCalls
  BY AllocatorAssumption DEF LoadBase, CountCall, At, CountInv, CallsTyped
<1> HIDE DEF start
<1>3. r \in Calls /\ r.pc = "swapbase"
  <2>1. "swapbase" \in Steps /\ None \in Held
    BY Names DEF Held
  <2> QED
    BY <1>1, <2>1 DEF Calls, Idle
<1> HIDE DEF r
<1> QED
  BY <1>2, <1>3, QuietStep

\* What is looked for once more starts where it would start now.
LEMMA AgainCall ==
    ASSUME CallsTyped, base \in Nat, NEW t \in Threads, call[t].pc = "swapbase",
           call[t].start <= call[t].next
    PROVE  LET c == call[t]
               again == AlignUp(base, c.alignment)
               r == [c EXCEPT !.seen = base, !.start = again, !.next = again + c.next - c.start]
           IN  /\ [call EXCEPT ![t].seen = base, ![t].start = again,
                               ![t].next = again + c.next - c.start] = [call EXCEPT ![t] = r]
               /\ r \in Calls /\ r.pc = "swapbase" /\ r.seen = base /\ r.start = again
               /\ r.alignment = c.alignment /\ r.start <= r.next
<1> DEFINE c == call[t]
           again == AlignUp(base, c.alignment)
           next == again + c.next - c.start
           r == [c EXCEPT !.seen = base, !.start = again, !.next = next]
<1>1. c \in Calls /\ c.alignment \in Nat \ {0} /\ c.start \in Nat /\ c.next \in Nat
  BY DEF CallsTyped, Calls
<1>2. again \in Nat
  BY <1>1, AlignUpIs
<1>3. next \in Nat /\ again <= next
  <2> HIDE DEF again
  <2> QED
    BY <1>1, <1>2
<1>4. [call EXCEPT ![t].seen = base, ![t].start = again, ![t].next = next]
        = [call EXCEPT ![t] = r]
  BY DEF CallsTyped
<1> HIDE DEF again, next, c
<1>5. /\ r \in Calls /\ r.pc = c.pc /\ r.seen = base /\ r.start = again /\ r.next = next
      /\ r.alignment = c.alignment
  BY <1>1, <1>2, <1>3 DEF Calls
<1> QED
  BY <1>3, <1>4, <1>5 DEF again, next, c

\* What SwapBase does to its thread.
LEMMA SwapBaseIs ==
    ASSUME CallsTyped, base \in Nat, NEW t \in Threads, SwapBase(t), call[t].start <= call[t].next
    PROVE  \E r \in Calls :
             /\ call[t].pc = "swapbase" /\ call' = [call EXCEPT ![t] = r]
             /\ \/ r.pc = "idle" /\ UNCHANGED <<base, scratch>>
                \/ /\ r.pc = "idle" /\ base = call[t].seen /\ call[t].next <= Capacity
                   /\ base' = call[t].next
                   /\ scratch' = scratch \cup {[start |-> call[t].start, next |-> call[t].next,
                                                alignment |-> call[t].alignment]}
                \/ /\ r.pc = "swapbase" /\ UNCHANGED <<base, scratch>>
                   /\ r.start = AlignUp(r.seen, r.alignment) /\ r.start <= r.next
             /\ UNCHANGED <<blocks, counters, pages, rooms, calls>>
<1>1. call[t].pc = "swapbase" /\ UNCHANGED <<blocks, counters, pages, rooms, calls>>
  BY DEF SwapBase, At
<1>2. Idle \in Calls /\ Idle.pc = "idle"
  BY IdleCall DEF Idle
<1>3. CASE call' = [call EXCEPT ![t] = Idle] /\ UNCHANGED <<base, scratch>>
  BY <1>1, <1>2, <1>3
<1>4. CASE /\ call[t].next <= Capacity /\ BaseUnmoved(t) /\ base' = call[t].next
           /\ scratch' = scratch \cup {[start |-> call[t].start, next |-> call[t].next,
                                        alignment |-> call[t].alignment]}
           /\ call' = [call EXCEPT ![t] = Idle]
  BY <1>1, <1>2, <1>4 DEF BaseUnmoved
<1>5. CASE LET c == call[t]
               again == AlignUp(base, c.alignment)
           IN  /\ c.next <= Capacity
               /\ call' = [call EXCEPT ![t].seen = base, ![t].start = again,
                                       ![t].next = again + c.next - c.start]
               /\ UNCHANGED <<base, scratch>>
  BY <1>1, <1>5, AgainCall
<1> QED
  BY <1>3, <1>4, <1>5 DEF SwapBase

-----------------------------------------------------------------------------
(* The memory of a frame.                                                   *)

\* What the invariant says of a call: a bump pointer that is about to move starts where
\* it was found, and a page on its way has room for its piece.
Fit(c) ==
    /\ c.pc = "swapbase" => c.start = AlignUp(c.seen, c.alignment) /\ c.start <= c.next
    /\ c.pc \in Getting /\ c.block.tag = Page => Inside(c, c.phase, c.block.size)

PageRecord == [phase : Nat, data : Nat, capacity : Nat, used : Nat]

LEMMA CallsFit == FrameInv => \A t \in Threads : Fit(call[t])
BY DEF FrameInv, ScratchInv, ArenaInv, Fit

LEMMA StillFit ==
    ASSUME FrameInv, NEW t \in Threads, NEW r \in Calls, call' = [call EXCEPT ![t] = r], Fit(r)
    PROVE  (\A u \in Threads : Fit(call[u]))'
<1>1. call'[t] = r /\ \A u \in Threads \ {t} : call'[u] = call[u]
  BY OneCall DEF FrameInv, CallsTyped
<1>2. ASSUME NEW u \in Threads
      PROVE  Fit(call'[u])
  BY <1>1, CallsFit
<1> QED
  BY <1>2 DEF Fit, Inside

LEMMA FrameStays ==
    ASSUME FrameInv, CallsTyped', (\A u \in Threads : Fit(call[u]))', UNCHANGED frame
    PROVE  FrameInv'
BY DEF FrameInv, ScratchInv, ArenaInv, Fit, Inside, Apart, frame

\* Steps of a thread that gets a block: where its piece will be stays.
LEMMA GettingStep ==
    ASSUME CallsTyped, live \in Nat, peak \in Nat, NEW t \in Threads,
           Obtain(t) \/ AddLive(t) \/ LoadPeak(t) \/ SwapPeak(t)
    PROVE  \E r \in Calls :
             /\ call' = [call EXCEPT ![t] = r] /\ call[t].pc \in Getting /\ r.pc \in Getting
             /\ r.block = call[t].block /\ r.start = call[t].start /\ r.next = call[t].next
             /\ r.phase = call[t].phase /\ r.alignment = call[t].alignment
             /\ UNCHANGED frame
<1> DEFINE c == call[t]
           r1 == [c EXCEPT !.pc = "addlive"]
           r2 == [c EXCEPT !.pc = "loadpeak", !.level = live']
           r3 == [c EXCEPT !.pc = "swappeak", !.seen = peak]
           r4 == [c EXCEPT !.pc = "addtag", !.level = 0, !.seen = 0]
           Same(r) == /\ r \in Calls /\ r.pc \in Getting
                      /\ r.block = c.block /\ r.start = c.start /\ r.next = c.next
                      /\ r.phase = c.phase /\ r.alignment = c.alignment
<1>1. c \in Calls /\ c.pc \in Getting /\ UNCHANGED frame
  BY DEF CallsTyped, Obtain, AddLive, LoadPeak, SwapPeak, At, Getting
<1>2. /\ "addlive" \in Getting /\ "loadpeak" \in Getting /\ "swappeak" \in Getting
      /\ "addtag" \in Getting /\ Getting \subseteq Steps
  BY DEF Getting, Steps
<1>3. \/ call' = [call EXCEPT ![t] = r1]
      \/ call' = [call EXCEPT ![t] = r2] /\ AddLive(t)
      \/ call' = [call EXCEPT ![t] = r3] \/ call' = [call EXCEPT ![t] = r4]
  BY DEF CallsTyped, Obtain, AddLive, LoadPeak, SwapPeak, Goto, Compares, PeakDone
<1>4. AddLive(t) => live' \in Nat
  <2>1. ASSUME c.pc = "addlive"
        PROVE  c.block.size \in Nat
    <3>1. c.block \in Blocks
      BY <2>1 DEF CallsTyped, Holding, Getting
    <3> QED
      BY <3>1, SizesArePositive DEF Blocks
  <2> QED
    BY <2>1, Wraps DEF AddLive, At
<1> HIDE DEF c
<1>5. Same(r1)
  BY <1>1, <1>2 DEF Calls
<1>6. AddLive(t) => Same(r2)
  BY <1>1, <1>2, <1>4 DEF Calls
<1>7. Same(r3)
  BY <1>1, <1>2 DEF Calls
<1>8. Same(r4)
  BY <1>1, <1>2 DEF Calls
<1> HIDE DEF r1, r2, r3, r4
<1> QED
  BY <1>1, <1>3, <1>5, <1>6, <1>7, <1>8 DEF c

LEMMA GettingKeeps ==
    ASSUME FrameInv, CallsTyped', live \in Nat, peak \in Nat, NEW t \in Threads,
           Obtain(t) \/ AddLive(t) \/ LoadPeak(t) \/ SwapPeak(t)
    PROVE  FrameInv'
<1>1. PICK r \in Calls :
        /\ call' = [call EXCEPT ![t] = r] /\ call[t].pc \in Getting /\ r.pc \in Getting
        /\ r.block = call[t].block /\ r.start = call[t].start /\ r.next = call[t].next
        /\ r.phase = call[t].phase /\ r.alignment = call[t].alignment
        /\ UNCHANGED frame
  BY GettingStep DEF FrameInv
<1>2. Fit(r)
  <2>1. r.pc # "swapbase"
    BY <1>1 DEF Getting
  <2>2. r.pc \in Getting /\ r.block.tag = Page => Inside(call[t], call[t].phase, call[t].block.size)
    BY <1>1, CallsFit DEF Fit
  <2> QED
    BY <1>1, <2>1, <2>2 DEF Fit, Inside
<1> QED
  BY <1>1, <1>2, StillFit, FrameStays

\* Steps after which a thread has no place.
LEMMA OtherKeeps ==
    ASSUME FrameInv, CallsTyped', NEW t \in Threads,
           \/ OutOfMemory(t) \/ Count(t) \/ SubLive(t) \/ SubTag(t)
           \/ \E b \in blocks : Deallocate(t, b)
    PROVE  FrameInv'
<1>1. call \in [Threads -> Calls] /\ UNCHANGED frame
  BY DEF FrameInv, CallsTyped, OutOfMemory, Count, SubLive, SubTag, Deallocate
<1>2. call'[t].pc \in {"idle", "count", "sublive", "subtag"} /\ call' = [call EXCEPT ![t] = call'[t]]
  <2>1. CASE OutOfMemory(t) \/ SubTag(t)
    BY <1>1, <2>1 DEF OutOfMemory, SubTag, Idle
  <2>2. CASE Count(t) \/ SubLive(t)
    BY <1>1, <2>2 DEF Count, SubLive, Goto, Calls
  <2>3. CASE \E b \in blocks : Deallocate(t, b)
    BY <1>1, <2>3 DEF Deallocate, Calls
  <2> QED
    BY <2>1, <2>2, <2>3
<1>3. call'[t] \in Calls
  BY DEF CallsTyped
<1>4. Fit(call'[t])
  BY <1>2 DEF Fit, Getting
<1> QED
  BY <1>1, <1>2, <1>3, <1>4, StillFit, FrameStays

LEMMA LoadBaseKeeps ==
    ASSUME FrameInv, CallsTyped', NEW t \in Threads, NEW size \in Sizes,
           NEW alignment \in Alignments, LoadBase(t, size, alignment)
    PROVE  FrameInv'
<1> DEFINE start == AlignUp(base, alignment)
           r == [Idle EXCEPT !.pc = "swapbase", !.seen = base, !.start = start, !.next = start + size,
                             !.alignment = alignment]
<1>1. alignment \in Nat \ {0} /\ size \in Nat /\ base \in Nat
  BY AllocatorAssumption DEF FrameInv, ScratchInv
<1>2. start \in Nat /\ start + size \in Nat /\ start <= start + size
  <2>1. start \in Nat
    BY <1>1, AlignUpIs
  <2> HIDE DEF start
  <2> QED
    BY <1>1, <2>1
<1>3. call' = [call EXCEPT ![t] = r] /\ UNCHANGED frame
  BY DEF LoadBase
<1> HIDE DEF start
<1>4. /\ r \in Calls /\ r.pc = "swapbase" /\ r.seen = base /\ r.start = start
      /\ r.next = start + size /\ r.alignment = alignment
  <2>1. "swapbase" \in Steps /\ None \in Held
    BY Names DEF Held
  <2> QED
    BY <1>1, <1>2, <2>1 DEF Calls, Idle
<1> HIDE DEF r
<1>5. Fit(r)
  BY <1>2, <1>4 DEF Fit, Getting, start
<1> QED
  BY <1>3, <1>4, <1>5, StillFit, FrameStays

LEMMA SwapBaseKeeps ==
    ASSUME FrameInv, CallsTyped', NEW t \in Threads, SwapBase(t)
    PROVE  FrameInv'
<1>1. call[t].pc = "swapbase" /\ base \in Nat
  BY AllocatorAssumption DEF SwapBase, At, FrameInv, ScratchInv
<1>2. /\ call[t].start = AlignUp(call[t].seen, call[t].alignment) /\ call[t].start <= call[t].next
      /\ call[t] \in Calls
  BY <1>1, CallsFit DEF Fit, FrameInv, CallsTyped
<1>3. PICK r \in Calls :
        /\ call' = [call EXCEPT ![t] = r]
        /\ \/ r.pc = "idle" /\ UNCHANGED <<base, scratch>>
           \/ /\ r.pc = "idle" /\ base = call[t].seen /\ call[t].next <= Capacity
              /\ base' = call[t].next
              /\ scratch' = scratch \cup {[start |-> call[t].start, next |-> call[t].next,
                                           alignment |-> call[t].alignment]}
           \/ /\ r.pc = "swapbase" /\ UNCHANGED <<base, scratch>>
              /\ r.start = AlignUp(r.seen, r.alignment) /\ r.start <= r.next
        /\ UNCHANGED <<pages, rooms>>
  BY <1>1, <1>2, SwapBaseIs DEF FrameInv
<1>4. Fit(r)
  BY <1>3 DEF Fit, Getting
<1>5. (\A u \in Threads : Fit(call[u]))'
  BY <1>3, <1>4, StillFit
<1>6. CASE UNCHANGED <<base, scratch>>
  BY <1>3, <1>5, <1>6, FrameStays DEF frame
<1>7. CASE /\ base = call[t].seen /\ call[t].next <= Capacity /\ base' = call[t].next
           /\ scratch' = scratch \cup {[start |-> call[t].start, next |-> call[t].next,
                                        alignment |-> call[t].alignment]}
  <2> DEFINE x == [start |-> call[t].start, next |-> call[t].next, alignment |-> call[t].alignment]
  <2>1. /\ x \in Room /\ x.start = call[t].start /\ x.next = call[t].next
        /\ x.alignment = call[t].alignment
    BY <1>2 DEF Room, Calls
  <2>2. base <= x.start /\ x.start % x.alignment = 0
    BY <1>1, <1>2, <1>7, <2>1, AlignUpIs DEF Calls
  <2> HIDE DEF x
  <2>3. base' \in 0 .. Capacity /\ base <= base' /\ base' = x.next /\ x.start <= x.next
    BY <1>1, <1>2, <1>7, <2>1, <2>2, AllocatorAssumption DEF Room
  <2>4. scratch' = scratch \cup {x} /\ scratch' \subseteq Room
    BY <1>7, <2>1 DEF x, FrameInv, ScratchInv
  <2>5. \A y \in scratch : y \in Room /\ y.start <= y.next /\ y.next <= base /\ y.start % y.alignment = 0
    BY DEF FrameInv, ScratchInv
  <2>6. \A y \in scratch' : y.start <= y.next /\ y.next <= base' /\ y.start % y.alignment = 0
    BY <1>1, <2>1, <2>2, <2>3, <2>4, <2>5 DEF Room
  <2>7. \A y, z \in scratch' : y = z \/ Apart(y, z)
    <3>1. \A y \in scratch : Apart(y, x) /\ Apart(x, y)
      BY <1>1, <2>1, <2>2, <2>5 DEF Room, Apart
    <3>2. \A y, z \in scratch : y = z \/ Apart(y, z)
      BY DEF FrameInv, ScratchInv
    <3> QED
      BY <2>4, <3>1, <3>2
  <2>8. ScratchInv'
    BY <1>5, <2>3, <2>4, <2>6, <2>7 DEF ScratchInv, Fit, Apart
  <2>9. ArenaInv'
    BY <1>3, <1>5 DEF FrameInv, ArenaInv, Fit, Inside, Apart
  <2> QED
    BY <2>8, <2>9 DEF FrameInv
<1> QED
  BY <1>3, <1>6, <1>7

LEMMA AddTagKeeps ==
    ASSUME FrameInv, CallsTyped', NEW t \in Threads, AddTag(t)
    PROVE  FrameInv'
<1> DEFINE c == call[t]
<1>1. /\ c \in Calls /\ c.pc \in Getting /\ c.block \in Blocks /\ call' = [call EXCEPT ![t] = Idle]
      /\ UNCHANGED <<base, scratch>>
  BY DEF AddTag, At, Getting, FrameInv, CallsTyped, Holding
<1>2. (\A u \in Threads : Fit(call[u]))'
  <2>1. Idle \in Calls /\ Fit(Idle)
    BY IdleCall DEF Fit, Idle, Getting
  <2> QED
    BY <1>1, <2>1, StillFit
<1>3. CASE c.block.tag # Page
  BY <1>1, <1>2, <1>3, FrameStays DEF AddTag, frame
<1>4. CASE c.block.tag = Page
  <2> DEFINE p == [phase |-> c.phase, data |-> c.start, capacity |-> c.block.size - c.start,
                   used |-> c.next - c.start]
             x == [page |-> Len(pages) + 1, start |-> c.start, next |-> c.next,
                   alignment |-> c.alignment]
  <2>1. /\ Header <= c.start /\ c.start <= c.next /\ c.next <= c.block.size
        /\ (c.phase + c.start) % c.alignment = 0
    BY <1>1, <1>4, CallsFit DEF Fit, Inside
  <2>2. /\ c.start \in Nat /\ c.next \in Nat /\ c.phase \in Nat /\ c.alignment \in Nat \ {0}
        /\ c.block.size \in Nat /\ Header \in Nat
    BY <1>1, SizesArePositive, AllocatorAssumption DEF Calls, Blocks
  <2>3. pages' = Append(pages, p) /\ rooms' = rooms \cup {x}
    BY <1>4 DEF AddTag
  <2> HIDE DEF c
  <2>4. /\ p \in PageRecord /\ Header <= p.data /\ p.used <= p.capacity
        /\ p.phase = c.phase /\ p.data + p.used = c.next
    BY <2>1, <2>2 DEF PageRecord
  <2>5. /\ pages \in Seq(PageRecord) /\ Len(pages) \in Nat
        /\ \A i \in DOMAIN pages : Header <= pages[i].data /\ pages[i].used <= pages[i].capacity
    BY DEF FrameInv, ArenaInv, PageRecord
  <2>6. /\ x.page = Len(pages) + 1 /\ x.start = c.start /\ x.next = c.next
        /\ x.alignment = c.alignment
    OBVIOUS
  <2> HIDE DEF p, x
  <2>7. /\ pages' \in Seq(PageRecord) /\ DOMAIN pages' = DOMAIN pages \cup {Len(pages) + 1}
        /\ pages'[Len(pages) + 1] = p
        /\ \A i \in DOMAIN pages : pages'[i] = pages[i] /\ i # Len(pages) + 1
    BY <2>3, <2>4, <2>5
  <2>8. \A y \in rooms : /\ y \in [page : DOMAIN pages, start : Nat, next : Nat, alignment : Nat \ {0}]
                         /\ Inside(y, pages[y.page].phase, pages[y.page].data + pages[y.page].used)
    BY DEF FrameInv, ArenaInv
  <2>9. x \in [page : DOMAIN pages', start : Nat, next : Nat, alignment : Nat \ {0}]
    BY <2>2, <2>7 DEF x
  <2>10. \A y \in rooms' : y \in [page : DOMAIN pages', start : Nat, next : Nat, alignment : Nat \ {0}]
    BY <2>3, <2>7, <2>8, <2>9
  <2>11. \A y \in rooms' : Inside(y, pages'[y.page].phase, pages'[y.page].data + pages'[y.page].used)
    <3>1. Inside(x, pages'[x.page].phase, pages'[x.page].data + pages'[x.page].used)
      BY <2>1, <2>2, <2>4, <2>6, <2>7 DEF Inside
    <3> QED
      BY <2>3, <2>7, <2>8, <3>1
  <2>12. \A y, z \in rooms' : y = z \/ y.page # z.page \/ Apart(y, z)
    <3>1. \A y \in rooms : y.page # x.page
      BY <2>6, <2>7, <2>8
    <3>2. \A y, z \in rooms : y = z \/ y.page # z.page \/ Apart(y, z)
      BY DEF FrameInv, ArenaInv
    <3> QED
      BY <2>3, <3>1, <3>2
  <2>13. \A i \in DOMAIN pages' : Header <= pages'[i].data /\ pages'[i].used <= pages'[i].capacity
    BY <2>4, <2>5, <2>7
  <2>14. ArenaInv'
    BY <1>2, <2>7, <2>10, <2>11, <2>12, <2>13 DEF ArenaInv, Fit, PageRecord, Apart, Inside
  <2>15. ScratchInv'
    BY <1>1, <1>2 DEF FrameInv, ScratchInv, Fit, Apart
  <2> QED
    BY <2>14, <2>15 DEF FrameInv
<1> QED
  BY <1>3, <1>4

\* A piece that fits on a page.
LEMMA RoomKeeps ==
    ASSUME FrameInv, CallsTyped', NEW size \in Sizes, NEW alignment \in Alignments,
           NEW i \in DOMAIN pages, Fits(pages[i], size, alignment),
           pages' = [pages EXCEPT ![i].used = StartOn(pages[i], alignment) + size - pages[i].data],
           rooms' = rooms \cup {[page |-> i, start |-> StartOn(pages[i], alignment),
                                 next |-> StartOn(pages[i], alignment) + size,
                                 alignment |-> alignment]},
           UNCHANGED <<call, base, scratch>>
    PROVE  FrameInv'
<1> DEFINE p == pages[i]
           start == StartOn(p, alignment)
           used == start + size - p.data
           x == [page |-> i, start |-> start, next |-> start + size, alignment |-> alignment]
<1>1. /\ alignment \in Nat \ {0} /\ size \in Nat /\ Header \in Nat
  BY AllocatorAssumption
<1>2. /\ pages \in Seq(PageRecord) /\ p \in PageRecord /\ Header <= p.data /\ p.used <= p.capacity
      /\ \A j \in DOMAIN pages : Header <= pages[j].data /\ pages[j].used <= pages[j].capacity
  <2>1. /\ pages \in Seq(PageRecord)
        /\ \A j \in DOMAIN pages : Header <= pages[j].data /\ pages[j].used <= pages[j].capacity
    BY DEF FrameInv, ArenaInv, PageRecord
  <2>2. pages[i] \in PageRecord
    BY <2>1
  <2> QED
    BY <2>1, <2>2
<1>3. /\ p.phase \in Nat /\ p.data \in Nat /\ p.used \in Nat /\ p.capacity \in Nat
  BY <1>2 DEF PageRecord
<1>4. start + size <= p.data + p.capacity
  BY DEF Fits, EndsInside
<1>5. pages' = [pages EXCEPT ![i] = [p EXCEPT !.used = used]] /\ rooms' = rooms \cup {x}
  BY <1>2
<1> HIDE DEF p
<1>6. start \in Nat /\ p.data + p.used <= start /\ (p.phase + start) % alignment = 0
  <2> DEFINE y == p.phase + p.data + p.used
             up == AlignUp(y, alignment)
  <2>1. up \in Nat /\ y <= up /\ up % alignment = 0
    BY <1>1, <1>3, AlignUpIs
  <2>2. start = up - p.phase
    BY DEF StartOn
  <2> HIDE DEF up
  <2>3. start \in Nat /\ p.data + p.used <= start /\ p.phase + start = up
    BY <1>3, <2>1, <2>2
  <2> QED
    BY <2>1, <2>3
<1> HIDE DEF start
<1>7. used \in Nat /\ used <= p.capacity /\ p.used <= used /\ p.data + used = start + size
  BY <1>1, <1>3, <1>4, <1>6
<1> HIDE DEF used
<1> DEFINE q == [p EXCEPT !.used = used]
<1>8. /\ q \in PageRecord /\ q.phase = p.phase /\ q.data = p.data /\ q.capacity = p.capacity
      /\ q.used = used
  BY <1>2, <1>7 DEF PageRecord
<1>9. /\ x.page = i /\ x.start = start /\ x.next = start + size /\ x.alignment = alignment
  OBVIOUS
<1> HIDE DEF q, x
<1>10. /\ pages' \in Seq(PageRecord) /\ DOMAIN pages' = DOMAIN pages /\ pages'[i] = q
       /\ \A j \in DOMAIN pages : j # i => pages'[j] = pages[j]
  <2>1. pages' = [pages EXCEPT ![i] = q]
    BY <1>5 DEF q
  <2>2. pages' \in Seq(PageRecord) /\ DOMAIN pages' = DOMAIN pages
    BY <1>2, <1>8, <2>1
  <2> QED
    BY <1>2, <2>1, <2>2
<1>11. \A y \in rooms : /\ y \in [page : DOMAIN pages, start : Nat, next : Nat, alignment : Nat \ {0}]
                        /\ Inside(y, pages[y.page].phase, pages[y.page].data + pages[y.page].used)
  BY DEF FrameInv, ArenaInv
<1>12. x \in [page : DOMAIN pages, start : Nat, next : Nat, alignment : Nat \ {0}]
  BY <1>1, <1>6 DEF x
<1>13. \A y \in rooms' : y \in [page : DOMAIN pages', start : Nat, next : Nat, alignment : Nat \ {0}]
  BY <1>5, <1>10, <1>11, <1>12
<1>14. \A y \in rooms' : Inside(y, pages'[y.page].phase, pages'[y.page].data + pages'[y.page].used)
  <2>1. Inside(x, q.phase, q.data + q.used)
    <3>1. Header <= start /\ start <= start + size /\ start + size <= p.data + used
      BY <1>1, <1>2, <1>3, <1>6, <1>7
    <3>2. (p.phase + start) % alignment = 0
      BY <1>6
    <3>3. q.phase = p.phase /\ q.data = p.data /\ q.used = used
      BY <1>8
    <3> QED
      BY <1>9, <3>1, <3>2, <3>3 DEF Inside
  <2>2. ASSUME NEW y \in rooms, y.page = i
        PROVE  Inside(y, q.phase, q.data + q.used)
    <3>1. y.next \in Nat /\ Inside(y, p.phase, p.data + p.used)
      BY <1>11, <2>2 DEF p
    <3> QED
      BY <1>3, <1>7, <1>8, <3>1 DEF Inside
  <2> QED
    BY <1>5, <1>9, <1>10, <1>11, <2>1, <2>2
<1>15. \A y, z \in rooms' : y = z \/ y.page # z.page \/ Apart(y, z)
  <2>1. ASSUME NEW y \in rooms, y.page = i
        PROVE  Apart(y, x) /\ Apart(x, y)
    <3>1. y.next \in Nat /\ y.next <= p.data + p.used
      BY <1>11, <2>1 DEF p, Inside
    <3> QED
      BY <1>3, <1>6, <1>9, <3>1 DEF Apart
  <2>2. \A y, z \in rooms : y = z \/ y.page # z.page \/ Apart(y, z)
    BY DEF FrameInv, ArenaInv
  <2> QED
    BY <1>5, <1>9, <2>1, <2>2
<1>16. \A j \in DOMAIN pages' : Header <= pages'[j].data /\ pages'[j].used <= pages'[j].capacity
  BY <1>2, <1>7, <1>8, <1>10 DEF p
<1>17. (\A u \in Threads : Fit(call[u]))'
  BY CallsFit DEF Fit, Inside
<1>18. ArenaInv'
  BY <1>10, <1>13, <1>14, <1>15, <1>16, <1>17 DEF ArenaInv, Fit, PageRecord, Apart, Inside
<1>19. ScratchInv'
  BY <1>17 DEF FrameInv, ScratchInv, Fit, Apart
<1> QED
  BY <1>18, <1>19 DEF FrameInv

\* A call that asks for a block, for a page or not.
LEMMA AskKeeps ==
    ASSUME FrameInv, CallsTyped', NEW t \in Threads, NEW size \in BlockSizes, NEW tag \in AllTags,
           NEW more \in Calls, Asks(t, size, tag, more), UNCHANGED frame,
           tag = Page => Inside(more, more.phase, size)
    PROVE  FrameInv'
<1>1. PICK r \in Calls :
        /\ call' = [call EXCEPT ![t] = r] /\ r.pc = "obtain"
        /\ r.block.size = size /\ r.block.tag = tag
        /\ r.start = more.start /\ r.next = more.next /\ r.phase = more.phase
        /\ r.alignment = more.alignment
  BY AsksCall DEF FrameInv
<1>2. Fit(r)
  BY <1>1 DEF Fit, Inside
<1> QED
  BY <1>1, <1>2, StillFit, FrameStays

\* The call of a page that is made for a piece.
LEMMA NewPage ==
    ASSUME NEW size \in Sizes, NEW alignment \in Alignments, NEW phase \in Phases
    PROVE  LET data == AlignUp(phase + Header, alignment) - phase
               more == [Idle EXCEPT !.phase = phase, !.start = data, !.next = data + size,
                                    !.alignment = alignment]
           IN  /\ PageFor(size, alignment) \in BlockSizes /\ more \in Calls
               /\ Inside(more, more.phase, PageFor(size, alignment))
<1> DEFINE up == AlignUp(phase + Header, alignment)
           data == up - phase
           more == [Idle EXCEPT !.phase = phase, !.start = data, !.next = data + size,
                                !.alignment = alignment]
           page == PageFor(size, alignment)
<1>1. /\ alignment \in Nat \ {0} /\ size \in Nat /\ Header \in Nat /\ phase \in Nat
  BY AllocatorAssumption
<1>2. up \in Nat /\ phase + Header <= up /\ up < phase + Header + alignment /\ up % alignment = 0
  <2>1. phase + Header \in Nat
    BY <1>1
  <2> QED
    BY <1>1, <2>1, AlignUpIs
<1>3. page \in BlockSizes /\ page \in Nat /\ Header + alignment - 1 + size <= page
  BY PageHolds DEF BlockSizes
<1> HIDE DEF up, page
<1>4. /\ data \in Nat /\ data + size \in Nat /\ Header <= data /\ data <= data + size
      /\ data + size <= page /\ phase + data = up
  BY <1>1, <1>2, <1>3
<1> HIDE DEF data
<1>5. more \in Calls /\ more.phase = phase /\ more.start = data /\ more.next = data + size
      /\ more.alignment = alignment
  <2>1. "idle" \in Steps /\ None \in Held
    BY Names DEF Held
  <2> QED
    BY <1>1, <1>4, <2>1 DEF Calls, Idle
<1> HIDE DEF more
<1>6. Inside(more, more.phase, page)
  BY <1>2, <1>4, <1>5 DEF Inside
<1> QED
  BY <1>3, <1>5, <1>6 DEF up, data, more, page

LEMMA ArenaKeeps ==
    ASSUME FrameInv, CallsTyped', NEW size \in Sizes, NEW alignment \in Alignments,
           AllocateInArena(size, alignment)
    PROVE  FrameInv'
<1>1. CASE UNCHANGED call
  <2>1. PICK i \in DOMAIN pages :
          /\ Fits(pages[i], size, alignment)
          /\ pages' = [pages EXCEPT ![i].used = StartOn(pages[i], alignment) + size - pages[i].data]
          /\ rooms' = rooms \cup {[page |-> i, start |-> StartOn(pages[i], alignment),
                                   next |-> StartOn(pages[i], alignment) + size,
                                   alignment |-> alignment]}
          /\ UNCHANGED <<base, scratch>>
    <3>1. call[Main].pc = "idle" /\ call[Main] \in Calls /\ Main \in Threads
      BY AllocatorAssumption DEF AllocateInArena, At, FrameInv, CallsTyped
    <3>2. ASSUME NEW more, Asks(Main, PageFor(size, alignment), Page, more)
          PROVE  FALSE
      BY <1>1, <3>1, <3>2 DEF Asks, FrameInv, CallsTyped
    <3> QED
      BY <3>2 DEF AllocateInArena
  <2> QED
    BY <1>1, <2>1, RoomKeeps
<1>2. ASSUME NEW phase \in Phases,
             LET data == AlignUp(phase + Header, alignment) - phase
             IN  Asks(Main, PageFor(size, alignment), Page,
                      [Idle EXCEPT !.phase = phase, !.start = data, !.next = data + size,
                                   !.alignment = alignment]),
             UNCHANGED frame
      PROVE  FrameInv'
  <2> DEFINE more == [Idle EXCEPT !.phase = phase,
                                  !.start = AlignUp(phase + Header, alignment) - phase,
                                  !.next = AlignUp(phase + Header, alignment) - phase + size,
                                  !.alignment = alignment]
  <2>1. /\ PageFor(size, alignment) \in BlockSizes /\ more \in Calls
        /\ Inside(more, more.phase, PageFor(size, alignment))
    BY NewPage
  <2>2. Asks(Main, PageFor(size, alignment), Page, more)
    BY <1>2
  <2> HIDE DEF more
  <2>3. Main \in Threads /\ Page \in AllTags
    BY AllocatorAssumption DEF AllTags
  <2> QED
    BY <1>2, <2>1, <2>2, <2>3, AskKeeps
<1> QED
  BY <1>1, <1>2 DEF AllocateInArena, frame

LEMMA ResetKeeps ==
    ASSUME FrameInv, CallsTyped', Reset
    PROVE  FrameInv'
<1>1. /\ base' = 0 /\ scratch' = {} /\ rooms' = {} /\ UNCHANGED call
      /\ pages' = [i \in DOMAIN pages |-> [pages[i] EXCEPT !.used = 0]]
  BY DEF Reset
<1>2. (\A u \in Threads : Fit(call[u]))'
  BY <1>1, CallsFit DEF Fit, Inside
<1>3. ScratchInv'
  BY <1>1, <1>2, AllocatorAssumption DEF ScratchInv, Fit, Apart
<1>4. /\ pages \in Seq(PageRecord)
      /\ \A i \in DOMAIN pages : Header <= pages[i].data
  BY DEF FrameInv, ArenaInv, PageRecord
<1>5. \A i \in DOMAIN pages : /\ [pages[i] EXCEPT !.used = 0] \in PageRecord
                              /\ [pages[i] EXCEPT !.used = 0].data = pages[i].data
                              /\ [pages[i] EXCEPT !.used = 0].used = 0
  <2>1. \A i \in DOMAIN pages : pages[i] \in PageRecord
    BY <1>4
  <2> QED
    BY <2>1 DEF PageRecord
<1>6. /\ pages' \in Seq(PageRecord) /\ DOMAIN pages' = DOMAIN pages
      /\ \A i \in DOMAIN pages : Header <= pages'[i].data /\ pages'[i].used = 0
  <2>1. DOMAIN pages = 1 .. Len(pages) /\ Len(pages) \in Nat
    BY <1>4
  <2>2. DOMAIN pages' = DOMAIN pages /\ \A i \in DOMAIN pages : pages'[i] \in PageRecord
    BY <1>1, <1>5
  <2>3. pages' = [i \in 1 .. Len(pages) |-> pages'[i]]
    BY <1>1, <2>1
  <2>4. pages' \in Seq(PageRecord)
    BY <2>1, <2>2, <2>3, SeqDef
  <2> QED
    BY <1>1, <1>4, <1>5, <2>2, <2>4
<1>7. \A i \in DOMAIN pages' : pages'[i].used <= pages'[i].capacity
  <2>1. \A i \in DOMAIN pages' : pages'[i] \in PageRecord
    BY <1>6
  <2> QED
    BY <1>6, <2>1 DEF PageRecord
<1>8. ArenaInv'
  BY <1>1, <1>2, <1>6, <1>7 DEF ArenaInv, Fit, PageRecord, Apart, Inside
<1> QED
  BY <1>3, <1>8 DEF FrameInv

-----------------------------------------------------------------------------
(* The theorems.                                                            *)

LEMMA CountStep ==
    ASSUME CountInv, FrameInv, peak \in Nat, [Next]_vars
    PROVE  CountInv'
<1>1. base \in Nat
  BY AllocatorAssumption DEF FrameInv, ScratchInv
<1>2. ASSUME NEW t \in Threads, NEW size \in Sizes, NEW tag \in Tags, Allocate(t, size, tag)
      PROVE  CountInv'
  <2>1. size \in BlockSizes /\ tag \in AllTags
    BY DEF BlockSizes, AllTags
  <2> QED
    BY <1>2, <2>1, IdleCall, AskCounts DEF Allocate, At
<1>3. ASSUME NEW t \in Threads, OutOfMemory(t)
      PROVE  CountInv'
  BY <1>3, IdleCounts DEF OutOfMemory, At
<1>4. ASSUME NEW t \in Threads, SwapBase(t)
      PROVE  CountInv'
  <2>1. call[t].pc = "swapbase" /\ call[t].start <= call[t].next
    BY <1>4 DEF SwapBase, At, FrameInv, ScratchInv
  <2>2. PICK r \in Calls :
          /\ call' = [call EXCEPT ![t] = r] /\ r.pc \in {"idle", "swapbase"}
          /\ UNCHANGED <<blocks, counters, calls>>
    BY <1>1, <1>4, <2>1, SwapBaseIs DEF FrameInv
  <2>3. calls' \in calls .. MaxCalls
    BY <2>2, AllocatorAssumption DEF CountInv, CallsTyped
  <2> QED
    BY <2>1, <2>2, <2>3, QuietStep
<1>5. ASSUME NEW size \in Sizes, NEW alignment \in Alignments, AllocateInArena(size, alignment)
      PROVE  CountInv'
  <2>1. call[Main].pc = "idle" /\ Main \in Threads /\ UNCHANGED <<blocks, counters>>
    BY <1>5, AllocatorAssumption DEF AllocateInArena, At
  <2>2. CASE UNCHANGED call /\ CountCall
    <3>1. UNCHANGED <<live, allocations, deallocations, tagged>> /\ calls' = calls + 1 /\ calls < MaxCalls
      BY <2>1, <2>2 DEF counters, CountCall
    <3>2. CallsTyped' /\ BlocksTold'
      BY <2>1, <2>2, <3>1, AllocatorAssumption DEF CountInv, CallsTyped, BlocksTold, Holding
    <3>3. Counted' /\ CountersTyped'
      BY <2>1, <2>2, <3>1
      DEF CountInv, Counted, CountersTyped, counters, tagged, Charged, Dealt
    <3> QED
      BY <3>2, <3>3 DEF CountInv
  <2>3. ASSUME NEW phase \in Phases,
               LET data == AlignUp(phase + Header, alignment) - phase
               IN  Asks(Main, PageFor(size, alignment), Page,
                        [Idle EXCEPT !.phase = phase, !.start = data, !.next = data + size,
                                     !.alignment = alignment])
        PROVE  CountInv'
    <3> DEFINE more == [Idle EXCEPT !.phase = phase,
                                    !.start = AlignUp(phase + Header, alignment) - phase,
                                    !.next = AlignUp(phase + Header, alignment) - phase + size,
                                    !.alignment = alignment]
    <3>1. PageFor(size, alignment) \in BlockSizes /\ more \in Calls
      BY NewPage
    <3>2. Asks(Main, PageFor(size, alignment), Page, more)
      BY <2>3
    <3> HIDE DEF more
    <3>3. Page \in AllTags
      BY DEF AllTags
    <3> QED
      BY <2>1, <3>1, <3>2, <3>3, AskCounts
  <2> QED
    BY <1>5, <2>2, <2>3 DEF AllocateInArena
<1>6. CASE Reset \/ UNCHANGED vars
  <2>1. UNCHANGED <<blocks, live, allocations, deallocations, tagged, call, calls>>
    BY <1>6 DEF Reset, vars, counters
  <2> QED
    BY <2>1
    DEF CountInv, CallsTyped, BlocksTold, Holding, CountersTyped, Counted, tagged, Charged, Dealt
<1> QED
  BY <1>1, <1>2, <1>3, <1>4, <1>5, <1>6, ObtainCounts, AddLiveCounts, RaceCounts, AddTagCounts,
     DeallocateCounts, CountCounts, SubLiveCounts, SubTagCounts, BumpCounts
  DEF Next

LEMMA FrameStep ==
    ASSUME FrameInv, CallsTyped', live \in Nat, peak \in Nat, [Next]_vars
    PROVE  FrameInv'
<1>1. ASSUME NEW t \in Threads, NEW size \in Sizes, NEW tag \in Tags, Allocate(t, size, tag)
      PROVE  FrameInv'
  <2>1. size \in BlockSizes /\ tag \in AllTags /\ tag # Page
    BY AllocatorAssumption DEF BlockSizes, AllTags
  <2> QED
    BY <1>1, <2>1, IdleCall, AskKeeps DEF Allocate
<1>2. CASE UNCHANGED vars
  <2>1. UNCHANGED <<call, frame>>
    BY <1>2 DEF vars
  <2> QED
    BY <2>1, CallsFit, FrameStays DEF Fit, Inside
<1> QED
  BY <1>1, <1>2, GettingKeeps, OtherKeeps, LoadBaseKeeps, SwapBaseKeeps, AddTagKeeps, ArenaKeeps,
     ResetKeeps
  DEF Next

LEMMA InitMemory == Init => CountInv /\ FrameInv /\ highest \in Counter
<1> SUFFICES ASSUME Init
             PROVE  CountInv /\ FrameInv /\ highest \in Counter
  OBVIOUS
<1>1. \A t \in Threads : call[t] = Idle
  BY DEF Init
<1>2. Idle \in Calls /\ Idle.pc = "idle"
  BY IdleCall DEF Idle
<1>3. CallsTyped /\ BlocksTold
  BY <1>1, <1>2, AllocatorAssumption DEF Init, CallsTyped, BlocksTold, Holding, Getting, Giving
<1>4. /\ Charged(InLive) = {} /\ Charged(InCalls) = {} /\ Charged(InTag) = {}
  BY <1>1, <1>2 DEF Init, Charged, Dealt, InLive, InCalls, InTag
<1>5. 0 \in Counter /\ Minus(0, 0) = 0
  BY AllocatorAssumption, SmallMod DEF Counter, Minus
<1>6. CountersTyped /\ highest \in Counter
  BY <1>5 DEF Init, CountersTyped
<1>7. \A tag \in AllTags : {b \in Charged(InTag) : b.tag = tag} = {}
  BY <1>4
<1>8. Counted
  BY <1>4, <1>5, <1>7, NoBlocks DEF Init, Counted
<1>9. ScratchInv /\ ArenaInv
  BY <1>1, <1>2, AllocatorAssumption DEF Init, ScratchInv, ArenaInv, Getting
<1> QED
  BY <1>3, <1>6, <1>8, <1>9 DEF CountInv, FrameInv

LEMMA MemoryStep == MemoryInv /\ [Next]_vars => MemoryInv'
<1> SUFFICES ASSUME MemoryInv, [Next]_vars
             PROVE  MemoryInv'
  OBVIOUS
<1>1. PeakInv /\ CountInv /\ FrameInv /\ highest \in Counter /\ peak \in Nat /\ live \in Nat
  BY DEF MemoryInv, PeakInv, RacersConsistent
<1>2. PeakInv' /\ CountInv'
  BY <1>1, PeakStep, CountStep
<1>3. FrameInv'
  BY <1>1, <1>2, FrameStep DEF CountInv
<1>4. highest' \in Counter
  <2>1. highest' = highest \/ highest' = live'
    BY DEF Next, Allocate, OutOfMemory, Obtain, AddLive, LoadPeak, SwapPeak, AddTag, Deallocate,
           Count, SubLive, SubTag, LoadBase, SwapBase, AllocateInArena, Reset, vars
  <2> QED
    BY <1>1, <1>2, <2>1 DEF CountInv, CountersTyped
<1> QED
  BY <1>2, <1>3, <1>4 DEF MemoryInv

\* The inductive invariant of the allocators, through every step that threads take inside
\* allocate, deallocate, the bump allocator's loop and the arena.
THEOREM MemoryInvariant == Spec => []MemoryInv
<1>1. Init => MemoryInv
  BY InitPeak, InitMemory DEF MemoryInv
<1> QED
  BY <1>1, MemoryStep, PTL DEF Spec

\* However the calls of any number of threads interleave, each of the tracking
\* allocator's counters is what the blocks that have passed it add up to: none wraps,
\* none is below what it is about to be reduced by, tags included.
THEOREM CountersAlwaysRight == Spec => []CountersRight
<1>1. ASSUME MemoryInv
      PROVE  CountersRight
  <2>1. PeakInv /\ CountInv /\ FrameInv /\ highest \in Counter
    BY <1>1 DEF MemoryInv
  <2>2. peak \in Counter
    BY <2>1, AllocatorAssumption DEF PeakInv, RacersConsistent, PeakIsHighest, Counter
  <2>3. \A b \in blocks : b.size \in Nat \ {0} /\ b.tag \in AllTags
    BY <2>1, SizesArePositive DEF CountInv, CallsTyped, Blocks
  <2>4. \A b, c \in blocks : b.id = c.id => b = c
    BY <2>1 DEF CountInv, BlocksTold
  <2>5. {live, peak, highest, allocations, deallocations} \subseteq Counter
    BY <2>1, <2>2 DEF CountInv, CountersTyped
  <2>6. \A t \in Threads :
          call[t].pc \in {"idle", "obtain", "addlive", "loadpeak", "swappeak", "addtag", "count",
                          "sublive", "subtag", "swapbase"}
    BY <2>1 DEF CountInv, CallsTyped, Calls, Steps, Getting, Giving
  <2>7. \A i \in DOMAIN pages : pages[i].used \in 0 .. pages[i].capacity
    <3>1. pages \in Seq(PageRecord) /\ \A i \in DOMAIN pages : pages[i].used <= pages[i].capacity
      BY <2>1 DEF FrameInv, ArenaInv, PageRecord
    <3>2. \A i \in DOMAIN pages : pages[i] \in PageRecord
      BY <3>1
    <3> QED
      BY <3>1, <3>2 DEF PageRecord
  <2>8. TypeOK
    BY <2>1, <2>3, <2>4, <2>5, <2>6, <2>7
    DEF TypeOK, CountInv, CallsTyped, CountersTyped, FrameInv, ScratchInv
  <2> QED
    BY <2>1, <2>8 DEF CountersRight, CountInv
<1> QED
  BY <1>1, MemoryInvariant, PTL

\* Whichever thread's compare-and-swap in the bump allocator succeeds, and whenever
\* the frame begins anew, no byte is in two pieces; the arena's pieces are apart, aligned
\* and inside their pages, and a new page has room for the piece it is made for.
THEOREM BlocksStayApart == Spec => []BlocksApart
<1>1. ASSUME MemoryInv
      PROVE  BlocksApart
  <2>1. ScratchInv /\ ArenaInv
    BY <1>1 DEF MemoryInv, FrameInv
  <2>2. \A x \in scratch : x.next <= Capacity /\ x.start % x.alignment = 0
    BY <2>1, AllocatorAssumption DEF ScratchInv, Room
  <2>3. ASSUME NEW x \in rooms
        PROVE  LET p == pages[x.page]
               IN  /\ x.start >= Header /\ x.next <= p.data + p.capacity
                   /\ (p.phase + x.start) % x.alignment = 0
    <3> DEFINE p == pages[x.page]
    <3>1. pages \in Seq(PageRecord) /\ x.page \in DOMAIN pages /\ x.start \in Nat /\ x.next \in Nat
      BY <2>1 DEF ArenaInv, PageRecord
    <3>2. p \in PageRecord /\ p.used <= p.capacity /\ Inside(x, p.phase, p.data + p.used)
      BY <2>1, <3>1 DEF ArenaInv
    <3> HIDE DEF p
    <3>3. /\ p.data \in Nat /\ p.used \in Nat /\ p.capacity \in Nat
          /\ Header \in Nat
      BY <3>2, AllocatorAssumption DEF PageRecord
    <3>4. x.start >= Header /\ x.next <= p.data + p.capacity /\ (p.phase + x.start) % x.alignment = 0
      BY <3>1, <3>2, <3>3 DEF Inside
    <3> QED
      BY <3>4 DEF p
  <2> QED
    BY <2>1, <2>2, <2>3 DEF BlocksApart, ScratchInv, ArenaInv
<1> QED
  BY <1>1, MemoryInvariant, PTL
=============================================================================
