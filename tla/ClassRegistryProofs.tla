------------------------- MODULE ClassRegistryProofs -------------------------
(***************************************************************************)
(* Proofs about ClassRegistry, for any classes, libraries and hierarchies, *)
(* whatever the super classes form and however many batches fail: nothing  *)
(* vanishes that a failed batch did not lose, objects are whole and the    *)
(* inspector is current.  What the recursive functions of the model return *)
(* (a path of links, a list of properties, the tree) is shown by least     *)
(* counterexamples: a set of numbers that has 0 and, with each number      *)
(* below n, its successor has all numbers up to n (UpTo).                  *)
(***************************************************************************)
EXTENDS ClassRegistry, SequenceTheorems, FiniteSetTheorems, WellFoundedInduction, TLAPS

\* What each ClassInfo holds.
InfoOK ==
    /\ DOMAIN info = Classes
    /\ \A c \in Classes : info[c] = [named |-> info[c].named, super |-> info[c].super,
                                     properties |-> info[c].properties]

\* The queue, the batch and the registry hold classes; between calls there is no batch.
DataOK ==
    /\ pending \in Seq(Classes) /\ batch \in Seq(Classes)
    /\ classes \subseteq Classes
    /\ call \in {"none", "register", "resolve"}
    /\ call = "none" => batch = <<>>
    /\ call # "resolve" => visited = {}

\* The resolver has linked what it has visited.
VisitedLinked == \A c \in visited \cap Classes : info[c].super = Super[c]

\* During a call the links of its batch may be missing.
NothingLost ==
    \A c \in Classes : Library[c] \in loaded =>
        \/ c \in spoilt
        \/ c \in ToSet(pending)
        \/ info[c].named /\ (info[c].super = Super[c] \/ c \in ToSet(batch))

RegistryInv ==
    InfoOK /\ DataOK /\ NamesAreUnique /\ VisitedLinked /\ NothingLost

\* A class is loaded after its super class, and waits, is filled or has no storage.
LoadedOK ==
    /\ autoRegistration \in BOOLEAN /\ loaded \subseteq Libraries
    /\ \A c \in Classes : Library[c] \in loaded /\ Super[c] # NoClass => Library[Super[c]] \in loaded
    /\ \A c \in Classes : c \in ToSet(pending) \/ info[c].named => Library[c] \in loaded
    /\ \A c \in Classes : Library[c] \in loaded => c \in ToSet(pending) \/ info[c].named \/ c \in Broken

\* A storage is filled at once, and only filled storages are in the batch or published.
FilledOK ==
    /\ \A c \in Classes : info[c].named => info[c].properties = Declared[c]
    /\ \A c \in Classes : ~info[c].named => info[c].super = NoClass
    /\ \A c \in ToSet(batch) \cup classes : info[c].named
    /\ call = "resolve" => pending = <<>>

\* A link is what the resolver returned, and leads to a filled storage.
LinkedOK ==
    \A c \in Classes : info[c].super # NoClass => info[c].super = Super[c] /\ info[Super[c]].named

StorageInv == LoadedOK /\ FilledOK /\ LinkedOK

\* The cache belongs to a filled class, and none of its chain is in a batch.
InspectorInv ==
    /\ inspector = [cls |-> inspector.cls, cached |-> inspector.cached,
                    rows |-> inspector.rows, property |-> inspector.property]
    /\ inspector.cls \in Classes \cup {NoClass}
    /\ inspector.cached # NoClass =>
          /\ inspector.cached \in Classes /\ info[inspector.cached].named
          /\ ToSet(batch) \cap ToSet(Chain(inspector.cached)) = {}
    /\ InspectorIsCurrent

-----------------------------------------------------------------------------
(* Sequences of classes.                                                    *)

LEMMA EmptyElements == ToSet(<<>>) = {} /\ <<>> \in Seq(Classes)
BY EmptySeq DEF ToSet

LEMMA ElementsAreClasses ==
    ASSUME NEW s \in Seq(Classes)
    PROVE  ToSet(s) \subseteq Classes /\ DOMAIN s = 1 .. Len(s) /\ Len(s) \in Nat
BY LenProperties, ElementOfSeq DEF ToSet

LEMMA HeadAndTail ==
    ASSUME NEW s \in Seq(Classes), s # <<>>
    PROVE  /\ Head(s) \in Classes /\ Tail(s) \in Seq(Classes)
           /\ ToSet(s) = {Head(s)} \cup ToSet(Tail(s))
<1>1. /\ Head(s) \in Classes /\ Tail(s) \in Seq(Classes)
      /\ Len(Tail(s)) = Len(s) - 1 /\ Len(s) \in Nat \ {0}
      /\ \A i \in 1 .. Len(Tail(s)) : Tail(s)[i] = s[i + 1]
      /\ Head(s) = s[1]
  BY HeadTailProperties, EmptySeq
<1>2. DOMAIN s = 1 .. Len(s) /\ DOMAIN Tail(s) = 1 .. Len(Tail(s))
  BY <1>1, LenProperties
<1>3. ASSUME NEW i \in DOMAIN s PROVE s[i] \in {Head(s)} \cup ToSet(Tail(s))
  <2>1. CASE i = 1
    BY <1>1, <2>1
  <2>2. CASE i # 1
    <3>1. i - 1 \in DOMAIN Tail(s) /\ Tail(s)[i - 1] = s[i]
      BY <1>1, <1>2, <2>2
    <3> QED
      BY <3>1 DEF ToSet
  <2> QED
    BY <2>1, <2>2
<1>4. ASSUME NEW i \in DOMAIN Tail(s) PROVE Tail(s)[i] \in ToSet(s)
  <2>1. i + 1 \in DOMAIN s /\ s[i + 1] = Tail(s)[i]
    BY <1>1, <1>2
  <2> QED
    BY <2>1 DEF ToSet
<1>5. s[1] \in ToSet(s)
  BY <1>1, <1>2 DEF ToSet
<1>6. ToSet(s) \subseteq {Head(s)} \cup ToSet(Tail(s))
  BY <1>3 DEF ToSet
<1>7. ToSet(Tail(s)) \subseteq ToSet(s)
  BY <1>4 DEF ToSet
<1> QED
  BY <1>1, <1>5, <1>6, <1>7

LEMMA AppendElements ==
    ASSUME NEW s \in Seq(Classes), NEW c \in Classes
    PROVE  Append(s, c) \in Seq(Classes) /\ ToSet(Append(s, c)) = ToSet(s) \cup {c}
<1>1. /\ Append(s, c) \in Seq(Classes) /\ Len(Append(s, c)) = Len(s) + 1
      /\ \A i \in 1 .. Len(s) : Append(s, c)[i] = s[i]
      /\ Append(s, c)[Len(s) + 1] = c
      /\ Len(s) \in Nat
  BY AppendProperties, LenProperties
<1>2. DOMAIN Append(s, c) = 1 .. Len(s) + 1 /\ DOMAIN s = 1 .. Len(s)
  BY <1>1, LenProperties
<1> QED
  BY <1>1, <1>2 DEF ToSet

LEMMA ConcatElements ==
    ASSUME NEW s \in Seq(Classes), NEW t \in Seq(Classes)
    PROVE  s \o t \in Seq(Classes) /\ ToSet(s \o t) = ToSet(s) \cup ToSet(t)
<1>1. /\ s \o t \in Seq(Classes) /\ Len(s \o t) = Len(s) + Len(t)
      /\ \A i \in 1 .. Len(s) + Len(t) : (s \o t)[i] = IF i <= Len(s) THEN s[i] ELSE t[i - Len(s)]
      /\ Len(s) \in Nat /\ Len(t) \in Nat
  BY ConcatProperties, LenProperties
<1>2. /\ DOMAIN (s \o t) = 1 .. Len(s) + Len(t)
      /\ DOMAIN s = 1 .. Len(s) /\ DOMAIN t = 1 .. Len(t)
  BY <1>1, LenProperties
<1>3. ASSUME NEW i \in DOMAIN s PROVE s[i] \in ToSet(s \o t)
  BY <1>1, <1>2 DEF ToSet
<1>4. ASSUME NEW i \in DOMAIN t PROVE t[i] \in ToSet(s \o t)
  <2>1. i + Len(s) \in DOMAIN (s \o t) /\ (s \o t)[i + Len(s)] = t[i]
    BY <1>1, <1>2
  <2> QED
    BY <2>1 DEF ToSet
<1>5. ASSUME NEW i \in DOMAIN (s \o t) PROVE (s \o t)[i] \in ToSet(s) \cup ToSet(t)
  <2>1. CASE i <= Len(s)
    BY <1>1, <1>2, <2>1 DEF ToSet
  <2>2. CASE i > Len(s)
    <3>1. i - Len(s) \in DOMAIN t /\ (s \o t)[i] = t[i - Len(s)]
      BY <1>1, <1>2, <2>2
    <3> QED
      BY <3>1 DEF ToSet
  <2> QED
    BY <1>1, <1>2, <2>1, <2>2
<1>6. ToSet(s \o t) \subseteq ToSet(s) \cup ToSet(t)
  BY <1>5 DEF ToSet
<1>7. ToSet(s) \cup ToSet(t) \subseteq ToSet(s \o t)
  BY <1>3, <1>4 DEF ToSet
<1> QED
  BY <1>1, <1>6, <1>7

\* An order of finitely many classes has each of them.
LEMMA OrderElements ==
    ASSUME NEW S \in SUBSET Classes, NEW order \in SetToSeqs(S)
    PROVE  order \in Seq(Classes) /\ ToSet(order) = S
<1> DEFINE n == Cardinality(S)
<1>1. IsFiniteSet(S) /\ n \in Nat
  BY FS_Subset, FS_CardinalityType, ClassesAssumption
<1>2. order \in [1 .. n -> S] /\ \A i, j \in 1 .. n : i # j => order[i] # order[j]
  BY DEF SetToSeqs
<1>3. order \in Injection(1 .. n, S)
  BY <1>2 DEF Injection, IsInjective
<1>4. IsFiniteSet(1 .. n) /\ Cardinality(1 .. n) = n
  BY <1>1, FS_Interval
<1>5. order \in Surjection(1 .. n, S)
  BY <1>1, <1>3, <1>4, FS_Injection
<1>6. ToSet(order) = S
  BY <1>2, <1>5 DEF Surjection, ToSet
<1>7. order \in Seq(Classes)
  <2>1. order \in [1 .. n -> Classes]
    BY <1>2
  <2> QED
    BY <1>1, <2>1
<1> QED
  BY <1>6, <1>7

-----------------------------------------------------------------------------
(* Recursion over 0 .. n, by least counterexamples.                         *)

\* A set of naturals that is not empty has a least member.
LEMMA LeastNatural ==
    ASSUME NEW S, S \subseteq Nat, S # {}
    PROVE  \E m \in S : \A n \in S : m <= n
<1> DEFINE R == OpToRel(<, Nat)
<1>1. IsWellFoundedOn(R, Nat)
  BY NatLessThanWellFounded
<1>2. \A m, n \in Nat : <<m, n>> \in R <=> m < n
  <2> SUFFICES ASSUME NEW m \in Nat, NEW n \in Nat
               PROVE  <<m, n>> \in R <=> m < n
    OBVIOUS
  <2> DEFINE p == <<m, n>>
  <2>1. p \in Nat \X Nat /\ p[1] = m /\ p[2] = n
    OBVIOUS
  <2>2. ASSUME NEW q PROVE q \in R <=> q \in Nat \X Nat /\ q[1] < q[2]
    BY Zenon DEF OpToRel
  <2>3. p \in R <=> p \in Nat \X Nat /\ p[1] < p[2]
    BY <2>2
  <2> HIDE DEF p, R
  <2>4. p \in R <=> m < n
    BY <2>1, <2>3
  <2> QED
    BY <2>4, Zenon DEF p
<1>3. \E m \in S : \A n \in S : m <= n
  <2> HIDE DEF R
  <2>1. PICK m \in S : \A n \in S : ~(<<n, m>> \in R)
    BY <1>1, WFMin
  <2>2. \A n \in S : ~(n < m)
    BY <1>2, <2>1
  <2> QED
    BY <2>2
<1> QED
  BY <1>3

\* What holds at 0 and at the successor of each number below n holds up to n.
LEMMA UpTo ==
    ASSUME NEW n \in Nat, NEW S, 0 \in S, \A k \in 1 .. n : k - 1 \in S => k \in S
    PROVE  0 .. n \subseteq S
<1> SUFFICES ASSUME ~(0 .. n \subseteq S) PROVE FALSE
  OBVIOUS
<1> DEFINE T == (0 .. n) \ S
<1>1. T \subseteq Nat /\ T # {}
  OBVIOUS
<1>2. PICK m \in T : \A k \in T : m <= k
  <2> HIDE DEF T
  <2> QED
    BY <1>1, LeastNatural
<1>3. m \in 1 .. n /\ m - 1 \in 0 .. n /\ ~(m <= m - 1)
  OBVIOUS
<1>4. m - 1 \in S
  BY <1>2, <1>3
<1> QED
  BY <1>3, <1>4

StepsOf(n, V) == [1 .. n -> [V -> V]]

RecursionIn(n, V, base, F) ==
    \E h \in [0 .. n -> V] : h[0] = base /\ \A k \in 1 .. n : h[k] = F[k][h[k - 1]]

\* A first value and a step define a function on 0 .. n.
LEMMA Recursion ==
    ASSUME NEW n \in Nat, NEW V, NEW base \in V, NEW F \in StepsOf(n, V)
    PROVE  RecursionIn(n, V, base, F)
<1> USE DEF StepsOf, RecursionIn
<1> DEFINE Good(h, k) == h[0] = base /\ \A j \in 1 .. k : h[j] = F[j][h[j - 1]]
           S == {k \in 0 .. n : \E h \in [0 .. k -> V] : Good(h, k)}
<1>1. 0 \in S
  <2> DEFINE h == [j \in 0 .. 0 |-> base]
  <2>1. h \in [0 .. 0 -> V] /\ Good(h, 0)
    OBVIOUS
  <2> HIDE DEF h
  <2> QED
    BY <2>1
<1>2. ASSUME NEW k \in 1 .. n, k - 1 \in S PROVE k \in S
  <2>1. PICK h \in [0 .. k - 1 -> V] : Good(h, k - 1)
    BY <1>2
  <2> DEFINE g == [j \in 0 .. k |-> IF j = k THEN F[k][h[k - 1]] ELSE h[j]]
  <2>2. F[k] \in [V -> V] /\ h[k - 1] \in V
    OBVIOUS
  <2>3. g \in [0 .. k -> V]
    BY <2>2
  <2>4. g[0] = base /\ \A j \in 1 .. k - 1 : g[j] = h[j] /\ g[j - 1] = h[j - 1]
    BY <2>1
  <2>5. g[k] = F[k][h[k - 1]] /\ g[k - 1] = h[k - 1]
    OBVIOUS
  <2> HIDE DEF g
  <2>6. Good(g, k)
    BY <2>1, <2>4, <2>5
  <2> HIDE DEF Good
  <2>7. \E f \in [0 .. k -> V] : Good(f, k)
    BY <2>3, <2>6
  <2>8. k \in 0 .. n
    OBVIOUS
  <2> QED
    BY <2>7, <2>8
<1>3. 0 .. n \subseteq S
  <2> HIDE DEF S
  <2> QED
    BY <1>1, <1>2, UpTo
<1> QED
  BY <1>3

-----------------------------------------------------------------------------
(* Paths along links.                                                       *)

Links == [Classes -> Classes \cup {NoClass}]

Paths == Seq(Classes) \ {<<>>}

Height == Cardinality(Classes)

LEMMA HeightIsNatural == Height \in Nat
BY ClassesAssumption, FS_CardinalityType DEF Height

LEMMA StartIsPath ==
    ASSUME NEW c \in Classes
    PROVE  <<c>> \in Paths /\ Last(<<c>>) = c /\ ToSet(<<c>>) = {c} /\ Len(<<c>>) = 1
BY DEF Paths, Last, ToSet

LEMMA ClimbIsPath ==
    ASSUME NEW link \in Links, NEW s \in Paths
    PROVE  /\ Last(s) \in ToSet(s) /\ ToSet(s) \subseteq Classes
           /\ Climb(link, s) \in Paths
           /\ link[Last(s)] = NoClass => Climb(link, s) = s
           /\ link[Last(s)] # NoClass =>
                /\ link[Last(s)] \in Classes
                /\ Climb(link, s) = Append(s, link[Last(s)])
                /\ Last(Climb(link, s)) = link[Last(s)]
                /\ ToSet(Climb(link, s)) = ToSet(s) \cup {link[Last(s)]}
<1>1. s \in Seq(Classes) /\ s # <<>> /\ Len(s) \in Nat \ {0} /\ DOMAIN s = 1 .. Len(s)
  BY LenProperties, EmptySeq DEF Paths
<1>2. Last(s) \in ToSet(s) /\ ToSet(s) \subseteq Classes
  BY <1>1, ElementsAreClasses DEF Last, ToSet
<1>3. CASE link[Last(s)] = NoClass
  BY <1>2, <1>3 DEF Climb
<1>4. CASE link[Last(s)] # NoClass
  <2> DEFINE d == link[Last(s)]
             t == Append(s, d)
  <2>1. d \in Classes /\ Climb(link, s) = t
    BY <1>2, <1>4 DEF Climb, Links
  <2> HIDE DEF d
  <2>2. t \in Seq(Classes) /\ ToSet(t) = ToSet(s) \cup {d}
    BY <1>1, <2>1, AppendElements
  <2>3. Len(t) = Len(s) + 1 /\ t[Len(s) + 1] = d
    BY <1>1, <2>1, AppendProperties
  <2> HIDE DEF t
  <2>4. t # <<>> /\ Last(t) = d
    BY <1>1, <2>3, EmptySeq DEF Last
  <2>5. t \in Paths
    BY <2>2, <2>4 DEF Paths
  <2> QED
    BY <1>2, <1>4, <2>1, <2>2, <2>4, <2>5 DEF d, t
<1> QED
  BY <1>3, <1>4

\* A path is climbed step by step.
LEMMA PathIsClimbed ==
    ASSUME NEW link \in Links, NEW c \in Classes
    PROVE  \E p \in [0 .. Height -> Paths] :
              /\ p[0] = <<c>>
              /\ \A k \in 1 .. Height : p[k] = Climb(link, p[k - 1])
              /\ Path(link, c) = p[Height]
<1> DEFINE F == [k \in 1 .. Height |-> [s \in Paths |-> Climb(link, s)]]
           Is(p) == p = [n \in 0 .. Height |-> IF n = 0 THEN <<c>> ELSE Climb(link, p[n - 1])]
<1>1. F \in [1 .. Height -> [Paths -> Paths]]
  BY ClimbIsPath
<1>2. <<c>> \in Paths /\ Height \in Nat
  BY StartIsPath, HeightIsNatural
<1>3. PICK h \in [0 .. Height -> Paths] :
        h[0] = <<c>> /\ \A k \in 1 .. Height : h[k] = F[k][h[k - 1]]
  <2>1. F \in StepsOf(Height, Paths)
    BY <1>1 DEF StepsOf
  <2> HIDE DEF F
  <2>2. RecursionIn(Height, Paths, <<c>>, F)
    BY <1>2, <2>1, Recursion
  <2> QED
    BY <2>2 DEF RecursionIn
<1>4. \A k \in 1 .. Height : k - 1 \in 0 .. Height /\ h[k - 1] \in Paths
  BY <1>2
<1>5. \A k \in 1 .. Height : h[k] = Climb(link, h[k - 1])
  BY <1>3, <1>4
<1>6. Is(h)
  BY <1>2, <1>3, <1>5
<1> DEFINE p == CHOOSE p : Is(p)
<1>7. Is(p)
  BY <1>6
<1>8. Path(link, c) = p[Height]
  BY DEF Path, Height
<1> HIDE DEF p
<1>9. DOMAIN p = 0 .. Height /\ p[0] = <<c>> /\ \A k \in 1 .. Height : p[k] = Climb(link, p[k - 1])
  BY <1>2, <1>7
<1>10. p \in [0 .. Height -> Paths]
  <2> DEFINE S == {k \in 0 .. Height : p[k] \in Paths}
  <2>1. 0 \in S
    BY <1>2, <1>9
  <2>2. ASSUME NEW k \in 1 .. Height, k - 1 \in S PROVE k \in S
    BY <1>2, <1>9, <2>2, ClimbIsPath
  <2>3. 0 .. Height \subseteq S
    <3> HIDE DEF S
    <3> QED
      BY <1>2, <2>1, <2>2, UpTo
  <2>4. p = [k \in 0 .. Height |-> p[k]]
    BY <1>7
  <2> QED
    BY <2>3, <2>4
<1> QED
  BY <1>8, <1>9, <1>10

\* A path stays in every set that the links do not leave.
LEMMA PathStays ==
    ASSUME NEW link \in Links, NEW c \in Classes, NEW C, c \in C,
           \A d \in Classes : d \in C /\ link[d] # NoClass => link[d] \in C
    PROVE  Path(link, c) \in Paths /\ ToSet(Path(link, c)) \subseteq C
<1>1. PICK p \in [0 .. Height -> Paths] :
        /\ p[0] = <<c>>
        /\ \A k \in 1 .. Height : p[k] = Climb(link, p[k - 1])
        /\ Path(link, c) = p[Height]
  BY PathIsClimbed
<1> DEFINE S == {k \in 0 .. Height : ToSet(p[k]) \subseteq C}
<1>2. Height \in Nat
  BY HeightIsNatural
<1>3. 0 \in S
  <2>1. ToSet(<<c>>) = {c}
    BY StartIsPath
  <2>2. ToSet(p[0]) \subseteq C
    BY <1>1, <2>1
  <2> QED
    BY <1>2, <2>2
<1>4. ASSUME NEW k \in 1 .. Height, k - 1 \in S PROVE k \in S
  <2> DEFINE s == p[k - 1]
  <2>1. k \in 0 .. Height /\ s \in Paths /\ p[k] = Climb(link, s) /\ ToSet(s) \subseteq C
    BY <1>1, <1>2, <1>4
  <2> HIDE DEF s
  <2>2. ToSet(Climb(link, s)) \subseteq C
    BY <2>1, ClimbIsPath
  <2> QED
    BY <2>1, <2>2
<1>5. 0 .. Height \subseteq S
  <2> HIDE DEF S
  <2> QED
    BY <1>2, <1>3, <1>4, UpTo
<1> QED
  BY <1>1, <1>2, <1>5

\* What is on the way is on the path.
LEMMA PathGrows ==
    ASSUME NEW link \in Links, NEW p \in [0 .. Height -> Paths],
           \A k \in 1 .. Height : p[k] = Climb(link, p[k - 1])
    PROVE  \A k \in 0 .. Height : ToSet(p[k]) \subseteq ToSet(p[Height])
<1> DEFINE S == {k \in 0 .. Height : \A j \in 0 .. k : ToSet(p[j]) \subseteq ToSet(p[k])}
<1>1. Height \in Nat
  BY HeightIsNatural
<1>2. 0 \in S
  BY <1>1
<1>3. ASSUME NEW k \in 1 .. Height, k - 1 \in S PROVE k \in S
  <2> DEFINE s == p[k - 1]
  <2>1. k \in 0 .. Height /\ s \in Paths /\ p[k] = Climb(link, s)
    BY <1>1, <1>3
  <2>2. ToSet(s) \subseteq ToSet(p[k])
    <3> HIDE DEF s
    <3>1. ToSet(s) \subseteq ToSet(Climb(link, s))
      BY <2>1, ClimbIsPath
    <3> QED
      BY <2>1, <3>1
  <2>3. \A j \in 0 .. k : j = k \/ j \in 0 .. k - 1
    OBVIOUS
  <2>4. \A j \in 0 .. k - 1 : ToSet(p[j]) \subseteq ToSet(s)
    BY <1>3
  <2>5. \A j \in 0 .. k : ToSet(p[j]) \subseteq ToSet(p[k])
    BY <2>2, <2>3, <2>4
  <2> QED
    BY <2>1, <2>5
<1>4. 0 .. Height \subseteq S
  <2> HIDE DEF S
  <2> QED
    BY <1>1, <1>2, <1>3, UpTo
<1> QED
  BY <1>1, <1>4

\* Links that agree along a path make the same path.
LEMMA PathsAgree ==
    ASSUME NEW link \in Links, NEW other \in Links, NEW c \in Classes,
           \A d \in ToSet(Path(link, c)) : other[d] = link[d]
    PROVE  Path(other, c) = Path(link, c)
<1>1. PICK p \in [0 .. Height -> Paths] :
        /\ p[0] = <<c>>
        /\ \A k \in 1 .. Height : p[k] = Climb(link, p[k - 1])
        /\ Path(link, c) = p[Height]
  BY PathIsClimbed
<1>2. PICK q \in [0 .. Height -> Paths] :
        /\ q[0] = <<c>>
        /\ \A k \in 1 .. Height : q[k] = Climb(other, q[k - 1])
        /\ Path(other, c) = q[Height]
  BY PathIsClimbed
<1> DEFINE S == {k \in 0 .. Height : q[k] = p[k]}
<1>3. Height \in Nat
  BY HeightIsNatural
<1>4. 0 \in S
  BY <1>1, <1>2, <1>3
<1>5. ASSUME NEW k \in 1 .. Height, k - 1 \in S PROVE k \in S
  <2> DEFINE s == p[k - 1]
  <2>1. /\ k \in 0 .. Height /\ k - 1 \in 0 .. Height /\ s \in Paths
        /\ p[k] = Climb(link, s) /\ q[k] = Climb(other, s)
    BY <1>1, <1>2, <1>3, <1>5
  <2>2. ToSet(s) \subseteq ToSet(Path(link, c))
    BY <1>1, <2>1, PathGrows
  <2> HIDE DEF s
  <2>3. other[Last(s)] = link[Last(s)]
    BY <2>1, <2>2, ClimbIsPath
  <2>4. q[k] = p[k]
    BY <2>1, <2>3 DEF Climb
  <2> QED
    BY <2>1, <2>4
<1>6. 0 .. Height \subseteq S
  <2> HIDE DEF S
  <2> QED
    BY <1>3, <1>4, <1>5, UpTo
<1> QED
  BY <1>1, <1>2, <1>3, <1>6

\* Links of which some are missing lead where all of them lead, or they stop before.
LEMMA PathIsWhole ==
    ASSUME NEW link \in Links, NEW whole \in Links, NEW c \in Classes,
           \A d \in Classes : link[d] # NoClass => link[d] = whole[d],
           NEW root \in ToSet(Path(link, c)), whole[root] = NoClass
    PROVE  Path(link, c) = Path(whole, c)
<1>1. PICK p \in [0 .. Height -> Paths] :
        /\ p[0] = <<c>>
        /\ \A k \in 1 .. Height : p[k] = Climb(link, p[k - 1])
        /\ Path(link, c) = p[Height]
  BY PathIsClimbed
<1>2. PICK q \in [0 .. Height -> Paths] :
        /\ q[0] = <<c>>
        /\ \A k \in 1 .. Height : q[k] = Climb(whole, q[k - 1])
        /\ Path(whole, c) = q[Height]
  BY PathIsClimbed
<1> DEFINE Stopped(s) == link[Last(s)] = NoClass /\ whole[Last(s)] # NoClass
           Linked(s) == \A d \in ToSet(s) : d = Last(s) \/ link[d] # NoClass
           S == {k \in 0 .. Height : Linked(p[k]) /\ (p[k] = q[k] \/ Stopped(p[k]))}
<1>3. Height \in Nat
  BY HeightIsNatural
<1>4. 0 \in S
  <2> DEFINE s == <<c>>
  <2>1. ToSet(s) = {c} /\ Last(s) = c /\ p[0] = s /\ q[0] = s
    BY <1>1, <1>2, StartIsPath
  <2> HIDE DEF s
  <2>2. Linked(p[0]) /\ p[0] = q[0]
    BY <2>1
  <2> QED
    BY <1>3, <2>2
<1>5. ASSUME NEW k \in 1 .. Height, k - 1 \in S PROVE k \in S
  <2> DEFINE s == p[k - 1]
  <2>1. /\ k \in 0 .. Height /\ k - 1 \in 0 .. Height /\ s \in Paths /\ Linked(s)
        /\ p[k] = Climb(link, s) /\ q[k] = Climb(whole, q[k - 1])
        /\ s = q[k - 1] \/ Stopped(s)
    BY <1>1, <1>2, <1>3, <1>5
  <2> HIDE DEF s
  <2>2. Last(s) \in Classes
    BY <2>1, ClimbIsPath
  <2>3. CASE link[Last(s)] = NoClass
    <3>1. p[k] = s
      BY <2>1, <2>3 DEF Climb
    <3>2. CASE Stopped(s)
      BY <2>1, <3>1, <3>2
    <3>3. CASE s = q[k - 1] /\ ~Stopped(s)
      <4>1. q[k] = s
        BY <2>1, <2>3, <3>3 DEF Climb
      <4> QED
        BY <2>1, <3>1, <4>1
    <3> QED
      BY <2>1, <3>2, <3>3
  <2>4. CASE link[Last(s)] # NoClass
    <3>1. q[k] = p[k]
      BY <2>1, <2>2, <2>4 DEF Climb
    <3> DEFINE t == Climb(link, s)
    <3>2. /\ Last(t) = link[Last(s)] /\ ToSet(t) = ToSet(s) \cup {link[Last(s)]}
      BY <2>1, <2>4, ClimbIsPath
    <3> HIDE DEF t
    <3>3. Linked(t)
      BY <2>1, <2>4, <3>2
    <3> QED
      BY <2>1, <3>1, <3>3 DEF t
  <2> QED
    BY <2>3, <2>4
<1>6. 0 .. Height \subseteq S
  <2> HIDE DEF S
  <2> QED
    BY <1>3, <1>4, <1>5, UpTo
<1>7. Linked(p[Height]) /\ (p[Height] = q[Height] \/ Stopped(p[Height]))
  BY <1>3, <1>6
<1>8. root \in Classes /\ link[root] = NoClass
  <2>1. root \in Classes
    BY <1>1, <1>3, ClimbIsPath
  <2> QED
    BY <2>1
<1>9. root = Last(p[Height])
  BY <1>1, <1>7, <1>8
<1> QED
  BY <1>1, <1>2, <1>7, <1>9

-----------------------------------------------------------------------------
(* The lists of properties, and the tree.                                   *)

\* Registered one by one in front of the list and turned round, the properties are in
\* the order of their declaration.
LEMMA DeclaredOrder ==
    ASSUME NEW c \in Classes
    PROVE  Reverse(RegisterProperties(c)) = Declared[c]
<1> DEFINE D == Declared[c]
           N == Len(D)
           V == Seq(ToSet(D))
           InFront(k, s) == <<D[k]>> \o s
           F == [k \in 1 .. N |-> [s \in V |-> InFront(k, s)]]
           Is(p) == p = [n \in 0 .. N |-> IF n = 0 THEN <<>> ELSE InFront(n, p[n - 1])]
<1>1. D \in V /\ N \in Nat /\ DOMAIN D = 1 .. N /\ D = [i \in 1 .. N |-> D[i]]
  <2>1. D \in Seq(ToSet(D))
    BY ClassesAssumption
  <2> HIDE DEF D
  <2>2. Len(D) \in Nat /\ D \in [1 .. Len(D) -> ToSet(D)]
    BY <2>1, LenProperties
  <2> QED
    BY <2>1, <2>2
<1>2. \A k \in 1 .. N, s \in V :
        /\ InFront(k, s) \in V /\ Len(InFront(k, s)) = Len(s) + 1 /\ Len(s) \in Nat
        /\ InFront(k, s)[1] = D[k]
        /\ \A i \in 2 .. Len(s) + 1 : InFront(k, s)[i] = s[i - 1]
  <2> SUFFICES ASSUME NEW k \in 1 .. N, NEW s \in V
               PROVE  /\ InFront(k, s) \in V /\ Len(InFront(k, s)) = Len(s) + 1 /\ Len(s) \in Nat
                      /\ InFront(k, s)[1] = D[k]
                      /\ \A i \in 2 .. Len(s) + 1 : InFront(k, s)[i] = s[i - 1]
    OBVIOUS
  <2>1. D[k] \in ToSet(D)
    BY <1>1 DEF ToSet
  <2> DEFINE d == D[k]
             E == ToSet(D)
             t == <<d>>
  <2>2. d \in E /\ s \in Seq(E)
    BY <2>1
  <2> HIDE DEF d, E
  <2>3. t \in Seq(E) /\ Len(t) = 1 /\ t[1] = d
    BY <2>2
  <2> HIDE DEF t
  <2>4. /\ t \o s \in Seq(E) /\ Len(t \o s) = Len(t) + Len(s) /\ Len(s) \in Nat
        /\ \A i \in 1 .. Len(t) + Len(s) : (t \o s)[i] = IF i <= Len(t) THEN t[i] ELSE s[i - Len(t)]
    BY <2>2, <2>3, ConcatProperties, LenProperties
  <2>5. (t \o s)[1] = d /\ \A i \in 2 .. Len(s) + 1 : (t \o s)[i] = s[i - 1]
    BY <2>3, <2>4
  <2> QED
    BY <2>3, <2>4, <2>5 DEF t, d, E
<1> HIDE DEF InFront
<1>3. F \in StepsOf(N, V)
  BY <1>2 DEF StepsOf
<1>4. <<>> \in V /\ Len(<<>>) = 0
  BY EmptySeq
<1>5. PICK h \in [0 .. N -> V] : h[0] = <<>> /\ \A k \in 1 .. N : h[k] = F[k][h[k - 1]]
  <2> HIDE DEF F, V, N
  <2>1. RecursionIn(N, V, <<>>, F)
    BY <1>1, <1>3, <1>4, Recursion
  <2> QED
    BY <2>1 DEF RecursionIn
<1>6. \A k \in 1 .. N : k - 1 \in 0 .. N /\ h[k - 1] \in V
  BY <1>1
<1>7. \A k \in 1 .. N : h[k] = InFront(k, h[k - 1])
  BY <1>5, <1>6
<1>8. Is(h)
  BY <1>1, <1>5, <1>7
<1> DEFINE p == CHOOSE p : Is(p)
<1>9. Is(p)
  BY <1>8
<1>10. RegisterProperties(c) = p[N]
  BY DEF RegisterProperties, InFront
<1> HIDE DEF p, N, D, V
<1>11. p[0] = <<>> /\ \A k \in 1 .. N : p[k] = InFront(k, p[k - 1])
  BY <1>1, <1>9
<1> DEFINE S == {k \in 0 .. N : /\ p[k] \in V /\ Len(p[k]) = k
                               /\ \A i \in 1 .. k : p[k][i] = D[(k - i) + 1]}
<1>12. 0 \in S
  BY <1>1, <1>4, <1>11
<1>13. ASSUME NEW k \in 1 .. N, k - 1 \in S PROVE k \in S
  <2> DEFINE s == p[k - 1]
             t == p[k]
  <2>1. s \in V /\ Len(s) = k - 1 /\ \A i \in 1 .. k - 1 : s[i] = D[((k - 1) - i) + 1]
    BY <1>13
  <2>2. k \in 0 .. N /\ t = InFront(k, s)
    BY <1>1, <1>11
  <2> HIDE DEF s, t
  <2>3. /\ t \in V /\ Len(t) = k /\ t[1] = D[k]
        /\ \A i \in 2 .. k : t[i] = s[i - 1]
    <3>1. /\ t \in V /\ Len(t) = Len(s) + 1 /\ t[1] = D[k]
          /\ \A i \in 2 .. Len(s) + 1 : t[i] = s[i - 1]
      BY <1>2, <2>1, <2>2
    <3>2. Len(s) + 1 = k
      BY <1>1, <2>1
    <3> QED
      BY <3>1, <3>2
  <2>4. \A i \in 1 .. k : t[i] = D[(k - i) + 1]
    <3> TAKE i \in 1 .. k
    <3>1. CASE i = 1
      BY <2>3, <3>1
    <3>2. CASE i # 1
      <4>1. i \in 2 .. k /\ i - 1 \in 1 .. k - 1 /\ ((k - 1) - (i - 1)) + 1 = (k - i) + 1
        BY <3>2
      <4> QED
        BY <2>1, <2>3, <4>1
    <3> QED
      BY <3>1, <3>2
  <2> QED
    BY <2>2, <2>3, <2>4 DEF t
<1>14. N \in S
  <2>1. 0 .. N \subseteq S
    <3> HIDE DEF S
    <3> QED
      BY <1>1, <1>12, <1>13, UpTo
  <2> HIDE DEF S
  <2> QED
    BY <1>1, <2>1
<1>15. Reverse(p[N]) = D
  <2> DEFINE s == p[N]
  <2>1. Len(s) = N /\ \A i \in 1 .. N : s[i] = D[(N - i) + 1]
    BY <1>14
  <2> HIDE DEF s
  <2>2. \A i \in 1 .. N : (N - i) + 1 \in 1 .. N /\ (N - ((N - i) + 1)) + 1 = i
    BY <1>1
  <2>3. \A i \in 1 .. N : s[(N - i) + 1] = D[i]
    BY <2>1, <2>2
  <2> QED
    BY <1>1, <2>1, <2>3 DEF Reverse, s
<1> QED
  BY <1>10, <1>15 DEF D

\* The tree shows published classes.
LEMMA TreeIsPublished == Tree \subseteq classes
<1> DEFINE Down(above) == above \cup {c \in classes : Parent(c) \in above}
           V == SUBSET classes
           F == [k \in 1 .. Height |-> [s \in V |-> Down(s)]]
           Is(p) == p = [n \in 0 .. Height |-> IF n = 0 THEN TreeRoots ELSE Down(p[n - 1])]
<1>1. F \in StepsOf(Height, V) /\ TreeRoots \in V /\ Height \in Nat
  BY HeightIsNatural DEF StepsOf, TreeRoots
<1>2. PICK h \in [0 .. Height -> V] : h[0] = TreeRoots /\ \A k \in 1 .. Height : h[k] = F[k][h[k - 1]]
  <2> HIDE DEF F, V
  <2>1. RecursionIn(Height, V, TreeRoots, F)
    BY <1>1, Recursion
  <2> QED
    BY <2>1 DEF RecursionIn
<1>3. \A k \in 1 .. Height : h[k - 1] \in V
  BY <1>1
<1>4. \A k \in 1 .. Height : h[k] = Down(h[k - 1])
  BY <1>2, <1>3
<1>5. Is(h)
  BY <1>1, <1>2, <1>4
<1> DEFINE p == CHOOSE p : Is(p)
<1>6. Is(p)
  BY <1>5
<1>7. Tree = p[Height]
  BY DEF Tree, Height
<1> HIDE DEF p
<1>8. p[0] = TreeRoots /\ \A k \in 1 .. Height : p[k] = Down(p[k - 1])
  BY <1>1, <1>6
<1> DEFINE S == {k \in 0 .. Height : p[k] \subseteq classes}
<1>9. 0 \in S
  BY <1>1, <1>8
<1>10. ASSUME NEW k \in 1 .. Height, k - 1 \in S PROVE k \in S
  BY <1>1, <1>8, <1>10
<1>11. 0 .. Height \subseteq S
  <2> HIDE DEF S
  <2> QED
    BY <1>1, <1>9, <1>10, UpTo
<1> QED
  BY <1>1, <1>7, <1>11

-----------------------------------------------------------------------------
(* Every step keeps the invariant.                                          *)

LEMMA InitRegistry == ASSUME Init PROVE RegistryInv
BY EmptyElements DEF Init, RegistryInv, InfoOK, DataOK, NamesAreUnique, VisitedLinked,
                     NothingLost, Blank

\* The classes of a library that is loaded wait in the queue.
LEMMA LoadStep == ASSUME RegistryInv, NEW lib \in Libraries, LoadLibrary(lib) PROVE RegistryInv'
<1>1. /\ UNCHANGED <<info, classes, spoilt, call, batch, visited>>
      /\ loaded' = loaded \cup {lib}
  BY DEF LoadLibrary, processing
<1>2. PICK order \in SetToSeqs(ClassesOf(lib)) : pending' = order \o pending
  BY DEF LoadLibrary
<1>3. order \in Seq(Classes) /\ ToSet(order) = ClassesOf(lib)
  BY OrderElements DEF ClassesOf
<1>4. pending' \in Seq(Classes) /\ ToSet(pending') = ClassesOf(lib) \cup ToSet(pending)
  BY <1>2, <1>3, ConcatElements DEF RegistryInv, DataOK
<1>5. InfoOK' /\ DataOK' /\ NamesAreUnique' /\ VisitedLinked'
  BY <1>1, <1>4 DEF RegistryInv, InfoOK, DataOK, NamesAreUnique, VisitedLinked, SameEntry
<1>6. NothingLost'
  BY <1>1, <1>4 DEF RegistryInv, NothingLost, ClassesOf, ToSet
<1> QED
  BY <1>5, <1>6 DEF RegistryInv

\* The class that is registered leaves the queue for the batch, with a name nobody has.
LEMMA RegisterStep == ASSUME RegistryInv, RegisterNext PROVE RegistryInv'
<1> DEFINE c == Head(pending)
<1>1. InfoOK /\ DataOK /\ NamesAreUnique /\ VisitedLinked /\ NothingLost
  BY DEF RegistryInv
<1>2. /\ call = "register" /\ pending # <<>> /\ ~IsDuplicate(c)
      /\ pending' = Tail(pending) /\ info' = [info EXCEPT ![c] = Filled(c)]
      /\ classes' = classes \cup {c} /\ batch' = Append(batch, c)
      /\ UNCHANGED <<autoRegistration, loaded, spoilt, call, visited, objects, inspector>>
  BY DEF RegisterNext
<1>3. /\ c \in Classes /\ Tail(pending) \in Seq(Classes)
      /\ ToSet(pending) = {c} \cup ToSet(Tail(pending))
  BY <1>1, <1>2, HeadAndTail DEF DataOK
<1>4. Append(batch, c) \in Seq(Classes) /\ ToSet(Append(batch, c)) = ToSet(batch) \cup {c}
  BY <1>1, <1>3, AppendElements DEF DataOK
<1> HIDE DEF c
<1>5. InfoOK'
  BY <1>1, <1>2, <1>3 DEF InfoOK, Filled
<1>6. DataOK'
  BY <1>1, <1>2, <1>3, <1>4 DEF DataOK
<1>7. NamesAreUnique'
  BY <1>1, <1>2 DEF NamesAreUnique, IsDuplicate, SameEntry
<1>8. VisitedLinked'
  BY <1>1, <1>2 DEF VisitedLinked, DataOK
<1>9. NothingLost'
  <2>1. ToSet(pending') = ToSet(Tail(pending)) /\ ToSet(batch') = ToSet(Append(batch, c))
    BY <1>2
  <2>2. \A d \in Classes : info'[d] = IF d = c THEN Filled(c) ELSE info[d]
    BY <1>1, <1>2 DEF InfoOK
  <2>3. Filled(c).named
    BY DEF Filled
  <2> SUFFICES ASSUME NEW d \in Classes, Library[d] \in loaded'
               PROVE  \/ d \in spoilt'
                      \/ d \in ToSet(pending')
                      \/ info'[d].named /\ (info'[d].super = Super[d] \/ d \in ToSet(batch'))
    BY DEF NothingLost, ToSet
  <2> QED
    BY <1>1, <1>2, <1>3, <1>4, <2>1, <2>2, <2>3 DEF NothingLost
<1> QED
  BY <1>5, <1>6, <1>7, <1>8, <1>9 DEF RegistryInv

\* An exception spoils the batch, and only the batch and the entry it met.
LEMMA ThrowStep ==
    ASSUME RegistryInv, NEW lost, Throw(lost), UNCHANGED classes,
           pending' \in Seq(Classes), ToSet(pending) \subseteq lost \cup ToSet(pending'),
           InfoOK', \A d \in Classes \ lost : info'[d] = info[d]
    PROVE  RegistryInv'
<1>1. InfoOK /\ DataOK /\ NamesAreUnique /\ VisitedLinked /\ NothingLost
  BY DEF RegistryInv
<1>2. /\ call' = "none" /\ batch' = <<>> /\ visited' = {}
      /\ spoilt' = spoilt \cup ToSet(batch) \cup lost /\ loaded' = loaded
  BY DEF Throw
<1>3. DataOK' /\ VisitedLinked'
  BY <1>1, <1>2, EmptyElements DEF DataOK, VisitedLinked
<1>4. NamesAreUnique'
  BY <1>1 DEF NamesAreUnique, SameEntry
<1>5. NothingLost'
  <2> SUFFICES ASSUME NEW d \in Classes, Library[d] \in loaded'
               PROVE  \/ d \in spoilt'
                      \/ d \in ToSet(pending')
                      \/ info'[d].named /\ (info'[d].super = Super[d] \/ d \in ToSet(batch'))
    BY DEF NothingLost, ToSet
  <2> QED
    BY <1>1, <1>2 DEF NothingLost
<1> QED
  BY <1>3, <1>4, <1>5 DEF RegistryInv

LEMMA RegisterThrowsStep == ASSUME RegistryInv, RegisterThrows PROVE RegistryInv'
<1> DEFINE c == Head(pending)
<1>1. InfoOK /\ DataOK
  BY DEF RegistryInv
<1>2. /\ pending # <<>> /\ pending' = Tail(pending) /\ UNCHANGED classes /\ Throw({c})
      /\ UNCHANGED info \/ info' = [info EXCEPT ![c] = Filled(c)]
  BY DEF RegisterThrows
<1>3. /\ c \in Classes /\ Tail(pending) \in Seq(Classes)
      /\ ToSet(pending) = {c} \cup ToSet(Tail(pending))
  BY <1>1, <1>2, HeadAndTail DEF DataOK
<1> HIDE DEF c
<1>4. InfoOK' /\ \A d \in Classes \ {c} : info'[d] = info[d]
  BY <1>1, <1>2, <1>3 DEF InfoOK, Filled
<1>5. ToSet(pending) \subseteq {c} \cup ToSet(pending')
  BY <1>2, <1>3
<1> QED
  BY <1>2, <1>3, <1>4, <1>5, ThrowStep

LEMMA ResolveThrowsStep == ASSUME RegistryInv, ResolveThrows PROVE RegistryInv'
<1>1. UNCHANGED <<pending, info, classes>> /\ Throw({})
  BY DEF ResolveThrows
<1>2. InfoOK' /\ pending' \in Seq(Classes)
  BY <1>1 DEF RegistryInv, InfoOK, DataOK
<1>3. ToSet(pending) \subseteq {} \cup ToSet(pending')
  BY <1>1
<1> QED
  BY <1>1, <1>2, <1>3, ThrowStep

\* Whatever classes the resolver visits, those it visits are linked.
LEMMA ResolveStep == ASSUME RegistryInv, ResolveNext PROVE RegistryInv'
<1>1. InfoOK /\ DataOK /\ NamesAreUnique /\ VisitedLinked /\ NothingLost
  BY DEF RegistryInv
<1>2. PICK S :
        /\ info' = [c \in Classes |-> IF c \in S THEN [info[c] EXCEPT !.super = Super[c]] ELSE info[c]]
        /\ visited' = visited \cup S
        /\ call = "resolve"
        /\ UNCHANGED <<autoRegistration, pending, loaded, classes, spoilt, call,
                       batch, objects, inspector>>
  BY DEF ResolveNext
<1>3. \A c \in Classes :
        /\ info'[c] = [named |-> info'[c].named, super |-> info'[c].super,
                       properties |-> info'[c].properties]
        /\ info'[c].named = info[c].named
        /\ info'[c].super = IF c \in S THEN Super[c] ELSE info[c].super
  <2> TAKE c \in Classes
  <2> DEFINE r == [named |-> info[c].named, super |-> info[c].super,
                   properties |-> info[c].properties]
  <2>1. info[c] = r
    BY <1>1 DEF InfoOK
  <2>2. info'[c] = IF c \in S THEN [r EXCEPT !.super = Super[c]] ELSE r
    BY <1>2, <2>1
  <2> QED
    BY <2>1, <2>2
<1>4. InfoOK'
  BY <1>2, <1>3 DEF InfoOK
<1>5. DataOK' /\ NamesAreUnique'
  BY <1>1, <1>2 DEF DataOK, NamesAreUnique, SameEntry
<1>6. VisitedLinked'
  BY <1>1, <1>2, <1>3 DEF VisitedLinked
<1>7. NothingLost'
  <2> SUFFICES ASSUME NEW d \in Classes, Library[d] \in loaded'
               PROVE  \/ d \in spoilt'
                      \/ d \in ToSet(pending')
                      \/ info'[d].named /\ (info'[d].super = Super[d] \/ d \in ToSet(batch'))
    BY DEF NothingLost, ToSet
  <2> QED
    BY <1>1, <1>2, <1>3 DEF NothingLost
<1> QED
  BY <1>4, <1>5, <1>6, <1>7 DEF RegistryInv

\* A batch that is resolved to the end leaves no link open.
LEMMA ResolvedStep == ASSUME RegistryInv, AllResolved PROVE RegistryInv'
<1>1. InfoOK /\ DataOK /\ NamesAreUnique /\ VisitedLinked /\ NothingLost
  BY DEF RegistryInv
<1>2. /\ UNCHANGED <<info, classes, pending, loaded, spoilt>>
      /\ call' = "none" /\ batch' = <<>> /\ visited' = {} /\ ToSet(batch) \subseteq visited
  BY DEF AllResolved, registry
<1>3. InfoOK' /\ DataOK' /\ NamesAreUnique' /\ VisitedLinked'
  BY <1>1, <1>2, EmptyElements DEF InfoOK, DataOK, NamesAreUnique, VisitedLinked, SameEntry
<1>4. NothingLost'
  <2> SUFFICES ASSUME NEW d \in Classes, Library[d] \in loaded'
               PROVE  \/ d \in spoilt'
                      \/ d \in ToSet(pending')
                      \/ info'[d].named /\ (info'[d].super = Super[d] \/ d \in ToSet(batch'))
    BY DEF NothingLost, ToSet
  <2> QED
    BY <1>1, <1>2 DEF NothingLost, VisitedLinked
<1> QED
  BY <1>3, <1>4 DEF RegistryInv

\* Whatever else the program does leaves the queue, the storages and the batch alone and
\* publishes nothing; the panel is changed by drawing it, and objects are constructed.
OtherStep ==
    /\ UNCHANGED <<pending, loaded, info, spoilt, batch, visited>>
    /\ autoRegistration' \in BOOLEAN \cup {autoRegistration}
    /\ classes' \subseteq classes
    /\ \/ call' = call
       \/ call = "none" /\ call' = "register"
       \/ call = "register" /\ call' = "resolve" /\ pending = <<>>
    /\ UNCHANGED inspector \/ DrawInspector \/ DrawEmptyInspector
    /\ objects' \subseteq objects \/ \E c \in Classes \cup classes : \E root : Construct(c, root)

LEMMA OtherStepKeeps == ASSUME RegistryInv, OtherStep PROVE RegistryInv'
<1>1. InfoOK /\ DataOK /\ NamesAreUnique /\ VisitedLinked /\ NothingLost
  BY DEF RegistryInv
<1>2. InfoOK' /\ VisitedLinked' /\ NothingLost'
  BY <1>1 DEF OtherStep, InfoOK, VisitedLinked, NothingLost, ToSet
<1>3. DataOK'
  BY <1>1 DEF OtherStep, DataOK
<1>4. NamesAreUnique'
  BY <1>1 DEF OtherStep, NamesAreUnique, SameEntry
<1> QED
  BY <1>2, <1>3, <1>4 DEF RegistryInv

LEMMA OtherSteps ==
    ASSUME [Next]_vars
    PROVE  \/ OtherStep \/ RegisterNext \/ RegisterThrows \/ ResolveNext \/ ResolveThrows
           \/ AllResolved \/ \E lib \in Libraries : LoadLibrary(lib)
<1> USE DEF OtherStep, registry, processing
<1>1. CASE UNCHANGED vars
  BY <1>1 DEF vars
<1>2. ASSUME NEW gone, Unpublish(gone) PROVE OtherStep
  BY <1>2 DEF Unpublish
<1>3. CASE Clear \/ (\E c \in Classes : UnregisterModule(Module[c])
                       \/ UnregisterClass(Name[c], Hierarchy[c]))
  BY <1>2, <1>3 DEF Clear, UnregisterModule, UnregisterClass
<1>4. CASE ProcessPending \/ AllRegistered \/ \E enabled \in BOOLEAN : AllowAutoRegistration(enabled)
  BY <1>4 DEF ProcessPending, AllRegistered, AllowAutoRegistration
<1>5. ASSUME NEW c \in Classes \cup classes, NEW root, Construct(c, root) PROVE OtherStep
  <2>1. UNCHANGED <<registry, processing, inspector>>
    BY <1>5 DEF Construct
  <2>2. \E d \in Classes \cup classes : \E r : Construct(d, r)
    BY <1>5
  <2> QED
    BY <2>1, <2>2
<1>6. CASE \E c \in Classes : \/ ConstructByName(Name[c], Hierarchy[c])
                              \/ \E root \in Classes : Construct(c, root)
  BY <1>5, <1>6 DEF ConstructByName, FindClass
<1>7. CASE DrawInspector \/ DrawEmptyInspector
  <2>1. UNCHANGED <<registry, processing, objects>>
    BY <1>7 DEF DrawInspector, DrawEmptyInspector
  <2> QED
    BY <1>7, <2>1
<1>8. CASE \E object \in objects : Destroy(object)
  BY <1>8 DEF Destroy
<1> QED
  BY <1>1, <1>3, <1>4, <1>6, <1>7, <1>8 DEF Next

-----------------------------------------------------------------------------
(* What the storages hold.                                                  *)

LEMMA InitStorage == ASSUME Init PROVE StorageInv
BY EmptyElements DEF Init, StorageInv, LoadedOK, FilledOK, LinkedOK, Blank

\* The resolver follows the batch only.
LEMMA VisitsTheBatch ==
    ASSUME DataOK, NEW b \in ToSet(batch)
    PROVE  ToSet(Visits(b)) \subseteq ToSet(batch)
<1> DEFINE open == ToSet(batch) \ visited
           link == [d \in Classes |-> IF Super[d] \in open THEN Super[d] ELSE NoClass]
<1>1. ToSet(batch) \subseteq Classes
  BY ElementsAreClasses DEF DataOK
<1>2. link \in Links /\ \A d \in Classes : link[d] # NoClass => link[d] \in ToSet(batch)
  BY <1>1, ClassesAssumption DEF Links
<1>3. Visits(b) = Path(link, b)
  BY DEF Visits
<1> HIDE DEF link
<1> QED
  BY <1>1, <1>2, <1>3, PathStays

LEMMA StorageLoads == ASSUME RegistryInv, StorageInv, NEW lib \in Libraries, LoadLibrary(lib)
                      PROVE  StorageInv'
<1>1. /\ UNCHANGED <<autoRegistration, info, classes, call, batch>>
      /\ loaded' = loaded \cup {lib} /\ call = "none"
      /\ \A c \in ClassesOf(lib) : Super[c] # NoClass => Library[Super[c]] \in loaded \cup {lib}
  BY DEF LoadLibrary, processing
<1>2. PICK order \in SetToSeqs(ClassesOf(lib)) : pending' = order \o pending
  BY DEF LoadLibrary
<1>3. order \in Seq(Classes) /\ ToSet(order) = ClassesOf(lib)
  BY OrderElements DEF ClassesOf
<1>4. ToSet(pending') = ClassesOf(lib) \cup ToSet(pending)
  BY <1>2, <1>3, ConcatElements DEF RegistryInv, DataOK
<1>5. LoadedOK /\ FilledOK /\ LinkedOK
  BY DEF StorageInv
<1>6. LoadedOK'
  <2> DEFINE P == ToSet(pending)
             Q == ToSet(pending)'
  <2>1. Q = ClassesOf(lib) \cup P
    BY <1>4 DEF ToSet
  <2> HIDE DEF P, Q
  <2>2. \A c \in Classes : c \in ClassesOf(lib) <=> Library[c] = lib
    BY DEF ClassesOf
  <2> QED
    BY <1>1, <1>5, <2>1, <2>2 DEF LoadedOK, P, Q
<1>7. FilledOK' /\ LinkedOK'
  BY <1>1, <1>5 DEF FilledOK, LinkedOK, ToSet
<1> QED
  BY <1>6, <1>7 DEF StorageInv

\* The entry that leaves the queue has its storage filled, or has none or is filled already.
LEMMA StorageFills ==
    ASSUME RegistryInv, StorageInv, pending # <<>>, pending' = Tail(pending),
           LET c == Head(pending) IN
             \/ UNCHANGED info /\ (c \in Broken \/ info[c].named)
             \/ ~info[c].named /\ info' = [info EXCEPT ![c] = Filled(c)],
           UNCHANGED <<autoRegistration, loaded>>,
           call' # "resolve", \A d \in ToSet(batch') \cup classes' :
               d \in ToSet(batch) \cup classes \/ (d = Head(pending) /\ info'[d].named)
    PROVE  StorageInv'
<1> DEFINE c == Head(pending)
<1>1. InfoOK /\ DataOK /\ LoadedOK /\ FilledOK /\ LinkedOK
  BY DEF RegistryInv, StorageInv
<1>2. c \in Classes /\ ToSet(pending) = {c} \cup ToSet(pending')
  BY <1>1, HeadAndTail DEF DataOK
<1>3. \A d \in Classes :
        /\ info'[d] = info[d] \/ (d = c /\ ~info[d].named /\ info'[d] = Filled(c))
        /\ info'[c] = info[c] => c \in Broken \/ info[c].named
  <2>1. CASE UNCHANGED info /\ (c \in Broken \/ info[c].named)
    BY <2>1
  <2>2. CASE ~info[c].named /\ info' = [info EXCEPT ![c] = Filled(c)]
    <3>1. info'[c] = Filled(c) /\ Filled(c).named
      BY <1>1, <1>2, <2>2 DEF InfoOK, Filled
    <3>2. \A d \in Classes : d # c => info'[d] = info[d]
      BY <1>1, <2>2 DEF InfoOK
    <3> HIDE DEF c
    <3> QED
      BY <2>2, <3>1, <3>2
  <2> QED
    BY <2>1, <2>2
<1>4. /\ Filled(c).named /\ Filled(c).super = NoClass
      /\ Filled(c).properties = Declared[c]
  BY <1>2, DeclaredOrder DEF Filled
<1> HIDE DEF c
<1>5. \A d \in Classes :
        /\ info[d].named => info'[d].named
        /\ info'[d].super = info[d].super
        /\ info'[d].named /\ ~info[d].named => d = c
        /\ d = c => info'[d].named \/ d \in Broken
  BY <1>1, <1>2, <1>3, <1>4 DEF FilledOK
<1>6. LoadedOK'
  <2> DEFINE P == ToSet(pending)
             Q == ToSet(pending)'
  <2>1. P = {c} \cup Q
    BY <1>2 DEF ToSet
  <2> HIDE DEF P, Q
  <2> QED
    BY <1>1, <1>2, <1>5, <2>1 DEF LoadedOK, P, Q
<1>7. LinkedOK'
  <2> SUFFICES ASSUME NEW d \in Classes, info'[d].super # NoClass
               PROVE  info'[d].super = Super[d] /\ info'[Super[d]].named
    BY DEF LinkedOK
  <2>1. info'[d].super = Super[d] /\ info[Super[d]].named
    BY <1>1, <1>5 DEF LinkedOK
  <2>2. Super[d] \in Classes
    BY <2>1, ClassesAssumption
  <2> QED
    BY <1>5, <2>1, <2>2
<1>8. FilledOK'
  <2>1. \A d \in Classes : info'[d].named => info'[d].properties = Declared[d]
    BY <1>1, <1>3, <1>4 DEF FilledOK
  <2>2. \A d \in Classes : ~info'[d].named => info'[d].super = NoClass
    BY <1>1, <1>5 DEF FilledOK
  <2>3. \A d \in ToSet(batch') \cup classes' : info'[d].named
    <3>1. ToSet(batch) \cup classes \subseteq Classes
      BY <1>1, ElementsAreClasses DEF DataOK
    <3> QED
      BY <1>1, <1>5, <3>1 DEF FilledOK
  <2> QED
    BY <2>1, <2>2, <2>3 DEF FilledOK, ToSet
<1> QED
  BY <1>6, <1>7, <1>8 DEF StorageInv

LEMMA StorageRegisters == ASSUME RegistryInv, StorageInv, RegisterNext PROVE StorageInv'
<1> DEFINE c == Head(pending)
<1>1. /\ call = "register" /\ pending # <<>> /\ ~info[c].named
      /\ pending' = Tail(pending) /\ info' = [info EXCEPT ![c] = Filled(c)]
      /\ classes' = classes \cup {c} /\ batch' = Append(batch, c)
      /\ UNCHANGED <<autoRegistration, loaded, call>>
  BY DEF RegisterNext
<1>2. c \in Classes /\ batch \in Seq(Classes) /\ DOMAIN info = Classes
  BY <1>1, HeadAndTail DEF RegistryInv, DataOK, InfoOK
<1>3. ToSet(batch') = ToSet(batch) \cup {c}
  BY <1>1, <1>2, AppendElements
<1>4. info'[c].named
  BY <1>1, <1>2 DEF Filled
<1>5. \A d \in ToSet(batch') \cup classes' :
        d \in ToSet(batch) \cup classes \/ (d = c /\ info'[d].named)
  <2> HIDE DEF c
  <2> QED
    BY <1>1, <1>3, <1>4
<1> QED
  BY <1>1, <1>5, StorageFills

LEMMA StorageThrows ==
    ASSUME RegistryInv, StorageInv, RegisterThrows PROVE StorageInv'
<1> DEFINE c == Head(pending)
<1>1. /\ pending # <<>> /\ pending' = Tail(pending) /\ UNCHANGED classes /\ Throw({c})
      /\ \/ UNCHANGED info /\ (c \in Broken \/ info[c].named)
         \/ ~info[c].named /\ info' = [info EXCEPT ![c] = Filled(c)]
  BY DEF RegisterThrows
<1>2. /\ call' = "none" /\ batch' = <<>> /\ UNCHANGED <<autoRegistration, loaded>>
  BY <1>1 DEF Throw
<1>3. \A d \in ToSet(batch') \cup classes' : d \in ToSet(batch) \cup classes
  BY <1>1, <1>2, EmptyElements
<1> QED
  BY <1>1, <1>2, <1>3, StorageFills

\* A class that is linked has a super class that is loaded, and the queue is empty.
LEMMA StorageLinks == ASSUME RegistryInv, StorageInv, ResolveNext PROVE StorageInv'
<1>1. InfoOK /\ DataOK /\ LoadedOK /\ FilledOK /\ LinkedOK
  BY DEF RegistryInv, StorageInv
<1>2. PICK i \in DOMAIN batch :
        /\ info' = [c \in Classes |-> IF c \in ToSet(Visits(batch[i]))
                                      THEN [info[c] EXCEPT !.super = Super[c]] ELSE info[c]]
        /\ call = "resolve"
        /\ UNCHANGED <<autoRegistration, pending, loaded, classes, call, batch>>
  BY DEF ResolveNext
<1> DEFINE S == ToSet(Visits(batch[i]))
<1>3. S \subseteq ToSet(batch) /\ ToSet(batch) \subseteq Classes
  BY <1>1, VisitsTheBatch, ElementsAreClasses DEF ToSet, DataOK
<1> HIDE DEF S
<1>4. \A c \in Classes :
        /\ info'[c].named = info[c].named /\ info'[c].properties = info[c].properties
        /\ info'[c].super = IF c \in S THEN Super[c] ELSE info[c].super
  <2> TAKE c \in Classes
  <2> DEFINE r == [named |-> info[c].named, super |-> info[c].super,
                   properties |-> info[c].properties]
  <2>1. info[c] = r
    BY <1>1 DEF InfoOK
  <2>2. info'[c] = IF c \in S THEN [r EXCEPT !.super = Super[c]] ELSE r
    BY <1>2, <2>1 DEF S
  <2> QED
    BY <2>1, <2>2
<1>5. \A c \in S : info[c].named
  BY <1>1, <1>3 DEF FilledOK
<1>6. \A c \in S : Super[c] # NoClass => Super[c] \in Classes /\ info[Super[c]].named
  <2> SUFFICES ASSUME NEW c \in S, Super[c] # NoClass
               PROVE  Super[c] \in Classes /\ info[Super[c]].named
    OBVIOUS
  <2>1. c \in Classes /\ Super[c] \in Classes /\ Super[c] \notin Broken
    BY <1>3, ClassesAssumption
  <2>2. Library[Super[c]] \in loaded
    BY <1>1, <1>5, <2>1 DEF LoadedOK
  <2>3. Super[c] \notin ToSet(pending)
    BY <1>1, <1>2, EmptyElements DEF FilledOK
  <2> QED
    BY <1>1, <2>1, <2>2, <2>3 DEF LoadedOK
<1>7. LoadedOK'
  BY <1>1, <1>2, <1>4 DEF LoadedOK, ToSet
<1>8. FilledOK'
  <2>1. \A d \in ToSet(batch') \cup classes' : info'[d].named
    BY <1>1, <1>2, <1>3, <1>4 DEF FilledOK, DataOK
  <2>2. \A d \in Classes : info'[d].named => info'[d].properties = Declared[d]
    BY <1>1, <1>4 DEF FilledOK
  <2>3. \A d \in Classes : ~info'[d].named => info'[d].super = NoClass
    BY <1>1, <1>4, <1>5 DEF FilledOK
  <2>4. call' = "resolve" => pending' = <<>>
    BY <1>1, <1>2 DEF FilledOK
  <2> QED
    BY <2>1, <2>2, <2>3, <2>4 DEF FilledOK, ToSet
<1>9. LinkedOK'
  <2> SUFFICES ASSUME NEW c \in Classes, info'[c].super # NoClass
               PROVE  info'[c].super = Super[c] /\ info'[Super[c]].named
    BY DEF LinkedOK
  <2>1. CASE c \in S
    BY <1>4, <1>6, <2>1
  <2>2. CASE c \notin S
    <3>1. info[c].super # NoClass /\ info'[c].super = info[c].super
      BY <1>4, <2>2
    <3>2. info[c].super = Super[c] /\ info[Super[c]].named
      BY <1>1, <3>1 DEF LinkedOK
    <3>3. Super[c] \in Classes
      BY <3>1, <3>2, ClassesAssumption
    <3> QED
      BY <1>4, <3>1, <3>2, <3>3
  <2> QED
    BY <2>1, <2>2
<1> QED
  BY <1>7, <1>8, <1>9 DEF StorageInv

\* The steps that touch no storage.
LEMMA StorageStays ==
    ASSUME StorageInv, UNCHANGED <<pending, loaded, info>>, autoRegistration' \in BOOLEAN,
           classes' \subseteq classes, batch' = batch \/ batch' = <<>>,
           call' = "resolve" => call = "resolve" \/ pending = <<>>
    PROVE  StorageInv'
<1>1. LoadedOK /\ FilledOK /\ LinkedOK
  BY DEF StorageInv
<1>2. LoadedOK' /\ LinkedOK'
  BY <1>1 DEF LoadedOK, LinkedOK, ToSet
<1>3. ToSet(batch)' \subseteq ToSet(batch)
  BY EmptyElements DEF ToSet
<1>4. FilledOK'
  BY <1>1, <1>3 DEF FilledOK
<1> QED
  BY <1>2, <1>4 DEF StorageInv

LEMMA StorageStep == ASSUME RegistryInv, StorageInv, [Next]_vars PROVE StorageInv'
<1>1. DataOK /\ LoadedOK
  BY DEF RegistryInv, StorageInv
<1>2. ASSUME OtherStep PROVE StorageInv'
  <2>1. autoRegistration' \in BOOLEAN
    BY <1>1, <1>2 DEF OtherStep, LoadedOK
  <2>2. call' = "resolve" => call = "resolve" \/ pending = <<>>
    BY <1>2 DEF OtherStep
  <2> QED
    BY <1>2, <2>1, <2>2, StorageStays DEF OtherStep
<1>3. ASSUME ResolveThrows \/ AllResolved PROVE StorageInv'
  BY <1>1, <1>3, StorageStays DEF ResolveThrows, AllResolved, Throw, LoadedOK, registry
<1> QED
  BY <1>2, <1>3, OtherSteps, StorageLoads, StorageRegisters, StorageThrows, StorageLinks

-----------------------------------------------------------------------------
(* Chains, objects and the inspector.                                       *)

InfoLinks == [d \in Classes |-> info[d].super]

\* A chain of filled storages is filled, and leads where the classes were declared to
\* lead, or stops before the root.
LEMMA ChainIsFilled ==
    ASSUME StorageInv, NEW c \in Classes, info[c].named
    PROVE  /\ InfoLinks \in Links /\ Chain(c) = Path(InfoLinks, c) /\ Chain(c) \in Paths
           /\ \A d \in ToSet(Chain(c)) : d \in Classes /\ info[d].named
<1>1. LinkedOK
  BY DEF StorageInv
<1>2. InfoLinks \in Links /\ \A d \in Classes : InfoLinks[d] = info[d].super
  BY <1>1, ClassesAssumption DEF InfoLinks, Links, LinkedOK
<1>3. Chain(c) = Path(InfoLinks, c)
  BY DEF Chain, InfoLinks
<1> DEFINE C == {d \in Classes : info[d].named}
<1>4. c \in C /\ \A d \in Classes : d \in C /\ InfoLinks[d] # NoClass => InfoLinks[d] \in C
  BY <1>1, <1>2, ClassesAssumption DEF LinkedOK
<1>5. Chain(c) \in Paths /\ ToSet(Chain(c)) \subseteq C
  <2> HIDE DEF C
  <2> QED
    BY <1>2, <1>3, <1>4, PathStays
<1> QED
  BY <1>2, <1>3, <1>5

LEMMA ReverseElements ==
    ASSUME NEW s \in Seq(Classes)
    PROVE  \A i \in DOMAIN Reverse(s) : Reverse(s)[i] \in ToSet(s)
<1>1. Len(s) \in Nat /\ DOMAIN s = 1 .. Len(s)
  BY LenProperties
<1> QED
  BY <1>1 DEF Reverse, ToSet

LEMMA InstanceIsWhole ==
    ASSUME StorageInv, NEW c \in Classes, NEW root \in Classes, CanConstruct(c, root)
    PROVE  LET bases == Reverse(Ancestors(c))
           IN  PropertiesOf(c) = FlattenSeq([i \in DOMAIN bases |-> Declared[bases[i]]])
<1>1. info[c].named /\ Hierarchy[c] = root /\ root \in ToSet(Chain(c))
  BY DEF CanConstruct, IsA
<1>2. /\ InfoLinks \in Links /\ Chain(c) = Path(InfoLinks, c) /\ Chain(c) \in Paths
      /\ \A d \in ToSet(Chain(c)) : d \in Classes /\ info[d].named
  BY <1>1, ChainIsFilled
<1>3. Super \in Links /\ Super[root] = NoClass
  BY <1>1, ClassesAssumption DEF Links
<1>4. \A d \in Classes : InfoLinks[d] # NoClass => InfoLinks[d] = Super[d]
  BY DEF StorageInv, LinkedOK, InfoLinks
<1>5. Ancestors(c) = Chain(c)
  <2>1. Path(InfoLinks, c) = Path(Super, c)
    BY <1>1, <1>2, <1>3, <1>4, PathIsWhole
  <2> QED
    BY <1>2, <2>1 DEF Ancestors
<1> DEFINE bases == Reverse(Chain(c))
<1>6. \A i \in DOMAIN bases : bases[i] \in Classes /\ info[bases[i]].named
  BY <1>2, ReverseElements DEF Paths
<1>7. \A i \in DOMAIN bases : info[bases[i]].properties = Declared[bases[i]]
  BY <1>6 DEF StorageInv, FilledOK
<1>8. PropertiesOf(c) = FlattenSeq([i \in DOMAIN bases |-> info[bases[i]].properties])
  BY DEF PropertiesOf
<1> HIDE DEF bases
<1>9. [i \in DOMAIN bases |-> info[bases[i]].properties] = [i \in DOMAIN bases |-> Declared[bases[i]]]
  BY <1>7
<1> QED
  BY <1>5, <1>8, <1>9 DEF bases

\* What is constructed is whole, and nothing else makes an object.
LEMMA ObjectsStep ==
    ASSUME RegistryInv, StorageInv, ObjectsAreWhole, [Next]_vars PROVE ObjectsAreWhole'
<1> DEFINE Whole(o) == LET bases == Reverse(Ancestors(o.class))
                       IN  o.properties = FlattenSeq([i \in DOMAIN bases |-> Declared[bases[i]]])
<1>1. ASSUME \A o \in objects' : o \in objects \/ Whole(o) PROVE ObjectsAreWhole'
  <2> HIDE DEF Whole
  <2>1. \A o \in objects : Whole(o)
    BY DEF ObjectsAreWhole, Whole
  <2>2. \A o \in objects' : Whole(o)
    BY <1>1, <2>1
  <2> QED
    BY <2>2 DEF ObjectsAreWhole, Whole, Ancestors, Path, Climb
<1>2. ASSUME NEW c \in Classes, NEW root, Construct(c, root) PROVE ObjectsAreWhole'
  <2>1. CanConstruct(c, root) /\ objects' = objects \cup {Instance(c)}
    BY <1>2 DEF Construct
  <2>2. info[c].named /\ root \in ToSet(Chain(c))
    BY <2>1 DEF CanConstruct, IsA
  <2>3. root \in Classes
    BY <2>2, ChainIsFilled
  <2> DEFINE whole == LET bases == Reverse(Ancestors(c))
                      IN  FlattenSeq([i \in DOMAIN bases |-> Declared[bases[i]]])
  <2>4. PropertiesOf(c) = whole
    BY <2>1, <2>3, InstanceIsWhole
  <2>5. Instance(c).class = c /\ Instance(c).properties = PropertiesOf(c)
    BY DEF Instance
  <2>6. Whole(Instance(c))
    BY <2>4, <2>5
  <2> QED
    BY <1>1, <2>1, <2>6
<1> HIDE DEF Whole
<1>3. CASE OtherStep
  <2>1. classes \subseteq Classes
    BY DEF RegistryInv, DataOK
  <2>2. CASE objects' \subseteq objects
    BY <1>1, <2>2
  <2> QED
    BY <1>2, <1>3, <2>1, <2>2 DEF OtherStep
<1>4. CASE \/ RegisterNext \/ RegisterThrows \/ ResolveNext \/ ResolveThrows \/ AllResolved
           \/ \E lib \in Libraries : LoadLibrary(lib)
  <2>1. UNCHANGED objects
    BY <1>4 DEF RegisterNext, RegisterThrows, ResolveNext, ResolveThrows, Throw, AllResolved, LoadLibrary
  <2> QED
    BY <1>1, <2>1
<1> QED
  BY <1>3, <1>4, OtherSteps

\* Sequences one after the other are a sequence.
LEMMA FlatIsSequence ==
    ASSUME NEW N \in Nat \ {0}, NEW V, NEW seqs \in [1 .. N -> Seq(V)]
    PROVE  FlattenSeq(seqs) \in Seq(V)
<1> DEFINE W == Seq(V)
           Join(s, i) == s \o seqs[i]
           n == N - 1
           F == [k \in 1 .. n |-> [s \in W |-> Join(s, k + 1)]]
           Is(p) == p = [i \in 1 .. N |-> IF i = 1 THEN seqs[i] ELSE Join(p[i - 1], i)]
<1>1. Len(seqs) = N /\ n \in Nat /\ seqs[1] \in W
  <2>1. seqs \in Seq(W)
    OBVIOUS
  <2> QED
    BY <2>1, LenProperties
<1>2. \A s \in W, i \in 1 .. N : Join(s, i) \in W
  BY ConcatProperties
<1> HIDE DEF Join
<1>3. F \in StepsOf(n, W)
  BY <1>2 DEF StepsOf
<1>4. PICK h \in [0 .. n -> W] : h[0] = seqs[1] /\ \A k \in 1 .. n : h[k] = F[k][h[k - 1]]
  <2> DEFINE b == seqs[1]
  <2> HIDE DEF F, W, n, b
  <2>1. RecursionIn(n, W, b, F)
    BY <1>1, <1>3, Recursion DEF b
  <2> QED
    BY <2>1 DEF RecursionIn, b
<1>5. \A k \in 1 .. n : k - 1 \in 0 .. n /\ h[k - 1] \in W
  BY <1>1
<1>6. \A k \in 1 .. n : h[k] = Join(h[k - 1], k + 1)
  BY <1>4, <1>5
<1> DEFINE g == [i \in 1 .. N |-> h[i - 1]]
<1>7. Is(g)
  <2>1. \A i \in 1 .. N : i # 1 => i - 1 \in 1 .. n /\ i - 1 \in 1 .. N /\ (i - 1) + 1 = i
    OBVIOUS
  <2>2. \A i \in 1 .. N : i # 1 => h[i - 1] = Join(g[i - 1], i)
    BY <1>6, <2>1
  <2>3. \A i \in 1 .. N : h[i - 1] = IF i = 1 THEN seqs[i] ELSE Join(g[i - 1], i)
    BY <1>4, <2>2
  <2> QED
    BY <2>3
<1> DEFINE p == CHOOSE p : Is(p)
<1>8. Is(p)
  <2> HIDE DEF g
  <2> QED
    BY <1>7
<1>9. FlattenSeq(seqs) = p[N]
  BY <1>1 DEF FlattenSeq, Join
<1> HIDE DEF p
<1>10. p[1] = seqs[1] /\ \A i \in 2 .. N : p[i] = Join(p[i - 1], i)
  BY <1>8
<1> DEFINE S == {k \in 0 .. n : p[k + 1] \in W}
<1>11. 0 \in S
  BY <1>1, <1>10
<1>12. ASSUME NEW k \in 1 .. n, k - 1 \in S PROVE k \in S
  <2>1. k \in 0 .. n /\ k + 1 \in 2 .. N /\ (k + 1) - 1 = k /\ (k - 1) + 1 = k
    OBVIOUS
  <2>2. p[k] \in W
    BY <1>12, <2>1
  <2>3. p[k + 1] = Join(p[k], k + 1)
    BY <1>10, <2>1
  <2>4. p[k + 1] \in W
    <3> HIDE DEF W
    <3>1. k + 1 \in 1 .. N
      BY <2>1
    <3>2. Join(p[k], k + 1) \in W
      BY <1>2, <2>2, <3>1
    <3> QED
      BY <2>3, <3>2
  <2> QED
    BY <2>1, <2>4
<1>13. 0 .. n \subseteq S
  <2> HIDE DEF S, n
  <2> QED
    BY <1>1, <1>11, <1>12, UpTo
<1>14. p[n + 1] \in W
  <2> HIDE DEF n
  <2> QED
    BY <1>1, <1>13
<1> QED
  BY <1>9, <1>14

\* The rows of a chain of filled storages are a sequence, with a first row if there is one.
LEMMA FirstRow ==
    ASSUME StorageInv, NEW c \in Classes, info[c].named, Rows(c) # <<>>
    PROVE  Head(Rows(c)) \in ToSet(Rows(c))
<1> DEFINE bases == Reverse(Chain(c))
           P == UNION {ToSet(Declared[d]) : d \in Classes}
           V == P \X Classes
           N == Len(Chain(c))
           of(i) == [j \in DOMAIN info[bases[i]].properties |->
                        <<info[bases[i]].properties[j], bases[i]>>]
           seqs == [i \in 1 .. N |-> of(i)]
<1>1. Chain(c) \in Paths /\ \A d \in ToSet(Chain(c)) : d \in Classes /\ info[d].named
  BY ChainIsFilled
<1>2. /\ N \in Nat \ {0} /\ DOMAIN bases = 1 .. N
      /\ \A i \in 1 .. N : bases[i] \in Classes /\ info[bases[i]].properties = Declared[bases[i]]
  <2>1. N \in Nat \ {0}
    BY <1>1, EmptySeq, LenProperties DEF Paths
  <2>2. DOMAIN bases = 1 .. N
    BY DEF Reverse
  <2>3. \A i \in 1 .. N : bases[i] \in ToSet(Chain(c))
    BY <1>1, <2>2, ReverseElements DEF Paths
  <2> QED
    BY <1>1, <2>1, <2>2, <2>3 DEF StorageInv, FilledOK
<1> HIDE DEF bases
<1>3. \A i \in 1 .. N : of(i) \in Seq(V)
  <2> SUFFICES ASSUME NEW i \in 1 .. N PROVE of(i) \in Seq(V)
    OBVIOUS
  <2> DEFINE b == bases[i]
             D == Declared[b]
             m == Len(D)
  <2>1. b \in Classes /\ info[b].properties = D /\ D \in Seq(ToSet(D))
    BY <1>2, ClassesAssumption
  <2>2. m \in Nat /\ DOMAIN D = 1 .. m /\ \A j \in 1 .. m : D[j] \in ToSet(D)
    BY <2>1, LenProperties DEF ToSet
  <2>3. \A j \in 1 .. m : D[j] \in P
    BY <2>1, <2>2
  <2>4. of(i) = [j \in 1 .. m |-> <<D[j], b>>]
    BY <2>1, <2>2
  <2> HIDE DEF b, D, m, P, of
  <2>5. \A j \in 1 .. m : <<D[j], b>> \in V
    BY <2>1, <2>3
  <2> HIDE DEF V
  <2>6. [j \in 1 .. m |-> <<D[j], b>>] \in Seq(V)
    <3> DEFINE f == [j \in 1 .. m |-> <<D[j], b>>]
    <3>1. f \in [1 .. m -> V]
      BY <2>5
    <3> HIDE DEF f
    <3>2. f \in Seq(V)
      BY <2>2, <3>1
    <3> QED
      BY <3>2 DEF f
  <2> QED
    BY <2>4, <2>6
<1>4. Rows(c) = FlattenSeq(seqs)
  BY <1>2 DEF Rows, bases
<1>5. Rows(c) \in Seq(V)
  <2> HIDE DEF of, V, N
  <2>1. seqs \in [1 .. N -> Seq(V)]
    BY <1>3
  <2> HIDE DEF seqs
  <2> QED
    BY <1>2, <1>4, <2>1, FlatIsSequence
<1> HIDE DEF V
<1> DEFINE r == Rows(c)
<1>6. r \in Seq(V) /\ r # <<>>
  BY <1>5
<1> HIDE DEF r
<1>7. Len(r) \in Nat \ {0} /\ DOMAIN r = 1 .. Len(r) /\ Head(r) = r[1]
  BY <1>6, EmptySeq, LenProperties, HeadTailProperties
<1>8. Head(r) \in ToSet(r)
  BY <1>7 DEF ToSet
<1> QED
  BY <1>8 DEF r

\* A step that changes storages only where they are blank or in the batch keeps what the
\* other chains show.
LEMMA RowsStay ==
    ASSUME StorageInv, StorageInv',
           \A d \in Classes : info[d].named /\ d \notin ToSet(batch) => info'[d] = info[d]
    PROVE  \A c \in Classes :
              info[c].named /\ ToSet(batch) \cap ToSet(Chain(c)) = {} =>
                 Chain(c)' = Chain(c) /\ Rows(c)' = Rows(c)
<1> SUFFICES ASSUME NEW c \in Classes, info[c].named, ToSet(batch) \cap ToSet(Chain(c)) = {}
             PROVE  Chain(c)' = Chain(c) /\ Rows(c)' = Rows(c)
  OBVIOUS
<1>1. /\ InfoLinks \in Links /\ Chain(c) = Path(InfoLinks, c) /\ Chain(c) \in Paths
      /\ \A d \in ToSet(Chain(c)) : d \in Classes /\ info[d].named
  BY ChainIsFilled
<1>2. \A d \in ToSet(Chain(c)) : info'[d] = info[d]
  BY <1>1
<1> DEFINE links == [d \in Classes |-> info'[d].super]
<1>3. Chain(c)' = Path(links, c)
  BY DEF Chain
<1>4. links \in Links
  BY ClassesAssumption DEF Links, StorageInv, LinkedOK
<1>5. \A d \in ToSet(Chain(c)) : links[d] = InfoLinks[d]
  BY <1>1, <1>2 DEF InfoLinks
<1> HIDE DEF links
<1>6. Chain(c)' = Chain(c)
  BY <1>1, <1>3, <1>4, <1>5, PathsAgree
<1> DEFINE bases == Reverse(Chain(c))
           row(i) == [j \in DOMAIN info[bases[i]].properties |->
                         <<info[bases[i]].properties[j], bases[i]>>]
           row2(i) == [j \in DOMAIN info'[bases[i]].properties |->
                         <<info'[bases[i]].properties[j], bases[i]>>]
<1>7. \A i \in DOMAIN bases : info'[bases[i]] = info[bases[i]]
  BY <1>1, <1>2, ReverseElements DEF Paths
<1>8. Rows(c) = FlattenSeq([i \in DOMAIN bases |-> row(i)])
  BY DEF Rows
<1>9. Rows(c)' = FlattenSeq([i \in DOMAIN bases |-> row2(i)])
  BY <1>6 DEF Rows
<1>10. [i \in DOMAIN bases |-> row(i)] = [i \in DOMAIN bases |-> row2(i)]
  <2> HIDE DEF bases
  <2> QED
    BY <1>7
<1> QED
  BY <1>6, <1>8, <1>9, <1>10

LEMMA InitInspector == ASSUME Init PROVE InspectorInv
BY DEF Init, InspectorInv, InspectorIsCurrent, Unselected

\* A step that leaves the panel alone, and takes no named class into the batch.
LEMMA InspectorStays ==
    ASSUME StorageInv, StorageInv', InspectorInv, UNCHANGED inspector,
           \A d \in Classes : info[d].named => info'[d].named,
           \A d \in Classes : info[d].named /\ d \notin ToSet(batch) => info'[d] = info[d],
           \A d \in ToSet(batch') : d \in ToSet(batch) \/ ~info[d].named
    PROVE  InspectorInv'
<1> DEFINE c == inspector.cached
<1>1. CASE c = NoClass
  BY <1>1 DEF InspectorInv, InspectorIsCurrent
<1>2. CASE c # NoClass
  <2>1. /\ c \in Classes /\ info[c].named /\ ToSet(batch) \cap ToSet(Chain(c)) = {}
        /\ inspector.rows = Rows(c)
        /\ inspector.rows # <<>> => inspector.property \in ToSet(inspector.rows)
    BY <1>2 DEF InspectorInv, InspectorIsCurrent
  <2>2. \A d \in Classes :
              info[d].named /\ ToSet(batch) \cap ToSet(Chain(d)) = {} =>
                 Chain(d)' = Chain(d) /\ Rows(d)' = Rows(d)
    BY RowsStay
  <2>3. \A d \in Classes : d = c => Chain(d)' = Chain(d) /\ Rows(d)' = Rows(d)
    BY <2>1, <2>2
  <2>4. \A d \in ToSet(Chain(c)) : info[d].named
    BY <2>1, ChainIsFilled
  <2>5. ToSet(batch)' \cap ToSet(Chain(c)) = {}
    BY <2>1, <2>4 DEF ToSet
  <2>6. c' = c /\ inspector' = inspector
    BY DEF c
  <2>7. \A d \in Classes : d = c => ToSet(Chain(d))' = ToSet(Chain(d))
    BY <2>3 DEF ToSet
  <2>8. (ToSet(batch) \cap ToSet(Chain(inspector.cached)) = {})'
    BY <2>1, <2>5, <2>6, <2>7
  <2>9. InspectorIsCurrent'
    BY <2>1, <2>3, <2>6 DEF InspectorIsCurrent
  <2> QED
    BY <2>1, <2>6, <2>8, <2>9 DEF InspectorInv
<1> QED
  BY <1>1, <1>2

\* A class that can be selected is published.
LEMMA SelectedIsPublished == Selections \subseteq classes
<1>1. FirstRoots \subseteq classes
  BY DEF FirstRoots, TreeRoots
<1>2. ValidSelection # NoClass => ValidSelection \in classes
  BY DEF ValidSelection
<1> QED
  BY <1>1, <1>2, TreeIsPublished DEF Selections

LEMMA InspectorDraws == ASSUME RegistryInv, StorageInv, InspectorInv, DrawInspector PROVE InspectorInv'
<1>1. PICK c \in Selections : \E p \in {KeptProperty(CachedRows(c))} \cup ToSet(CachedRows(c)) :
        /\ call = "none" /\ UNCHANGED <<registry, processing, objects>>
        /\ inspector' = [cls |-> c, cached |-> c, rows |-> CachedRows(c), property |-> p]
  BY DEF DrawInspector
<1>2. PICK p \in {KeptProperty(CachedRows(c))} \cup ToSet(CachedRows(c)) :
        /\ call = "none" /\ UNCHANGED <<registry, processing, objects>>
        /\ inspector' = [cls |-> c, cached |-> c, rows |-> CachedRows(c), property |-> p]
  BY <1>1
<1>3. /\ inspector'.cls = c /\ inspector'.cached = c /\ inspector'.rows = CachedRows(c)
      /\ inspector'.property = p
      /\ inspector' = [cls |-> inspector'.cls, cached |-> inspector'.cached,
                       rows |-> inspector'.rows, property |-> inspector'.property]
  BY <1>2
<1>4. c \in Classes /\ info[c].named
  BY SelectedIsPublished DEF RegistryInv, DataOK, StorageInv, FilledOK
<1>5. c # NoClass
  BY <1>4, ClassesAssumption
<1>6. CachedRows(c) = Rows(c)
  BY <1>5 DEF CachedRows, InspectorInv, InspectorIsCurrent
<1>7. CachedRows(c) # <<>> => p \in ToSet(CachedRows(c))
  BY <1>4, <1>6, FirstRow DEF KeptProperty
<1>8. info' = info /\ batch' = <<>>
  BY <1>2 DEF RegistryInv, DataOK, registry, processing
<1>9. \A d \in Classes : Chain(d)' = Chain(d) /\ Rows(d)' = Rows(d)
  BY <1>8 DEF Chain, Rows
<1>10. \A d \in Classes : d = c => Rows(d)' = Rows(c)
  BY <1>9
<1>11. InspectorIsCurrent'
  BY <1>3, <1>4, <1>6, <1>7, <1>10 DEF InspectorIsCurrent
<1>12. (ToSet(batch) \cap ToSet(Chain(inspector.cached)) = {})'
  <2>1. ToSet(batch)' = {}
    BY <1>8, EmptyElements DEF ToSet
  <2> QED
    BY <2>1
<1> QED
  BY <1>3, <1>4, <1>8, <1>11, <1>12 DEF InspectorInv

LEMMA InspectorEmpties ==
    ASSUME RegistryInv, StorageInv, InspectorInv, DrawEmptyInspector PROVE InspectorInv'
<1> DEFINE r == [cls |-> inspector.cls, cached |-> inspector.cached,
                 rows |-> inspector.rows, property |-> inspector.property]
           e == [r EXCEPT !.cls = NoClass]
<1>1. inspector = r /\ UNCHANGED <<info, batch>>
  BY DEF InspectorInv, DrawEmptyInspector, registry, processing
<1>2. inspector' = e
  BY <1>1 DEF DrawEmptyInspector
<1>3. /\ e.cls = NoClass /\ e.cached = inspector.cached /\ e.rows = inspector.rows
      /\ e.property = inspector.property
      /\ e = [cls |-> e.cls, cached |-> e.cached, rows |-> e.rows, property |-> e.property]
  OBVIOUS
<1> HIDE DEF r, e
<1>4. /\ inspector'.cls = NoClass /\ inspector'.cached = inspector.cached
      /\ inspector'.rows = inspector.rows /\ inspector'.property = inspector.property
      /\ inspector' = [cls |-> inspector'.cls, cached |-> inspector'.cached,
                       rows |-> inspector'.rows, property |-> inspector'.property]
  BY <1>2, <1>3
<1>5. \A d \in Classes : Chain(d)' = Chain(d) /\ Rows(d)' = Rows(d)
  BY <1>1 DEF Chain, Rows
<1>6. \A d \in Classes : ToSet(Chain(d))' = ToSet(Chain(d))
  BY <1>5 DEF ToSet
<1>7. ToSet(batch)' = ToSet(batch)
  BY <1>1 DEF ToSet
<1>8. InspectorIsCurrent'
  BY <1>4, <1>5 DEF InspectorIsCurrent, InspectorInv
<1>9. inspector.cached # NoClass =>
        (ToSet(batch) \cap ToSet(Chain(inspector.cached)) = {})'
  BY <1>4, <1>6, <1>7 DEF InspectorInv
<1> QED
  BY <1>1, <1>4, <1>8, <1>9 DEF InspectorInv

\* Every other step leaves the panel alone.
LEMMA PanelStays ==
    ASSUME RegistryInv, StorageInv, [Next]_vars, ~DrawInspector, ~DrawEmptyInspector
    PROVE  /\ UNCHANGED inspector
           /\ \A d \in Classes : info[d].named => info'[d].named
           /\ \A d \in Classes : info[d].named /\ d \notin ToSet(batch) => info'[d] = info[d]
           /\ \A d \in ToSet(batch') : d \in ToSet(batch) \/ ~info[d].named
<1>1. InfoOK /\ DataOK
  BY DEF RegistryInv
<1>2. CASE OtherStep \/ ResolveThrows \/ AllResolved \/ \E lib \in Libraries : LoadLibrary(lib)
  <2>1. UNCHANGED <<inspector, info>> /\ (batch' = batch \/ batch' = <<>>)
    BY <1>2 DEF OtherStep, ResolveThrows, Throw, AllResolved, LoadLibrary, registry, processing
  <2> QED
    BY <2>1, EmptyElements
<1> DEFINE c == Head(pending)
<1>3. ASSUME RegisterNext \/ RegisterThrows
      PROVE  /\ c \in Classes /\ UNCHANGED inspector
             /\ UNCHANGED info \/ (~info[c].named /\ info' = [info EXCEPT ![c] = Filled(c)])
             /\ batch' = <<>> \/ (~info[c].named /\ batch' = Append(batch, c))
  <2>1. pending # <<>>
    BY <1>3 DEF RegisterNext, RegisterThrows
  <2>2. c \in Classes
    BY <1>1, <2>1, HeadAndTail DEF DataOK
  <2> QED
    BY <1>3, <2>2 DEF RegisterNext, RegisterThrows, Throw
<1>4. CASE RegisterNext \/ RegisterThrows
  <2>1. ToSet(batch') \subseteq ToSet(batch) \/ (~info[c].named /\ ToSet(batch') = ToSet(batch) \cup {c})
    BY <1>1, <1>3, <1>4, EmptyElements, AppendElements DEF DataOK
  <2>2. info' = info \/ (~info[c].named /\ info'[c].named)
    BY <1>1, <1>3, <1>4 DEF InfoOK, Filled
  <2>3. \A d \in Classes : d # c => info'[d] = info[d]
    BY <1>1, <1>3, <1>4 DEF InfoOK
  <2>4. info[c].named => info' = info
    BY <1>3, <1>4
  <2> HIDE DEF c
  <2> QED
    BY <1>3, <1>4, <2>1, <2>2, <2>3, <2>4
<1>5. CASE ResolveNext
  <2>1. PICK i \in DOMAIN batch :
        /\ info' = [d \in Classes |-> IF d \in ToSet(Visits(batch[i]))
                                      THEN [info[d] EXCEPT !.super = Super[d]] ELSE info[d]]
        /\ UNCHANGED <<batch, inspector>>
    BY <1>5 DEF ResolveNext
  <2> DEFINE S == ToSet(Visits(batch[i]))
  <2>2. S \subseteq ToSet(batch)
    BY <1>1, VisitsTheBatch DEF ToSet
  <2> HIDE DEF S
  <2>3. \A d \in Classes : info'[d] = IF d \in S THEN [info[d] EXCEPT !.super = Super[d]] ELSE info[d]
    BY <2>1 DEF S
  <2>4. \A d \in Classes : info'[d].named = info[d].named
    <3> TAKE d \in Classes
    <3> DEFINE r == [named |-> info[d].named, super |-> info[d].super,
                     properties |-> info[d].properties]
    <3>1. info[d] = r
      BY <1>1 DEF InfoOK
    <3>2. info'[d] = IF d \in S THEN [r EXCEPT !.super = Super[d]] ELSE r
      BY <2>3, <3>1
    <3> QED
      BY <3>1, <3>2
  <2> QED
    BY <2>1, <2>2, <2>3, <2>4
<1> QED
  BY <1>2, <1>4, <1>5, OtherSteps

\* A drawn panel shows the rows of now, and a panel that is not drawn keeps them.
LEMMA InspectorStep ==
    ASSUME RegistryInv, StorageInv, StorageInv', InspectorInv, [Next]_vars PROVE InspectorInv'
<1>1. CASE DrawInspector \/ DrawEmptyInspector
  BY <1>1, InspectorDraws, InspectorEmpties
<1>2. CASE ~DrawInspector /\ ~DrawEmptyInspector
  BY <1>2, PanelStays, InspectorStays
<1> QED
  BY <1>1, <1>2

-----------------------------------------------------------------------------
(* The theorems.                                                            *)

\* The queue, the storages and the batch account for every class of every library that
\* has been loaded, at each step of a call.
THEOREM RegistryInvariant == Spec => []RegistryInv
<1>1. RegistryInv /\ [Next]_vars => RegistryInv'
  BY LoadStep, RegisterStep, RegisterThrowsStep, ResolveStep, ResolveThrowsStep,
     ResolvedStep, OtherStepKeeps, OtherSteps
<1> QED
  BY <1>1, InitRegistry, PTL DEF Spec

\* What a storage holds is what its class declared, a link leads to a storage that is
\* filled, and the panel's cache is of a class whose chain no batch touches.
THEOREM StoragesAgree == Spec => [](StorageInv /\ InspectorInv /\ ObjectsAreWhole)
<1>1. Init => StorageInv /\ InspectorInv /\ ObjectsAreWhole
  BY InitStorage, InitInspector DEF Init, ObjectsAreWhole
<1>2. RegistryInv /\ StorageInv /\ InspectorInv /\ ObjectsAreWhole /\ [Next]_vars
        => (StorageInv /\ InspectorInv /\ ObjectsAreWhole)'
  BY StorageStep, InspectorStep, ObjectsStep
<1> QED
  BY <1>1, <1>2, RegistryInvariant, PTL DEF Spec

\* Names are unique, between calls no class has vanished that a failed batch did not lose,
\* and what is published has its properties in the order of their declaration, for any
\* libraries, circles of super classes, entries without storage and order of registration.
THEOREM RegistryIsConsistent == Spec => []RegistryConsistent
<1>1. ASSUME RegistryInv, StorageInv, InspectorInv PROVE RegistryConsistent
  <2>1. TypeOK
    <3>1. /\ ToSet(pending) \subseteq Classes /\ ToSet(batch) \subseteq Classes
          /\ classes \subseteq Classes /\ call \in {"none", "register", "resolve"}
      BY <1>1, ElementsAreClasses DEF RegistryInv, DataOK
    <3>2. autoRegistration \in BOOLEAN /\ loaded \subseteq Libraries
      BY <1>1 DEF StorageInv, LoadedOK
    <3>3. \A c \in Classes : info[c].super \in Classes \cup {NoClass}
      BY <1>1, ClassesAssumption DEF StorageInv, LinkedOK
    <3> QED
      BY <1>1, <3>1, <3>2, <3>3 DEF TypeOK, InspectorInv
  <2>2. NamesAreUnique /\ NothingVanishes
    BY <1>1, EmptyElements DEF RegistryInv, DataOK, NothingLost, NothingVanishes
  <2>3. InDeclarationOrder
    BY <1>1 DEF StorageInv, FilledOK, InDeclarationOrder
  <2> QED
    BY <2>1, <2>2, <2>3 DEF RegistryConsistent
<1> QED
  BY <1>1, RegistryInvariant, StoragesAgree, PTL

\* An object has the properties of its class and of all its base classes, however many
\* batches failed between their registrations: construct refuses where a link is missing.
THEOREM ObjectsStayWhole == Spec => []ObjectsAreWhole
BY StoragesAgree, PTL

\* The rows the inspector caches over frames, and the row it keeps selected, are what the
\* storages say now, whatever is registered, linked or unregistered in between.
THEOREM InspectorStaysCurrent == Spec => []InspectorIsCurrent
<1>1. InspectorInv => InspectorIsCurrent
  BY DEF InspectorInv
<1> QED
  BY <1>1, StoragesAgree, PTL
=============================================================================
