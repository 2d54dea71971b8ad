------------------------- MODULE RenderResourcesProofs -------------------------
(***************************************************************************)
(* RenderResourcesProofs: for every number of entries, handles, images and *)
(* paths, each object of the device has one owner and each image one       *)
(* texture (NothingIsTwice), and what a material is bound with outlives it *)
(* (TexturesOutlive).                                                      *)
(*                                                                         *)
(* ResourceInv is inductive.  OneOwner alone is not: that an entry is freed *)
(* once needs that nothing which refers to it is gone (References); that a *)
(* material's textures outlive it needs that its destructor defers first   *)
(* (DefersFirst) and then still refers to them (TexturesHeld), and that the *)
(* cache never gives an image a second texture (TexturesCached).           *)
(*                                                                         *)
(* Most steps are of one of four sorts, each with a lemma: they leave the  *)
(* entries alone (QuietStep), change one (EntryStep), add one (EntryAdded) *)
(* or free one (FreesStep).                                                *)
(***************************************************************************)
EXTENDS RenderResources, SequenceTheorems, FiniteSetTheorems, TLAPS

-----------------------------------------------------------------------------
(* What a destructor's program may say, and sequences of it.                *)

LEMMA OrdersAre ==
    /\ \A e \in Entries : Drop(e) \in Orders
    /\ \A kind \in Kinds, h \in Handles : Defer(kind, h) \in Orders
    /\ \A e, f : Drop(e) = Drop(f) => e = f
    /\ \A kind, h, k, i : Defer(kind, h) = Defer(k, i) => kind = k /\ h = i
    /\ \A e, kind, h : Drop(e) # Defer(kind, h)
BY DEF Drop, Defer, Orders

LEMMA OrderIs ==
    ASSUME NEW o \in Orders
    PROVE  /\ o.op = "drop" => \E e \in Entries : o = Drop(e) /\ o.what = e
           /\ o.op = "defer" => \E kind \in Kinds, h \in Handles :
                                 o = Defer(kind, h) /\ o.what = <<kind, h>>
<1>1. CASE o \in [op : {"drop"}, what : Entries]
  BY <1>1 DEF Drop
<1>2. CASE o \in [op : {"defer"}, what : Kinds \X Handles]
  <2>1. o = [op |-> "defer", what |-> o.what] /\ o.op = "defer" /\ o.what \in Kinds \X Handles
    BY <1>2
  <2>2. PICK kind \in Kinds, h \in Handles : o.what = <<kind, h>>
    BY <2>1
  <2>3. o = Defer(kind, h)
    BY <2>1, <2>2 DEF Defer
  <2> QED
    BY <2>1, <2>2, <2>3
<1> QED
  BY <1>1, <1>2 DEF Orders

\* A set of entries is dropped in some order.
LEMMA DropsAre ==
    ASSUME NEW S, S \subseteq Entries
    PROVE  /\ Drops(S) \in Seq(Orders)
           /\ \A i \in 1 .. Len(Drops(S)) : \E e \in S : Drops(S)[i] = Drop(e)
<1> DEFINE s == SetToSeq(S)
<1>1. IsFiniteSet(S) /\ Cardinality(S) \in Nat
  <2>1. IsFiniteSet(Entries)
    BY ResourceAssumption, FS_Interval DEF Entries
  <2> QED
    BY <2>1, FS_Subset, FS_CardinalityType
<1>2. s \in [1 .. Cardinality(S) -> S]
  <2>1. PICK f : f \in Bijection(1 .. Cardinality(S), S)
    BY <1>1, FS_CardinalityType DEF ExistsBijection
  <2>2. f \in [1 .. Cardinality(S) -> S] /\ IsInjective(f)
    BY <2>1 DEF Bijection, Injection
  <2> QED
    BY <2>2 DEF SetToSeq
<1> HIDE DEF s
<1>3. s \in Seq(S) /\ Len(s) = Cardinality(S)
  BY <1>1, <1>2
<1>4. Drops(S) = [i \in 1 .. Len(s) |-> Drop(s[i])]
  BY DEF Drops, s
<1>5. \A i \in 1 .. Len(s) : s[i] \in S /\ Drop(s[i]) \in Orders
  BY <1>3, OrdersAre
<1>6. Drops(S) \in Seq(Orders) /\ Len(Drops(S)) = Len(s)
  BY <1>3, <1>4, <1>5
<1> QED
  BY <1>4, <1>5, <1>6

\* What is in a sequence once its first element is gone.
LEMMA TailHas ==
    ASSUME NEW S, NEW s \in Seq(S), s # <<>>
    PROVE  /\ Tail(s) \in Seq(S) /\ Len(Tail(s)) = Len(s) - 1 /\ Head(s) = s[1] /\ Head(s) \in S
           /\ \A i \in 1 .. Len(Tail(s)) : Tail(s)[i] = s[i + 1] /\ i + 1 \in 2 .. Len(s)
           /\ \A x : Contains(s, x) <=> x = Head(s) \/ Contains(Tail(s), x)
<1>1. /\ Tail(s) \in Seq(S) /\ Len(Tail(s)) = Len(s) - 1 /\ Head(s) = s[1] /\ Head(s) \in S
      /\ \A i \in 1 .. Len(Tail(s)) : Tail(s)[i] = s[i + 1] /\ i + 1 \in 2 .. Len(s)
      /\ Len(s) \in Nat \ {0}
  OBVIOUS
<1>2. ASSUME NEW x, Contains(s, x), x # Head(s)
      PROVE  Contains(Tail(s), x)
  <2>1. PICK i \in 1 .. Len(s) : s[i] = x
    BY <1>2 DEF Contains
  <2>2. i # 1 /\ i - 1 \in 1 .. Len(Tail(s))
    BY <1>1, <1>2, <2>1
  <2>3. Tail(s)[i - 1] = x
    BY <1>1, <2>1, <2>2
  <2> QED
    BY <2>2, <2>3 DEF Contains
<1>3. ASSUME NEW x, Contains(Tail(s), x) \/ x = Head(s)
      PROVE  Contains(s, x)
  BY <1>1, <1>3 DEF Contains
<1> QED
  BY <1>1, <1>2, <1>3

\* And in two sequences, one behind the other.
LEMMA BothHave ==
    ASSUME NEW S, NEW s \in Seq(S), NEW r \in Seq(S)
    PROVE  /\ s \o r \in Seq(S) /\ Len(s \o r) = Len(s) + Len(r)
           /\ \A i \in 1 .. Len(s) : (s \o r)[i] = s[i]
           /\ \A i \in 1 .. Len(s \o r) : i > Len(s) =>
                (s \o r)[i] = r[i - Len(s)] /\ i - Len(s) \in 1 .. Len(r)
           /\ \A x : Contains(s \o r, x) <=> Contains(s, x) \/ Contains(r, x)
<1>1. /\ s \o r \in Seq(S) /\ Len(s \o r) = Len(s) + Len(r)
      /\ \A i \in 1 .. Len(s) : (s \o r)[i] = s[i]
      /\ \A i \in 1 .. Len(s \o r) : i > Len(s) =>
           (s \o r)[i] = r[i - Len(s)] /\ i - Len(s) \in 1 .. Len(r)
      /\ Len(s) \in Nat /\ Len(r) \in Nat
  BY ConcatProperties
<1>2. ASSUME NEW x, Contains(s \o r, x)
      PROVE  Contains(s, x) \/ Contains(r, x)
  <2>1. PICK i \in 1 .. Len(s \o r) : (s \o r)[i] = x
    BY <1>2 DEF Contains
  <2>2. CASE i <= Len(s)
    BY <1>1, <2>1, <2>2 DEF Contains
  <2>3. CASE i > Len(s)
    BY <1>1, <2>1, <2>3 DEF Contains
  <2> QED
    BY <1>1, <2>2, <2>3
<1>3. ASSUME NEW x, Contains(s, x) \/ Contains(r, x)
      PROVE  Contains(s \o r, x)
  <2>1. CASE Contains(s, x)
    BY <1>1, <2>1 DEF Contains
  <2>2. CASE Contains(r, x)
    <3>1. PICK i \in 1 .. Len(r) : r[i] = x
      BY <2>2 DEF Contains
    <3>2. /\ Len(s) + i \in 1 .. Len(s \o r) /\ Len(s) + i > Len(s)
          /\ Len(s) + i - Len(s) = i
      BY <1>1
    <3>3. (s \o r)[Len(s) + i] = x
      BY <1>1, <3>1, <3>2
    <3> QED
      BY <3>2, <3>3 DEF Contains
  <2> QED
    BY <1>3, <2>1, <2>2
<1> QED
  BY <1>1, <1>2, <1>3

LEMMA OneHas ==
    ASSUME NEW S, NEW x \in S
    PROVE  /\ <<x>> \in Seq(S) /\ Len(<<x>>) = 1 /\ <<x>>[1] = x
           /\ \A y : Contains(<<x>>, y) <=> y = x
BY DEF Contains

LEMMA NoneHas ==
    ASSUME NEW S
    PROVE  <<>> \in Seq(S) /\ Len(<<>>) = 0 /\ \A y : ~Contains(<<>>, y)
BY DEF Contains

\* A destructor defers what the entry owns, and then drops what it refers to.
LEMMA DestructorIs ==
    ASSUME Typed, NEW e \in Entries, entries[e].kind \in Kinds
    PROVE  LET x == entries[e]
               d == Destructor(e)
           IN  /\ d \in Seq(Orders)
               /\ x.handle # None => Len(d) > 0 /\ d[1] = Defer(x.kind, x.handle)
               /\ \A i \in 1 .. Len(d) : i > 1 \/ x.handle = None => d[i].op = "drop"
               /\ \A f : Contains(d, Drop(f)) <=> f \in Members(e)
<1> DEFINE x == entries[e]
           m(f) == Member(f)
           r == Request(x)
           ds == m(x.normal) \o m(x.base) \o m(x.material)
<1>1. /\ x.handle \in Handles \cup {None} /\ x.kind \in Kinds
      /\ x.normal \in Entries \cup {None} /\ x.base \in Entries \cup {None}
      /\ x.material \in Entries \cup {None}
  BY DEF Typed, Record
<1> HIDE DEF x
<1>2. ASSUME NEW f \in Entries \cup {None}
      PROVE  /\ m(f) \in Seq(Orders)
             /\ \A g : Contains(m(f), Drop(g)) <=> g = f /\ f # None
             /\ \A i \in 1 .. Len(m(f)) : m(f)[i].op = "drop"
  <2>1. CASE f = None
    BY <2>1, NoneHas DEF Member
  <2>2. CASE f # None
    <3>1. Drop(f) \in Orders /\ Drop(f).op = "drop"
      BY <2>2, OrdersAre DEF Drop
    <3>2. m(f) = <<Drop(f)>>
      BY <2>2 DEF Member
    <3>3. m(f) \in Seq(Orders) /\ Len(m(f)) = 1 /\ m(f)[1] = Drop(f) /\ \A y : Contains(m(f), y) <=> y = Drop(f)
      BY <3>1, <3>2, OneHas
    <3> QED
      BY <2>2, <3>1, <3>3, OrdersAre
  <2> QED
    BY <2>1, <2>2
<1> HIDE DEF m
<1>3. /\ ds \in Seq(Orders)
      /\ \A f : Contains(ds, Drop(f)) <=> f \in {x.normal, x.base, x.material} \ {None}
      /\ \A i \in 1 .. Len(ds) : ds[i].op = "drop"
  <2> DEFINE s == m(x.normal) \o m(x.base)
  <2>1. /\ s \in Seq(Orders)
        /\ \A f : Contains(s, Drop(f)) <=> f \in {x.normal, x.base} \ {None}
        /\ \A i \in 1 .. Len(s) : s[i].op = "drop"
    <3>1. m(x.normal) \in Seq(Orders) /\ m(x.base) \in Seq(Orders)
      BY <1>1, <1>2
    <3>2. /\ s \in Seq(Orders)
          /\ \A f : Contains(s, f) <=> Contains(m(x.normal), f) \/ Contains(m(x.base), f)
      BY <3>1, BothHave
    <3>3. \A i \in 1 .. Len(s) : s[i].op = "drop"
      <4>1. TAKE i \in 1 .. Len(s)
      <4>2. CASE i <= Len(m(x.normal))
        BY <1>1, <1>2, <3>1, <4>2, BothHave
      <4>3. CASE i > Len(m(x.normal))
        BY <1>1, <1>2, <3>1, <4>3, BothHave
      <4> QED
        BY <3>1, <4>2, <4>3
    <3> QED
      BY <1>1, <1>2, <3>2, <3>3
  <2>2. m(x.material) \in Seq(Orders)
    BY <1>1, <1>2
  <2> HIDE DEF s
  <2>3. ds = s \o m(x.material)
    BY DEF s
  <2>4. /\ ds \in Seq(Orders)
        /\ \A f : Contains(ds, f) <=> Contains(s, f) \/ Contains(m(x.material), f)
    BY <2>1, <2>2, <2>3, BothHave
  <2>5. \A i \in 1 .. Len(ds) : ds[i].op = "drop"
    <3>1. TAKE i \in 1 .. Len(ds)
    <3>2. CASE i <= Len(s)
      BY <2>1, <2>2, <2>3, <3>2, BothHave
    <3>3. CASE i > Len(s)
      BY <1>1, <1>2, <2>1, <2>2, <2>3, <3>3, BothHave
    <3> QED
      BY <2>1, <3>2, <3>3
  <2> QED
    BY <1>1, <1>2, <2>1, <2>4, <2>5
<1>4. Members(e) = {x.normal, x.base, x.material} \ {None}
  BY DEF Members, x
<1>5. Destructor(e) = r \o ds
  BY DEF Destructor, InOrder, x, m
<1> HIDE DEF ds
<1>6. /\ r \in Seq(Orders) /\ \A f : ~Contains(r, Drop(f))
      /\ x.handle = None => Len(r) = 0
      /\ x.handle # None => Len(r) = 1 /\ r[1] = Defer(x.kind, x.handle)
  <2>1. CASE x.handle = None
    BY <2>1, NoneHas DEF Request
  <2>2. CASE x.handle # None
    <3>1. Defer(x.kind, x.handle) \in Orders
      BY <1>1, <2>2, OrdersAre
    <3>2. r = <<Defer(x.kind, x.handle)>>
      BY <2>2 DEF Request
    <3>3. r \in Seq(Orders) /\ Len(r) = 1 /\ r[1] = Defer(x.kind, x.handle)
          /\ \A y : Contains(r, y) <=> y = Defer(x.kind, x.handle)
      BY <3>1, <3>2, OneHas
    <3> QED
      BY <2>2, <3>3, OrdersAre
  <2> QED
    BY <2>1, <2>2
<1> HIDE DEF r
<1>7. /\ r \o ds \in Seq(Orders) /\ Len(r \o ds) = Len(r) + Len(ds)
      /\ \A i \in 1 .. Len(r) : (r \o ds)[i] = r[i]
      /\ \A i \in 1 .. Len(r \o ds) : i > Len(r) =>
           (r \o ds)[i] = ds[i - Len(r)] /\ i - Len(r) \in 1 .. Len(ds)
      /\ \A f : Contains(r \o ds, f) <=> Contains(r, f) \/ Contains(ds, f)
  BY <1>3, <1>6, BothHave
<1>8. Len(ds) \in Nat
  BY <1>3
<1>9. x.handle # None => Len(r \o ds) > 0 /\ (r \o ds)[1] = Defer(x.kind, x.handle)
  BY <1>6, <1>7, <1>8
<1>10. \A i \in 1 .. Len(r \o ds) : i > 1 \/ x.handle = None => (r \o ds)[i].op = "drop"
  BY <1>3, <1>6, <1>7, <1>8
<1>11. \A f : Contains(r \o ds, Drop(f)) <=> f \in Members(e)
  BY <1>3, <1>4, <1>6, <1>7
<1> QED
  BY <1>5, <1>7, <1>9, <1>10, <1>11 DEF x

-----------------------------------------------------------------------------
(* What the threads do while they run destructors.                          *)

\* A step that asks for no deletion and takes no request away: references may go, and
\* those of S may be among the ones that are still to be dropped.
Quiet(S) ==
    /\ program' \in [Threads -> Seq(Orders)]
    /\ \A u \in Threads : \A i \in 2 .. Len(program'[u]) : program'[u][i].op = "drop"
    /\ \A u \in Threads, kind \in Kinds, h \in Handles :
         /\ Asks(program', u, kind, h) <=> Asks(program, u, kind, h)
         /\ Asks(program, u, kind, h) => program'[u] = program[u]
    /\ Dropping(program') \subseteq Dropping(program) \cup S

LEMMA StaysQuiet ==
    ASSUME Typed, DefersFirst, program' = program
    PROVE  Quiet({})
BY DEF Typed, DefersFirst, Quiet

\* An idle thread starts to drop references.
LEMMA ReleasesQuietly ==
    ASSUME Typed, DefersFirst, NEW t \in Threads, Idle(t), NEW S, S \subseteq Entries,
           Releases(t, S)
    PROVE  Quiet(S)
<1> DEFINE d == Drops(S)
<1>1. /\ d \in Seq(Orders)
      /\ \A i \in 1 .. Len(d) : \E e \in S : d[i] = Drop(e)
  BY DropsAre
<1> HIDE DEF d
<1>2. program' = [program EXCEPT ![t] = d]
  BY DEF Releases, d
<1>3. program \in [Threads -> Seq(Orders)] /\ program[t] = <<>>
  BY DEF Typed, Idle
<1>4. /\ program' \in [Threads -> Seq(Orders)] /\ program'[t] = d
      /\ \A u \in Threads \ {t} : program'[u] = program[u]
  BY <1>1, <1>2, <1>3
<1>5. \A i \in 1 .. Len(d) : d[i].op = "drop"
  <2>1. \A e : Drop(e).op = "drop"
    BY DEF Drop
  <2> QED
    BY <1>1, <2>1
<1>6. \A i \in 2 .. Len(d) : d[i].op = "drop"
  <2>1. Len(d) \in Nat
    BY <1>1
  <2> QED
    BY <1>5, <2>1
<1>7. \A kind, h : ~Asks(program', t, kind, h) /\ ~Asks(program, t, kind, h)
  <2>1. d # <<>> => Head(d) = d[1] /\ 1 \in 1 .. Len(d)
    BY <1>1
  <2> QED
    BY <1>1, <1>3, <1>4, <2>1, OrdersAre DEF Asks
<1>8. Dropping(program') \subseteq Dropping(program) \cup S
  <2>1. SUFFICES ASSUME NEW e \in Dropping(program')
                 PROVE  e \in Dropping(program) \cup S
    OBVIOUS
  <2>2. PICK u \in Threads : Contains(program'[u], Drop(e))
    BY DEF Dropping
  <2>3. CASE u = t
    <3>1. PICK i \in 1 .. Len(d) : d[i] = Drop(e)
      BY <1>4, <2>2, <2>3 DEF Contains
    <3> QED
      BY <1>1, <3>1, OrdersAre
  <2>4. CASE u # t
    BY <1>4, <2>1, <2>2, <2>4 DEF Dropping
  <2> QED
    BY <2>3, <2>4
<1>9. \A u \in Threads : \A i \in 2 .. Len(program'[u]) : program'[u][i].op = "drop"
  BY <1>4, <1>6 DEF DefersFirst
<1>10. \A u \in Threads, kind \in Kinds, h \in Handles :
         /\ Asks(program', u, kind, h) <=> Asks(program, u, kind, h)
         /\ Asks(program, u, kind, h) => program'[u] = program[u]
  BY <1>4, <1>7 DEF Asks
<1> QED
  BY <1>4, <1>8, <1>9, <1>10 DEF Quiet

\* A thread goes on behind a reference that was not the last, or behind a request.
LEMMA GoesOn ==
    ASSUME Typed, DefersFirst, NEW t \in Threads, program[t] # <<>>,
           NEW p, p = [program EXCEPT ![t] = Tail(program[t])]
    PROVE  /\ p \in [Threads -> Seq(Orders)]
           /\ \A u \in Threads : \A i \in 1 .. Len(p[u]) :
                i > 1 \/ u = t => p[u][i].op = "drop"
           /\ \A kind \in Kinds, h \in Handles : ~Asks(p, t, kind, h)
           /\ \A u \in Threads \ {t} : p[u] = program[u]
           /\ \A e : e \in Dropping(program) <=> e \in Dropping(p) \/ (e \in Entries /\ Head(program[t]) = Drop(e))
           /\ Head(program[t]) \in Orders
<1>1. program \in [Threads -> Seq(Orders)] /\ program[t] \in Seq(Orders)
  BY DEF Typed
<1> DEFINE s == program[t]
<1>2. /\ Tail(s) \in Seq(Orders) /\ Len(Tail(s)) = Len(s) - 1 /\ Head(s) = s[1] /\ Head(s) \in Orders
      /\ \A i \in 1 .. Len(Tail(s)) : Tail(s)[i] = s[i + 1] /\ i + 1 \in 2 .. Len(s)
      /\ \A x : Contains(s, x) <=> x = Head(s) \/ Contains(Tail(s), x)
  <2> HIDE DEF s
  <2> QED
    BY <1>1, TailHas DEF s
<1>3. /\ p \in [Threads -> Seq(Orders)] /\ p[t] = Tail(s)
      /\ \A u \in Threads \ {t} : p[u] = program[u]
  BY <1>1, <1>2
<1>4. \A i \in 1 .. Len(p[t]) : p[t][i].op = "drop"
  BY <1>2, <1>3 DEF DefersFirst
<1>5. \A u \in Threads : \A i \in 1 .. Len(p[u]) : i > 1 \/ u = t => p[u][i].op = "drop"
  <2>1. TAKE u \in Threads
  <2>2. TAKE i \in 1 .. Len(p[u])
  <2>3. CASE u = t
    BY <1>4, <2>3
  <2>4. CASE u # t
    <3>1. Len(p[u]) \in Nat
      BY <1>3
    <3> QED
      BY <1>3, <2>4, <3>1 DEF DefersFirst
  <2> QED
    BY <2>3, <2>4
<1>6. ASSUME NEW kind \in Kinds, NEW h \in Handles
      PROVE  ~Asks(p, t, kind, h)
  <2>1. p[t] # <<>> => Head(p[t]) = p[t][1] /\ 1 \in 1 .. Len(p[t])
    BY <1>2, <1>3
  <2>2. Defer(kind, h).op = "defer"
    BY DEF Defer
  <2> QED
    BY <1>4, <2>1, <2>2 DEF Asks
<1>7. ASSUME NEW e
      PROVE  e \in Dropping(program) <=> e \in Dropping(p) \/ (e \in Entries /\ Head(s) = Drop(e))
  <2>1. Contains(s, Drop(e)) <=> Drop(e) = Head(s) \/ Contains(Tail(s), Drop(e))
    BY <1>2
  <2> QED
    BY <1>3, <2>1 DEF Dropping
<1> QED
  BY <1>2, <1>3, <1>5, <1>6, <1>7

-----------------------------------------------------------------------------
(* One owner for each object of the device.                                 *)

There(ts, ms, gs, kind, h) ==
    \/ kind = "mesh" /\ h \in gs
    \/ kind = "material" /\ ms[h] # None
    \/ kind = "texture" /\ ts[h] # None

LEMMA ExistsIs ==
    \A kind \in Kinds, h \in Handles : Exists(kind, h) <=> There(textures, materials, meshes, kind, h)
BY DEF Exists, There, Kinds

\* Owned, with what it depends on.
OwnedBy(es, p, q, ts, ms, gs) ==
    /\ \A kind \in Kinds : \A h \in Handles :
         /\ There(ts, ms, gs, kind, h) <=> \/ \E e \in Entries : Owns(es, e, kind, h)
                                           \/ \E t \in Threads : Asks(p, t, kind, h)
                                           \/ Contains(q, <<kind, h>>)
         /\ \A e, f \in Entries : Owns(es, e, kind, h) /\ Owns(es, f, kind, h) => e = f
         /\ \A t, u \in Threads : Asks(p, t, kind, h) /\ Asks(p, u, kind, h) => t = u
         /\ \A e \in Entries : Owns(es, e, kind, h) =>
              ~Contains(q, <<kind, h>>) /\ \A t \in Threads : ~Asks(p, t, kind, h)
         /\ \A t \in Threads : Asks(p, t, kind, h) => ~Contains(q, <<kind, h>>)
    /\ \A i, j \in 1 .. Len(q) : q[i] = q[j] => i = j

LEMMA OwnedIs ==
    /\ Owned <=> OwnedBy(entries, program, queue, textures, materials, meshes)
    /\ Owned' <=> OwnedBy(entries', program', queue', textures', materials', meshes')
<1>1. Owned <=> OwnedBy(entries, program, queue, textures, materials, meshes)
  BY ExistsIs DEF Owned, OwnedBy, Requested
<1>2. \A kind \in Kinds, h \in Handles : Exists(kind, h)' <=> There(textures', materials', meshes', kind, h)
  BY DEF Exists, There, Kinds
<1>3. Owned' <=> OwnedBy(entries', program', queue', textures', materials', meshes')
  BY <1>2 DEF Owned, OwnedBy, Requested
<1> QED
  BY <1>1, <1>3

\* Nobody's object changes hands.
LEMMA OwnedStays ==
    ASSUME Owned, NEW S, Quiet(S), UNCHANGED device,
           \A e \in Entries, kind \in Kinds, h \in Handles :
             Owns(entries', e, kind, h) <=> Owns(entries, e, kind, h)
    PROVE  Owned'
<1>1. OwnedBy(entries, program, queue, textures, materials, meshes)
  BY OwnedIs
<1>2. OwnedBy(entries', program', queue', textures', materials', meshes')
  BY <1>1 DEF OwnedBy, Quiet, device
<1> QED
  BY <1>2, OwnedIs

\* An entry gets a new object of the device.
LEMMA OwnedAnew ==
    ASSUME Owned, NEW S, Quiet(S), UNCHANGED queue,
           NEW o \in Entries, NEW k \in Kinds, NEW n \in Handles,
           ~There(textures, materials, meshes, k, n),
           \A kind \in Kinds, h \in Handles :
             There(textures', materials', meshes', kind, h) <=>
               There(textures, materials, meshes, kind, h) \/ (kind = k /\ h = n),
           \A e \in Entries, kind \in Kinds, h \in Handles :
             Owns(entries', e, kind, h) <=>
               Owns(entries, e, kind, h) \/ (e = o /\ kind = k /\ h = n)
    PROVE  Owned'
<1>1. OwnedBy(entries, program, queue, textures, materials, meshes)
  BY OwnedIs
<1>2. OwnedBy(entries', program', queue', textures', materials', meshes')
  <2>1. \A t, u \in Threads, kind \in Kinds, h \in Handles :
          Asks(program', t, kind, h) <=> Asks(program, t, kind, h)
    BY DEF Quiet
  <2>2. \A e \in Entries, t \in Threads :
          /\ ~Owns(entries, e, k, n) /\ ~Asks(program, t, k, n)
          /\ ~Contains(queue, <<k, n>>)
    BY <1>1 DEF OwnedBy
  <2> HIDE DEF Owns, Asks, There, Contains
  <2> QED
    BY <1>1, <2>1, <2>2 DEF OwnedBy
<1> QED
  BY <1>2, OwnedIs

\* A destructor's request goes into the queue.
LEMMA OwnedDeferred ==
    ASSUME Typed, DefersFirst, Owned, NEW t \in Threads, Defers(t)
    PROVE  Owned'
<1>1. OwnedBy(entries, program, queue, textures, materials, meshes)
  BY OwnedIs
<1>2. /\ program[t] # <<>> /\ program' = [program EXCEPT ![t] = Tail(program[t])]
      /\ Head(program[t]).op = "defer"
      /\ queue' = Append(queue, Head(program[t]).what)
      /\ UNCHANGED <<entries, textures, materials, meshes>>
  BY DEF Defers, Idle
<1>3. /\ \A kind \in Kinds, h \in Handles : ~Asks(program', t, kind, h)
      /\ \A u \in Threads \ {t} : program'[u] = program[u]
      /\ Head(program[t]) \in Orders
  BY <1>2, GoesOn
<1>4. PICK k \in Kinds, n \in Handles : Head(program[t]) = Defer(k, n)
  BY <1>2, <1>3, OrderIs
<1>5. queue' = Append(queue, <<k, n>>) /\ queue \in Seq(Kinds \X Handles)
  BY <1>2, <1>4 DEF Defer, Typed
<1>6. \A x \in Kinds \X Handles : Contains(queue', x) <=> Contains(queue, x) \/ x = <<k, n>>
  <2>1. /\ Len(queue') = Len(queue) + 1 /\ Len(queue) \in Nat
        /\ \A i \in 1 .. Len(queue) : queue'[i] = queue[i]
        /\ queue'[Len(queue) + 1] = <<k, n>>
    BY <1>5
  <2>2. ASSUME NEW x \in Kinds \X Handles, Contains(queue', x)
        PROVE  Contains(queue, x) \/ x = <<k, n>>
    <3>1. PICK i \in 1 .. Len(queue') : queue'[i] = x
      BY <2>2 DEF Contains
    <3> QED
      BY <2>1, <3>1 DEF Contains
  <2>3. ASSUME NEW x \in Kinds \X Handles, Contains(queue, x) \/ x = <<k, n>>
        PROVE  Contains(queue', x)
    <3>1. CASE x = <<k, n>>
      <4>1. Len(queue) + 1 \in 1 .. Len(queue')
        BY <2>1
      <4> QED
        BY <2>1, <3>1, <4>1 DEF Contains
    <3>2. CASE Contains(queue, x)
      <4>1. PICK i \in 1 .. Len(queue) : queue[i] = x
        BY <3>2 DEF Contains
      <4>2. i \in 1 .. Len(queue') /\ queue'[i] = x
        BY <2>1, <4>1
      <4> QED
        BY <4>2 DEF Contains
    <3> QED
      BY <2>3, <3>1, <3>2
  <2> QED
    BY <2>2, <2>3
<1>7. \A kind \in Kinds, h \in Handles : Asks(program, t, kind, h) <=> kind = k /\ h = n
  BY <1>2, <1>4, OrdersAre DEF Asks
<1>8. \A u \in Threads \ {t} : \A kind \in Kinds, h \in Handles :
        Asks(program', u, kind, h) <=> Asks(program, u, kind, h)
  BY <1>3 DEF Asks
<1>9. ~Contains(queue, <<k, n>>)
  BY <1>1, <1>7 DEF OwnedBy
<1>10. \A i, j \in 1 .. Len(queue') : queue'[i] = queue'[j] => i = j
  <2>1. /\ Len(queue') = Len(queue) + 1 /\ Len(queue) \in Nat
        /\ \A i \in 1 .. Len(queue) : queue'[i] = queue[i]
        /\ queue'[Len(queue) + 1] = <<k, n>>
    BY <1>5
  <2>2. \A i \in 1 .. Len(queue) : queue[i] # <<k, n>>
    BY <1>9 DEF Contains
  <2> QED
    BY <1>1, <2>1, <2>2 DEF OwnedBy
<1>11. \A kind \in Kinds, h \in Handles :
         Contains(queue', <<kind, h>>) <=> Contains(queue, <<kind, h>>) \/ (kind = k /\ h = n)
  BY <1>6
<1> HIDE DEF Owns, Asks, There, Contains
<1>12. OwnedBy(entries', program', queue', textures', materials', meshes')
  <2> SUFFICES ASSUME NEW kind \in Kinds, NEW h \in Handles
               PROVE  /\ There(textures, materials, meshes, kind, h)
                           <=> \/ \E e \in Entries : Owns(entries, e, kind, h)
                               \/ \E u \in Threads : Asks(program', u, kind, h)
                               \/ Contains(queue', <<kind, h>>)
                      /\ \A e, f \in Entries : Owns(entries, e, kind, h) /\ Owns(entries, f, kind, h) => e = f
                      /\ \A v, u \in Threads : Asks(program', v, kind, h) /\ Asks(program', u, kind, h) => v = u
                      /\ \A e \in Entries : Owns(entries, e, kind, h) =>
                           ~Contains(queue', <<kind, h>>) /\ \A u \in Threads : ~Asks(program', u, kind, h)
                      /\ \A u \in Threads : Asks(program', u, kind, h) => ~Contains(queue', <<kind, h>>)
    BY <1>2, <1>10 DEF OwnedBy
  <2>1. CASE kind = k /\ h = n
    BY <1>1, <1>3, <1>7, <1>8, <1>11, <2>1 DEF OwnedBy
  <2>2. CASE ~(kind = k /\ h = n)
    BY <1>1, <1>3, <1>7, <1>8, <1>11, <2>2 DEF OwnedBy
  <2> QED
    BY <2>1, <2>2
<1> QED
  BY <1>12, OwnedIs

\* The frame deletes what was asked for.
LEMMA OwnedDeleted ==
    ASSUME Typed, Owned, ProcessDeferredDeletions
    PROVE  Owned'
<1>1. OwnedBy(entries, program, queue, textures, materials, meshes)
  BY OwnedIs
<1>2. /\ UNCHANGED <<entries, program>> /\ queue' = <<>>
      /\ textures' = [h \in Handles |-> IF Requested("texture", h) THEN None ELSE textures[h]]
      /\ materials' = [h \in Handles |-> IF Requested("material", h) THEN None ELSE materials[h]]
      /\ meshes' = {h \in meshes : ~Requested("mesh", h)}
  BY DEF ProcessDeferredDeletions
<1>3. \A kind \in Kinds, h \in Handles :
        There(textures', materials', meshes', kind, h) <=>
          There(textures, materials, meshes, kind, h) /\ ~Contains(queue, <<kind, h>>)
  BY <1>2 DEF There, Requested, Kinds, Typed
<1>4. Len(queue') = 0 /\ \A x : ~Contains(queue', x)
  BY <1>2 DEF Contains
<1> HIDE DEF Owns, Asks, There, Contains
<1>5. OwnedBy(entries', program', queue', textures', materials', meshes')
  BY <1>1, <1>2, <1>3, <1>4 DEF OwnedBy
<1> QED
  BY <1>5, OwnedIs

-----------------------------------------------------------------------------
(* A reference goes.                                                        *)

\* Thread t drops the last reference to entry e.
Frees(t, e) ==
    /\ entries[e].kind \in Kinds
    /\ entries' = [entries EXCEPT ![e] = Free]
    /\ cache' = [cache EXCEPT ![entries[e].kind] =
         [k \in DOMAIN cache[entries[e].kind] |->
            IF cache[entries[e].kind][k] = e THEN Expired ELSE cache[entries[e].kind][k]]]
    /\ program' \in [Threads -> Seq(Orders)]
    /\ \A u \in Threads : \A i \in 2 .. Len(program'[u]) : program'[u][i].op = "drop"
    /\ \A u \in Threads \ {t} : program'[u] = program[u]
    /\ \A kind \in Kinds, h \in Handles :
         /\ ~Asks(program, t, kind, h)
         /\ Asks(program', t, kind, h) <=> Owns(entries, e, kind, h)
    /\ \A m \in Members(e) : Contains(program'[t], Drop(m))
    /\ e \notin Dropping(program') \cup Roots
    /\ \A x \in Entries : e \notin Members(x)
    /\ Dropping(program') \subseteq Dropping(program) \cup Members(e)
    /\ \A u \in Threads \ {t} : ~Contains(program[u], Drop(e))

LEMMA LivesAre ==
    ASSUME Typed, References
    PROVE  /\ \A e \in Entries : entries[e].kind \in Kinds \/ e \in Live("free")
           /\ \A kind \in Kinds : \A e \in Live(kind) : e \in Entries /\ e \notin Live("free")
           /\ \A e \in Entries : Members(e) \subseteq Entries /\ Members(e) \cap Live("free") = {}
           /\ Dropping(program) \subseteq Entries
<1>1. \A e \in Entries : entries[e].kind \in Kinds \/ e \in Live("free")
  BY DEF Typed, Record, Live
<1>2. \A kind \in Kinds : \A e \in Live(kind) : e \in Entries /\ e \notin Live("free")
  BY DEF Live, Kinds
<1>4. \A e \in Entries : Members(e) \subseteq Live("texture") \cup Live("material")
  BY DEF References, Members
<1>3. Dropping(program) \subseteq Entries
  BY DEF Dropping
<1> QED
  BY <1>1, <1>2, <1>3, <1>4 DEF Kinds

LEMMA DropIs ==
    ASSUME Typed, References, DefersFirst, NEW t \in Threads, DropsReference(t)
    PROVE  \/ Quiet({}) /\ UNCHANGED <<entries, cache>>
           \/ \E e \in Entries : Frees(t, e)
<1>1. program[t] # <<>> /\ Head(program[t]).op = "drop"
  BY DEF DropsReference, Idle
<1> DEFINE rest == [program EXCEPT ![t] = Tail(program[t])]
           held == Roots \cup Dropping(rest) \cup UNION {Members(x) : x \in Entries}
<1>2. /\ rest \in [Threads -> Seq(Orders)]
      /\ \A u \in Threads : \A i \in 1 .. Len(rest[u]) : i > 1 \/ u = t => rest[u][i].op = "drop"
      /\ \A kind \in Kinds, h \in Handles : ~Asks(rest, t, kind, h)
      /\ \A u \in Threads \ {t} : rest[u] = program[u]
      /\ \A e : e \in Dropping(program) <=> e \in Dropping(rest) \/ (e \in Entries /\ Head(program[t]) = Drop(e))
      /\ Head(program[t]) \in Orders
  <2> HIDE DEF rest
  <2> QED
    BY <1>1, GoesOn DEF rest
<1>3. PICK e \in Entries : Head(program[t]) = Drop(e)
  BY <1>1, <1>2, OrderIs
<1>4. Head(program[t]).what = e
  BY <1>3 DEF Drop
<1>5. \/ e \in held /\ program' = rest /\ UNCHANGED <<entries, cache>>
      \/ /\ e \notin held
         /\ program' = [rest EXCEPT ![t] = Destructor(e) \o rest[t]]
         /\ entries' = [entries EXCEPT ![e] = Free]
         /\ cache' = [cache EXCEPT ![entries[e].kind] =
              [k \in DOMAIN cache[entries[e].kind] |->
                 IF cache[entries[e].kind][k] = e THEN Expired ELSE cache[entries[e].kind][k]]]
  BY <1>4 DEF DropsReference
<1>6. \A kind \in Kinds, h \in Handles : ~Asks(program, t, kind, h)
  BY <1>3, OrdersAre DEF Asks
<1>7. e \in Dropping(program)
  BY <1>2, <1>3
<1>8. entries[e].kind \in Kinds /\ e \notin Live("free")
  BY <1>7 DEF References, Typed, Record, Live
<1>9. CASE e \in held /\ program' = rest /\ UNCHANGED <<entries, cache>>
  <2> HIDE DEF rest
  <2>1. \A u \in Threads : \A i \in 2 .. Len(rest[u]) : rest[u][i].op = "drop"
    <3>1. \A u \in Threads : Len(rest[u]) \in Nat
      BY <1>2
    <3> QED
      BY <1>2, <3>1
  <2>2. \A u \in Threads, kind \in Kinds, h \in Handles :
         /\ Asks(rest, u, kind, h) <=> Asks(program, u, kind, h)
         /\ Asks(program, u, kind, h) => rest[u] = program[u]
    BY <1>2, <1>6 DEF Asks
  <2>3. Dropping(rest) \subseteq Dropping(program)
    BY <1>2
  <2> QED
    BY <1>2, <1>9, <2>1, <2>2, <2>3 DEF Quiet
<1>10. CASE /\ e \notin held
            /\ program' = [rest EXCEPT ![t] = Destructor(e) \o rest[t]]
            /\ entries' = [entries EXCEPT ![e] = Free]
            /\ cache' = [cache EXCEPT ![entries[e].kind] =
                 [k \in DOMAIN cache[entries[e].kind] |->
                    IF cache[entries[e].kind][k] = e THEN Expired ELSE cache[entries[e].kind][k]]]
  <2> DEFINE d == Destructor(e)
             r == rest[t]
             x == entries[e]
  <2>1. /\ d \in Seq(Orders)
        /\ x.handle # None => Len(d) > 0 /\ d[1] = Defer(x.kind, x.handle)
        /\ \A i \in 1 .. Len(d) : i > 1 \/ x.handle = None => d[i].op = "drop"
        /\ \A f : Contains(d, Drop(f)) <=> f \in Members(e)
    BY <1>8, DestructorIs
  <2>2. r \in Seq(Orders) /\ \A i \in 1 .. Len(r) : r[i].op = "drop"
    BY <1>2
  <2>3. e \notin Roots \cup Dropping(rest) /\ \A y \in Entries : e \notin Members(y)
    BY <1>10
  <2>4. /\ program' \in [Threads -> Seq(Orders)] /\ program'[t] = d \o r
        /\ \A u \in Threads \ {t} : program'[u] = rest[u]
    BY <1>2, <1>10, <2>1
  <2> HIDE DEF d, r, rest
  <2>5. /\ d \o r \in Seq(Orders) /\ Len(d \o r) = Len(d) + Len(r)
        /\ \A i \in 1 .. Len(d) : (d \o r)[i] = d[i]
        /\ \A i \in 1 .. Len(d \o r) : i > Len(d) =>
             (d \o r)[i] = r[i - Len(d)] /\ i - Len(d) \in 1 .. Len(r)
        /\ \A y : Contains(d \o r, y) <=> Contains(d, y) \/ Contains(r, y)
        /\ Len(d) \in Nat /\ Len(r) \in Nat
    BY <2>1, <2>2, BothHave
  <2>6. \A i \in 1 .. Len(d \o r) : i > 1 \/ x.handle = None => (d \o r)[i].op = "drop"
    <3>1. TAKE i \in 1 .. Len(d \o r)
    <3>2. CASE i <= Len(d)
      BY <2>1, <2>5, <3>2
    <3>3. CASE i > Len(d)
      BY <2>2, <2>5, <3>3
    <3> QED
      BY <2>5, <3>2, <3>3
  <2>7. \A u \in Threads : \A i \in 2 .. Len(program'[u]) : program'[u][i].op = "drop"
    <3>1. TAKE u \in Threads
    <3>2. TAKE i \in 2 .. Len(program'[u])
    <3>3. Len(program'[u]) \in Nat
      BY <2>4
    <3>4. CASE u = t
      BY <2>4, <2>5, <2>6, <3>4
    <3>5. CASE u # t
      BY <1>2, <2>4, <3>3, <3>5
    <3> QED
      BY <3>4, <3>5
  <2>8. ASSUME NEW kind \in Kinds, NEW h \in Handles
        PROVE  Asks(program', t, kind, h) <=> Owns(entries, e, kind, h)
    <3>1. h # None
      BY ResourceAssumption
    <3>2. CASE x.handle = None
      <4>1. d \o r # <<>> => Head(d \o r) = (d \o r)[1] /\ 1 \in 1 .. Len(d \o r)
        BY <2>5
      <4>2. Defer(kind, h).op = "defer"
        BY DEF Defer
      <4> QED
        BY <2>4, <2>6, <3>1, <3>2, <4>1, <4>2 DEF Asks, Owns
    <3>3. CASE x.handle # None
      <4>1. d \o r # <<>> /\ Head(d \o r) = (d \o r)[1] /\ (d \o r)[1] = d[1]
        BY <2>1, <2>5, <3>3
      <4> QED
        BY <2>1, <2>4, <3>3, <4>1, OrdersAre DEF Asks, Owns
    <3> QED
      BY <3>2, <3>3
  <2>9. \A m \in Members(e) : Contains(program'[t], Drop(m))
    BY <2>1, <2>4, <2>5
  <2>10. ASSUME NEW f \in Entries, f \in Dropping(program')
         PROVE  f \in Dropping(rest) \cup Members(e)
    <3>2. Contains(d \o r, Drop(f)) <=> f \in Members(e) \/ Contains(rest[t], Drop(f))
      BY <2>1, <2>5 DEF r
    <3> QED
      BY <2>4, <2>10, <3>2 DEF Dropping
  <2>11. e \notin Dropping(program') \cup Roots
    BY <2>3, <2>10
  <2>12. Dropping(program') \subseteq Dropping(program) \cup Members(e)
    <3>1. Dropping(program') \subseteq Entries
      BY DEF Dropping
    <3> QED
      BY <1>2, <2>10, <3>1
  <2>13. \A u \in Threads \ {t} : ~Contains(program[u], Drop(e))
    BY <1>2, <2>3 DEF Dropping
  <2>14. \A u \in Threads \ {t} : program'[u] = program[u]
    BY <1>2, <2>4
  <2>15. \A kind \in Kinds, h \in Handles :
         /\ ~Asks(program, t, kind, h)
         /\ Asks(program', t, kind, h) <=> Owns(entries, e, kind, h)
    BY <1>6, <2>8
  <2>16. Frees(t, e)
    BY <1>8, <1>10, <2>3, <2>4, <2>7, <2>9, <2>11, <2>12, <2>13, <2>14, <2>15 DEF Frees
  <2> QED
    BY <2>16
<1> QED
  BY <1>5, <1>9, <1>10

\* What the entry owned is in the hands of its destructor.
LEMMA OwnedFreed ==
    ASSUME Typed, Owned, NEW t \in Threads, NEW e \in Entries, Frees(t, e), UNCHANGED device
    PROVE  Owned'
<1>1. OwnedBy(entries, program, queue, textures, materials, meshes)
  BY OwnedIs
<1>2. \A f \in Entries, kind \in Kinds, h \in Handles :
        Owns(entries', f, kind, h) <=> f # e /\ Owns(entries, f, kind, h)
  BY DEF Frees, Owns, Free, Typed, Kinds
<1>3. \A u \in Threads \ {t}, kind \in Kinds, h \in Handles :
        Asks(program', u, kind, h) <=> Asks(program, u, kind, h)
  BY DEF Frees, Asks
<1>4. \A kind \in Kinds, h \in Handles :
         /\ ~Asks(program, t, kind, h)
         /\ Asks(program', t, kind, h) <=> Owns(entries, e, kind, h)
  BY DEF Frees
<1> HIDE DEF Owns, Asks, There, Contains
<1>5. OwnedBy(entries', program', queue, textures, materials, meshes)
  BY <1>1, <1>2, <1>3, <1>4 DEF OwnedBy
<1> QED
  BY <1>5, OwnedIs DEF device

-----------------------------------------------------------------------------
(* Types.                                                                   *)

LEMMA FreeIs ==
    /\ Free \in Record /\ Free.kind = "free" /\ Free.handle = None
    /\ Free.base = None /\ Free.normal = None /\ Free.material = None
BY DEF Free, Record, Loads

LEMMA EntryIs ==
    ASSUME NEW kind \in Kinds, NEW key \in Paths, NEW load \in Loads,
           NEW handle \in Handles \cup {None}, NEW material \in Entries \cup {None}
    PROVE  LET x == Entry(kind, key, load, handle, material)
           IN  /\ x \in Record
               /\ x.kind = kind /\ x.key = key /\ x.load = load /\ x.handle = handle
               /\ x.base = None /\ x.normal = None /\ x.material = material
<1> DEFINE r == Free
<1>1. r \in Record /\ r.base = None /\ r.normal = None
  BY FreeIs
<1> HIDE DEF r
<1>2. Entry(kind, key, load, handle, material) =
        [r EXCEPT !.kind = kind, !.key = key, !.load = load, !.handle = handle,
                  !.material = material]
  BY DEF Entry, r
<1> QED
  BY <1>1, <1>2 DEF Record

\* An entry of the same kind, with the same key and the same object of the device.
Same(x, y) == y \in Record /\ y.kind = x.kind /\ y.key = x.key /\ y.handle = x.handle

LEMMA LoadIs ==
    ASSUME NEW x \in Record, NEW load \in Loads
    PROVE  LET y == [x EXCEPT !.load = load]
           IN  /\ Same(x, y) /\ y.load = load
               /\ y.base = x.base /\ y.normal = x.normal /\ y.material = x.material
BY DEF Record, Same

LEMMA HandleIs ==
    ASSUME NEW x \in Record, NEW h \in Handles
    PROVE  LET y == [x EXCEPT !.handle = h]
           IN  /\ y \in Record /\ y.kind = x.kind /\ y.key = x.key /\ y.handle = h /\ y.load = x.load
               /\ y.base = x.base /\ y.normal = x.normal /\ y.material = x.material
BY DEF Record

LEMMA WithIs ==
    ASSUME NEW x \in Record, NEW step \in {"base", "normal"}, NEW e \in Entries \cup {None}
    PROVE  LET y == With(x, step, e)
           IN  /\ Same(x, y) /\ y.load = x.load /\ y.material = x.material
               /\ y.base = IF step = "base" THEN e ELSE x.base
               /\ y.normal = IF step = "normal" THEN e ELSE x.normal
<1>1. CASE step = "base"
  BY <1>1 DEF Record, Same, With
<1>2. CASE step = "normal"
  BY <1>2 DEF Record, Same, With
<1> QED
  BY <1>1, <1>2

LEMMA RolledBack ==
    ASSUME NEW x \in Record
    PROVE  LET y == [x EXCEPT !.base = None, !.normal = None]
           IN  /\ Same(x, y) /\ y.load = x.load /\ y.material = x.material
               /\ y.base = None /\ y.normal = None
BY DEF Record, Same

LEMMA UnusedIs ==
    ASSUME HasEntry
    PROVE  Unused \in Entries /\ entries[Unused].kind = "free"
BY DEF HasEntry, Unused, OneOf, Live

LEMMA UnknownIs ==
    ASSUME NEW kind \in Kinds, NEW known, Unknown(kind, known) # {}
    PROVE  OneOf(Unknown(kind, known)) \in Handles \ known
BY DEF Unknown, OneOf

LEMMA ReleasedIs ==
    ASSUME Released # {}
    PROVE  CreateTexture \in Handles /\ textures[CreateTexture] = None
BY DEF Released, CreateTexture, OneOf

-----------------------------------------------------------------------------
(* Steps that leave entries, caches and device alone.                       *)

LEMMA HeldStays ==
    ASSUME Typed, TexturesHeld, NEW S, Quiet(S), UNCHANGED materials,
           \A n \in Handles : textures[n] # None => textures'[n] # None,
           \A x \in Live("texture") :
             entries'[x].kind = entries[x].kind /\ entries'[x].handle = entries[x].handle
    PROVE  TexturesHeld'
<1> SUFFICES ASSUME NEW h \in Handles, materials[h] # None, NEW n \in Bindings(h)
             PROVE  /\ textures'[n] # None
                    /\ \A t \in Threads : Asks(program', t, "material", h) =>
                         \E x \in Live("texture")' :
                           entries'[x].handle = n /\ Contains(program'[t], Drop(x))
  BY DEF TexturesHeld, Bindings
<1>1. textures'[n] # None
  <2>1. textures[n] # None
    BY DEF TexturesHeld
  <2>2. n \in Handles
    BY DEF Typed, Bound, Bindings
  <2> QED
    BY <2>1, <2>2
<1>2. ASSUME NEW t \in Threads, Asks(program', t, "material", h)
      PROVE  \E x \in Live("texture")' :
               entries'[x].handle = n /\ Contains(program'[t], Drop(x))
  <2>1. Asks(program, t, "material", h) /\ program'[t] = program[t]
    BY <1>2 DEF Quiet, Kinds
  <2>2. PICK x \in Live("texture") : entries[x].handle = n /\ Contains(program[t], Drop(x))
    BY <2>1 DEF TexturesHeld
  <2> QED
    BY <2>1, <2>2 DEF Live
<1> QED
  BY <1>1, <1>2

LEMMA QuietStep ==
    ASSUME ResourceInv, Typed', NEW S, Quiet(S), S \cap Live("free") = {},
           UNCHANGED <<entries, device>>,
           \A k \in Kinds : \A p \in Keys(k) :
             \/ cache'[k][p] = cache[k][p]
             \/ cache'[k][p] = None /\ (k = "mesh" \/ cache[k][p] = Expired),
           Roots' \cap Live("free") = {},
           ToSet(pending') \cup ToSet(batch') \subseteq Live("material"),
           pc' \notin {"base", "normal", "create"} \/ UNCHANGED <<pc, batch>>
    PROVE  ResourceInv'
<1> USE DEF ResourceInv
<1>1. Dropping(program)' = Dropping(program')
  BY DEF Dropping
<1>2. \A kind : Live(kind)' = Live(kind)
  BY DEF Live
<1>3. References'
  BY <1>1, <1>2 DEF References, Quiet
<1>4. DefersFirst'
  BY DEF DefersFirst, Quiet
<1>5. Owned'
  BY OwnedStays DEF Owns
<1>6. TexturesCached'
  <2>1. \A i \in Images : cache'["texture"][i] = cache["texture"][i]
                           \/ (cache'["texture"][i] = None /\ cache["texture"][i] = Expired)
    BY DEF Kinds, Keys
  <2> QED
    BY <1>2, <2>1, ResourceAssumption DEF TexturesCached, device, Live
<1>7. MaterialsUploaded'
  BY <1>2 DEF MaterialsUploaded, device, HandleOf, First
<1>8. TexturesHeld'
  BY HeldStays DEF device
<1> QED
  BY <1>3, <1>4, <1>5, <1>6, <1>7, <1>8

LEMMA RootsAre ==
    /\ Roots = scene \cup staged \cup seen \cup ToSet(batch) \cup ToSet(pending)
    /\ Roots' = scene' \cup staged' \cup seen' \cup ToSet(batch') \cup ToSet(pending')
BY DEF Roots

\* Sequences of entries.
LEMMA ToSetIs ==
    ASSUME NEW s \in Seq(Entries)
    PROVE  /\ ToSet(s) \subseteq Entries /\ ToSet(<<>>) = {}
           /\ \A e \in Entries : Append(s, e) \in Seq(Entries) /\ ToSet(Append(s, e)) = ToSet(s) \cup {e}
           /\ s # <<>> => /\ Head(s) \in ToSet(s) /\ Tail(s) \in Seq(Entries)
                          /\ ToSet(Tail(s)) \subseteq ToSet(s)
<1>1. ToSet(s) \subseteq Entries /\ ToSet(<<>>) = {}
  BY DEF ToSet
<1>2. ASSUME NEW e \in Entries
      PROVE  Append(s, e) \in Seq(Entries) /\ ToSet(Append(s, e)) = ToSet(s) \cup {e}
  <2>1. /\ Append(s, e) \in Seq(Entries) /\ Len(Append(s, e)) = Len(s) + 1 /\ Len(s) \in Nat
        /\ \A i \in 1 .. Len(s) : Append(s, e)[i] = s[i]
        /\ Append(s, e)[Len(s) + 1] = e
        /\ DOMAIN s = 1 .. Len(s) /\ DOMAIN Append(s, e) = 1 .. Len(s) + 1
    OBVIOUS
  <2>2. ToSet(Append(s, e)) \subseteq ToSet(s) \cup {e}
    BY <2>1 DEF ToSet
  <2>3. ToSet(s) \subseteq ToSet(Append(s, e))
    BY <2>1 DEF ToSet
  <2>4. e \in ToSet(Append(s, e))
    <3>1. Len(s) + 1 \in DOMAIN Append(s, e)
      BY <2>1
    <3> QED
      BY <2>1, <3>1 DEF ToSet
  <2> QED
    BY <2>1, <2>2, <2>3, <2>4
<1>3. ASSUME s # <<>>
      PROVE  Head(s) \in ToSet(s) /\ Tail(s) \in Seq(Entries) /\ ToSet(Tail(s)) \subseteq ToSet(s)
  <2>1. /\ Head(s) = s[1] /\ Tail(s) \in Seq(Entries) /\ Len(Tail(s)) = Len(s) - 1
        /\ \A i \in 1 .. Len(Tail(s)) : Tail(s)[i] = s[i + 1] /\ i + 1 \in 1 .. Len(s)
        /\ DOMAIN s = 1 .. Len(s) /\ DOMAIN Tail(s) = 1 .. Len(Tail(s))
        /\ 1 \in 1 .. Len(s)
    BY <1>3
  <2> QED
    BY <2>1 DEF ToSet
<1> QED
  BY <1>1, <1>2, <1>3

LEMMA MainOrLoader == "main" \in Threads /\ "loader" \in Threads
BY DEF Threads

\* Nobody makes anything: the queue of uploads, the scenes that change hands, the menu.
LEMMA QuietActions ==
    ASSUME ResourceInv,
           \/ Drain \/ Requeue \/ BatchDone \/ UpdateSceneLoad \/ Menu \/ WaitForLoader
           \/ DestroyScene \/ LoaderEnds
           \/ (At("dirty") /\ pc' = "swap"
                /\ UNCHANGED <<entries, cache, pending, device, program, batch, seen, opening,
                               sceneVars>>)
    PROVE  ResourceInv'
<1> USE DEF ResourceInv
<1>1. /\ pending \in Seq(Entries) /\ batch \in Seq(Entries)
      /\ scene \cup staged \cup seen \subseteq Entries
      /\ Roots \subseteq Entries /\ Roots \cap Live("free") = {}
      /\ ToSet(pending) \cup ToSet(batch) \subseteq Live("material")
  BY ToSetIs, RootsAre DEF Typed, References
<1>2. CASE Drain
  <2>1. Quiet({})
    BY <1>2, StaysQuiet DEF Drain
  <2>2. pending' = <<>> /\ batch' = pending /\ UNCHANGED <<entries, cache, device, seen, opening, sceneVars, program>>
        /\ pc' = "look"
    BY <1>2 DEF Drain
  <2>3. Typed'
    BY <2>2 DEF Typed, device, sceneVars
  <2>4. Roots' \cap Live("free") = {} /\ ToSet(pending') \cup ToSet(batch') \subseteq Live("material")
    BY <1>1, <2>2, RootsAre, ToSetIs DEF sceneVars
  <2> QED
    BY <2>1, <2>2, <2>3, <2>4, QuietStep
<1>3. CASE Requeue
  <2>1. Quiet({})
    BY <1>3, StaysQuiet DEF Requeue
  <2>2. /\ pending' = Append(pending, Head(batch)) /\ batch' = Tail(batch) /\ batch # <<>> /\ pc = "look"
        /\ UNCHANGED <<entries, cache, device, program, pc, seen, opening, sceneVars>>
    BY <1>3 DEF Requeue, Looks, First, At
  <2>3. /\ Head(batch) \in ToSet(batch) /\ Head(batch) \in Entries
        /\ pending' \in Seq(Entries) /\ batch' \in Seq(Entries)
        /\ ToSet(pending') = ToSet(pending) \cup {Head(batch)} /\ ToSet(batch') \subseteq ToSet(batch)
    BY <1>1, <2>2, ToSetIs
  <2>4. Typed'
    BY <2>2, <2>3 DEF Typed, device, sceneVars
  <2>5. Roots' \cap Live("free") = {} /\ ToSet(pending') \cup ToSet(batch') \subseteq Live("material")
    BY <1>1, <2>2, <2>3, RootsAre DEF sceneVars
  <2>6. pc' \notin {"base", "normal", "create"}
    BY <2>2
  <2> QED
    BY <2>1, <2>2, <2>4, <2>5, <2>6, QuietStep
<1>4. CASE \/ Menu
           \/ (At("dirty") /\ pc' = "swap"
                /\ UNCHANGED <<entries, cache, pending, device, program, batch, seen, opening,
                               sceneVars>>)
  <2>1. Quiet({})
    BY <1>4, StaysQuiet DEF Menu
  <2>2. /\ UNCHANGED <<entries, cache, pending, device, program, batch, seen, sceneVars>>
        /\ opening' \in BOOLEAN /\ pc' \in {"deletions", "destroy", "wait", "swap"}
    BY <1>4 DEF Menu, Typed
  <2>3. Typed'
    BY <2>2 DEF Typed, device, sceneVars
  <2>4. Roots' \cap Live("free") = {} /\ ToSet(pending') \cup ToSet(batch') \subseteq Live("material")
    BY <1>1, <2>2, RootsAre DEF sceneVars
  <2> QED
    BY <2>1, <2>2, <2>3, <2>4, QuietStep
<1>5. ASSUME NEW t \in Threads, NEW S, S \subseteq Roots, Idle(t), Releases(t, S),
             UNCHANGED <<entries, cache, pending, device, batch>>,
             seen' \cup scene' \cup staged' \subseteq Roots, seen' \cup scene' \cup staged' \subseteq Entries,
             loader' \in {"none", "loading", "ready"}, opening' = opening,
             pc' \in {"dirty", "menu", "destroy", "prune"} \/ UNCHANGED pc
      PROVE  ResourceInv'
  <2>1. Quiet(S)
    BY <1>1, <1>5, ReleasesQuietly
  <2>2. Typed'
    BY <1>5, <2>1 DEF Typed, device, Quiet
  <2>3. Roots' \cap Live("free") = {} /\ ToSet(pending') \cup ToSet(batch') \subseteq Live("material")
    BY <1>1, <1>5, RootsAre
  <2>4. S \cap Live("free") = {}
    BY <1>1, <1>5
  <2> QED
    BY <1>5, <2>1, <2>2, <2>3, <2>4, QuietStep
<1>6. CASE BatchDone
  <2>1. seen \subseteq Roots /\ scene \cup staged \subseteq Roots
    BY RootsAre
  <2> QED
    BY <1>1, <1>5, <1>6, <2>1, MainOrLoader DEF BatchDone, At, sceneVars, Typed
<1>7. CASE UpdateSceneLoad
  <2>1. seen \subseteq Roots /\ scene \cup staged \subseteq Roots
    BY RootsAre
  <2>2. CASE loader = "ready"
    BY <1>1, <1>5, <1>7, <2>1, <2>2, MainOrLoader DEF UpdateSceneLoad, At, sceneVars, Typed
  <2>3. CASE loader # "ready"
    <3>1. UNCHANGED <<entries, cache, pending, device, program, batch, seen, opening, sceneVars>> /\ pc' = "menu"
      BY <1>7, <2>3 DEF UpdateSceneLoad
    <3>2. Quiet({})
      BY <3>1, StaysQuiet
    <3>3. Typed'
      BY <3>1 DEF Typed, device, sceneVars
    <3>4. Roots' \cap Live("free") = {} /\ ToSet(pending') \cup ToSet(batch') \subseteq Live("material")
      BY <1>1, <3>1, RootsAre DEF sceneVars
    <3> QED
      BY <3>1, <3>2, <3>3, <3>4, QuietStep
  <2> QED
    BY <2>2, <2>3
<1>8. CASE WaitForLoader
  <2>1. seen \subseteq Roots /\ scene \cup staged \subseteq Roots
    BY RootsAre
  <2> QED
    BY <1>1, <1>5, <1>8, <2>1, MainOrLoader DEF WaitForLoader, At, sceneVars, Typed
<1>9. CASE DestroyScene
  <2>1. seen \subseteq Roots /\ scene \cup staged \subseteq Roots
    BY RootsAre
  <2> QED
    BY <1>1, <1>5, <1>9, <2>1, MainOrLoader DEF DestroyScene, At, sceneVars, Typed
<1>10. CASE LoaderEnds
  <2>1. seen \subseteq Roots /\ scene \cup staged \subseteq Roots
    BY RootsAre
  <2>2. CASE loader' = "none" /\ staged' = {} /\ Releases("loader", staged)
    BY <1>1, <1>5, <1>10, <2>1, <2>2, MainOrLoader DEF LoaderEnds, sceneVars, Typed
  <2>3. CASE loader' = "ready" /\ UNCHANGED <<staged, program>>
    <3>1. UNCHANGED <<entries, cache, pending, device, program, pc, batch, seen, opening, scene, staged>>
      BY <1>10, <2>3 DEF LoaderEnds
    <3>2. Quiet({})
      BY <3>1, StaysQuiet
    <3>3. Typed'
      BY <2>3, <3>1 DEF Typed, device, sceneVars
    <3>4. Roots' \cap Live("free") = {} /\ ToSet(pending') \cup ToSet(batch') \subseteq Live("material")
      BY <1>1, <3>1, RootsAre
    <3> QED
      BY <3>1, <3>2, <3>3, <3>4, QuietStep
  <2> QED
    BY <1>10, <2>2, <2>3 DEF LoaderEnds
<1> QED
  BY <1>2, <1>3, <1>4, <1>6, <1>7, <1>8, <1>9, <1>10

LEMMA PruneStep ==
    ASSUME ResourceInv, Prune
    PROVE  ResourceInv'
<1>1. Typed /\ DefersFirst /\ References
  BY DEF ResourceInv
<1>2. /\ UNCHANGED <<entries, pending, device, program, batch, seen, scene, staged>>
      /\ cache' = [k \in Kinds |-> [p \in Keys(k) |->
                     IF k = "mesh" \/ cache[k][p] = Expired THEN None ELSE cache[k][p]]]
      /\ loader' \in {loader, "loading"} /\ opening' = FALSE /\ pc' = "deletions"
  BY DEF Prune
<1>3. \A k \in Kinds : \A p \in Keys(k) :
         \/ cache'[k][p] = cache[k][p]
         \/ cache'[k][p] = None /\ (k = "mesh" \/ cache[k][p] = Expired)
  BY <1>2
<1>4. Typed'
  BY <1>1, <1>2 DEF Typed, device
<1>5. Quiet({})
  BY <1>1, <1>2, StaysQuiet
<1>6. Roots' \cap Live("free") = {} /\ ToSet(pending') \cup ToSet(batch') \subseteq Live("material")
  BY <1>1, <1>2, RootsAre DEF References
<1> QED
  BY <1>2, <1>3, <1>4, <1>5, <1>6, QuietStep

-----------------------------------------------------------------------------
(* Steps that change an entry, and not what it is or owns.                  *)

\* MaterialsUploaded, with what it depends on.
Number(es, e) == IF e = None THEN None ELSE es[e].handle

Uploaded(es, ms, e) ==
    /\ es[e].base # None => es[es[e].base].key = BaseOf[es[e].key]
    /\ es[e].normal # None => es[es[e].normal].key = NormalOf[es[e].key]
    /\ es[e].handle # None =>
         /\ es[e].load = "taken"
         /\ ms[es[e].handle] = [base |-> Number(es, es[e].base), normal |-> Number(es, es[e].normal)]

Uploading(es, b, p) ==
    p \in {"base", "normal", "create"} =>
      b # <<>> /\ es[Head(b)].load = "taken" /\ es[Head(b)].handle = None

LEMMA UploadedIs ==
    /\ MaterialsUploaded <=> /\ \A e \in Entries : entries[e].kind = "material" =>
                                                    Uploaded(entries, materials, e)
                             /\ Uploading(entries, batch, pc)
    /\ MaterialsUploaded' <=> /\ \A e \in Entries : entries'[e].kind = "material" =>
                                                     Uploaded(entries', materials', e)
                              /\ Uploading(entries', batch', pc')
BY DEF MaterialsUploaded, Uploaded, Uploading, Number, HandleOf, First, Live

LEMMA EntryStep ==
    ASSUME ResourceInv, Typed', NEW e \in Entries, NEW y, Same(entries[e], y),
           entries' = [entries EXCEPT ![e] = y],
           NEW S, Quiet(S), S \cap Live("free") = {}, UNCHANGED device,
           {y.base, y.normal} \subseteq Live("texture") \cup {None},
           y.material = entries[e].material,
           Roots' \cap Live("free") = {},
           ToSet(pending') \cup ToSet(batch') \subseteq Live("material"),
           \A k \in Kinds : \A p \in Keys(k) :
             cache'[k][p] = cache[k][p] \/ (cache'[k][p] = None /\ cache[k][p] \notin Entries),
           entries[e].kind = "material" =>
             /\ entries[e].handle = None
             /\ y.base # None => entries[y.base].key = BaseOf[y.key]
             /\ y.normal # None => entries[y.normal].key = NormalOf[y.key],
           pc' \in {"base", "normal", "create"} =>
             /\ batch' # <<>> /\ Head(batch') \in Entries
             /\ entries'[Head(batch')].load = "taken" /\ entries'[Head(batch')].handle = None
    PROVE  ResourceInv'
<1> USE DEF ResourceInv
<1>1. Dropping(program)' = Dropping(program')
  BY DEF Dropping
<1>2. /\ entries'[e] = y /\ \A f \in Entries \ {e} : entries'[f] = entries[f]
      /\ \A f \in Entries : /\ entries'[f].kind = entries[f].kind
                            /\ entries'[f].key = entries[f].key
                            /\ entries'[f].handle = entries[f].handle
                            /\ entries'[f].material = entries[f].material
  BY DEF Same, Typed
<1>3. \A kind : Live(kind)' = Live(kind)
  BY <1>2 DEF Live
<1>4. References'
  <2>1. \A f \in Entries :
         /\ {entries'[f].base, entries'[f].normal} \subseteq Live("texture") \cup {None}
         /\ entries'[f].material \in Live("material") \cup {None}
    BY <1>2 DEF References
  <2>2. \A k \in Kinds : \A p \in Keys(k) : cache'[k][p] \in Live(k) \cup {None, Expired}
    BY DEF References
  <2>3. (Roots' \cup Dropping(program')) \cap Live("free") = {}
    BY DEF References, Quiet
  <2> QED
    BY <1>1, <1>3, <2>1, <2>2, <2>3 DEF References
<1>5. DefersFirst'
  BY DEF DefersFirst, Quiet
<1>6. Owned'
  BY <1>2, OwnedStays DEF Owns
<1>7. TexturesCached'
  <2>1. UNCHANGED textures
    BY DEF device
  <2>2. \A i \in Images : cache'["texture"][i] = cache["texture"][i]
                           \/ (cache'["texture"][i] = None /\ cache["texture"][i] \notin Entries)
    BY DEF Kinds, Keys
  <2>3. \A x \in Live("texture") :
         /\ entries'[x].key \in Images
         /\ cache'["texture"][entries'[x].key] = x
         /\ \A h \in Handles : entries'[x].handle = h => textures'[h] = entries'[x].key
    BY <1>2, <2>1, <2>2 DEF TexturesCached, Live
  <2>4. \A i \in Images :
         cache'["texture"][i] \in Entries => entries'[cache'["texture"][i]].key = i
    BY <1>2, <2>2, ResourceAssumption DEF TexturesCached
  <2> QED
    BY <1>3, <2>3, <2>4 DEF TexturesCached
<1>8. MaterialsUploaded'
  <2>1. UNCHANGED materials
    BY DEF device
  <2>2. \A f \in Entries \cup {None} : Number(entries', f) = Number(entries, f)
    BY <1>2, ResourceAssumption DEF Number
  <2>3. ASSUME NEW f \in Entries, entries[f].kind = "material"
        PROVE  Uploaded(entries', materials', f)
    <3>1. CASE f = e
      <4>1. y.handle = None /\ y.base \in Entries \cup {None} /\ y.normal \in Entries \cup {None}
        BY <2>3, <3>1 DEF Same, Record
      <4> QED
        BY <1>2, <2>3, <3>1, <4>1 DEF Uploaded
    <3>2. CASE f # e
      <4>1. /\ entries'[f] = entries[f] /\ entries[f].base \in Entries \cup {None}
            /\ entries[f].normal \in Entries \cup {None}
        BY <1>2, <3>2 DEF Typed, Record
      <4>2. Uploaded(entries, materials, f)
        BY <2>3, UploadedIs
      <4> QED
        BY <1>2, <2>1, <2>2, <4>1, <4>2 DEF Uploaded
    <3> QED
      BY <3>1, <3>2
  <2>4. Uploading(entries', batch', pc')
    BY DEF Uploading
  <2> QED
    BY <1>2, <2>3, <2>4, UploadedIs
<1>9. TexturesHeld'
  BY <1>2, HeldStays DEF device, Live
<1> QED
  BY <1>4, <1>5, <1>6, <1>7, <1>8, <1>9

\* The entry that is looked at, and what refers to entries once it has been.
LEMMA LookedAt ==
    ASSUME ResourceInv, NEW step, Looks(step)
    PROVE  /\ batch # <<>> /\ pc = step /\ Idle("main") /\ UNCHANGED <<opening, scene, loader, staged>>
           /\ First = Head(batch) /\ First \in Entries /\ entries[First].kind = "material"
           /\ Roots \cap Live("free") = {} /\ ToSet(pending) \cup ToSet(batch) \subseteq Live("material")
           /\ NextEntry /\ UNCHANGED pending =>
                /\ batch' \in Seq(Entries) /\ seen' \subseteq Entries /\ pc' = "look"
                /\ ToSet(pending') \cup ToSet(batch') \subseteq Live("material")
                /\ Roots' \cap Live("free") = {}
<1> USE DEF ResourceInv
<1>1. /\ batch # <<>> /\ pc = step /\ Idle("main") /\ UNCHANGED <<opening, scene, loader, staged>>
      /\ First = Head(batch) /\ batch \in Seq(Entries) /\ seen \subseteq Entries
  BY DEF Looks, At, sceneVars, First, Typed
<1>2. First \in ToSet(batch) /\ Tail(batch) \in Seq(Entries) /\ ToSet(Tail(batch)) \subseteq ToSet(batch)
  BY <1>1, ToSetIs
<1>3. Roots \cap Live("free") = {} /\ ToSet(pending) \cup ToSet(batch) \subseteq Live("material")
  BY DEF References
<1>4. First \in Entries /\ entries[First].kind = "material"
  BY <1>2, <1>3 DEF Live
<1>5. ASSUME NextEntry, UNCHANGED pending
      PROVE  /\ batch' \in Seq(Entries) /\ seen' \subseteq Entries /\ pc' = "look"
             /\ ToSet(pending') \cup ToSet(batch') \subseteq Live("material")
             /\ Roots' \cap Live("free") = {}
  BY <1>1, <1>2, <1>3, <1>4, <1>5, RootsAre DEF NextEntry
<1> QED
  BY <1>1, <1>3, <1>4, <1>5

\* A load ends, and its result is taken.
LEMMA LoadActions ==
    ASSUME ResourceInv,
           FinalizeThrows \/ FinalizeMaterial \/ \E e \in Entries : LoadEnds(e)
    PROVE  ResourceInv'
<1>1. Typed /\ DefersFirst /\ References /\ MaterialsUploaded
  BY DEF ResourceInv
<1>2. PICK e \in Entries, load \in Loads :
         /\ entries' = [entries EXCEPT ![e].load = load]
         /\ UNCHANGED <<cache, pending, device, program, opening, sceneVars>>
         /\ batch' \in Seq(Entries) /\ seen' \subseteq Entries
         /\ ToSet(pending') \cup ToSet(batch') \subseteq Live("material")
         /\ Roots' \cap Live("free") = {}
         /\ entries[e].kind = "material" => entries[e].handle = None
         /\ pc' = "look" \/ (pc' = "base" /\ batch' # <<>> /\ Head(batch') = e /\ load = "taken" /\ entries[e].handle = None)
            \/ (entries[e].load = "loading" /\ UNCHANGED <<pc, batch>>)
  <2>0. \A f \in Entries : entries[f].kind = "material" /\ entries[f].load # "taken" => entries[f].handle = None
    BY <1>1 DEF MaterialsUploaded, Live
  <2>1. CASE FinalizeThrows
    <3>1. Looks("look") /\ NextEntry /\ entries[First].load = "error"
          /\ entries' = [entries EXCEPT ![First].load = "taken"]
          /\ UNCHANGED <<cache, pending, device, program>>
      BY <2>1 DEF FinalizeThrows
    <3>2. "taken" \in Loads
      BY DEF Loads
    <3> QED
      BY <2>0, <3>1, <3>2, LookedAt DEF sceneVars
  <2>2. CASE FinalizeMaterial
    <3>1. Looks("look") /\ entries[First].load = "value" /\ pc' = "base"
          /\ entries' = [entries EXCEPT ![First].load = "taken"]
          /\ UNCHANGED <<cache, pending, device, program, batch, seen>>
      BY <2>2 DEF FinalizeMaterial
    <3>2. "taken" \in Loads
      BY DEF Loads
    <3>3. /\ batch # <<>> /\ First = Head(batch) /\ First \in Entries /\ entries[First].kind = "material"
          /\ UNCHANGED <<opening, scene, loader, staged>>
          /\ Roots \cap Live("free") = {} /\ ToSet(pending) \cup ToSet(batch) \subseteq Live("material")
      BY <3>1, LookedAt
    <3>4. Roots' = Roots
      BY <3>1, <3>3, RootsAre
    <3> QED
      BY <1>1, <2>0, <3>1, <3>2, <3>3, <3>4 DEF sceneVars, Typed
  <2>3. ASSUME NEW f \in Entries, LoadEnds(f)
        PROVE  \E e \in Entries, load \in Loads :
         /\ entries' = [entries EXCEPT ![e].load = load]
         /\ UNCHANGED <<cache, pending, device, program, opening, sceneVars>>
         /\ batch' \in Seq(Entries) /\ seen' \subseteq Entries
         /\ ToSet(pending') \cup ToSet(batch') \subseteq Live("material")
         /\ Roots' \cap Live("free") = {}
         /\ entries[e].kind = "material" => entries[e].handle = None
         /\ entries[e].load = "loading" /\ UNCHANGED <<pc, batch>>
    <3>1. /\ entries[f].load = "loading"
          /\ UNCHANGED <<cache, pending, device, program, pc, batch, seen, opening, sceneVars>>
      BY <2>3 DEF LoadEnds
    <3>2. PICK load \in Loads : entries' = [entries EXCEPT ![f].load = load]
      BY <2>3 DEF LoadEnds, Loads
    <3>3. Roots' = Roots
      BY <3>1, RootsAre DEF sceneVars
    <3> QED
      BY <1>1, <2>0, <3>1, <3>2, <3>3 DEF Typed, References
  <2> QED
    BY <2>1, <2>2, <2>3
<1> DEFINE y == [entries[e] EXCEPT !.load = load]
<1>3. /\ Same(entries[e], y) /\ y.load = load
      /\ y.base = entries[e].base /\ y.normal = entries[e].normal /\ y.material = entries[e].material
  BY <1>1, LoadIs DEF Typed
<1>4. entries' = [entries EXCEPT ![e] = y]
  BY <1>2
<1> HIDE DEF y
<1>5. Typed'
  BY <1>1, <1>2, <1>3, <1>4 DEF Typed, Same, device, sceneVars
<1>6. Quiet({})
  BY <1>1, <1>2, StaysQuiet
<1>7. /\ {y.base, y.normal} \subseteq Live("texture") \cup {None}
  BY <1>1, <1>3 DEF References
<1>8. /\ \A k \in Kinds : \A p \in Keys(k) : cache'[k][p] = cache[k][p]
      /\ UNCHANGED device /\ Roots' \cap Live("free") = {}
      /\ ToSet(pending') \cup ToSet(batch') \subseteq Live("material")
  BY <1>2
<1>9. entries[e].kind = "material" =>
        /\ entries[e].handle = None
        /\ y.base # None => entries[y.base].key = BaseOf[y.key]
        /\ y.normal # None => entries[y.normal].key = NormalOf[y.key]
  BY <1>1, <1>2, <1>3 DEF MaterialsUploaded, Live, Same
<1>10. pc' \in {"base", "normal", "create"} =>
         /\ batch' # <<>> /\ Head(batch') \in Entries
         /\ entries'[Head(batch')].load = "taken" /\ entries'[Head(batch')].handle = None
  <2>1. CASE pc' = "look"
    BY <2>1
  <2>2. CASE pc' = "base" /\ batch' # <<>> /\ Head(batch') = e /\ load = "taken" /\ entries[e].handle = None
    BY <1>1, <1>3, <1>4, <2>2 DEF Same, Typed
  <2>3. CASE entries[e].load = "loading" /\ UNCHANGED <<pc, batch>>
    <3>1. SUFFICES ASSUME pc \in {"base", "normal", "create"}
                   PROVE  /\ batch # <<>> /\ Head(batch) \in Entries
                          /\ entries'[Head(batch)].load = "taken" /\ entries'[Head(batch)].handle = None
      BY <2>3
    <3>2. batch # <<>> /\ entries[Head(batch)].load = "taken" /\ entries[Head(batch)].handle = None
      BY <1>1, <3>1 DEF MaterialsUploaded, First
    <3>3. Head(batch) \in Entries
      BY <1>1, <3>2 DEF Typed
    <3> QED
      BY <1>1, <1>4, <2>3, <3>2, <3>3 DEF Typed
  <2> QED
    BY <1>2, <2>1, <2>2, <2>3
<1> QED
  <2> HIDE DEF ResourceInv
  <2>1. {} \cap Live("free") = {}
    OBVIOUS
  <2> QED
    BY <1>3, <1>4, <1>5, <1>6, <1>7, <1>8, <1>9, <1>10, <2>1, EntryStep

\* A step of finalize() for an image of the material.
Uploads(m, step, image, next) ==
    /\ m \in MaterialPaths /\ entries[First].key = m
    /\ \/ step = "base" /\ image = BaseOf[m] /\ next = "normal"
       \/ step = "normal" /\ image = NormalOf[m] /\ next = "create"

LEMMA UploadsAre ==
    ASSUME ResourceInv, NEW m, NEW step, NEW image, NEW next, Uploads(m, step, image, next), Looks(step)
    PROVE  /\ step \in {"base", "normal"} /\ image \in Images \cup {None} /\ next \in {"normal", "create"}
           /\ First = Head(batch) /\ First \in Entries /\ entries[First].kind = "material"
           /\ entries[First] \in Record /\ entries[First].handle = None /\ entries[First].load = "taken"
<1>1. step \in {"base", "normal"} /\ next \in {"normal", "create"} /\ image \in Images \cup {None}
  BY ResourceAssumption DEF Uploads
<1>2. First = Head(batch) /\ First \in Entries /\ entries[First].kind = "material" /\ pc = step
  BY LookedAt
<1>3. /\ entries[First] \in Record /\ entries[First].handle = None /\ entries[First].load = "taken"
  BY <1>1, <1>2 DEF ResourceInv, MaterialsUploaded, Typed, Live
<1> QED
  BY <1>1, <1>2, <1>3

\* The entry gets the image that its material has.
LEMMA UploadsItsOwn ==
    ASSUME ResourceInv, NEW m, NEW step, NEW image, NEW next, Uploads(m, step, image, next), Looks(step),
           NEW t \in Entries, NEW y \in Record, Same(entries[First], y), entries[t].key = image,
           y.base = (IF step = "base" THEN t ELSE entries[First].base),
           y.normal = (IF step = "normal" THEN t ELSE entries[First].normal)
    PROVE  /\ y.base # None => entries[y.base].key = BaseOf[y.key]
           /\ y.normal # None => entries[y.normal].key = NormalOf[y.key]
<1>1. First \in Entries /\ entries[First].kind = "material" /\ y.key = m
  BY UploadsAre DEF Uploads, Same
<1>2. /\ entries[First].base # None => entries[entries[First].base].key = BaseOf[m]
      /\ entries[First].normal # None => entries[entries[First].normal].key = NormalOf[m]
  BY <1>1 DEF ResourceInv, MaterialsUploaded, Live, Uploads
<1>3. CASE step = "base" /\ image = BaseOf[m]
  BY <1>1, <1>2, <1>3
<1>4. CASE step = "normal" /\ image = NormalOf[m]
  BY <1>1, <1>2, <1>4
<1> QED
  BY <1>3, <1>4 DEF Uploads

LEMMA TextureWasFound ==
    ASSUME ResourceInv, NEW m, NEW step, NEW image, NEW next, Uploads(m, step, image, next),
           TextureFound(step, image, next)
    PROVE  ResourceInv'
<1>1. Typed /\ DefersFirst /\ References /\ TexturesCached
  BY DEF ResourceInv
<1>2. /\ Looks(step) /\ pc' = next /\ UNCHANGED <<cache, pending, device, program, batch, seen>>
      /\ \/ image = None /\ UNCHANGED entries
         \/ /\ image # None /\ cache["texture"][image] \in Entries
            /\ entries' = [entries EXCEPT ![First] = With(entries[First], step, cache["texture"][image])]
  BY DEF TextureFound, Lock
<1>3. /\ step \in {"base", "normal"} /\ image \in Images \cup {None} /\ next \in {"normal", "create"}
      /\ First = Head(batch) /\ First \in Entries /\ entries[First].kind = "material"
      /\ entries[First] \in Record /\ entries[First].handle = None /\ entries[First].load = "taken"
  BY <1>2, UploadsAre
<1>4. /\ batch # <<>> /\ UNCHANGED <<opening, scene, loader, staged>>
      /\ Roots \cap Live("free") = {} /\ ToSet(pending) \cup ToSet(batch) \subseteq Live("material")
  BY <1>2, LookedAt
<1>5. Roots' = Roots
  BY <1>2, <1>4, RootsAre
<1>6. {entries[First].base, entries[First].normal} \subseteq Live("texture") \cup {None}
  BY <1>1, <1>3 DEF References
<1>7. PICK y : /\ Same(entries[First], y) /\ y.load = "taken" /\ y.material = entries[First].material
               /\ entries' = [entries EXCEPT ![First] = y]
               /\ {y.base, y.normal} \subseteq Live("texture") \cup {None}
               /\ y.base # None => entries[y.base].key = BaseOf[y.key]
               /\ y.normal # None => entries[y.normal].key = NormalOf[y.key]
  <2>1. CASE image = None /\ UNCHANGED entries
    <3>1. Same(entries[First], entries[First])
      BY <1>3 DEF Same
    <3>2. entries' = [entries EXCEPT ![First] = entries[First]]
      BY <1>1, <2>1 DEF Typed
    <3>3. /\ entries[First].base # None => entries[entries[First].base].key = BaseOf[entries[First].key]
          /\ entries[First].normal # None => entries[entries[First].normal].key = NormalOf[entries[First].key]
      BY <1>3 DEF ResourceInv, MaterialsUploaded, Live
    <3> QED
      BY <1>3, <1>6, <3>1, <3>2, <3>3
  <2>2. CASE /\ image # None /\ cache["texture"][image] \in Entries
             /\ entries' = [entries EXCEPT ![First] = With(entries[First], step, cache["texture"][image])]
    <3> DEFINE t == cache["texture"][image]
               y == With(entries[First], step, t)
    <3>1. t \in Live("texture") /\ entries[t].key = image /\ t \in Entries
      BY <1>1, <1>3, <2>2, ResourceAssumption DEF References, TexturesCached, Kinds, Keys
    <3>2. /\ Same(entries[First], y) /\ y.load = entries[First].load /\ y.material = entries[First].material
          /\ y.base = IF step = "base" THEN t ELSE entries[First].base
          /\ y.normal = IF step = "normal" THEN t ELSE entries[First].normal
      <4> HIDE DEF t
      <4> QED
        BY <1>3, <3>1, WithIs
    <3> HIDE DEF y, t
    <3>3. {y.base, y.normal} \subseteq Live("texture") \cup {None}
      BY <1>6, <3>1, <3>2
    <3>4. /\ y.base # None => entries[y.base].key = BaseOf[y.key]
          /\ y.normal # None => entries[y.normal].key = NormalOf[y.key]
      BY <1>2, <3>1, <3>2, UploadsItsOwn DEF Same
    <3>5. entries' = [entries EXCEPT ![First] = y]
      BY <2>2 DEF y, t
    <3> QED
      BY <1>3, <3>2, <3>3, <3>4, <3>5
  <2> QED
    BY <1>2, <2>1, <2>2
<1>8. Typed'
  BY <1>1, <1>2, <1>3, <1>4, <1>7 DEF Typed, Same, device
<1>9. Quiet({})
  BY <1>1, <1>2, StaysQuiet
<1>10. /\ \A k \in Kinds : \A p \in Keys(k) : cache'[k][p] = cache[k][p]
       /\ UNCHANGED <<device, pending, batch>>
  BY <1>2
<1>11. entries'[First] = y
  BY <1>1, <1>3, <1>7 DEF Typed
<1>12. /\ batch' # <<>> /\ Head(batch') \in Entries
       /\ entries'[Head(batch')].load = "taken" /\ entries'[Head(batch')].handle = None
  BY <1>3, <1>4, <1>7, <1>10, <1>11 DEF Same
<1>13. {} \cap Live("free") = {}
  OBVIOUS
<1> QED
  BY <1>3, <1>4, <1>5, <1>7, <1>8, <1>9, <1>10, <1>12, <1>13, EntryStep

LEMMA TextureWasRefused ==
    ASSUME ResourceInv, NEW m, NEW step, NEW image, NEW next, Uploads(m, step, image, next),
           TextureRefused(step, image)
    PROVE  ResourceInv'
<1> DEFINE x == entries[First]
           y == [x EXCEPT !.base = None, !.normal = None]
           S == {x.base, x.normal} \ {None}
<1>1. Typed /\ DefersFirst /\ References /\ TexturesCached
  BY DEF ResourceInv
<1>2. /\ Looks(step) /\ image \in Images /\ cache["texture"][image] \notin Entries
      /\ entries' = [entries EXCEPT ![First] = y] /\ Releases("main", S)
      /\ cache' = [cache EXCEPT !["texture"][image] = None]
      /\ NextEntry /\ UNCHANGED <<pending, device>>
  BY ResourceAssumption DEF TextureRefused, Lock
<1>3. First \in Entries /\ x.kind = "material" /\ x \in Record /\ x.handle = None
  BY <1>2, UploadsAre
<1>4. /\ Idle("main") /\ UNCHANGED <<opening, scene, loader, staged>>
      /\ batch' \in Seq(Entries) /\ seen' \subseteq Entries /\ pc' = "look"
      /\ ToSet(pending') \cup ToSet(batch') \subseteq Live("material")
      /\ Roots' \cap Live("free") = {}
  BY <1>2, LookedAt
<1>5. /\ Same(x, y) /\ y.load = x.load /\ y.material = x.material
      /\ y.base = None /\ y.normal = None
  <2> HIDE DEF x
  <2> QED
    BY <1>3, RolledBack
<1>6. S \subseteq Live("texture") /\ S \subseteq Entries /\ S \cap Live("free") = {}
  BY <1>1, <1>3, LivesAre DEF References, Kinds
<1> HIDE DEF S, y
<1>7. Quiet(S)
  BY <1>1, <1>2, <1>4, <1>6, MainOrLoader, ReleasesQuietly
<1>8. /\ DOMAIN cache' = Kinds
      /\ \A k \in Kinds : cache'[k] \in [Keys(k) -> Entries \cup {None, Expired}]
      /\ \A k \in Kinds : \A p \in Keys(k) :
           cache'[k][p] = cache[k][p] \/ (cache'[k][p] = None /\ cache[k][p] \notin Entries)
  BY <1>1, <1>2 DEF Typed
<1>9. Typed'
  BY <1>1, <1>2, <1>3, <1>4, <1>5, <1>7, <1>8 DEF Typed, Same, device, Quiet
<1>10. {y.base, y.normal} \subseteq Live("texture") \cup {None} /\ UNCHANGED device
  BY <1>2, <1>5
<1>11. pc' \notin {"base", "normal", "create"}
  BY <1>4
<1> QED
  BY <1>2, <1>3, <1>4, <1>5, <1>6, <1>7, <1>8, <1>9, <1>10, <1>11, EntryStep DEF x

-----------------------------------------------------------------------------
(* Steps that make an entry.                                                *)

\* Entry n is made; the others stay what they are and own what they own.
LEMMA EntryAdded ==
    ASSUME ResourceInv, Typed', NEW n \in Entries, entries[n].kind = "free",
           NEW y \in Record, y.kind \in Kinds, y.base = None, y.normal = None,
           y.kind = "material" => y.handle = None,
           y.material \in Live("material") \cup {None}, entries'[n] = y,
           \A g \in Entries \ {n} :
             /\ Same(entries[g], entries'[g])
             /\ {entries'[g].base, entries'[g].normal} \subseteq Live("texture") \cup {n, None}
             /\ n \in {entries'[g].base, entries'[g].normal} => y.kind = "texture"
             /\ entries'[g].material = entries[g].material
             /\ entries[g].kind = "material" =>
                  \/ entries'[g] = entries[g]
                  \/ /\ entries[g].handle = None
                     /\ entries'[g].base # None => entries'[entries'[g].base].key = BaseOf[entries[g].key]
                     /\ entries'[g].normal # None => entries'[entries'[g].normal].key = NormalOf[entries[g].key],
           \A k \in Kinds : \A p \in Keys(k) :
             cache'[k][p] = cache[k][p] \/ (cache'[k][p] = n /\ k = y.kind),
           NEW S, Quiet(S), S \cap Live("free") = {},
           Roots' \cap Live("free") \subseteq {n},
           ToSet(pending') \cup ToSet(batch') \subseteq Live("material")',
           UNCHANGED materials,
           \A h \in Handles : textures[h] # None => textures'[h] # None,
           pc' \in {"base", "normal", "create"} =>
             /\ batch' # <<>> /\ Head(batch') \in Entries
             /\ entries'[Head(batch')].load = "taken" /\ entries'[Head(batch')].handle = None
    PROVE  References' /\ DefersFirst' /\ MaterialsUploaded' /\ TexturesHeld'
<1>0. Typed /\ References /\ DefersFirst /\ MaterialsUploaded /\ TexturesHeld
  BY DEF ResourceInv
<1>1. Dropping(program)' = Dropping(program')
  BY DEF Dropping
<1>2. \A g \in Entries \ {n} : /\ entries'[g].kind = entries[g].kind
                               /\ entries'[g].key = entries[g].key
                               /\ entries'[g].handle = entries[g].handle
  BY DEF Same
<1>3. /\ \A kind \in Kinds : Live(kind) \subseteq Live(kind)' /\ n \notin Live(kind)
      /\ n \in Live(y.kind)' /\ Live("free")' = Live("free") \ {n}
      /\ \A kind \in Kinds : Live(kind)' \subseteq Live(kind) \cup {n}
  BY <1>2 DEF Live, Kinds
<1>4. References'
  <2>1. ASSUME NEW g \in Entries
        PROVE  /\ {entries'[g].base, entries'[g].normal} \subseteq Live("texture")' \cup {None}
               /\ entries'[g].material \in Live("material")' \cup {None}
    <3>1. CASE g = n
      BY <1>3, <3>1 DEF Kinds
    <3>2. CASE g # n
      BY <1>0, <1>3, <3>2 DEF Kinds, References
    <3> QED
      BY <3>1, <3>2
  <2>2. \A k \in Kinds : \A p \in Keys(k) : cache'[k][p] \in Live(k)' \cup {None, Expired}
    BY <1>0, <1>3 DEF References
  <2>3. (Roots' \cup Dropping(program')) \cap Live("free")' = {}
    BY <1>0, <1>3 DEF References, Quiet
  <2> QED
    BY <1>1, <2>1, <2>2, <2>3 DEF References
<1>5. DefersFirst'
  BY DEF DefersFirst, Quiet
<1>6. MaterialsUploaded'
  <2>1. \A f \in Live("texture") \cup {None} :
          /\ Number(entries', f) = Number(entries, f)
          /\ f # None => entries'[f].key = entries[f].key
    BY <1>2, <1>3 DEF Number, Live, Kinds
  <2>2. ASSUME NEW g \in Entries, entries'[g].kind = "material"
        PROVE  Uploaded(entries', materials', g)
    <3>1. CASE g = n
      BY <2>2, <3>1 DEF Uploaded
    <3>2. CASE g # n /\ entries'[g] = entries[g]
      <4>1. Uploaded(entries, materials, g)
        BY <1>0, <2>2, <3>2, UploadedIs
      <4>2. entries[g].base \in Live("texture") \cup {None} /\ entries[g].normal \in Live("texture") \cup {None}
        BY <1>0 DEF References
      <4> QED
        BY <2>1, <3>2, <4>1, <4>2 DEF Uploaded
    <3>3. CASE g # n /\ entries'[g] # entries[g]
      BY <1>2, <2>2, <3>3 DEF Uploaded
    <3> QED
      BY <3>1, <3>2, <3>3
  <2>3. Uploading(entries', batch', pc')
    BY DEF Uploading
  <2> QED
    BY <2>2, <2>3, UploadedIs
<1>7. TexturesHeld'
  <2>1. \A x \in Live("texture") :
          entries'[x].kind = entries[x].kind /\ entries'[x].handle = entries[x].handle
    BY <1>2, <1>3 DEF Live, Kinds
  <2> QED
    BY <1>0, <2>1, HeldStays
<1> QED
  BY <1>4, <1>5, <1>6, <1>7

\* An entry that is no texture.
LEMMA TexturesStayCached ==
    ASSUME TexturesCached, NEW n \in Entries, entries[n].kind # "texture", entries'[n].kind # "texture",
           \A g \in Entries \ {n} : entries'[g] = entries[g],
           \A i \in Images : cache'["texture"][i] = cache["texture"][i], UNCHANGED textures,
           \A i \in Images : cache["texture"][i] # n
    PROVE  TexturesCached'
BY DEF TexturesCached, Live

LEMMA NotCached ==
    ASSUME Typed, References, NEW n \in Entries, entries[n].kind = "free"
    PROVE  \A i \in Images : cache["texture"][i] # n
BY ResourceAssumption DEF References, Live, Kinds, Keys

\* MaterialManager::load
LEMMA LoadStep ==
    ASSUME ResourceInv, NEW p \in MaterialPaths, Load(p)
    PROVE  ResourceInv'
<1>1. Typed /\ DefersFirst /\ References /\ Owned /\ TexturesCached /\ MaterialsUploaded
  BY DEF ResourceInv
<1>2. UNCHANGED <<device, program, pc, batch, seen, opening, scene, loader>>
  BY DEF Load, Resolving
<1>3. Quiet({})
  BY <1>1, <1>2, StaysQuiet
<1>4. ToSet(pending) \cup ToSet(batch) \subseteq Live("material") /\ Roots \cap Live("free") = {}
  BY <1>1 DEF References
<1>5. CASE /\ cache["material"][p] \in Entries /\ staged' = staged \cup {cache["material"][p]}
           /\ UNCHANGED <<entries, cache, pending>>
  <2>1. cache["material"][p] \in Live("material")
    BY <1>1, <1>5, ResourceAssumption DEF References, Kinds, Keys
  <2>2. cache["material"][p] \notin Live("free")
    BY <2>1 DEF Live
  <2>3. Roots' \cap Live("free") = {} /\ ToSet(pending') \cup ToSet(batch') \subseteq Live("material")
    BY <1>2, <1>4, <1>5, <2>2, RootsAre
  <2>4. Typed'
    BY <1>1, <1>2, <1>5 DEF Typed, device
  <2> QED
    BY <1>2, <1>3, <1>5, <2>3, <2>4, QuietStep
<1>6. CASE /\ HasEntry
           /\ entries' = [entries EXCEPT ![Unused] = Entry("material", p, "loading", None, None)]
           /\ cache' = [cache EXCEPT !["material"][p] = Unused]
           /\ pending' = Append(pending, Unused)
           /\ staged' = staged \cup {Unused}
  <2> DEFINE n == Unused
             y == Entry("material", p, "loading", None, None)
  <2>1. n \in Entries /\ entries[n].kind = "free"
    BY <1>6, UnusedIs
  <2>2. /\ y \in Record /\ y.kind = "material" /\ y.handle = None /\ y.base = None /\ y.normal = None
        /\ y.material = None
    <3>1. "material" \in Kinds /\ p \in Paths /\ "loading" \in Loads
      BY DEF Kinds, Paths, Loads
    <3> QED
      BY <3>1, EntryIs
  <2>3. /\ entries' = [entries EXCEPT ![n] = y] /\ cache' = [cache EXCEPT !["material"][p] = n]
        /\ pending' = Append(pending, n) /\ staged' = staged \cup {n}
    BY <1>6
  <2> HIDE DEF n, y
  <2>4. /\ pending' \in Seq(Entries) /\ ToSet(pending') = ToSet(pending) \cup {n}
    BY <1>1, <2>1, <2>3, ToSetIs DEF Typed
  <2>5. /\ DOMAIN cache' = Kinds
        /\ \A k \in Kinds : cache'[k] \in [Keys(k) -> Entries \cup {None, Expired}]
        /\ \A k \in Kinds : \A q \in Keys(k) :
             cache'[k][q] = cache[k][q] \/ (cache'[k][q] = n /\ k = "material")
        /\ \A i \in Images : cache'["texture"][i] = cache["texture"][i]
    BY <1>1, <2>1, <2>3 DEF Typed, Kinds
  <2>6. Typed'
    BY <1>1, <1>2, <2>1, <2>2, <2>3, <2>4, <2>5 DEF Typed, device
  <2>7. entries'[n] = y /\ \A g \in Entries \ {n} : entries'[g] = entries[g]
    BY <1>1, <2>1, <2>3 DEF Typed
  <2>8. \A g \in Entries \ {n} :
          /\ Same(entries[g], entries'[g])
          /\ {entries'[g].base, entries'[g].normal} \subseteq Live("texture") \cup {None}
          /\ entries'[g].material = entries[g].material
    BY <1>1, <2>7 DEF Typed, Same, References
  <2>9. n \notin Live("texture") /\ n # None /\ "material" \in Kinds
    BY <2>1, ResourceAssumption DEF Live, Kinds
  <2>10. Live("material") \cup {n} \subseteq Live("material")'
    BY <2>1, <2>2, <2>7 DEF Live
  <2>11. Roots' \cap Live("free") \subseteq {n} /\ ToSet(pending') \cup ToSet(batch') \subseteq Live("material")'
    BY <1>2, <1>4, <2>3, <2>4, <2>10, RootsAre
  <2>12. pc' \in {"base", "normal", "create"} =>
         /\ batch' # <<>> /\ Head(batch') \in Entries
         /\ entries'[Head(batch')].load = "taken" /\ entries'[Head(batch')].handle = None
    <3> SUFFICES ASSUME pc \in {"base", "normal", "create"}
                 PROVE  /\ batch # <<>> /\ Head(batch) \in Entries
                        /\ entries'[Head(batch)].load = "taken" /\ entries'[Head(batch)].handle = None
      BY <1>2
    <3>1. batch # <<>> /\ entries[Head(batch)].load = "taken" /\ entries[Head(batch)].handle = None
      BY <1>1 DEF MaterialsUploaded, First
    <3>2. Head(batch) \in ToSet(batch)
      BY <1>1, <3>1, ToSetIs DEF Typed
    <3>3. Head(batch) \in Entries /\ Head(batch) # n
      BY <1>4, <2>1, <3>2 DEF Live
    <3> QED
      BY <2>7, <3>1, <3>3
  <2>13. References' /\ DefersFirst' /\ MaterialsUploaded' /\ TexturesHeld'
    <3>1. UNCHANGED <<materials, textures>> /\ {} \cap Live("free") = {}
      BY <1>2 DEF device
    <3> QED
      BY <1>3, <2>1, <2>2, <2>5, <2>6, <2>7, <2>8, <2>9, <2>11, <2>12, <3>1, EntryAdded
  <2>14. Owned'
    <3>1. \A g \in Entries, kind \in Kinds, h \in Handles :
            Owns(entries', g, kind, h) <=> Owns(entries, g, kind, h)
      BY <2>1, <2>2, <2>7, ResourceAssumption DEF Owns, Kinds
    <3> QED
      BY <1>1, <1>2, <1>3, <3>1, OwnedStays
  <2>15. TexturesCached'
    BY <1>1, <1>2, <2>1, <2>2, <2>5, <2>7, NotCached, TexturesStayCached DEF device
  <2> QED
    BY <2>6, <2>13, <2>14, <2>15 DEF ResourceInv
<1> QED
  BY <1>5, <1>6 DEF Load, Lock

\* MeshManager::reload_sync
LEMMA RegenerateStep ==
    ASSUME ResourceInv, NEW g \in MeshPaths, NEW m \in scene \cap Live("material"), Regenerate(g, m)
    PROVE  ResourceInv'
<1> DEFINE n == Unused
           h == OneOf(Unknown("mesh", meshes))
           y == Entry("mesh", g, "taken", h, m)
           old == {e \in scene : entries[e].key = g}
<1>1. Typed /\ DefersFirst /\ References /\ Owned /\ TexturesCached /\ MaterialsUploaded
  BY DEF ResourceInv
<1>2. /\ Idle("main") /\ HasEntry /\ Unknown("mesh", meshes) # {}
      /\ entries' = [entries EXCEPT ![n] = y] /\ meshes' = meshes \cup {h}
      /\ cache' = [cache EXCEPT !["mesh"][g] = n]
      /\ \/ scene' = (scene \ old) \cup {n} /\ Releases("main", old)
         \/ old # {} /\ scene' = scene \cup {n} /\ UNCHANGED program
      /\ pc' = "swap"
      /\ UNCHANGED <<pending, queue, textures, materials, batch, seen, opening, loader, staged>>
  BY DEF Regenerate, At
<1>3. n \in Entries /\ entries[n].kind = "free"
  BY <1>2, UnusedIs
<1>4. h \in Handles /\ h \notin meshes /\ "mesh" \in Kinds
  BY <1>2, UnknownIs DEF Kinds
<1>5. m \in Entries /\ m \in Live("material")
  BY DEF Live
<1> HIDE DEF n, h
<1>6. y \in Record /\ y.kind = "mesh" /\ y.handle = h /\ y.base = None /\ y.normal = None /\ y.material = m
  <2>1. g \in Paths /\ "taken" \in Loads
    BY DEF Paths, Loads
  <2> QED
    BY <1>4, <1>5, <2>1, EntryIs
<1> HIDE DEF y
<1>7. old \subseteq Roots /\ old \subseteq Entries /\ Roots \cap Live("free") = {}
      /\ ToSet(pending) \cup ToSet(batch) \subseteq Live("material") /\ scene \subseteq Entries
  BY <1>1, RootsAre DEF Typed, References
<1> HIDE DEF old
<1>8. PICK S \in {{}, old} : Quiet(S)
  BY <1>1, <1>2, <1>7, MainOrLoader, StaysQuiet, ReleasesQuietly
<1>9. /\ DOMAIN cache' = Kinds
      /\ \A k \in Kinds : cache'[k] \in [Keys(k) -> Entries \cup {None, Expired}]
      /\ \A k \in Kinds : \A q \in Keys(k) :
           cache'[k][q] = cache[k][q] \/ (cache'[k][q] = n /\ k = "mesh")
      /\ \A i \in Images : cache'["texture"][i] = cache["texture"][i]
  BY <1>1, <1>2, <1>3 DEF Typed, Kinds
<1>10. Typed'
  BY <1>1, <1>2, <1>3, <1>4, <1>6, <1>7, <1>8, <1>9 DEF Typed, Quiet
<1>11. entries'[n] = y /\ \A e \in Entries \ {n} : entries'[e] = entries[e]
  BY <1>1, <1>2, <1>3 DEF Typed
<1>12. \A e \in Entries \ {n} :
         /\ Same(entries[e], entries'[e])
         /\ {entries'[e].base, entries'[e].normal} \subseteq Live("texture") \cup {None}
         /\ entries'[e].material = entries[e].material
  BY <1>1, <1>11 DEF Typed, Same, References
<1>13. n \notin Live("texture") /\ n # None /\ Live("material") \subseteq Live("material")'
  BY <1>3, <1>11, ResourceAssumption DEF Live
<1>14. Roots' \cap Live("free") \subseteq {n} /\ ToSet(pending') \cup ToSet(batch') \subseteq Live("material")'
  BY <1>2, <1>7, <1>13, RootsAre
<1>15. References' /\ DefersFirst' /\ MaterialsUploaded' /\ TexturesHeld'
  <2>1. UNCHANGED <<materials, textures>> /\ S \cap Live("free") = {} /\ pc' \notin {"base", "normal", "create"}
    BY <1>2, <1>7, <1>8
  <2> QED
    BY <1>3, <1>4, <1>5, <1>6, <1>8, <1>9, <1>10, <1>11, <1>12, <1>13, <1>14, <2>1, EntryAdded
<1>16. Owned'
  <2>1. \A e \in Entries, kind \in Kinds, i \in Handles :
          Owns(entries', e, kind, i) <=> Owns(entries, e, kind, i) \/ (e = n /\ kind = "mesh" /\ i = h)
    BY <1>3, <1>4, <1>6, <1>11 DEF Owns, Kinds
  <2>2. /\ ~There(textures, materials, meshes, "mesh", h)
        /\ \A kind \in Kinds, i \in Handles :
             There(textures', materials', meshes', kind, i) <=>
               There(textures, materials, meshes, kind, i) \/ (kind = "mesh" /\ i = h)
    BY <1>2, <1>4 DEF There, Kinds
  <2>3. UNCHANGED queue
    BY <1>2
  <2> QED
    BY <1>1, <1>3, <1>4, <1>8, <2>1, <2>2, <2>3, OwnedAnew
<1>17. TexturesCached'
  BY <1>1, <1>2, <1>3, <1>6, <1>9, <1>11, NotCached, TexturesStayCached
<1> QED
  BY <1>10, <1>15, <1>16, <1>17 DEF ResourceInv

\* TextureCache::load makes a texture.
LEMMA TextureWasCreated ==
    ASSUME ResourceInv, NEW m, NEW step, NEW image, NEW next, Uploads(m, step, image, next),
           TextureCreated(step, image, next)
    PROVE  ResourceInv'
<1> DEFINE n == Unused
           h == CreateTexture
           y == Entry("texture", image, "taken", h, None)
           f == First
           x == With(entries[f], step, n)
<1>1. Typed /\ DefersFirst /\ References /\ Owned /\ TexturesCached /\ MaterialsUploaded
  BY DEF ResourceInv
<1>2. /\ Looks(step) /\ image \notin Refused \cup {None} /\ cache["texture"][image] \notin Entries
      /\ HasEntry /\ Released # {}
      /\ entries' = [entries EXCEPT ![f] = x, ![n] = y]
      /\ textures' = [textures EXCEPT ![h] = image]
      /\ cache' = [cache EXCEPT !["texture"][image] = n]
      /\ pc' = next
      /\ UNCHANGED <<pending, queue, materials, meshes, program, batch, seen>>
  BY DEF TextureCreated, Lock, Stored
<1>3. n \in Entries /\ entries[n].kind = "free" /\ h \in Handles /\ textures[h] = None
  BY <1>2, UnusedIs, ReleasedIs
<1>4. /\ step \in {"base", "normal"} /\ image \in Images /\ next \in {"normal", "create"}
      /\ f = Head(batch) /\ f \in Entries /\ entries[f].kind = "material"
      /\ entries[f] \in Record /\ entries[f].handle = None /\ entries[f].load = "taken"
  BY <1>2, UploadsAre
<1>5. /\ batch # <<>> /\ UNCHANGED <<opening, scene, loader, staged>>
      /\ Roots \cap Live("free") = {} /\ ToSet(pending) \cup ToSet(batch) \subseteq Live("material")
  BY <1>2, LookedAt
<1> HIDE DEF n, h
<1>6. y \in Record /\ y.kind = "texture" /\ y.key = image /\ y.handle = h /\ y.base = None /\ y.normal = None
      /\ y.material = None
  <2>1. image \in Paths /\ "taken" \in Loads /\ "texture" \in Kinds
    BY <1>4 DEF Paths, Loads, Kinds
  <2> QED
    BY <1>3, <2>1, EntryIs
<1>7. /\ Same(entries[f], x) /\ x.load = entries[f].load /\ x.material = entries[f].material
      /\ x.base = IF step = "base" THEN n ELSE entries[f].base
      /\ x.normal = IF step = "normal" THEN n ELSE entries[f].normal
  <2> HIDE DEF f
  <2> QED
    BY <1>3, <1>4, WithIs
<1> HIDE DEF y, x
<1>8. Quiet({})
  BY <1>1, <1>2, StaysQuiet
<1>9. f # n /\ entries'[n] = y /\ entries'[f] = x /\ \A e \in Entries \ {n, f} : entries'[e] = entries[e]
  <2> HIDE DEF f
  <2> QED
    BY <1>1, <1>2, <1>3, <1>4 DEF Typed
<1>10. /\ DOMAIN cache' = Kinds
       /\ \A k \in Kinds : cache'[k] \in [Keys(k) -> Entries \cup {None, Expired}]
       /\ \A k \in Kinds : \A q \in Keys(k) :
            cache'[k][q] = cache[k][q] \/ (cache'[k][q] = n /\ k = "texture")
       /\ \A i \in Images \ {image} : cache'["texture"][i] = cache["texture"][i]
       /\ cache'["texture"][image] = n
  BY <1>1, <1>2, <1>3, <1>4 DEF Typed, Kinds, Keys
<1>11. /\ textures' \in [Handles -> Images \cup {None}] /\ textures'[h] = image
       /\ \A i \in Handles \ {h} : textures'[i] = textures[i]
  BY <1>1, <1>2, <1>3, <1>4 DEF Typed
<1>12. Typed'
  <2>1. entries' \in [Entries -> Record]
    BY <1>1, <1>2, <1>6, <1>7 DEF Typed, Same
  <2> QED
    BY <1>1, <1>2, <1>4, <1>5, <1>10, <1>11, <2>1 DEF Typed
<1>13. n \notin Live("texture") /\ n # None /\ "texture" \in Kinds /\ image # None
  BY <1>2, <1>3, ResourceAssumption DEF Live, Kinds
<1>14. \A e \in Entries \ {n} :
         /\ Same(entries[e], entries'[e])
         /\ {entries'[e].base, entries'[e].normal} \subseteq Live("texture") \cup {n, None}
         /\ entries'[e].material = entries[e].material
  <2>1. \A e \in Entries : {entries[e].base, entries[e].normal} \subseteq Live("texture") \cup {None}
    BY <1>1 DEF References
  <2>2. TAKE e \in Entries \ {n}
  <2>3. CASE e = f
    BY <1>4, <1>7, <1>9, <2>1, <2>3
  <2>4. CASE e # f
    BY <1>1, <1>9, <2>1, <2>4 DEF Typed, Same
  <2> QED
    BY <2>3, <2>4
<1>15. \A e \in Entries \ {n} : entries[e].kind = "material" =>
         \/ entries'[e] = entries[e]
         \/ /\ entries[e].handle = None
            /\ entries'[e].base # None => entries'[entries'[e].base].key = BaseOf[entries[e].key]
            /\ entries'[e].normal # None => entries'[entries'[e].normal].key = NormalOf[entries[e].key]
  <2>1. /\ x.base # None => entries'[x.base].key = BaseOf[entries[f].key]
        /\ x.normal # None => entries'[x.normal].key = NormalOf[entries[f].key]
    <3>1. \A t \in Live("texture") : entries'[t] = entries[t]
      BY <1>3, <1>4, <1>9 DEF Live
    <3>2. /\ entries[f].base # None => entries[entries[f].base].key = BaseOf[entries[f].key]
          /\ entries[f].normal # None => entries[entries[f].normal].key = NormalOf[entries[f].key]
          /\ {entries[f].base, entries[f].normal} \subseteq Live("texture") \cup {None}
      BY <1>1, <1>4 DEF MaterialsUploaded, Live, References
    <3>3. \/ step = "base" /\ image = BaseOf[entries[f].key]
          \/ step = "normal" /\ image = NormalOf[entries[f].key]
      BY DEF Uploads
    <3> QED
      BY <1>6, <1>7, <1>9, <3>1, <3>2, <3>3
  <2> QED
    BY <1>4, <1>9, <2>1
<1>16. Live("material") \subseteq Live("material")'
  BY <1>3, <1>4, <1>7, <1>9 DEF Live, Same
<1>17. Roots' \cap Live("free") \subseteq {n} /\ ToSet(pending') \cup ToSet(batch') \subseteq Live("material")'
  BY <1>2, <1>5, <1>16, RootsAre
<1>18. /\ batch' # <<>> /\ Head(batch') \in Entries
       /\ entries'[Head(batch')].load = "taken" /\ entries'[Head(batch')].handle = None
  BY <1>2, <1>4, <1>5, <1>7, <1>9 DEF Same
<1>19. References' /\ DefersFirst' /\ MaterialsUploaded' /\ TexturesHeld'
  <2>1. /\ UNCHANGED materials /\ {} \cap Live("free") = {}
        /\ \A i \in Handles : textures[i] # None => textures'[i] # None
    BY <1>2, <1>3, <1>11
  <2> HIDE DEF f
  <2> QED
    BY <1>3, <1>6, <1>8, <1>10, <1>12, <1>13, <1>9, <1>14, <1>15, <1>17, <1>18, <2>1, EntryAdded
<1>20. Owned'
  <2>1. \A e \in Entries, kind \in Kinds, i \in Handles :
          Owns(entries', e, kind, i) <=> Owns(entries, e, kind, i) \/ (e = n /\ kind = "texture" /\ i = h)
    BY <1>3, <1>4, <1>6, <1>7, <1>9 DEF Owns, Kinds, Same
  <2>2. /\ ~There(textures, materials, meshes, "texture", h)
        /\ \A kind \in Kinds, i \in Handles :
             There(textures', materials', meshes', kind, i) <=>
               There(textures, materials, meshes, kind, i) \/ (kind = "texture" /\ i = h)
    BY <1>2, <1>3, <1>11, <1>13 DEF There, Kinds
  <2>3. UNCHANGED queue
    BY <1>2
  <2> QED
    BY <1>1, <1>3, <1>8, <1>13, <2>1, <2>2, <2>3, OwnedAnew
<1>21. TexturesCached'
  <2>1. \A i \in Handles, e \in Live("texture") : entries[e].handle = i => i # h
    <3> SUFFICES ASSUME NEW e \in Live("texture"), entries[e].handle = h
                 PROVE  FALSE
      OBVIOUS
    <3>1. textures[h] = entries[e].key /\ entries[e].key \in Images
      BY <1>1, <1>3 DEF TexturesCached
    <3> QED
      BY <1>3, <3>1, ResourceAssumption
  <2>2. ASSUME NEW e \in Live("texture")'
        PROVE  /\ entries'[e].key \in Images
               /\ cache'["texture"][entries'[e].key] = e
               /\ \A i \in Handles : entries'[e].handle = i => textures'[i] = entries'[e].key
    <3>1. CASE e = n
      BY <1>4, <1>6, <1>9, <1>10, <1>11, <3>1
    <3>2. CASE e # n
      <4>1. e \in Live("texture") /\ entries'[e] = entries[e] /\ e \in Entries
        BY <1>4, <1>7, <1>9, <2>2, <3>2 DEF Live, Same
      <4>2. /\ entries[e].key \in Images /\ cache["texture"][entries[e].key] = e
            /\ \A i \in Handles : entries[e].handle = i => textures[i] = entries[e].key
        BY <1>1, <4>1 DEF TexturesCached
      <4>3. entries[e].key # image
        BY <1>2, <4>1, <4>2
      <4> QED
        BY <1>10, <1>11, <2>1, <4>1, <4>2, <4>3
    <3> QED
      BY <3>1, <3>2
  <2>3. ASSUME NEW i \in Images, cache'["texture"][i] \in Entries
        PROVE  entries'[cache'["texture"][i]].key = i
    <3>1. CASE i = image
      BY <1>6, <1>9, <1>10, <3>1
    <3>2. CASE i # image
      <4>1. cache'["texture"][i] = cache["texture"][i] /\ entries[cache["texture"][i]].key = i
        BY <1>1, <1>10, <2>3, <3>2 DEF TexturesCached
      <4>2. cache["texture"][i] # n
        BY <1>1, <1>3, NotCached
      <4> QED
        BY <1>14, <2>3, <4>1, <4>2 DEF Same
    <3> QED
      BY <3>1, <3>2
  <2> QED
    BY <2>2, <2>3 DEF TexturesCached
<1> QED
  BY <1>12, <1>19, <1>20, <1>21 DEF ResourceInv

\* MaterialEntry::finalize tells the device.
LEMMA CreateMaterialStep ==
    ASSUME ResourceInv, CreateMaterial
    PROVE  ResourceInv'
<1> DEFINE known == {i \in Handles : materials[i] # None}
           h == OneOf(Unknown("material", known))
           f == First
           x == entries[f]
           y == [x EXCEPT !.handle = h]
           b == [base |-> HandleOf(x.base), normal |-> HandleOf(x.normal)]
<1>1. Typed /\ DefersFirst /\ References /\ Owned /\ TexturesCached /\ MaterialsUploaded /\ TexturesHeld
  BY DEF ResourceInv
<1>2. /\ Looks("create") /\ Unknown("material", known) # {}
      /\ materials' = [materials EXCEPT ![h] = b] /\ entries' = [entries EXCEPT ![f] = y]
      /\ NextEntry /\ UNCHANGED <<cache, pending, queue, textures, meshes, program>>
  BY DEF CreateMaterial
<1>3. h \in Handles /\ materials[h] = None /\ "material" \in Kinds
  <2>1. "material" \in Kinds
    BY DEF Kinds
  <2> HIDE DEF known
  <2>2. OneOf(Unknown("material", known)) \in Handles \ known
    BY <1>2, <2>1, UnknownIs
  <2> QED
    BY <2>1, <2>2 DEF known
<1>4. f \in Entries /\ x.kind = "material" /\ UNCHANGED <<opening, scene, loader, staged>> /\ pc = "create"
      /\ batch' \in Seq(Entries) /\ seen' \subseteq Entries /\ pc' = "look"
      /\ ToSet(pending') \cup ToSet(batch') \subseteq Live("material")
      /\ Roots' \cap Live("free") = {}
  BY <1>2, LookedAt
<1>5. x \in Record /\ x.load = "taken" /\ x.handle = None
  BY <1>1, <1>4 DEF Typed, MaterialsUploaded
<1> HIDE DEF h, f
<1>6. /\ y \in Record /\ y.kind = x.kind /\ y.key = x.key /\ y.handle = h /\ y.load = x.load
      /\ y.base = x.base /\ y.normal = x.normal /\ y.material = x.material
  <2> HIDE DEF x
  <2> QED
    BY <1>3, <1>5, HandleIs
<1> HIDE DEF y
<1>7. entries'[f] = y /\ \A e \in Entries \ {f} : entries'[e] = entries[e]
  BY <1>1, <1>2, <1>4 DEF Typed
<1>8. /\ x.base \in Live("texture") \cup {None} /\ x.normal \in Live("texture") \cup {None}
  BY <1>1, <1>4 DEF References
<1>9. b \in Bound /\ b # None /\ b.base = HandleOf(x.base) /\ b.normal = HandleOf(x.normal)
  <2>1. HandleOf(x.base) \in Handles \cup {None} /\ HandleOf(x.normal) \in Handles \cup {None}
    BY <1>1, <1>8 DEF HandleOf, Typed, Record, Live
  <2> HIDE DEF x
  <2> QED
    BY <2>1, ResourceAssumption DEF Bound
<1>10. /\ materials' \in [Handles -> Bound \cup {None}] /\ materials'[h] = b
       /\ \A i \in Handles \ {h} : materials'[i] = materials[i]
  <2> HIDE DEF b
  <2> QED
    BY <1>1, <1>2, <1>3, <1>9 DEF Typed
<1>11. b = [base |-> HandleOf(x.base), normal |-> HandleOf(x.normal)]
  OBVIOUS
<1> HIDE DEF b
<1>12. Typed'
  BY <1>1, <1>2, <1>4, <1>6, <1>10 DEF Typed
<1>13. /\ \A kind : Live(kind)' = Live(kind)
       /\ \A e \in Live("texture") : entries'[e] = entries[e] /\ e # f
  BY <1>4, <1>6, <1>7 DEF Live
<1>14. References' /\ DefersFirst'
  <2>1. UNCHANGED program /\ Dropping(program)' = Dropping(program)
    BY <1>2 DEF Dropping
  <2>2. \A e \in Entries : /\ entries'[e].base = entries[e].base /\ entries'[e].normal = entries[e].normal
                           /\ entries'[e].material = entries[e].material
    BY <1>6, <1>7
  <2> QED
    BY <1>1, <1>2, <1>4, <1>13, <2>1, <2>2 DEF References, DefersFirst
<1>15. Owned'
  <2>1. \A e \in Entries, kind \in Kinds, i \in Handles :
          Owns(entries', e, kind, i) <=> Owns(entries, e, kind, i) \/ (e = f /\ kind = "material" /\ i = h)
    BY <1>4, <1>5, <1>6, <1>7, ResourceAssumption DEF Owns
  <2>2. /\ ~There(textures, materials, meshes, "material", h)
        /\ \A kind \in Kinds, i \in Handles :
             There(textures', materials', meshes', kind, i) <=>
               There(textures, materials, meshes, kind, i) \/ (kind = "material" /\ i = h)
    BY <1>2, <1>3, <1>9, <1>10 DEF There, Kinds
  <2>3. UNCHANGED queue /\ Quiet({})
    BY <1>1, <1>2, StaysQuiet
  <2> QED
    BY <1>1, <1>3, <1>4, <2>1, <2>2, <2>3, OwnedAnew
<1>16. TexturesCached'
  <2>1. UNCHANGED <<textures, cache>>
    BY <1>2
  <2>2. \A e \in Entries : entries'[e].key = entries[e].key
    BY <1>6, <1>7
  <2> QED
    BY <1>1, <1>13, <2>1, <2>2 DEF TexturesCached
<1>17. MaterialsUploaded'
  <2>1. \A e \in Live("texture") \cup {None} :
          /\ Number(entries', e) = Number(entries, e) /\ HandleOf(e) = Number(entries, e)
          /\ e # None => entries'[e].key = entries[e].key
    BY <1>13 DEF Number, HandleOf
  <2>2. ASSUME NEW e \in Entries, entries'[e].kind = "material"
        PROVE  Uploaded(entries', materials', e)
    <3>1. Uploaded(entries, materials, e)
      BY <1>1, <1>4, <1>6, <1>7, <2>2, UploadedIs
    <3>2. CASE e = f
      BY <1>5, <1>6, <1>7, <1>8, <1>10, <1>11, <2>1, <3>1, <3>2 DEF Uploaded
    <3>3. CASE e # f
      <4>1. entries'[e] = entries[e] /\ entries[e].handle \in Handles \cup {None}
        BY <1>1, <1>7, <3>3 DEF Typed, Record
      <4>2. entries[e].base \in Live("texture") \cup {None} /\ entries[e].normal \in Live("texture") \cup {None}
        BY <1>1 DEF References
      <4>3. entries[e].handle # h
        <5> SUFFICES ASSUME entries[e].handle = h
                     PROVE  FALSE
          OBVIOUS
        <5>1. Owns(entries, e, "material", h)
          BY <2>2, <4>1 DEF Owns
        <5> QED
          BY <1>1, <1>3, <5>1 DEF Owned, Exists
      <4> QED
        BY <1>10, <2>1, <3>1, <4>1, <4>2, <4>3 DEF Uploaded
    <3> QED
      BY <3>2, <3>3
  <2>3. Uploading(entries', batch', pc')
    BY <1>4 DEF Uploading
  <2> QED
    BY <2>2, <2>3, UploadedIs
<1>18. TexturesHeld'
  <2> SUFFICES ASSUME NEW i \in Handles, materials'[i] # None, NEW n \in Bindings(i)'
               PROVE  /\ textures'[n] # None
                      /\ \A t \in Threads : Asks(program', t, "material", i) =>
                           \E e \in Live("texture")' :
                             entries'[e].handle = n /\ Contains(program'[t], Drop(e))
    BY DEF TexturesHeld
  <2>1. UNCHANGED <<textures, program>>
    BY <1>2
  <2>2. CASE i # h
    <3>1. materials'[i] = materials[i] /\ n \in Bindings(i)
      BY <1>10, <2>2 DEF Bindings
    <3> QED
      BY <1>1, <1>13, <2>1, <3>1 DEF TexturesHeld
  <2>3. CASE i = h
    <3>1. n \in {HandleOf(x.base), HandleOf(x.normal)} /\ n # None
      BY <1>9, <1>10, <2>3 DEF Bindings
    <3>2. PICK e \in Live("texture") : n = entries[e].handle
      BY <1>8, <3>1 DEF HandleOf
    <3>3. n \in Handles /\ Owns(entries, e, "texture", n) /\ e \in Entries
      BY <1>1, <3>1, <3>2 DEF Typed, Record, Live, Owns
    <3>4. textures[n] # None
      BY <1>1, <3>3 DEF Owned, Exists, Kinds
    <3>5. \A t \in Threads : ~Asks(program, t, "material", h)
      BY <1>1, <1>3 DEF Owned, Exists
    <3> QED
      BY <2>1, <2>3, <3>4, <3>5
  <2> QED
    BY <2>2, <2>3
<1> QED
  BY <1>12, <1>14, <1>15, <1>16, <1>17, <1>18 DEF ResourceInv

-----------------------------------------------------------------------------
(* Steps of destructors, and what they asked for.                           *)

LEMMA DefersStep ==
    ASSUME ResourceInv, NEW t \in Threads, Defers(t)
    PROVE  ResourceInv'
<1>1. Typed /\ DefersFirst /\ References /\ Owned /\ TexturesCached /\ MaterialsUploaded /\ TexturesHeld
  BY DEF ResourceInv
<1>2. /\ program[t] # <<>> /\ Head(program[t]).op = "defer"
      /\ queue' = Append(queue, Head(program[t]).what)
      /\ program' = [program EXCEPT ![t] = Tail(program[t])]
      /\ UNCHANGED <<entries, cache, pending, textures, materials, meshes, pc, batch, seen, opening, sceneVars>>
  BY DEF Defers, Idle
<1> DEFINE p == [program EXCEPT ![t] = Tail(program[t])]
<1>0. /\ p \in [Threads -> Seq(Orders)]
      /\ \A u \in Threads : \A i \in 1 .. Len(p[u]) : i > 1 \/ u = t => p[u][i].op = "drop"
      /\ \A kind \in Kinds, h \in Handles : ~Asks(p, t, kind, h)
      /\ \A u \in Threads \ {t} : p[u] = program[u]
      /\ \A e : e \in Dropping(program) <=> e \in Dropping(p) \/ (e \in Entries /\ Head(program[t]) = Drop(e))
      /\ Head(program[t]) \in Orders
  <2> HIDE DEF p
  <2> QED
    BY <1>1, <1>2, GoesOn DEF p
<1> HIDE DEF p
<1>3. /\ program' \in [Threads -> Seq(Orders)]
      /\ \A u \in Threads : \A i \in 1 .. Len(program'[u]) :
           i > 1 \/ u = t => program'[u][i].op = "drop"
      /\ \A kind \in Kinds, h \in Handles : ~Asks(program', t, kind, h)
      /\ \A u \in Threads \ {t} : program'[u] = program[u]
      /\ Dropping(program') \subseteq Dropping(program)
      /\ Head(program[t]) \in Orders
  <2>1. program' = p
    BY <1>2 DEF p
  <2> QED
    BY <1>0, <2>1
<1>4. Typed'
  <2>0. PICK kind \in Kinds, h \in Handles : Head(program[t]).what = <<kind, h>>
    BY <1>2, <1>3, OrderIs
  <2>1. Head(program[t]).what \in Kinds \X Handles
    BY <2>0
  <2> QED
    BY <1>1, <1>2, <1>3, <2>1 DEF Typed, sceneVars
<1>5. \A kind : Live(kind)' = Live(kind)
  BY <1>2 DEF Live
<1>6. References'
  <2>1. Roots' = Roots /\ Dropping(program)' = Dropping(program')
    BY <1>2, RootsAre DEF Dropping, sceneVars
  <2> QED
    BY <1>1, <1>2, <1>3, <1>5, <2>1 DEF References
<1>7. DefersFirst'
  <2>1. \A u \in Threads : Len(program'[u]) \in Nat
    BY <1>3
  <2> QED
    BY <1>3, <2>1 DEF DefersFirst
<1>8. Owned'
  BY <1>1, OwnedDeferred
<1>9. TexturesCached'
  BY <1>1, <1>2, <1>5 DEF TexturesCached
<1>10. MaterialsUploaded'
  BY <1>1, <1>2, <1>5 DEF MaterialsUploaded, HandleOf, First
<1>11. TexturesHeld'
  <2>1. \A u \in Threads, h \in Handles : Asks(program', u, "material", h) =>
          Asks(program, u, "material", h) /\ program'[u] = program[u]
    BY <1>3 DEF Asks, Kinds
  <2>2. \A h : Bindings(h)' = Bindings(h)
    BY <1>2 DEF Bindings
  <2> QED
    BY <1>1, <1>2, <1>5, <2>1, <2>2 DEF TexturesHeld
<1> QED
  BY <1>4, <1>6, <1>7, <1>8, <1>9, <1>10, <1>11 DEF ResourceInv

\* The last reference to an entry goes.
LEMMA FreesStep ==
    ASSUME ResourceInv, NEW t \in Threads, NEW e \in Entries, Frees(t, e),
           UNCHANGED <<pending, device, pc, batch, seen, opening, sceneVars>>
    PROVE  ResourceInv'
<1>1. Typed /\ DefersFirst /\ References /\ Owned /\ TexturesCached /\ MaterialsUploaded /\ TexturesHeld
  BY DEF ResourceInv
<1>2. /\ entries[e].kind \in Kinds /\ entries' = [entries EXCEPT ![e] = Free]
      /\ cache' = [cache EXCEPT ![entries[e].kind] =
           [k \in DOMAIN cache[entries[e].kind] |->
              IF cache[entries[e].kind][k] = e THEN Expired ELSE cache[entries[e].kind][k]]]
      /\ e \notin Dropping(program') \cup Roots
      /\ \A x \in Entries : e \notin Members(x)
      /\ Dropping(program') \subseteq Dropping(program) \cup Members(e)
  BY DEF Frees
<1>3. /\ entries'[e] = Free /\ \A x \in Entries \ {e} : entries'[x] = entries[x]
  BY <1>1, <1>2 DEF Typed
<1>4. /\ \A kind \in Kinds : Live(kind)' = Live(kind) \ {e}
      /\ Live("free")' = Live("free") \cup {e} /\ \A kind \in Kinds : Live(kind) \subseteq Entries
  BY <1>2, <1>3, FreeIs DEF Live, Kinds
<1>5. /\ DOMAIN cache' = Kinds
      /\ \A k \in Kinds : cache'[k] \in [Keys(k) -> Entries \cup {None, Expired}]
      /\ \A k \in Kinds : \A p \in Keys(k) :
           /\ cache'[k][p] = cache[k][p] \/ (cache'[k][p] = Expired /\ cache[k][p] = e)
           /\ cache'[k][p] # e
  <2>1. \A k \in Kinds \ {entries[e].kind} : \A p \in Keys(k) : cache[k][p] # e
    BY <1>1, ResourceAssumption DEF References, Live
  <2>2. e # Expired
    BY ResourceAssumption
  <2> QED
    BY <1>1, <1>2, <2>1, <2>2 DEF Typed
<1>6. Typed'
  BY <1>1, <1>2, <1>5, FreeIs DEF Typed, Frees, device, sceneVars
<1>7. \A x \in Entries \ {e} :
        /\ entries[x].base \in (Live("texture") \ {e}) \cup {None}
        /\ entries[x].normal \in (Live("texture") \ {e}) \cup {None}
        /\ entries[x].material \in (Live("material") \ {e}) \cup {None}
  BY <1>1, <1>2, ResourceAssumption DEF References, Members
<1>8. Roots' = Roots /\ Dropping(program)' = Dropping(program')
      /\ ToSet(pending) \cup ToSet(batch) \subseteq Roots
  BY RootsAre DEF Dropping, sceneVars
<1>9. References'
  <2>1. \A x \in Entries : /\ {entries'[x].base, entries'[x].normal} \subseteq Live("texture")' \cup {None}
                           /\ entries'[x].material \in Live("material")' \cup {None}
    BY <1>3, <1>4, <1>7, FreeIs DEF Kinds
  <2>2. \A k \in Kinds : \A p \in Keys(k) : cache'[k][p] \in Live(k)' \cup {None, Expired}
    BY <1>1, <1>4, <1>5 DEF References
  <2>3. ToSet(pending') \cup ToSet(batch') \subseteq Live("material")'
    BY <1>1, <1>2, <1>4, <1>8 DEF References, Kinds
  <2>4. Members(e) \cap Live("free") = {}
    BY <1>1, LivesAre
  <2>5. (Roots' \cup Dropping(program')) \cap Live("free")' = {}
    BY <1>1, <1>2, <1>4, <1>8, <2>4 DEF References
  <2> QED
    BY <1>8, <2>1, <2>2, <2>3, <2>5 DEF References
<1>10. DefersFirst'
  BY DEF DefersFirst, Frees
<1>11. Owned'
  BY <1>1, OwnedFreed
<1>12. TexturesCached'
  <2>1. "texture" \in Kinds /\ Keys("texture") = Images /\ UNCHANGED textures
    BY DEF Kinds, Keys, device
  <2>2. \A x \in Live("texture")' : x \in Live("texture") /\ x # e /\ entries'[x] = entries[x]
    BY <1>3, <1>4, <2>1
  <2>3. \A x \in Live("texture")' :
         /\ entries'[x].key \in Images
         /\ cache'["texture"][entries'[x].key] = x
         /\ \A h \in Handles : entries'[x].handle = h => textures'[h] = entries'[x].key
    BY <1>1, <1>5, <2>1, <2>2 DEF TexturesCached
  <2>4. \A i \in Images : cache'["texture"][i] \in Entries => entries'[cache'["texture"][i]].key = i
    BY <1>1, <1>3, <1>5, <2>1, ResourceAssumption DEF TexturesCached
  <2> QED
    BY <2>3, <2>4 DEF TexturesCached
<1>13. MaterialsUploaded'
  <2>1. \A x \in (Live("texture") \ {e}) \cup {None} :
          /\ Number(entries', x) = Number(entries, x)
          /\ x # None => entries'[x].key = entries[x].key
    BY <1>3, <1>4 DEF Number, Kinds
  <2>2. ASSUME NEW f \in Entries, entries'[f].kind = "material"
        PROVE  Uploaded(entries', materials', f)
    <3>1. f # e
      BY <1>3, <2>2, FreeIs
    <3>2. entries'[f] = entries[f] /\ Uploaded(entries, materials, f) /\ UNCHANGED materials
      BY <1>1, <1>3, <2>2, <3>1, UploadedIs DEF device
    <3> QED
      BY <1>7, <2>1, <3>1, <3>2 DEF Uploaded
  <2>3. Uploading(entries', batch', pc')
    <3> SUFFICES ASSUME pc \in {"base", "normal", "create"}
                 PROVE  batch # <<>> /\ entries'[Head(batch)].load = "taken" /\ entries'[Head(batch)].handle = None
      BY DEF Uploading
    <3>1. batch # <<>> /\ entries[Head(batch)].load = "taken" /\ entries[Head(batch)].handle = None
      BY <1>1 DEF MaterialsUploaded, First
    <3>2. Head(batch) \in ToSet(batch) /\ Head(batch) \in Entries
      BY <1>1, <3>1, ToSetIs DEF Typed
    <3> QED
      BY <1>2, <1>3, <1>8, <3>1, <3>2
  <2> QED
    BY <2>2, <2>3, UploadedIs
<1>14. TexturesHeld'
  <2> SUFFICES ASSUME NEW h \in Handles, materials[h] # None, NEW n \in Bindings(h), NEW u \in Threads,
                      Asks(program', u, "material", h)
               PROVE  \E x \in Live("texture")' :
                        entries'[x].handle = n /\ Contains(program'[u], Drop(x))
    BY <1>1 DEF TexturesHeld, Bindings, device
  <2>1. CASE u # t
    <3>1. program'[u] = program[u] /\ ~Contains(program[u], Drop(e))
      BY <2>1 DEF Frees
    <3>2. Asks(program, u, "material", h)
      BY <3>1 DEF Asks
    <3>3. PICK x \in Live("texture") : entries[x].handle = n /\ Contains(program[u], Drop(x))
      BY <1>1, <3>2 DEF TexturesHeld
    <3>4. x # e
      BY <3>1, <3>3
    <3> QED
      BY <1>3, <1>4, <3>1, <3>3, <3>4 DEF Kinds
  <2>2. CASE u = t
    <3>1. Owns(entries, e, "material", h)
      BY <2>2 DEF Frees, Kinds
    <3>2. /\ e \in Live("material") /\ entries[e].handle = h /\ h # None
          /\ materials[h] = [base |-> HandleOf(entries[e].base), normal |-> HandleOf(entries[e].normal)]
      BY <1>1, <3>1, ResourceAssumption DEF Owns, Live, MaterialsUploaded
    <3>3. n \in {HandleOf(entries[e].base), HandleOf(entries[e].normal)} /\ n # None
      BY <3>2 DEF Bindings
    <3>4. PICK x \in {entries[e].base, entries[e].normal} \ {None} : n = entries[x].handle
      BY <3>3 DEF HandleOf
    <3>5. x \in Members(e) /\ x \in Live("texture") /\ x # e
      BY <1>1, <3>2, <3>4 DEF Members, References, Live
    <3>6. Contains(program'[t], Drop(x))
      BY <3>5 DEF Frees
    <3> QED
      BY <1>3, <1>4, <2>2, <3>4, <3>5, <3>6 DEF Kinds
  <2> QED
    BY <2>1, <2>2
<1> QED
  BY <1>6, <1>9, <1>10, <1>11, <1>12, <1>13, <1>14 DEF ResourceInv

LEMMA DropsStep ==
    ASSUME ResourceInv, NEW t \in Threads, DropsReference(t)
    PROVE  ResourceInv'
<1>1. Typed /\ DefersFirst /\ References
  BY DEF ResourceInv
<1>2. UNCHANGED <<pending, device, pc, batch, seen, opening, sceneVars>>
  BY DEF DropsReference
<1>3. CASE Quiet({}) /\ UNCHANGED <<entries, cache>>
  <2>1. Typed'
    BY <1>1, <1>2, <1>3 DEF Typed, Quiet, device, sceneVars
  <2>2. Roots' \cap Live("free") = {} /\ ToSet(pending') \cup ToSet(batch') \subseteq Live("material")
    BY <1>1, <1>2, RootsAre DEF References, sceneVars
  <2>3. {} \cap Live("free") = {} /\ \A k \in Kinds : \A p \in Keys(k) : cache'[k][p] = cache[k][p]
    BY <1>3
  <2> QED
    BY <1>2, <1>3, <2>1, <2>2, <2>3, QuietStep
<1> QED
  BY <1>1, <1>2, <1>3, DropIs, FreesStep

LEMMA DeletionsStep ==
    ASSUME ResourceInv, ProcessDeferredDeletions
    PROVE  ResourceInv'
<1>1. Typed /\ DefersFirst /\ References /\ Owned /\ TexturesCached /\ MaterialsUploaded /\ TexturesHeld
  BY DEF ResourceInv
<1>2. /\ textures' = [h \in Handles |-> IF Requested("texture", h) THEN None ELSE textures[h]]
      /\ materials' = [h \in Handles |-> IF Requested("material", h) THEN None ELSE materials[h]]
      /\ meshes' = {h \in meshes : ~Requested("mesh", h)}
      /\ queue' = <<>> /\ pc' = "drain"
      /\ UNCHANGED <<entries, cache, pending, program, batch, seen, opening, sceneVars>>
  BY DEF ProcessDeferredDeletions
<1>3. Typed'
  <2>1. queue' \in Seq(Kinds \X Handles)
    BY <1>2
  <2> QED
    BY <1>1, <1>2, <2>1 DEF Typed, sceneVars
<1>4. \A kind : Live(kind)' = Live(kind)
  BY <1>2 DEF Live
<1>5. References' /\ DefersFirst'
  <2>1. Roots' = Roots /\ Dropping(program)' = Dropping(program) /\ UNCHANGED program
    BY <1>2, RootsAre DEF Dropping, sceneVars
  <2> QED
    BY <1>1, <1>2, <1>4, <2>1 DEF References, DefersFirst
<1>6. Owned'
  BY <1>1, OwnedDeleted
<1>7. \A kind \in Kinds, h \in Handles : \A e \in Live(kind) : entries[e].handle = h => ~Requested(kind, h)
  BY <1>1 DEF Owned, Owns, Live
<1>8. TexturesCached'
  <2>1. "texture" \in Kinds
    BY DEF Kinds
  <2> QED
    BY <1>1, <1>2, <1>4, <1>7, <2>1 DEF TexturesCached
<1>9. MaterialsUploaded'
  <2>1. ASSUME NEW e \in Entries, entries[e].kind = "material", entries[e].handle # None
        PROVE  materials'[entries[e].handle] = materials[entries[e].handle]
    <3>1. entries[e].handle \in Handles /\ e \in Live("material") /\ "material" \in Kinds
      BY <1>1, <2>1 DEF Typed, Record, Live, Kinds
    <3> QED
      BY <1>2, <1>7, <3>1
  <2>2. \A e \in Entries : entries[e].kind = "material" => Uploaded(entries, materials, e)
    BY <1>1, UploadedIs
  <2>3. \A e \in Entries : entries[e].kind = "material" => Uploaded(entries, materials', e)
    BY <2>1, <2>2 DEF Uploaded
  <2>4. Uploading(entries', batch', pc')
    BY <1>2 DEF Uploading
  <2> QED
    BY <1>2, <2>3, <2>4, UploadedIs
<1>10. TexturesHeld'
  <2> SUFFICES ASSUME NEW h \in Handles, materials'[h] # None, NEW n \in Bindings(h)'
               PROVE  /\ textures'[n] # None
                      /\ \A t \in Threads : Asks(program', t, "material", h) =>
                           \E x \in Live("texture")' :
                             entries'[x].handle = n /\ Contains(program'[t], Drop(x))
    BY DEF TexturesHeld
  <2>1. materials[h] # None /\ ~Requested("material", h) /\ n \in Bindings(h) /\ n # None
    BY <1>2 DEF Bindings
  <2>2. textures[n] # None /\ n \in Handles
    BY <1>1, <2>1 DEF TexturesHeld, Bindings, Typed, Bound
  <2>3. \E x \in Live("texture") : entries[x].handle = n
    <3>1. CASE \E e \in Entries : Owns(entries, e, "material", h)
      <4>1. PICK e \in Live("material") : entries[e].handle = h /\ h # None
        BY <3>1, ResourceAssumption DEF Owns, Live
      <4>4. materials[h] = [base |-> HandleOf(entries[e].base), normal |-> HandleOf(entries[e].normal)]
        BY <1>1, <4>1 DEF MaterialsUploaded
      <4>2. n \in {HandleOf(entries[e].base), HandleOf(entries[e].normal)}
        BY <2>1, <4>4 DEF Bindings
      <4>3. {entries[e].base, entries[e].normal} \subseteq Live("texture") \cup {None}
        BY <1>1, <4>1 DEF References, Live
      <4> QED
        BY <2>1, <4>2, <4>3 DEF HandleOf
    <3>2. CASE \E t \in Threads : Asks(program, t, "material", h)
      BY <1>1, <2>1, <3>2 DEF TexturesHeld
    <3> QED
      BY <1>1, <2>1, <3>1, <3>2 DEF Owned, Exists, Kinds
  <2>4. ~Requested("texture", n)
    BY <1>7, <2>2, <2>3 DEF Kinds
  <2>5. \A t \in Threads : Asks(program, t, "material", h) =>
          \E x \in Live("texture") : entries[x].handle = n /\ Contains(program[t], Drop(x))
    BY <1>1, <2>1 DEF TexturesHeld
  <2> QED
    BY <1>2, <1>4, <2>2, <2>4, <2>5
<1> QED
  BY <1>3, <1>5, <1>6, <1>8, <1>9, <1>10 DEF ResourceInv

-----------------------------------------------------------------------------
(* The theorems.                                                            *)

LEMMA InitIsSound ==
    ASSUME Init
    PROVE  ResourceInv
<1>1. Typed
  <2>1. <<>> \in Seq(Entries) /\ <<>> \in Seq(Kinds \X Handles) /\ <<>> \in Seq(Orders)
    OBVIOUS
  <2> QED
    BY <2>1, FreeIs DEF Init, Typed
<1>2. \A kind \in Kinds : Live(kind) = {}
  BY FreeIs DEF Init, Live, Kinds
<1>3. Roots = {} /\ Dropping(program) = {}
  BY DEF Init, Roots, ToSet, Dropping, Contains
<1>4. References
  BY <1>3, FreeIs DEF Init, References, ToSet
<1>5. DefersFirst
  BY DEF Init, DefersFirst
<1>6. Owned
  BY FreeIs DEF Init, Owned, Exists, Owns, Asks, Requested, Contains, Kinds
<1>7. TexturesCached
  BY <1>2, ResourceAssumption DEF Init, TexturesCached, Kinds, Keys
<1>8. MaterialsUploaded
  BY <1>2 DEF Init, MaterialsUploaded, Kinds
<1>9. TexturesHeld
  BY DEF Init, TexturesHeld
<1> QED
  BY <1>1, <1>4, <1>5, <1>6, <1>7, <1>8, <1>9 DEF ResourceInv

LEMMA PendingStep ==
    ASSUME ResourceInv, ProcessPending
    PROVE  ResourceInv'
<1>1. CASE Drain \/ Requeue \/ BatchDone
  BY <1>1, QuietActions
<1>2. CASE FinalizeThrows \/ FinalizeMaterial
  BY <1>2, LoadActions
<1>3. CASE CreateMaterial
  BY <1>3, CreateMaterialStep
<1>4. ASSUME NEW m, NEW step, NEW image, NEW next, Uploads(m, step, image, next),
             LoadTexture(step, image, next)
      PROVE  ResourceInv'
  BY <1>4, TextureWasFound, TextureWasCreated, TextureWasRefused DEF LoadTexture
<1>5. ASSUME NEW m \in MaterialPaths, entries[First].key = m,
             \/ LoadTexture("base", BaseOf[m], "normal")
             \/ LoadTexture("normal", NormalOf[m], "create")
      PROVE  ResourceInv'
  <2>1. Uploads(m, "base", BaseOf[m], "normal") /\ Uploads(m, "normal", NormalOf[m], "create")
    BY <1>5 DEF Uploads
  <2> QED
    BY <1>4, <1>5, <2>1
<1> QED
  BY <1>1, <1>2, <1>3, <1>5 DEF ProcessPending

LEMMA NextIsSound ==
    ASSUME ResourceInv, [Next]_vars
    PROVE  ResourceInv'
<1>1. CASE Frame
  <2>1. CASE ProcessDirtyMeshes
    BY <2>1, QuietActions, RegenerateStep DEF ProcessDirtyMeshes
  <2> QED
    BY <1>1, <2>1, DeletionsStep, PendingStep, PruneStep, QuietActions DEF Frame
<1>2. CASE LoaderEnds
  BY <1>2, QuietActions
<1>3. CASE \E p \in MaterialPaths : Load(p)
  BY <1>3, LoadStep
<1>4. CASE \E t \in Threads : Destructors(t)
  BY <1>4, DefersStep, DropsStep DEF Destructors
<1>5. CASE \E e \in Entries : LoadEnds(e)
  BY <1>5, LoadActions
<1>6. CASE UNCHANGED vars
  <2>1. UNCHANGED <<entries, cache, pending, queue, textures, materials, meshes, program, pc, batch,
                    seen, opening, scene, loader, staged>>
    BY <1>6 DEF vars, device, sceneVars
  <2>2. Typed /\ DefersFirst /\ References
    BY DEF ResourceInv
  <2>3. Typed' /\ UNCHANGED device
    BY <2>1, <2>2 DEF Typed, device
  <2>4. Quiet({}) /\ {} \cap Live("free") = {}
    BY <2>1, <2>2, StaysQuiet
  <2>5. Roots' \cap Live("free") = {} /\ ToSet(pending') \cup ToSet(batch') \subseteq Live("material")
    BY <2>1, <2>2, RootsAre DEF References
  <2> QED
    BY <2>1, <2>3, <2>4, <2>5, QuietStep
<1> QED
  BY <1>1, <1>2, <1>3, <1>4, <1>5, <1>6 DEF Next

\* Who owns what, what the caches know and what destructors still refer to fit together
\* whatever two threads do to the last references and wherever an upload throws
\* (process_pending, finalize, the destructors of the entries, process_deferred_deletions).
THEOREM ResourceInvariant == Spec => []ResourceInv
<1>1. Init => ResourceInv
  BY InitIsSound
<1>2. ResourceInv /\ [Next]_vars => ResourceInv'
  BY NextIsSound
<1> QED
  BY <1>1, <1>2, PTL DEF Spec

LEMMA TypesAreRight ==
    ASSUME ResourceInv
    PROVE  TypeOK
<1>1. Typed /\ References
  BY DEF ResourceInv
<1>2. \A e \in Entries :
        /\ entries[e].kind \in Kinds \cup {"free"}
        /\ entries[e].load \in {"loading", "value", "error", "taken"}
        /\ entries[e].handle \in Handles \cup {None}
        /\ {entries[e].base, entries[e].normal} \subseteq Live("texture") \cup {None}
        /\ entries[e].material \in Live("material") \cup {None}
  BY <1>1 DEF Typed, References, Record, Loads
<1>3. /\ \A k \in Kinds : \A p \in Keys(k) : cache[k][p] \in Live(k) \cup {None} \cup {Expired}
      /\ ToSet(pending) \subseteq Live("material")
  BY <1>1 DEF References
<1>4. Roots \cup Dropping(program) \subseteq Live("mesh") \cup Live("material") \cup Live("texture")
  <2>1. \A e \in Roots \cup Dropping(program) : e \in Entries
    BY <1>1, LivesAre, RootsAre, ToSetIs DEF Typed
  <2> QED
    BY <1>1, <2>1 DEF References, Typed, Record, Live, Kinds
<1> QED
  BY <1>1, <1>2, <1>3, <1>4 DEF TypeOK, Typed

LEMMA OwnersAre ==
    ASSUME Typed, DefersFirst, NEW kind \in Kinds, NEW h \in Handles
    PROVE  \A o : o \in Owners(kind, h) <=>
             \/ \E e \in Entries : Owns(entries, e, kind, h) /\ o = <<"entry", e>>
             \/ \E i \in 1 .. Len(queue) : queue[i] = <<kind, h>> /\ o = <<"queue", i>>
             \/ \E t \in Threads : Asks(program, t, kind, h) /\ o = <<t, 1>>
<1>1. \A t \in Threads : \A i \in 1 .. Len(program[t]) :
        program[t][i] = Defer(kind, h) <=> Asks(program, t, kind, h) /\ i = 1
  <2> SUFFICES ASSUME NEW t \in Threads, NEW i \in 1 .. Len(program[t])
               PROVE  program[t][i] = Defer(kind, h) <=> Asks(program, t, kind, h) /\ i = 1
    OBVIOUS
  <2>1. program[t] \in Seq(Orders) /\ Len(program[t]) \in Nat
    BY DEF Typed
  <2>2. program[t] # <<>> /\ Head(program[t]) = program[t][1]
    BY <2>1
  <2>3. i # 1 => program[t][i].op = "drop"
    BY <2>1 DEF DefersFirst
  <2>4. Defer(kind, h).op = "defer"
    BY DEF Defer
  <2> QED
    BY <2>2, <2>3, <2>4 DEF Asks
<1>2. \A t \in Threads : Asks(program, t, kind, h) => 1 \in 1 .. Len(program[t])
  BY DEF Typed, Asks
<1> DEFINE A == {<<"entry", e>> : e \in {x \in Live(kind) : entries[x].handle = h}}
           B == {<<"queue", i>> : i \in {j \in 1 .. Len(queue) : queue[j] = <<kind, h>>}}
           C == UNION {{<<t, i>> : i \in {j \in 1 .. Len(program[t]) :
                                           program[t][j] = Defer(kind, h)}} : t \in Threads}
<1>3. Owners(kind, h) = A \cup B \cup C
  BY DEF Owners
<1>4. \A o : o \in A <=> \E e \in Entries : Owns(entries, e, kind, h) /\ o = <<"entry", e>>
  BY DEF Live, Owns
<1>5. \A o : o \in B <=> \E i \in 1 .. Len(queue) : queue[i] = <<kind, h>> /\ o = <<"queue", i>>
  OBVIOUS
<1>6. \A o : o \in C <=> \E t \in Threads : Asks(program, t, kind, h) /\ o = <<t, 1>>
  <2> HIDE DEF Asks
  <2> QED
    BY <1>1, <1>2
<1> QED
  BY <1>3, <1>4, <1>5, <1>6

LEMMA OwnersAreOne ==
    ASSUME ResourceInv
    PROVE  OneOwner
<1> SUFFICES ASSUME NEW kind \in Kinds, NEW h \in Handles
             PROVE  Cardinality(Owners(kind, h)) = IF Exists(kind, h) THEN 1 ELSE 0
  BY DEF OneOwner
<1> DEFINE e(x) == Owns(entries, x, kind, h)
           d(t) == Asks(program, t, kind, h)
           q(i) == queue[i] = <<kind, h>>
<1>1. Typed /\ DefersFirst /\ Owned
  BY DEF ResourceInv
<1>2. \A o : o \in Owners(kind, h) <=>
        \/ \E x \in Entries : e(x) /\ o = <<"entry", x>>
        \/ \E i \in 1 .. Len(queue) : q(i) /\ o = <<"queue", i>>
        \/ \E t \in Threads : d(t) /\ o = <<t, 1>>
  BY <1>1, OwnersAre
<1>3. Requested(kind, h) <=> \E i \in 1 .. Len(queue) : q(i)
  BY DEF Requested, Contains
<1>4. /\ Exists(kind, h) <=> \/ \E x \in Entries : e(x)
                             \/ \E t \in Threads : d(t)
                             \/ Requested(kind, h)
      /\ \A x, y \in Entries : e(x) /\ e(y) => x = y
      /\ \A t, u \in Threads : d(t) /\ d(u) => t = u
      /\ \A x \in Entries : e(x) => ~Requested(kind, h) /\ \A t \in Threads : ~d(t)
      /\ \A t \in Threads : d(t) => ~Requested(kind, h)
      /\ \A i, j \in 1 .. Len(queue) : q(i) /\ q(j) => i = j
  BY <1>1 DEF Owned
<1> HIDE DEF e, d, q
<1>5. CASE ~Exists(kind, h)
  <2>1. Owners(kind, h) = {}
    BY <1>2, <1>3, <1>4, <1>5
  <2> QED
    BY <1>5, <2>1, FS_EmptySet
<1>6. CASE Exists(kind, h)
  <2>1. \E o : Owners(kind, h) = {o}
    <3>1. CASE \E x \in Entries : e(x)
      <4>1. PICK x \in Entries : e(x)
        BY <3>1
      <4>2. Owners(kind, h) = {<<"entry", x>>}
        BY <1>2, <1>3, <1>4, <4>1
      <4> QED
        BY <4>2
    <3>2. CASE \E t \in Threads : d(t)
      <4>1. PICK t \in Threads : d(t)
        BY <3>2
      <4>2. Owners(kind, h) = {<<t, 1>>}
        BY <1>2, <1>3, <1>4, <4>1
      <4> QED
        BY <4>2
    <3>3. CASE Requested(kind, h)
      <4>1. PICK i \in 1 .. Len(queue) : q(i)
        BY <1>3, <3>3
      <4>2. Owners(kind, h) = {<<"queue", i>>}
        BY <1>2, <1>4, <3>3, <4>1
      <4> QED
        BY <4>2
    <3> QED
      BY <1>4, <1>6, <3>1, <3>2, <3>3
  <2> QED
    BY <1>6, <2>1, FS_Singleton
<1> QED
  BY <1>5, <1>6

\* Whichever thread drops which reference when, and wherever an upload fails, each object
\* of the device has exactly one owner that will see to its deletion, and an image has one
\* texture (~MaterialEntry, ~TextureEntry, ~MeshEntry, TextureCache::load).
THEOREM NothingIsTwice == Spec => []NothingTwice
<1>1. ResourceInv => NothingTwice
  <2> SUFFICES ASSUME ResourceInv
               PROVE  NothingTwice
    OBVIOUS
  <2>1. TypeOK /\ OneOwner
    BY TypesAreRight, OwnersAreOne
  <2>2. OneTexturePerImage
    BY DEF ResourceInv, TexturesCached, OneTexturePerImage
  <2> QED
    BY <2>1, <2>2 DEF NothingTwice
<1> QED
  BY <1>1, ResourceInvariant, PTL

\* What a material was bound with is there as long as the device knows the material, and
\* with the images that the material has (bind_material reads the numbers without asking).
THEOREM TexturesOutlive == Spec => []TexturesOutliveMaterials
<1>1. ResourceInv => TexturesOutliveMaterials
  <2> SUFFICES ASSUME ResourceInv
               PROVE  TexturesOutliveMaterials
    OBVIOUS
  <2>1. Typed /\ References /\ TexturesCached /\ MaterialsUploaded /\ TexturesHeld
    BY DEF ResourceInv
  <2>2. \A h \in Handles : materials[h] # None =>
          \A t \in {materials[h].base, materials[h].normal} \ {None} : textures[t] # None
    BY <2>1 DEF TexturesHeld, Bindings
  <2>3. ASSUME NEW x \in Live("texture") \cup {None}, HandleOf(x) # None
        PROVE  x # None /\ textures[HandleOf(x)] = entries[x].key
    BY <2>1, <2>3 DEF HandleOf, TexturesCached, Typed, Record, Live
  <2>4. ASSUME NEW e \in Live("material"), entries[e].handle # None
        PROVE  LET m == materials[entries[e].handle]
               IN  /\ m.base   # None => textures[m.base] = BaseOf[entries[e].key]
                   /\ m.normal # None => textures[m.normal] = NormalOf[entries[e].key]
    <3>1. /\ materials[entries[e].handle] = [base |-> HandleOf(entries[e].base),
                                             normal |-> HandleOf(entries[e].normal)]
          /\ entries[e].base # None => entries[entries[e].base].key = BaseOf[entries[e].key]
          /\ entries[e].normal # None => entries[entries[e].normal].key = NormalOf[entries[e].key]
      BY <2>1, <2>4 DEF MaterialsUploaded
    <3>2. /\ entries[e].base \in Live("texture") \cup {None}
          /\ entries[e].normal \in Live("texture") \cup {None}
      BY <2>1 DEF References, Live
    <3> QED
      BY <2>3, <3>1, <3>2
  <2> QED
    BY <2>2, <2>4 DEF TexturesOutliveMaterials
<1> QED
  BY <1>1, ResourceInvariant, PTL

=============================================================================
