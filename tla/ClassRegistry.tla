--------------------------- MODULE ClassRegistry ---------------------------
(***************************************************************************)
(* Reflection: classes describe themselves in static storage, queue an     *)
(* entry while their library is loaded and are published later by          *)
(* process_pending_registrations, which fills the storage, enters it in    *)
(* the registry and links it to its super class.  A failure throws in the  *)
(* middle and leaves what was done so far.  Objects are constructed from   *)
(* the published metadata, and the class inspector shows it.               *)
(*   src/src/reflection/class_registry.{h,cpp}, class_info.h, construct.h, *)
(*   construct_property.h, src/src/ui/class_inspector.cpp                  *)
(* The API is not synchronised: one thread makes every call.               *)
(***************************************************************************)
EXTENDS Naturals, Sequences, FiniteSets, SequencesExt

CONSTANTS
    Classes,    \* the storages of the classes compiled into some library
    NoClass,    \* the null ClassInfo pointer
    Library,    \* Library[c]: the program or library whose loading queues c
    Module,     \* Module[c]: its module name
    Name,       \* Name[c]: the rank of its qualified name
    Hierarchy,  \* Hierarchy[c]: its root tag, the root class if there is one
    Super,      \* Super[c]: the storage its resolver returns, NoClass for a root
    Declared,   \* Declared[c]: its own properties in declaration order
    Broken,     \* the classes whose entry has no storage
    MaxObjects  \* bound: the objects that live at a time

ASSUME ClassesAssumption ==
    /\ IsFiniteSet(Classes)
    /\ NoClass \notin Classes
    /\ DOMAIN Library = Classes /\ DOMAIN Module = Classes /\ DOMAIN Hierarchy = Classes
    /\ Name \in [Classes -> Nat]
    /\ \A c, d \in Classes : Name[c] = Name[d] => Module[c] = Module[d]
    /\ Super \in [Classes -> (Classes \ Broken) \union {NoClass}]
    /\ \A c \in Classes : Hierarchy[c] \in Classes => Super[Hierarchy[c]] = NoClass
    /\ \A c \in Classes : Declared[c] \in Seq(ToSet(Declared[c])) /\ IsInjective(Declared[c])
    /\ Broken \subseteq Classes
    /\ MaxObjects \in Nat

VARIABLES
    autoRegistration,   \* auto_registration_enabled()
    pending,            \* the queued entries, the newest first
    loaded,             \* the libraries that have been loaded
    info,               \* the storages: what each ClassInfo holds
    classes,            \* the registry: the published storages
    call,               \* what process_pending_registrations does next
    batch,              \* its newly_registered list
    visited,            \* its visit_states, the classes that are done
    spoilt,             \* the classes of a batch that ended in an exception
    objects,            \* the objects that live: their class and properties
    inspector           \* the inspector's selection and its cache

registry == <<autoRegistration, pending, loaded, info, classes, spoilt>>
processing == <<call, batch, visited>>
vars == <<registry, processing, objects, inspector>>

-----------------------------------------------------------------------------
(* ClassInfo *)

\* One step up from the end of a path.
Climb(link, path) ==
    IF link[Last(path)] = NoClass THEN path ELSE Append(path, link[Last(path)])

\* The path from c along link: no chain of super classes is longer than this.
Path(link, c) ==
    LET climbed[n \in 0 .. Cardinality(Classes)] ==
            IF n = 0 THEN <<c>> ELSE Climb(link, climbed[n - 1])
    IN  climbed[Cardinality(Classes)]

\* The super classes of c as the storages link them, c first.
Chain(c) == Path([d \in Classes |-> info[d].super], c)

IsA(c, other) == other \in ToSet(Chain(c))

\* The properties an instance of c is given: those of its base classes first.
PropertiesOf(c) ==
    LET bases == Reverse(Chain(c))
    IN  FlattenSeq([i \in DOMAIN bases |-> info[bases[i]].properties])

\* register_property puts a descriptor in front of the list.
RegisterProperties(c) ==
    LET list[n \in 0 .. Len(Declared[c])] ==
            IF n = 0 THEN <<>> ELSE <<Declared[c][n]>> \o list[n - 1]
    IN  list[Len(Declared[c])]

-----------------------------------------------------------------------------
Blank == [named |-> FALSE, super |-> NoClass, properties |-> <<>>]

Unselected == [cls |-> NoClass, cached |-> NoClass, rows |-> <<>>, property |-> <<>>]

Init ==
    /\ autoRegistration = TRUE
    /\ pending = <<>>
    /\ loaded = {}
    /\ info = [c \in Classes |-> Blank]
    /\ classes = {}
    /\ call = "none"
    /\ batch = <<>>
    /\ visited = {}
    /\ spoilt = {}
    /\ objects = {}
    /\ inspector = Unselected

Libraries == {Library[c] : c \in Classes}

ClassesOf(lib) == {c \in Classes : Library[c] = lib}

\* Loading a library runs the registrars of its classes, in an order that the
\* language leaves open.  The libraries of its super classes are loaded before
\* it.  A registrar queues its entry whatever auto_registration_enabled says.
LoadLibrary(lib) ==
    /\ call = "none"
    /\ lib \notin loaded
    /\ \A c \in ClassesOf(lib) :
          Super[c] # NoClass => Library[Super[c]] \in loaded \union {lib}
    /\ loaded' = loaded \union {lib}
    /\ \E order \in SetToSeqs(ClassesOf(lib)) : pending' = order \o pending
    /\ UNCHANGED <<autoRegistration, info, classes, spoilt, processing, objects, inspector>>

AllowAutoRegistration(enabled) ==
    /\ call = "none"
    /\ autoRegistration' = enabled
    /\ UNCHANGED <<pending, loaded, info, classes, spoilt, processing, objects, inspector>>

-----------------------------------------------------------------------------
(* process_pending_registrations *)

\* It throws at once while automatic registration is enabled.
ProcessPending ==
    /\ call = "none"
    /\ ~autoRegistration
    /\ pending # <<>>
    /\ call' = "register"
    /\ UNCHANGED <<registry, batch, visited, objects, inspector>>

\* An exception leaves the call: what was registered stays registered.
Throw(lost) ==
    /\ call' = "none"
    /\ spoilt' = spoilt \union ToSet(batch) \union lost
    /\ batch' = <<>>
    /\ visited' = {}
    /\ UNCHANGED <<autoRegistration, loaded, objects, inspector>>

SameEntry(c, other) == Name[other] = Name[c] /\ Hierarchy[other] = Hierarchy[c]

\* MUTANT of IsDuplicate: only the classes of the same batch are compared.
IsDuplicateInBatch(c) == \E other \in ToSet(batch) : SameEntry(c, other)

IsDuplicate(c) == \E other \in classes : SameEntry(c, other)

Filled(c) == [named |-> TRUE, super |-> NoClass,
              properties |-> Reverse(RegisterProperties(c))]

\* One turn of the loop: the newest entry leaves the queue, its storage is
\* filled, and the class enters the registry and the batch.
RegisterNext ==
    LET c == Head(pending) IN
    /\ call = "register"
    /\ pending # <<>>
    /\ c \notin Broken
    /\ ~info[c].named
    /\ ~IsDuplicate(c)
    /\ pending' = Tail(pending)
    /\ info' = [info EXCEPT ![c] = Filled(c)]
    /\ classes' = classes \union {c}
    /\ batch' = Append(batch, c)
    /\ UNCHANGED <<autoRegistration, loaded, spoilt, call, visited, objects, inspector>>

\* The entry that cannot be registered has left the queue and is lost; the
\* storage of a duplicate has been filled by then.
RegisterThrows ==
    LET c == Head(pending) IN
    /\ call = "register"
    /\ pending # <<>>
    /\ pending' = Tail(pending)
    /\ \/ /\ c \in Broken \/ info[c].named
          /\ UNCHANGED info
       \/ /\ c \notin Broken
          /\ ~info[c].named
          /\ IsDuplicate(c)
          /\ info' = [info EXCEPT ![c] = Filled(c)]
    /\ UNCHANGED classes
    /\ Throw({c})

AllRegistered ==
    /\ call = "register"
    /\ pending = <<>>
    /\ call' = "resolve"
    /\ UNCHANGED <<registry, batch, visited, objects, inspector>>

\* The classes resolve_super_eager visits from c: up the resolvers' answers as
\* long as they stay in the batch and are not done.
Visits(c) ==
    LET open == ToSet(batch) \ visited
    IN  Path([d \in Classes |-> IF Super[d] \in open THEN Super[d] ELSE NoClass], c)

ResolveNext ==
    \E i \in DOMAIN batch :
        LET path == Visits(batch[i]) IN
        /\ call = "resolve"
        /\ batch[i] \notin visited
        /\ \A j \in 1 .. i - 1 : batch[j] \in visited
        /\ IsInjective(path)
        /\ info' = [c \in Classes |->
                       IF c \in ToSet(path) THEN [info[c] EXCEPT !.super = Super[c]]
                       ELSE info[c]]
        /\ visited' = visited \union ToSet(path)
        /\ UNCHANGED <<autoRegistration, pending, loaded, classes, spoilt, call,
                       batch, objects, inspector>>

\* A class that is met again while it is being visited: a circle.
ResolveThrows ==
    \E i \in DOMAIN batch :
        /\ call = "resolve"
        /\ batch[i] \notin visited
        /\ \A j \in 1 .. i - 1 : batch[j] \in visited
        /\ ~IsInjective(Visits(batch[i]))
        /\ UNCHANGED <<pending, info, classes>>
        /\ Throw({})

AllResolved ==
    /\ call = "resolve"
    /\ ToSet(batch) \subseteq visited
    /\ call' = "none"
    /\ batch' = <<>>
    /\ visited' = {}
    /\ UNCHANGED <<registry, objects, inspector>>

-----------------------------------------------------------------------------
(* Lookup, removal *)

FindClass(name, root) == {c \in classes : Name[c] = name /\ Hierarchy[c] = root}

Unpublish(gone) ==
    /\ call = "none"
    /\ gone # {}
    /\ classes' = classes \ gone
    /\ UNCHANGED <<autoRegistration, pending, loaded, info, spoilt, processing,
                   objects, inspector>>

UnregisterClass(name, root) == Unpublish(FindClass(name, root))

UnregisterModule(m) == Unpublish({c \in classes : Module[c] = m})

Clear == Unpublish(classes)

-----------------------------------------------------------------------------
(* Construction *)

\* The constructors of the bases run first; the constructor of c itself binds
\* the object to c and rebuilds the list, which is what stays.
Instance(c) == [class |-> c, properties |-> PropertiesOf(c)]

\* MUTANT of CanConstruct: the tag is taken for proof of the hierarchy.
TagMatches(c, root) ==
    /\ info[c].named
    /\ Hierarchy[c] = root

\* construct<Root>(cls): the tag must match and the links must lead to the root
\* class.  A class whose storage is not filled has no factory: a null pointer.
CanConstruct(c, root) ==
    /\ info[c].named
    /\ Hierarchy[c] = root
    /\ IsA(c, root)

Construct(c, root) ==
    /\ call = "none"
    /\ CanConstruct(c, root)
    /\ Cardinality(objects) < MaxObjects
    /\ objects' = objects \union {Instance(c)}
    /\ UNCHANGED <<registry, processing, inspector>>

ConstructByName(name, root) ==
    \E c \in FindClass(name, root) : Construct(c, root)

Destroy(object) ==
    /\ call = "none"
    /\ object \in objects
    /\ objects' = objects \ {object}
    /\ UNCHANGED <<registry, processing, inspector>>

-----------------------------------------------------------------------------
(* draw_class_inspector_panel *)

Parent(c) == info[c].super

TreeRoots == {c \in classes : Parent(c) \notin classes}

FirstRoots == {c \in TreeRoots : \A d \in TreeRoots : Name[c] <= Name[d]}

\* The nodes that can be clicked: those below a root, level by level.  A filter
\* hides some of them.
Tree ==
    LET level[n \in 0 .. Cardinality(Classes)] ==
            IF n = 0 THEN TreeRoots
            ELSE LET above == level[n - 1]
                 IN  above \union {c \in classes : Parent(c) \in above}
    IN  level[Cardinality(Classes)]

ValidSelection == IF inspector.cls \in classes THEN inspector.cls ELSE NoClass

\* The class that is selected when the details are drawn.
Selections ==
    IF ValidSelection = NoClass THEN FirstRoots \union Tree
    ELSE {ValidSelection} \union Tree

\* The rows of the details table: each property with its class.
Rows(c) ==
    LET bases == Reverse(Chain(c))
    IN  FlattenSeq([i \in DOMAIN bases |->
            [j \in DOMAIN info[bases[i]].properties |->
                <<info[bases[i]].properties[j], bases[i]>>]])

\* MUTANT of CachedRows: the cache is filled once.
FirstRows(c) == IF inspector.cached = NoClass THEN Rows(c) ELSE inspector.rows

\* The cache is filled again when another class is selected than the last time.
CachedRows(c) == IF inspector.cached # c THEN Rows(c) ELSE inspector.rows

\* The selected row stays selected if the table still has it.
KeptProperty(rows) ==
    IF inspector.property \in ToSet(rows) THEN inspector.property
    ELSE IF rows = <<>> THEN <<>> ELSE Head(rows)

DrawInspector ==
    \E c \in Selections :
        LET rows == CachedRows(c) IN
        /\ call = "none"
        /\ \E p \in {KeptProperty(rows)} \union ToSet(rows) :
              inspector' = [cls |-> c, cached |-> c, rows |-> rows, property |-> p]
        /\ UNCHANGED <<registry, processing, objects>>

\* With an empty registry the panel is left before the details.
DrawEmptyInspector ==
    /\ call = "none"
    /\ classes = {}
    /\ inspector' = [inspector EXCEPT !.cls = NoClass]
    /\ UNCHANGED <<registry, processing, objects>>

-----------------------------------------------------------------------------
Next ==
    \/ \E lib \in Libraries : LoadLibrary(lib)
    \/ \E c \in Classes : UnregisterModule(Module[c])
    \/ \E enabled \in BOOLEAN : AllowAutoRegistration(enabled)
    \/ ProcessPending
    \/ RegisterNext
    \/ RegisterThrows
    \/ AllRegistered
    \/ ResolveNext
    \/ ResolveThrows
    \/ AllResolved
    \/ \E c \in Classes :
          \/ UnregisterClass(Name[c], Hierarchy[c])
          \/ ConstructByName(Name[c], Hierarchy[c])
          \/ \E root \in Classes : Construct(c, root)
    \/ Clear
    \/ \E object \in objects : Destroy(object)
    \/ DrawInspector
    \/ DrawEmptyInspector

Spec == Init /\ [][Next]_vars

-----------------------------------------------------------------------------
\* The variables have their types, and the steps of a call their data.
TypeOK ==
    /\ autoRegistration \in BOOLEAN
    /\ ToSet(pending) \subseteq Classes
    /\ loaded \subseteq Libraries
    /\ \A c \in Classes : info[c].super \in Classes \union {NoClass}
    /\ classes \subseteq Classes
    /\ call \in {"none", "register", "resolve"}
    /\ ToSet(batch) \subseteq Classes
    /\ inspector.cls \in Classes \union {NoClass}

\* What the classes were declared to be, whatever the storages say.
Ancestors(c) == Path(Super, c)

\* A name finds at most one class of a hierarchy.
NamesAreUnique == \A c, d \in classes : SameEntry(c, d) => c = d

\* Outside a call, no class of a loaded library has vanished: it waits in the queue,
\* it is published or was, and is linked to its super class, or the very batch that
\* published it ended in an exception, however many other batches failed.
NothingVanishes ==
    call = "none" =>
        \A c \in Classes : Library[c] \in loaded =>
            \/ c \in spoilt
            \/ c \in ToSet(pending)
            \/ info[c].named /\ info[c].super = Super[c]

\* A published class has its properties in declaration order.
InDeclarationOrder == \A c \in Classes : info[c].named => info[c].properties = Declared[c]

\* The registry is what the libraries declared, apart from the batches that failed
\* (process_pending_registrations, register_class, resolve_super_eager).
RegistryConsistent == TypeOK /\ NamesAreUnique /\ NothingVanishes /\ InDeclarationOrder

\* An object that construct() hands out has all the properties its class and
\* its base classes declare, base classes first and in declaration order, no
\* matter which batches failed before: where a link is missing, construct
\* refuses (construct.h:66-101, ReflectRoot::initialize_properties).
ObjectsAreWhole ==
    \A object \in objects :
        LET bases == Reverse(Ancestors(object.class))
        IN  object.properties =
                FlattenSeq([i \in DOMAIN bases |-> Declared[bases[i]]])

\* The inspector caches the rows of the class it shows and the row that is
\* selected in raw pointers over frames.  What the cache holds is what the
\* storages say now, and the selected row is one of them.
InspectorIsCurrent ==
    inspector.cached # NoClass =>
        /\ inspector.rows = Rows(inspector.cached)
        /\ inspector.rows # <<>> => inspector.property \in ToSet(inspector.rows)
=============================================================================
