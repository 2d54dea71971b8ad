------------------------------ MODULE SceneFile ------------------------------
(***************************************************************************)
(* Scenes as JSON: Scene::save walks the reflected properties of every     *)
(* object and drives a JsonWriter, call by call; JsonSceneLoader::load     *)
(* reads the text back into a staged scene, property by property, where    *)
(* constraints clamp or refuse what the file says.  Between the two the    *)
(* file may be edited by hand and the scene in the inspector, which can    *)
(* reset a property to the snapshot taken when the object was loaded.      *)
(*   src/src/serialization/json/, src/src/scene/{scene,object}.{h,cpp},    *)
(*   src/src/reflection/builtin_properties.{h,cpp},                        *)
(*   src/src/ui/scene_inspector.cpp                                        *)
(* Saving and the inspector run on the main thread between frames; a load  *)
(* fills a scene of its own, so that each of them is one step here.        *)
(***************************************************************************)
EXTENDS ReflectedProperties, FiniteSets

CONSTANTS
    Classes,        \* the classes of objects that can be constructed
    PropertiesOf,   \* PropertiesOf[c]: its properties, those of its bases first
    Default,        \* Default[c]: the values its constructor leaves
    Systems,        \* the system names load_systems knows
    Edits(_),       \* Edits(v): what a JSON value can be made by hand
    Spins,          \* the spin animations the program sets
    MaxObjects, MaxSystems, MaxTime, MaxId, MaxEdits    \* bounds of the model

\* The names of the reflected properties of a class; PropertiesOf[c] has the
\* properties of its bases first.
NamesOf(c) == {PropertiesOf[c][i].name : i \in DOMAIN PropertiesOf[c]}

\* What an object of a class can hold: every value fits its property.
ValuesOf(c) ==
    {values \in [NamesOf(c) -> Held] :
        \A property \in Range(PropertiesOf[c]) : Fits(property, values[property.name])}

Ids == 0 .. 2 * Width - 1

\* A translation has one component less than a row of a transform.
SpinAnimations == [speed : Int, phase : Int, translation : [1 .. Components - 1 -> Int]]

IdProperty == Property("object_id", "uint", TRUE, Unlimited)

\* Every class is a subclass of Object: it has an id that cannot be edited, and
\* what is called transform is a matrix.  A constructor leaves values that fit.
ASSUME SceneFileAssumption ==
    /\ PropertiesOf \in [Classes -> Seq(Properties)]
    /\ \A c \in Classes :
          /\ IsInjective([i \in DOMAIN PropertiesOf[c] |-> PropertiesOf[c][i].name])
          /\ IdProperty \in Range(PropertiesOf[c])
          /\ \A property \in Range(PropertiesOf[c]) :
                property.name = "transform" => property.kind = "mat"
          /\ Default[c] \in ValuesOf(c)
    /\ Spins \subseteq SpinAnimations
    /\ {MaxObjects, MaxSystems, MaxTime, MaxEdits} \subseteq Nat /\ MaxId \in Ids

\* A scene takes five levels of a document.  Its keys and the names of classes
\* and systems are texts, and no property is called as the field that names the
\* class is.
ASSUME DocumentAssumption ==
    /\ MaxDepth >= 5
    /\ {"class", "object_id", "spin_animation", "angular_speed", "phase_offset", "translation",
        "time", "paused", "objects", "spin_animations", "systems"} \subseteq Texts
    /\ Classes \subseteq Texts /\ Systems \subseteq Texts
    /\ \A c \in Classes : "class" \notin NamesOf(c)

VARIABLES
    scene,      \* the active scene
    edits       \* how many values were changed by hand, in the inspector or in a file

sceneFileVars == <<scene, edits>>

EmptyScene == [objects |-> <<>>, byId |-> {}, spins |-> <<>>, systems |-> <<>>,
               time |-> 0, paused |-> FALSE, nextId |-> 0]

IdOf(object) == object.values["object_id"][2]

-----------------------------------------------------------------------------
(* Scene::save: a JsonWriter driven call by call.  An assertion of the        *)
(* writer that fails ends the program, which the writer remembers.            *)

WriteRow(w, row) == WriteArray(WriteVal, w, row[2])

\* JsonPropertyWriter::write_value: arrays element by element.
WriteValue(w, property, v) ==
    CASE property.kind = "mat" -> WriteArray(WriteRow, w, v[2])
      [] property.kind \in {"list", "vec"} -> WriteArray(WriteVal, w, v[2])
      [] OTHER -> WriteVal(w, v)

WriteObject(w, object) ==
    LET WriteProperty(acc, property) ==
            WriteValue(WriteKey(acc, property.name), property, object.values[property.name])
        opened == WriteKeyVal(Open(w, "obj"), "class", Str(object.class))
    IN  Close(Each(WriteProperty, opened, PropertiesOf[object.class]), "obj")

WriteSpin(w, id, spin) ==
    LET opened == WriteKeyVal(Open(w, "obj"), "object_id", Num(id))
        speed == WriteKeyVal(Open(WriteKey(opened, "spin_animation"), "obj"),
                             "angular_speed", Num(spin.speed))
        phase == WriteKeyVal(speed, "phase_offset", Num(spin.phase))
    IN  Close(Close(WriteRow(WriteKey(phase, "translation"), Nums(spin.translation)), "obj"), "obj")

WriteSystem(w, name) == WriteVal(w, Str(name))

\* The spin animations are kept by object id in no particular order.
SpinOrder(s) == SetToSeq(DOMAIN s.spins)

WriteSpins(w, s) ==
    LET WriteSpinOf(acc, id) == WriteSpin(acc, id, s.spins[id])
    IN  IF DOMAIN s.spins = {} THEN w
        ELSE WriteArray(WriteSpinOf, WriteKey(w, "spin_animations"), SpinOrder(s))

Saved(s) ==
    LET time == WriteKeyVal(Open(NewWriter, "obj"), "time", Num(s.time))
        paused == WriteKeyVal(time, "paused", <<"bool", s.paused>>)
        objects == WriteArray(WriteObject, WriteKey(paused, "objects"), s.objects)
        systems == WriteKey(WriteSpins(objects, s), "systems")
    IN  Close(WriteArray(WriteSystem, systems, s.systems), "obj")

-----------------------------------------------------------------------------
(* JsonSceneLoader::load: the staged scene, and whether nothing was thrown. *)

Staged(s, ok) == [scene |-> s, ok |-> ok]

Throw(staged) == [staged EXCEPT !.ok = FALSE]

\* A property missing in the file keeps the value the constructor gave it.
LoadedValue(property, old, entry) ==
    IF Found(entry, property.name) = {} THEN old
    ELSE Read(property, old, First(entry, property.name))

PropertyOf(class, name) == CHOOSE p \in Range(PropertiesOf[class]) : p.name = name

Loaded(class, entry) ==
    [name \in NamesOf(class) |-> LoadedValue(PropertyOf(class, name), Default[class][name], entry)]

\* MUTANT of AddObject: an object whose id is taken is dropped.
AddOrDrop(staged, object) ==
    IF IdOf(object) \in staged.scene.byId THEN staged
    ELSE [staged EXCEPT !.scene.objects = Append(@, object),
                        !.scene.byId = @ \union {IdOf(object)}]

\* Scene::add_object.
AddObject(staged, object) ==
    IF IdOf(object) \in staged.scene.byId THEN Throw(staged)
    ELSE [staged EXCEPT !.scene.objects = Append(@, object),
                        !.scene.byId = @ \union {IdOf(object)}]

\* The snapshot is captured when everything is loaded, from values that nobody
\* changes in between.
Captured(class, values) == [class |-> class, values |-> values, snapshot |-> values]

\* The classes an object entry names: there is at most one.
ClassesIn(entry) ==
    {c \in Classes : Found(entry, "class") # {} /\ First(entry, "class") = Str(c)}

LoadObject(staged, entry) ==
    IF Type(entry) # "obj" \/ ClassesIn(entry) = {} THEN Throw(staged)
    ELSE LET class == CHOOSE c \in ClassesIn(entry) : TRUE
         IN  AddObject(staged, Captured(class, Loaded(class, entry)))

LoadSystem(staged, entry) ==
    IF Type(entry) # "str" THEN Throw(staged)
    ELSE IF entry[2] \in Systems
         THEN [staged EXCEPT !.scene.systems = Append(@, entry[2])]
         ELSE staged

AllAre(type, v, key) == \A i \in Found(v, key) : Type(v[2][i][2]) = type

\* Nothing in the entry makes the loader throw.
IsSpin(entry) ==
    /\ Type(entry) = "obj"
    /\ \A i \in Found(entry, "object_id") : entry[2][i][2] \in {"num"} \X Ids
    /\ AllAre("obj", entry, "spin_animation")
    /\ \A i \in Found(entry, "spin_animation") :
          LET inner == entry[2][i][2]
          IN  /\ AllAre("num", inner, "angular_speed") /\ AllAre("num", inner, "phase_offset")
              /\ AllAre("arr", inner, "translation")

\* The fields with a key of an entry's spin animation: the last of them counts.
SpinsWith(entry, key) ==
    {i \in Found(entry, "spin_animation") : Found(entry[2][i][2], key) # {}}

Latest(v, key) == v[2][Max(Found(v, key))][2]

SpinField(entry, key) == Latest(entry[2][Max(SpinsWith(entry, key))][2], key)

IsWholeSpin(entry) ==
    /\ Found(entry, "object_id") # {}
    /\ \A key \in {"angular_speed", "phase_offset", "translation"} : SpinsWith(entry, key) # {}

SpinOf(entry) ==
    [speed |-> SpinField(entry, "angular_speed")[2], phase |-> SpinField(entry, "phase_offset")[2],
     translation |-> [i \in 1 .. Components - 1 |->
                         Component(SpinField(entry, "translation"), i)[2]]]

\* Scene::set_spin_animation.
WithSpin(s, id, spin) ==
    [s EXCEPT !.spins = [other \in DOMAIN @ \cup {id} |-> IF other = id THEN spin ELSE @[other]]]

LoadSpin(staged, entry) ==
    IF ~IsSpin(entry) THEN Throw(staged)
    ELSE IF ~IsWholeSpin(entry) THEN staged
    ELSE [staged EXCEPT !.scene = WithSpin(@, Latest(entry, "object_id")[2], SpinOf(entry))]

LoadEntry(staged, section, entry) ==
    CASE ~staged.ok -> staged
      [] staged.ok /\ section = "objects" -> LoadObject(staged, entry)
      [] staged.ok /\ section = "spin_animations" -> LoadSpin(staged, entry)
      [] staged.ok /\ section = "systems" -> LoadSystem(staged, entry)

LoadEach(staged, section, v) ==
    LET LoadOne(acc, entry) == LoadEntry(acc, section, entry)
    IN  IF Type(v) # "arr" THEN Throw(staged) ELSE Each(LoadOne, staged, v[2])

LoadSection(staged, field) ==
    LET v == field[2]
    IN  CASE ~staged.ok -> staged
          [] staged.ok /\ field[1] \in {"objects", "spin_animations", "systems"} ->
                LoadEach(staged, field[1], v)
          [] staged.ok /\ field[1] = "paused" ->
                IF Type(v) = "bool" THEN [staged EXCEPT !.scene.paused = v[2]] ELSE Throw(staged)
          [] staged.ok /\ field[1] = "time" ->
                IF Type(v) = "num" THEN [staged EXCEPT !.scene.time = v[2]] ELSE Throw(staged)
          [] OTHER -> staged

\* What is no document does not get past the parser.
LoadedFrom(root) ==
    IF ~IsValue(root) \/ Type(root) # "obj" THEN Staged(EmptyScene, FALSE)
    ELSE Each(LoadSection, Staged(EmptyScene, TRUE), root[2])

\* Application::load_scene empties the scene before it loads: when the loader
\* throws, the staged scene goes with the task and the active one stays empty.
SceneFrom(root) ==
    LET staged == LoadedFrom(root)
    IN  IF staged.ok THEN staged.scene ELSE EmptyScene

-----------------------------------------------------------------------------
(* A file: what was saved once, with at most one change made by hand.  A load *)
(* does not depend on the scene it replaces, so that the file is taken to be *)
(* the one of the scene at hand.                                              *)

FileOf(s) == RootOf(Parsed(Saved(s).json))

DamagedFiles == IF edits < MaxEdits THEN Edits(FileOf(scene)) ELSE {}

Load == scene' = SceneFrom(FileOf(scene)) /\ UNCHANGED edits

LoadDamaged ==
    /\ \E root \in DamagedFiles : scene' = SceneFrom(root)
    /\ edits' = edits + 1

-----------------------------------------------------------------------------
(* The scene between loads: the program's own changes and the inspector's. *)

\* Scene::create_object: the id is used up even when add_object throws.
Create(class) ==
    /\ Len(scene.objects) < MaxObjects /\ scene.nextId < MaxId
    /\ LET id == scene.nextId + 1
           values == [Default[class] EXCEPT !["object_id"] = Num(id)]
           added == AddObject(Staged([scene EXCEPT !.nextId = id], TRUE), Captured(class, values))
       IN  scene' = added.scene

AddSystem(name) ==
    /\ Len(scene.systems) < MaxSystems
    /\ scene' = [scene EXCEPT !.systems = Append(@, name)]

SetSpin(id, spin) == scene' = WithSpin(scene, id, spin)

RemoveSpin(id) ==
    scene' = [scene EXCEPT !.spins = [other \in DOMAIN @ \ {id} |-> @[other]]]

SetPaused(paused) == scene' = [scene EXCEPT !.paused = paused]

\* AnimationSystem::tick: translation times rotation, an angle of half turns.
Turned(spin, time) ==
    LET angle == (spin.speed * time + spin.phase) % 2
        entry(r, c) == CASE r = c -> IF r = Components THEN 1 ELSE angle
                         [] r # c /\ c = Components -> spin.translation[r]
                         [] OTHER -> 0
    IN  Arr([r \in 1 .. Components |-> Arr([c \in 1 .. Components |-> Num(entry(r, c))])])

Spun(object, spins, time) ==
    IF IdOf(object) \in DOMAIN spins /\ "transform" \in NamesOf(object.class)
    THEN [object EXCEPT !.values["transform"] = Turned(spins[IdOf(object)], time)]
    ELSE object

Tick ==
    /\ ~scene.paused /\ scene.time < MaxTime
    /\ scene' = [scene EXCEPT
          !.time = @ + 1,
          !.objects = IF "Animation" \in Range(scene.systems)
                      THEN [i \in DOMAIN @ |-> Spun(@[i], scene.spins, scene.time + 1)] ELSE @]

EditProperty(i, property) ==
    /\ ~property.readOnly /\ edits < MaxEdits /\ edits' = edits + 1
    /\ \E v \in Edited(property, scene.objects[i].values[property.name]) :
           scene' = [scene EXCEPT !.objects[i].values[property.name] = v]

\* Object::reset_property_to_snapshot, behind the inspector's button.
ResetProperty(i, property) ==
    /\ ~property.readOnly
    /\ scene' = [scene EXCEPT !.objects[i].values[property.name] =
                                 scene.objects[i].snapshot[property.name]]

SceneFileInit == scene = EmptyScene /\ edits = 0

Change ==
    \/ \E class \in Classes : Create(class)
    \/ \E name \in Systems : AddSystem(name)
    \/ \E id \in 1 .. MaxId, spin \in Spins : SetSpin(id, spin)
    \/ \E id \in 1 .. MaxId : RemoveSpin(id)
    \/ \E paused \in BOOLEAN : SetPaused(paused)
    \/ Tick
    \/ \E i \in DOMAIN scene.objects :
          \E property \in Range(PropertiesOf[scene.objects[i].class]) : ResetProperty(i, property)

SceneFileNext ==
    \/ Change /\ UNCHANGED edits
    \/ Load
    \/ LoadDamaged
    \/ \E i \in DOMAIN scene.objects :
          \E property \in Range(PropertiesOf[scene.objects[i].class]) : EditProperty(i, property)

SceneFileSpec == SceneFileInit /\ [][SceneFileNext]_sceneFileVars

-----------------------------------------------------------------------------
(* Properties. *)

\* The strings in a value that a property holds.
StringsIn(v) ==
    IF v \in HeldStrings THEN {v[2]}
    ELSE IF v \in Lists THEN {v[2][i][2] : i \in DOMAIN v[2]} ELSE {}

\* No string of an object, or of the scene, was cut inside a character.
HoldsUtf8(object) == \A name \in NamesOf(object.class) : StringsIn(object.values[name]) \subseteq Texts

IsUtf8(s) == \A i \in DOMAIN s.objects : HoldsUtf8(s.objects[i])

\* Saving and loading: in every scene the program, the inspector or a damaged
\* file can lead to, no assertion of the writer fails and what it writes has the
\* form of JSON.  As long as all strings are UTF-8, loading it gives the same
\* objects, values, animations, systems and time; only the counter of ids starts
\* again, and the snapshots are taken anew.  A string that was cut inside a
\* character makes the loader refuse the file as a whole.
\* (writer.h:78-252, scene_loader.cpp:353-437, builtin_properties.cpp:368-375)
RoundTrip ==
    LET saved == Saved(scene)
        parsed == Parsed(saved.json)
        again == [scene EXCEPT
                     !.nextId = 0,
                     !.objects = [i \in DOMAIN @ |-> Captured(@[i].class, @[i].values)]]
    IN  /\ saved.assertsHold /\ saved.stack = <<>> /\ IsJson(parsed)
        /\ LoadedFrom(RootOf(parsed)) =
              IF IsUtf8(scene) THEN Staged(again, TRUE) ELSE Staged(EmptyScene, FALSE)

\* Whatever a file held, no value and no snapshot is outside its property's
\* range or shape, no text is longer than its property takes, no two objects
\* share an id, and the index by id has the ids the objects carry in their own
\* read-only property.
\* (builtin_properties.cpp:45-75, property_deserializer.cpp, scene.h:485-503)
SceneIsSane ==
    /\ \A i \in DOMAIN scene.objects :
          LET object == scene.objects[i]
          IN  \A property \in Range(PropertiesOf[object.class]) :
                 /\ Fits(property, object.values[property.name])
                 /\ Fits(property, object.snapshot[property.name])
    /\ scene.byId = {IdOf(scene.objects[i]) : i \in DOMAIN scene.objects}
    /\ IsInjective([i \in DOMAIN scene.objects |-> IdOf(scene.objects[i])])

\* What is always so: the types of everything, every value within its property,
\* and no id twice.
IsObject(o) ==
    /\ o.class \in Classes
    /\ o \in [class : {o.class}, values : ValuesOf(o.class), snapshot : ValuesOf(o.class)]

IsScene(s) ==
    /\ s \in [objects : {s.objects}, byId : SUBSET Ids, spins : {s.spins},
              systems : Seq(Systems), time : Int, paused : BOOLEAN, nextId : 0 .. MaxId]
    /\ s.objects = [i \in 1 .. Len(s.objects) |-> s.objects[i]] /\ Len(s.objects) \in Nat
    /\ \A i \in 1 .. Len(s.objects) : IsObject(s.objects[i])
    /\ DOMAIN s.spins \subseteq Ids /\ s.spins \in [DOMAIN s.spins -> SpinAnimations]

IdsAreKnown(s) ==
    /\ s.byId = {IdOf(s.objects[i]) : i \in DOMAIN s.objects}
    /\ \A i, j \in DOMAIN s.objects : i # j => IdOf(s.objects[i]) # IdOf(s.objects[j])

SceneFileInv == IsScene(scene) /\ IdsAreKnown(scene) /\ edits \in 0 .. MaxEdits

\* A root can have its list of objects more than once.
EntriesOf(root) ==
    LET Count(n, field) ==
            IF field[1] = "objects" /\ Type(field[2]) = "arr" THEN n + Len(field[2][2]) ELSE n
    IN  IF IsValue(root) /\ Type(root) = "obj" THEN Each(Count, 0, root[2]) ELSE 0

\* A load takes every object entry of the file or leaves the scene empty: no
\* entry is skipped, merged with another or lost half-way.
\* (scene_loader.cpp:106-159, application.cpp:1855-1905)
LoadIsAllOrNothing ==
    \A root \in DamagedFiles :
        LET loaded == SceneFrom(root)
        IN  loaded = EmptyScene \/ Len(loaded.objects) = EntriesOf(root)
=============================================================================
