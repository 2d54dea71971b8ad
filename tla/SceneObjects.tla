------------------------------ MODULE SceneObjects ------------------------------
(***************************************************************************)
(* SceneObjects: the objects of a scene, from the file to the frame.       *)
(*                                                                         *)
(* A pool thread loads a file into a staged scene, whose objects resolve   *)
(* their materials and meshes one after the other; the main thread's frame *)
(* finalizes meshes, gives dirty objects their sections and replaces the   *)
(* active scene by a staged one; its panels edit objects, reset them to    *)
(* the snapshot taken when they were loaded, choose a camera, and load or  *)
(* clear the scene.                                                        *)
(*                                                                         *)
(* An object's shape is what its sections are made from: the parameters of *)
(* a gear or a floor, the path of a static mesh.  All other properties, of *)
(* which a change makes a mesh dirty too, the systems, spin animations and *)
(* the clock are left out.  `meshes' is the mesh cache as far as entries   *)
(* are alive.  A gear or floor is uploaded where it is generated, so that  *)
(* pending_mesh_ref is empty between frames.                               *)
(***************************************************************************)
EXTENDS Integers, Sequences, SequencesExt

CONSTANTS
    Files, Content,     \* scene files; the objects each one describes
    Ids,                \* ObjectId
    Shapes, Materials,  \* parameters and material paths the inspector may set
    Paths,              \* paths of imported meshes
    None

Generated == {"Gear", "Floor"}
Meshes    == Generated \cup {"StaticMesh"}

\* What the sections of a mesh are made from.
ShapesOf(class) ==
    IF class \in Generated THEN Shapes ELSE IF class = "StaticMesh" THEN Paths ELSE {None}

\* What a file says of an object.  A static mesh names its path: one without, which is
\* never shown, is left out.
Entries ==
    {e \in [id : Ids, class : Meshes \cup {"Camera"}, shape : Shapes \cup Paths \cup {None},
            material : Materials \cup {None}] : e.shape \in ShapesOf(e.class)}

\* What an object shows, and what its properties were when it was loaded.
Sections  == [shape : Shapes \cup Paths, material : Materials]
Snapshots == [shape : Shapes \cup Paths \cup {None}, material : Materials \cup {None}]

ASSUME SceneAssumption ==
    /\ Shapes \cap Paths = {}
    /\ None \notin Ids \cup Shapes \cup Paths \cup Materials \cup Files
    /\ None \notin Sections \cup Snapshots
    /\ Content \in [Files -> Seq(Entries)]

VARIABLES
    objects,           \* Scene::objects
    objects_by_id,     \* of which it holds the position
    dirty_meshes,
    meshes,            \* MeshManager: the entry of each path
    task,              \* the scene load task and its staged scene
    pc,                \* the main thread
    opening,           \* the file it is about to load
    scene_camera_id    \* Viewport::scene_camera_id

scene == <<objects, objects_by_id, dirty_meshes>>
vars  == <<scene, meshes, task, pc, opening, scene_camera_id>>

NoTask == [at |-> "none", file |-> None, cancelled |-> FALSE, next |-> 0,
           objects |-> <<>>, objects_by_id |-> <<>>, dirty_meshes |-> {}]

IsMesh(o) == o.class \in Meshes

\* objects_by_id of these objects.
IndexOf(list) ==
    [id \in {list[i].id : i \in DOMAIN list} |-> CHOOSE i \in DOMAIN list : list[i].id = id]

-----------------------------------------------------------------------------
(* Faulty variants: each stands for a plausible slip in the code.           *)

\* The mesh is listed, but its flag is not set.
ListOnly(o) == o

\* A new scene leaves the viewport alone.
KeepCamera == scene_camera_id

\* The list is emptied, with those that still wait in it.
ClearAll(list) == {}

-----------------------------------------------------------------------------
(* Materials and meshes.                                                    *)

\* Somebody refers to the path's entry, or it waits to be finalized.
Held(p) ==
    \/ \E i \in DOMAIN objects : objects[i].shape = p /\ objects[i].held
    \/ \E i \in DOMAIN task.objects : task.objects[i].shape = p /\ task.objects[i].held

Cached(p) == meshes[p].at # "none" /\ (Held(p) \/ meshes[p].at \in {"loading", "loaded", "broken"})

NoMesh == [at |-> "none", material |-> None]

\* The import ends on the pool, with a mesh or an exception.
ImportEnds(p) ==
    /\ meshes[p].at = "loading"
    /\ \E end \in {"loaded", "broken"} : meshes' = [meshes EXCEPT ![p].at = end]
    /\ UNCHANGED <<scene, task, pc, opening, scene_camera_id>>

-----------------------------------------------------------------------------
(* The load task: JsonSceneLoader::load.                                    *)

\* An object as it is constructed from the file.
Construct(e) ==
    [id |-> e.id, class |-> e.class, shape |-> e.shape, material |-> e.material,
     ref |-> None, held |-> FALSE, sections |-> None, dirty |-> FALSE,
     scene |-> "staged", snapshot |-> None]

\* The task ends with an exception, and its staged scene goes.
LoadFails == task' = [NoTask EXCEPT !.at = "threw", !.file = task.file]

\* Whether add_object accepts them all.
IdsDiffer(list) == \A i, j \in DOMAIN list : i # j => list[i].id # list[j].id

LoadObjects ==
    /\ task.at = "start"
    /\ LET list == [i \in DOMAIN Content[task.file] |-> Construct(Content[task.file][i])]
       IN  IF task.cancelled \/ ~IdsDiffer(list)
             THEN LoadFails
             ELSE task' = [task EXCEPT !.at = "resolve", !.next = 1, !.objects = list,
                                       !.objects_by_id = IndexOf(list)]
    /\ UNCHANGED <<scene, meshes, pc, opening, scene_camera_id>>

\* StaticMesh::resolve: the material, then the mesh, which a cached entry serves
\* whatever material that was made with.
Resolve(o) ==
    IF IsMesh(o) /\ o.material # None
      THEN [o EXCEPT !.ref = o.material, !.held = o.shape \in Paths]
      ELSE o

ResolveNext ==
    LET o == task.objects[task.next]
    IN  /\ task.at = "resolve" /\ task.next <= Len(task.objects)
        /\ \/ /\ task' = [task EXCEPT !.next = @ + 1, !.objects[task.next] = Resolve(o)]
              /\ meshes' = IF Resolve(o).held /\ ~Cached(o.shape)
                             THEN [meshes EXCEPT ![o.shape] =
                                     [at |-> "loading", material |-> o.material]]
                             ELSE meshes
           \/ /\ IsMesh(o) /\ o.material # None
              /\ LoadFails
              /\ UNCHANGED meshes
    /\ UNCHANGED <<scene, pc, opening, scene_camera_id>>

\* capture_snapshot.
Capture(o) == [o EXCEPT !.snapshot = [shape |-> o.shape, material |-> o.material]]

MeshIds(list) == {o.id : o \in {x \in ToSet(list) : IsMesh(x)}}

\* Every mesh is marked dirty and every object's snapshot taken, and the task ends.
PostLoad ==
    LET list == task.objects
    IN  /\ task.at = "resolve" /\ task.next > Len(list)
        /\ IF task.cancelled
             THEN LoadFails
             ELSE task' = [task EXCEPT
                    !.at = "done",
                    !.objects = [i \in DOMAIN list |->
                                   Capture([list[i] EXCEPT !.dirty = IsMesh(list[i])])],
                    !.dirty_meshes = MeshIds(list)]
        /\ UNCHANGED <<scene, meshes, pc, opening, scene_camera_id>>

LoadTask == LoadObjects \/ ResolveNext \/ PostLoad

-----------------------------------------------------------------------------
(* The frame: Application::tick.                                            *)

\* MeshManager::process_pending.
ProcessPending ==
    /\ pc = "ui"
    /\ meshes' = [p \in Paths |->
         CASE meshes[p].at = "loaded" -> [meshes[p] EXCEPT !.at = "ready"]
           [] meshes[p].at = "broken" -> [meshes[p] EXCEPT !.at = "failed"]
           [] OTHER -> meshes[p]]
    /\ pc' = "dirty"
    /\ UNCHANGED <<scene, task, opening, scene_camera_id>>

\* The sections can be made: there is a material, and an imported mesh is there.
Showable(o) ==
    /\ IsMesh(o) /\ o.material # None /\ o.ref # None
    /\ o.shape \in Paths => Cached(o.shape) /\ meshes[o.shape].at = "ready"

\* set_sections takes the material of the sections for the object's own.
Show(o) ==
    LET material == IF o.shape \in Paths THEN meshes[o.shape].material ELSE o.ref
    IN  IF Showable(o)
          THEN [o EXCEPT !.sections = [shape |-> o.shape, material |-> material],
                         !.ref = material, !.held = o.shape \in Paths, !.dirty = FALSE]
          ELSE o

\* The list is emptied, and meshes that are still dirty are inserted again.
StillDirty(list) == {o.id : o \in {x \in ToSet(list) : x.dirty}}

ProcessDirtyMeshes ==
    /\ pc = "dirty"
    /\ LET due == {i \in DOMAIN objects : \E id \in dirty_meshes \cap DOMAIN objects_by_id :
                                             objects_by_id[id] = i}
       IN  objects' = [i \in DOMAIN objects |->
                         IF i \in due THEN Show(objects[i]) ELSE objects[i]]
    /\ dirty_meshes' = StillDirty(objects')
    /\ pc' = "load"
    /\ UNCHANGED <<objects_by_id, meshes, task, opening, scene_camera_id>>

\* Scene::replace points the objects it takes over to their new scene.
TakeOver(list) == [i \in DOMAIN list |-> [list[i] EXCEPT !.scene = "active"]]

UpdateSceneLoadTask ==
    /\ pc = "load"
    /\ IF task.at = "done"
         THEN /\ objects' = TakeOver(task.objects)
              /\ objects_by_id' = task.objects_by_id
              /\ dirty_meshes' = task.dirty_meshes
         ELSE UNCHANGED scene
    /\ task' = IF task.at \in {"done", "threw"} THEN NoTask ELSE task
    /\ pc' = "ui"
    /\ UNCHANGED <<meshes, opening, scene_camera_id>>

-----------------------------------------------------------------------------
(* The panels.                                                              *)

\* on_properties_changed, of a mesh: the flag, and the list of the scene it points to.
Marked(o) == [o EXCEPT !.dirty = TRUE]
ListOf(o) == IF o.scene = "active" THEN dirty_meshes \cup {o.id} ELSE dirty_meshes

Change(i, o) ==
    /\ objects' = [objects EXCEPT ![i] = Marked(o)]
    /\ dirty_meshes' = ListOf(o)
    /\ UNCHANGED <<objects_by_id, meshes, task, pc, opening, scene_camera_id>>

\* The inspector sets a parameter or the path of a material; what else it sets of a
\* mesh makes it dirty as well.
EditShape(i, shape) ==
    /\ pc = "ui"
    /\ objects[i].class \in Generated
    /\ Change(i, [objects[i] EXCEPT !.shape = shape])

EditMaterial(i, material) ==
    /\ pc = "ui"
    /\ IsMesh(objects[i]) /\ objects[i].material # None
    /\ Change(i, [objects[i] EXCEPT !.material = material])

EditOther(i) ==
    /\ pc = "ui"
    /\ IsMesh(objects[i])
    /\ Change(i, objects[i])

\* reset_property_to_snapshot.
ResetShape(i) ==
    /\ pc = "ui"
    /\ objects[i].class \in Generated
    /\ Change(i, [objects[i] EXCEPT !.shape = objects[i].snapshot.shape])

ResetMaterial(i) ==
    /\ pc = "ui"
    /\ IsMesh(objects[i])
    /\ Change(i, [objects[i] EXCEPT !.material = objects[i].snapshot.material])

\* set_static_mesh_material and set_floor_material.
SetMaterial(class, material) ==
    /\ pc = "ui"
    /\ class # "Gear"
    /\ objects' = [i \in DOMAIN objects |->
         IF objects[i].class = class /\ objects[i].sections # None
           THEN [objects[i] EXCEPT !.sections.material = material] ELSE objects[i]]
    /\ UNCHANGED <<objects_by_id, dirty_meshes, meshes, task, pc, opening, scene_camera_id>>

UseSceneCamera(i) ==
    /\ pc = "ui"
    /\ objects[i].class = "Camera"
    /\ scene_camera_id' = objects[i].id
    /\ UNCHANGED <<scene, meshes, task, pc, opening>>

UseLocalCamera ==
    /\ pc = "ui"
    /\ scene_camera_id' = None
    /\ UNCHANGED <<scene, meshes, task, pc, opening>>

-----------------------------------------------------------------------------
(* Scenes are loaded and cleared.                                           *)

\* destroy_scene.  MeshManager::clear forgets every entry, those of a scene that is
\* being loaded included.
DestroyScene ==
    /\ objects' = <<>> /\ objects_by_id' = <<>> /\ dirty_meshes' = {}
    /\ meshes' = [p \in Paths |-> NoMesh]

Forgotten(t) ==
    [t EXCEPT !.objects = [i \in DOMAIN @ |-> [@[i] EXCEPT !.held = FALSE]]]

NoCamera == None

\* Application::reset, and for a file load_scene, which begins by cancelling.
Open(file) ==
    /\ pc = "ui"
    /\ DestroyScene
    /\ scene_camera_id' = NoCamera
    /\ task' = [Forgotten(task) EXCEPT !.cancelled = file # None /\ task.at # "none"]
    /\ opening' = file
    /\ pc' = IF file = None THEN "ui" ELSE "wait"

\* The task that was cancelled is over, its future dropped, and a new one submitted,
\* unless the file cannot be read.
LoadScene ==
    /\ pc = "wait"
    /\ task.at \in {"none", "done", "threw"}
    /\ DestroyScene
    /\ \/ task' = [NoTask EXCEPT !.at = "start", !.file = opening]
       \/ task' = NoTask
    /\ opening' = None
    /\ pc' = "ui"
    /\ UNCHANGED scene_camera_id

-----------------------------------------------------------------------------
\* main asks for a scene when the program starts.
Init ==
    /\ objects = <<>> /\ objects_by_id = <<>> /\ dirty_meshes = {}
    /\ meshes = [p \in Paths |-> NoMesh]
    /\ task = NoTask
    /\ pc = "wait"
    /\ opening \in Files
    /\ scene_camera_id = None

Frame == ProcessPending \/ ProcessDirtyMeshes \/ UpdateSceneLoadTask

Panels ==
    \/ \E i \in DOMAIN objects :
         \/ \E shape \in Shapes : EditShape(i, shape)
         \/ \E material \in Materials : EditMaterial(i, material)
         \/ EditOther(i) \/ ResetShape(i) \/ ResetMaterial(i) \/ UseSceneCamera(i)
    \/ \E class \in Meshes, material \in Materials : SetMaterial(class, material)
    \/ UseLocalCamera
    \/ \E file \in Files \cup {None} : Open(file)

Next == Frame \/ Panels \/ LoadScene \/ LoadTask \/ \E p \in Paths : ImportEnds(p)

Spec == Init /\ [][Next]_vars

\* Frames go on, and tasks run to their end.
Fairness ==
    /\ WF_vars(Frame) /\ WF_vars(LoadScene) /\ WF_vars(LoadTask)
    /\ \A p \in Paths : WF_vars(ImportEnds(p))

FairSpec == Spec /\ Fairness

-----------------------------------------------------------------------------
(* Properties.                                                              *)

\* An object of either scene.
SceneObject ==
    {o \in [id : Ids, class : Meshes \cup {"Camera"}, shape : Shapes \cup Paths \cup {None},
            material : Materials \cup {None}, ref : Materials \cup {None}, held : BOOLEAN,
            sections : Sections \cup {None}, dirty : BOOLEAN, scene : {"active", "staged"},
            snapshot : Snapshots \cup {None}] :
       /\ o.shape \in ShapesOf(o.class)
       /\ o.snapshot # None => o.snapshot.shape \in ShapesOf(o.class)}

\* A load task, whatever its index is.
Tasks(index) ==
    [at : {"none", "start", "resolve", "done", "threw"}, file : Files \cup {None},
     cancelled : BOOLEAN, next : Nat, objects : Seq(SceneObject),
     objects_by_id : {index}, dirty_meshes : SUBSET Ids]

\* Every variable holds a value of its type; whoever can reset an object has its
\* snapshot.
TypeOK ==
    /\ objects \in Seq(SceneObject)
    /\ \A i \in DOMAIN objects : objects[i].snapshot # None
    /\ dirty_meshes \subseteq Ids
    /\ meshes \in [Paths -> {NoMesh} \cup
         [at : {"loading", "loaded", "broken", "ready", "failed"}, material : Materials]]
    /\ task \in Tasks(task.objects_by_id)
    /\ task.at = "start" => task.file \in Files
    /\ task.at = "done" => \A i \in DOMAIN task.objects : task.objects[i].snapshot # None
    /\ pc \in {"ui", "dirty", "load", "wait"}
    /\ opening \in Files \cup {None}
    /\ pc = "wait" => opening \in Files
    /\ scene_camera_id \in Ids \cup {None}

\* An index of objects: each id leads to its object.
Indexed(list, index) ==
    /\ DOMAIN index = {o.id : o \in ToSet(list)}
    /\ \A i \in DOMAIN list : index[list[i].id] = i

\* Through loading, replacing and clearing, a scene's books agree with its objects:
\* each id leads to its object, each object points back to the scene that holds it,
\* and the meshes that wait to be shown are those listed (Scene::replace,
\* mark_mesh_dirty, process_dirty_meshes).
BooksMatch ==
    /\ Indexed(objects, objects_by_id)
    /\ \A i \in DOMAIN objects : objects[i].scene = "active"
    /\ dirty_meshes = StillDirty(objects)

\* A mesh that is not dirty shows what its properties say, however it was edited,
\* reset and cleared meanwhile, and holds the imported mesh whose sections it shows.
IsCurrent(o) ==
    /\ IsMesh(o) /\ ~o.dirty => o.sections # None /\ o.sections.shape = o.shape
    /\ o.sections # None /\ o.shape \in Paths => o.held /\ meshes[o.shape].at = "ready"

ShownIsCurrent == \A i \in DOMAIN objects : IsCurrent(objects[i])

\* The camera the viewport looks through is one of this scene, although scenes come
\* and go and number their objects alike: get_camera never needs its fallback.
CameraIsHere ==
    scene_camera_id # None =>
        \E o \in ToSet(objects) : o.id = scene_camera_id /\ o.class = "Camera"

\* An id means the same to the scene's index, to its list of dirty meshes and to the
\* viewport, whatever scene came before (Scene::replace, Viewport::use_scene_camera).
IdsAgree == TypeOK /\ BooksMatch /\ CameraIsHere

\* The mesh of an object waits for nothing but its import.
Waits(id) ==
    \E o \in ToSet(objects) :
      /\ o.id = id /\ o.dirty /\ o.ref # None
      /\ o.shape \in Paths => Cached(o.shape) /\ meshes[o.shape].at \notin {"broken", "failed"}

\* Every edit, and every object of a new scene, is shown in the end, if its material
\* was resolved, its import succeeds and nobody clears the cache.
MeshesAreShown == \A id \in Ids : Waits(id) ~> ~Waits(id)

-----------------------------------------------------------------------------
(* Why IdsAgree and ShownIsCurrent are kept.                                *)

\* While the load task has a staged scene, that scene has its books; nothing of it
\* is shown, and what holds a mesh has a material.
StagedMatch ==
    /\ task.at \in {"resolve", "done"} => Indexed(task.objects, task.objects_by_id)
    /\ task.at \notin {"resolve", "done"} => task.objects = <<>>
    /\ task.at = "resolve" => task.next > 0
    /\ task.at = "done" =>
         /\ task.dirty_meshes = StillDirty(task.objects)
         /\ \A i \in DOMAIN task.objects : task.objects[i].dirty = IsMesh(task.objects[i])
    /\ \A i \in DOMAIN task.objects :
         /\ task.objects[i].sections = None
         /\ task.objects[i].held => task.objects[i].material # None

\* Whoever loads a scene has cleared the one before, and a camera is only chosen in a
\* scene that is there.
OneScene == task.at # "none" \/ pc = "wait" => objects = <<>>

SceneInv == IdsAgree /\ ShownIsCurrent /\ StagedMatch /\ OneScene

=============================================================================
