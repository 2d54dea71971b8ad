------------------------- MODULE SceneAndFrameProofs -------------------------
(***************************************************************************)
(* Proofs about a scene and the frames that show it.                       *)
(*                                                                         *)
(* SceneObjects, for any files, objects, parameters, paths and materials:  *)
(* an id means the same to the index of the scene, to its list of dirty    *)
(* meshes and to the viewport, and a mesh that is not dirty shows what its *)
(* properties say.                                                         *)
(*                                                                         *)
(* FrameRenderer and its ViewportCamera, for any meshes, sections, lights, *)
(* cameras, inputs and counts: ViewInv says what the viewport, the cameras *)
(* and the two benchmarks are between the steps of a tick, DeviceInv what  *)
(* the render device has and what is bound in it.  From the two follow what*)
(* a frame draws, in which order and with which shadows, that a benchmark  *)
(* leaves the camera where it was, and that the eye stays where it is.     *)
(***************************************************************************)
EXTENDS SceneObjects, FrameRenderer, SequenceTheorems, FiniteSetTheorems,
        WellFoundedInduction, TLAPS

-----------------------------------------------------------------------------
(* Objects.                                                                 *)

\* What a file describes becomes an object that shows and holds nothing.
LEMMA ConstructObject ==
    ASSUME NEW e \in Entries
    PROVE  /\ Construct(e) \in SceneObject
           /\ Construct(e).id = e.id
           /\ Construct(e).sections = None /\ ~Construct(e).held
BY SceneAssumption DEF Construct, Entries, SceneObject

\* Resolving gives an object its material and, with one, its mesh.
LEMMA ResolveObject ==
    ASSUME NEW o \in SceneObject, o.sections = None, o.held => o.material # None
    PROVE  /\ Resolve(o) \in SceneObject
           /\ Resolve(o).id = o.id
           /\ Resolve(o).sections = None
           /\ Resolve(o).shape = o.shape /\ Resolve(o).material = o.material
           /\ Resolve(o).held => o.material # None
<1> DEFINE held == o.shape \in Paths
           r == [o EXCEPT !.ref = o.material, !.held = held]
<1>1. CASE IsMesh(o) /\ o.material # None
  <2>1. held \in BOOLEAN
    OBVIOUS
  <2>2. Resolve(o) = r
    BY <1>1 DEF Resolve
  <2> HIDE DEF held
  <2>3. r \in SceneObject
    BY <1>1, <2>1 DEF SceneObject
  <2>4. r.id = o.id /\ r.sections = None /\ r.shape = o.shape /\ r.material = o.material
    BY DEF SceneObject
  <2> QED
    BY <1>1, <2>2, <2>3, <2>4
<1>2. CASE ~(IsMesh(o) /\ o.material # None)
  BY <1>2 DEF Resolve
<1> QED
  BY <1>1, <1>2

\* The snapshot has what a reset will put back.
LEMMA CaptureObject ==
    ASSUME NEW o \in SceneObject, NEW dirty \in BOOLEAN
    PROVE  LET c == Capture([o EXCEPT !.dirty = dirty])
           IN  /\ c \in SceneObject
               /\ c.id = o.id /\ c.class = o.class /\ c.dirty = dirty
               /\ c.sections = o.sections /\ c.held = o.held /\ c.material = o.material
               /\ c.snapshot # None
<1> DEFINE s == [shape |-> o.shape, material |-> o.material]
<1>1. s \in Snapshots
  BY DEF SceneObject, Snapshots
<1>2. s # None
  BY <1>1, SceneAssumption
<1> QED
  BY <1>1, <1>2 DEF Capture, SceneObject

\* An object of a scene that takes over is otherwise unchanged.
LEMMA TakenObject ==
    ASSUME NEW o \in SceneObject
    PROVE  LET c == [o EXCEPT !.scene = "active"]
           IN  /\ c \in SceneObject /\ c.scene = "active"
               /\ c.id = o.id /\ c.class = o.class /\ c.dirty = o.dirty
               /\ c.sections = o.sections /\ c.held = o.held /\ c.snapshot = o.snapshot
               /\ c.shape = o.shape
BY DEF SceneObject

\* A mesh that is marked keeps what it shows.
LEMMA MarkedObject ==
    ASSUME NEW o \in SceneObject
    PROVE  /\ Marked(o) \in SceneObject /\ Marked(o).dirty
           /\ Marked(o).id = o.id /\ Marked(o).class = o.class /\ Marked(o).scene = o.scene
           /\ Marked(o).sections = o.sections /\ Marked(o).held = o.held
           /\ Marked(o).snapshot = o.snapshot /\ Marked(o).shape = o.shape
BY DEF Marked, SceneObject

\* A function on 1 .. n is a sequence.
LEMMA MapIsSeq ==
    ASSUME NEW S, NEW n \in Nat, NEW f \in [1 .. n -> S]
    PROVE  f \in Seq(S) /\ Len(f) = n
OBVIOUS

\* What is shown is made from what the object says; it keeps its identity.
LEMMA ShowObject ==
    ASSUME TypeOK, NEW o \in SceneObject
    PROVE  /\ Show(o) \in SceneObject
           /\ Show(o).id = o.id /\ Show(o).class = o.class /\ Show(o).scene = o.scene
           /\ Show(o).snapshot = o.snapshot
           /\ IsCurrent(o) => IsCurrent(Show(o))
<1> DEFINE material == IF o.shape \in Paths THEN meshes[o.shape].material ELSE o.ref
           held == o.shape \in Paths
           shown == [shape |-> o.shape, material |-> material]
           r == [o EXCEPT !.sections = shown, !.ref = material, !.held = held, !.dirty = FALSE]
<1>1. CASE Showable(o)
  <2>1. material \in Materials
    <3>1. CASE o.shape \in Paths
      <4>1. meshes[o.shape].at = "ready"
        BY <1>1, <3>1 DEF Showable
      <4>2. meshes[o.shape] # NoMesh
        BY <4>1 DEF NoMesh
      <4> QED
        BY <3>1, <4>2 DEF TypeOK
    <3>2. CASE o.shape \notin Paths
      BY <1>1, <3>2 DEF Showable, SceneObject
    <3> QED
      BY <3>1, <3>2
  <2>2. o.shape \in Shapes \cup Paths
    BY <1>1 DEF Showable, IsMesh, SceneObject, ShapesOf, Meshes
  <2>3. shown \in Sections /\ shown # None
    BY <2>1, <2>2, SceneAssumption DEF Sections
  <2>4. held \in BOOLEAN /\ (held => meshes[o.shape].at = "ready")
    BY <1>1 DEF Showable
  <2>5. Show(o) = r
    BY <1>1 DEF Show
  <2>6. o.shape \in Paths => held
    OBVIOUS
  <2>7. shown.shape = o.shape
    OBVIOUS
  <2> HIDE DEF held, shown, material
  <2>8. /\ r \in SceneObject
        /\ r.id = o.id /\ r.class = o.class /\ r.scene = o.scene /\ r.snapshot = o.snapshot
        /\ r.sections = shown /\ r.shape = o.shape /\ r.held = held
    BY <2>1, <2>3, <2>4 DEF SceneObject
  <2> QED
    BY <2>3, <2>4, <2>5, <2>6, <2>7, <2>8 DEF IsCurrent
<1>2. CASE ~Showable(o)
  BY <1>2 DEF Show
<1> QED
  BY <1>1, <1>2

-----------------------------------------------------------------------------
(* Lists of objects.                                                        *)

\* A list has the objects at its positions.
LEMMA ListElements ==
    ASSUME NEW list \in Seq(SceneObject)
    PROVE  /\ Len(list) \in Nat /\ DOMAIN list = 1 .. Len(list)
           /\ \A i \in DOMAIN list : list[i] \in SceneObject
           /\ ToSet(list) \subseteq SceneObject
BY LenProperties, ElementOfSeq DEF ToSet

\* Objects that are replaced one by one make a list again.
LEMMA ListOfSameLength ==
    ASSUME NEW list \in Seq(SceneObject), NEW f \in [DOMAIN list -> SceneObject]
    PROVE  f \in Seq(SceneObject) /\ DOMAIN f = DOMAIN list
BY ListElements, MapIsSeq

\* An index is one of the ids and their positions.
LEMMA SameIds ==
    ASSUME NEW list \in Seq(SceneObject), NEW new, NEW index,
           DOMAIN new = DOMAIN list,
           \A i \in DOMAIN list : new[i].id = list[i].id,
           Indexed(list, index)
    PROVE  Indexed(new, index)
<1>1. {o.id : o \in ToSet(new)} = {new[i].id : i \in DOMAIN new}
  BY DEF ToSet
<1>2. {o.id : o \in ToSet(list)} = {list[i].id : i \in DOMAIN list}
  BY DEF ToSet
<1>3. {new[i].id : i \in DOMAIN new} = {list[i].id : i \in DOMAIN list}
  OBVIOUS
<1> QED
  BY <1>1, <1>2, <1>3 DEF Indexed

\* Ids that differ make an index.
LEMMA IndexOfDistinct ==
    ASSUME NEW list \in Seq(SceneObject), IdsDiffer(list)
    PROVE  Indexed(list, IndexOf(list))
<1>1. {o.id : o \in ToSet(list)} = {list[i].id : i \in DOMAIN list}
  BY DEF ToSet
<1>2. ASSUME NEW i \in DOMAIN list
      PROVE  IndexOf(list)[list[i].id] = i
  <2> DEFINE j == CHOOSE j \in DOMAIN list : list[j].id = list[i].id
  <2>1. j \in DOMAIN list /\ list[j].id = list[i].id
    OBVIOUS
  <2>2. j = i
    BY <2>1 DEF IdsDiffer
  <2> QED
    BY <2>2 DEF IndexOf
<1> QED
  BY <1>1, <1>2 DEF Indexed, IndexOf

\* The dirty ones, by position.
LEMMA DirtyByPosition ==
    ASSUME NEW list
    PROVE  StillDirty(list) = {list[i].id : i \in {j \in DOMAIN list : list[j].dirty}}
BY DEF StillDirty, ToSet

\* Nothing is in an empty scene.
LEMMA EmptyList ==
    /\ <<>> \in Seq(SceneObject) /\ DOMAIN <<>> = {} /\ ToSet(<<>>) = {}
    /\ Indexed(<<>>, <<>>) /\ StillDirty(<<>>) = {}
<1>1. <<>> \in Seq(SceneObject) /\ DOMAIN <<>> = {}
  BY EmptySeq
<1>2. ToSet(<<>>) = {}
  BY <1>1 DEF ToSet
<1> QED
  BY <1>1, <1>2 DEF Indexed, StillDirty

-----------------------------------------------------------------------------
(* The panels change one object at a time.                                  *)

\* Whatever is edited or reset, the object keeps its identity and what it shows,
\* and is made from the same kind of thing.
Edits ==
    \E i \in DOMAIN objects : \E o \in SceneObject :
      /\ o.id = objects[i].id /\ o.class = objects[i].class
      /\ o.scene = objects[i].scene /\ o.snapshot = objects[i].snapshot
      /\ o.sections = objects[i].sections /\ o.held = objects[i].held
      /\ o.shape # objects[i].shape => o.shape \notin Paths
      /\ Change(i, o)

OtherPanels ==
    \/ \E i \in DOMAIN objects : UseSceneCamera(i)
    \/ \E class \in Meshes, material \in Materials : SetMaterial(class, material)
    \/ UseLocalCamera
    \/ \E file \in Files \cup {None} : Open(file)

\* What the panels do is an edit the systems see, or none of an object.
LEMMA PanelsEdit == ASSUME TypeOK, Panels PROVE Edits \/ OtherPanels
<1> SUFFICES ASSUME NEW i \in DOMAIN objects,
                    \/ \E shape \in Shapes : EditShape(i, shape)
                    \/ \E material \in Materials : EditMaterial(i, material)
                    \/ EditOther(i) \/ ResetShape(i) \/ ResetMaterial(i)
             PROVE  Edits
  BY DEF Panels, OtherPanels
<1> DEFINE o == objects[i]
<1>1. o \in SceneObject /\ o.snapshot # None
  BY ListElements DEF TypeOK
<1>2. ASSUME NEW shape \in Shapes, o.class \in Generated, Change(i, [o EXCEPT !.shape = shape])
      PROVE  Edits
  <2> DEFINE new == [o EXCEPT !.shape = shape]
  <2>1. new \in SceneObject
    BY <1>1, <1>2 DEF SceneObject, ShapesOf
  <2>2. /\ new.id = o.id /\ new.class = o.class /\ new.scene = o.scene
        /\ new.snapshot = o.snapshot /\ new.sections = o.sections /\ new.held = o.held
        /\ new.shape \notin Paths
    BY <1>1, SceneAssumption DEF SceneObject
  <2> HIDE DEF new
  <2> QED
    BY <1>2, <2>1, <2>2 DEF Edits, new
<1>3. ASSUME NEW material \in Materials \cup {None}, Change(i, [o EXCEPT !.material = material])
      PROVE  Edits
  <2> DEFINE new == [o EXCEPT !.material = material]
  <2>1. new \in SceneObject
    BY <1>1 DEF SceneObject
  <2>2. /\ new.id = o.id /\ new.class = o.class /\ new.scene = o.scene
        /\ new.snapshot = o.snapshot /\ new.sections = o.sections /\ new.held = o.held
        /\ new.shape = o.shape
    BY <1>1 DEF SceneObject
  <2> HIDE DEF new
  <2> QED
    BY <1>3, <2>1, <2>2 DEF Edits, new
<1>4. CASE \E shape \in Shapes : EditShape(i, shape)
  BY <1>2, <1>4 DEF EditShape
<1>5. CASE \E material \in Materials : EditMaterial(i, material)
  BY <1>3, <1>5 DEF EditMaterial
<1>6. CASE EditOther(i)
  BY <1>1, <1>6 DEF EditOther, Edits
<1>7. CASE ResetShape(i)
  <2>1. o.snapshot.shape \in Shapes
    BY <1>1, <1>7 DEF ResetShape, SceneObject, ShapesOf
  <2> QED
    BY <1>2, <1>7, <2>1 DEF ResetShape
<1>8. CASE ResetMaterial(i)
  <2>1. o.snapshot.material \in Materials \cup {None}
    BY <1>1 DEF SceneObject, Snapshots
  <2> QED
    BY <1>3, <1>8, <2>1 DEF ResetMaterial
<1> QED
  BY <1>4, <1>5, <1>6, <1>7, <1>8

\* What an edit makes of the objects.
LEMMA EditedObjects ==
    ASSUME TypeOK, BooksMatch, Edits
    PROVE  /\ objects' \in Seq(SceneObject)
           /\ DOMAIN objects' = DOMAIN objects
           /\ \A i \in DOMAIN objects :
                /\ objects'[i].id = objects[i].id /\ objects'[i].class = objects[i].class
                /\ objects'[i].scene = objects[i].scene
                /\ objects'[i].snapshot = objects[i].snapshot
                /\ objects'[i].sections = objects[i].sections
                /\ objects'[i].held = objects[i].held
                /\ objects'[i].shape # objects[i].shape => objects'[i].shape \notin Paths
                /\ objects'[i] = objects[i] \/ objects'[i].dirty
           /\ dirty_meshes' = StillDirty(objects')
           /\ UNCHANGED <<objects_by_id, meshes, task, pc, opening, scene_camera_id>>
<1>1. PICK i \in DOMAIN objects, o \in SceneObject :
        /\ o.id = objects[i].id /\ o.class = objects[i].class
        /\ o.scene = objects[i].scene /\ o.snapshot = objects[i].snapshot
        /\ o.sections = objects[i].sections /\ o.held = objects[i].held
        /\ o.shape # objects[i].shape => o.shape \notin Paths
        /\ Change(i, o)
  BY DEF Edits
<1>2. objects \in Seq(SceneObject) /\ DOMAIN objects = 1 .. Len(objects)
  BY ListElements DEF TypeOK
<1>3. /\ Marked(o) \in SceneObject /\ Marked(o).dirty
      /\ Marked(o).id = o.id /\ Marked(o).class = o.class /\ Marked(o).scene = o.scene
      /\ Marked(o).sections = o.sections /\ Marked(o).held = o.held
      /\ Marked(o).snapshot = o.snapshot /\ Marked(o).shape = o.shape
  BY MarkedObject
<1>4. objects' = [objects EXCEPT ![i] = Marked(o)]
  BY <1>1 DEF Change
<1>5. objects' \in Seq(SceneObject) /\ DOMAIN objects' = DOMAIN objects
  BY <1>2, <1>3, <1>4, ExceptSeq, ListElements
<1>6. \A j \in DOMAIN objects : objects'[j] = IF j = i THEN Marked(o) ELSE objects[j]
  BY <1>2, <1>4
<1>7. dirty_meshes' = StillDirty(objects')
  <2>1. dirty_meshes' = StillDirty(objects) \cup {o.id}
    BY <1>1 DEF Change, ListOf, BooksMatch, Marked
  <2>2. {j \in DOMAIN objects' : objects'[j].dirty}
          = {j \in DOMAIN objects : objects[j].dirty} \cup {i}
    BY <1>3, <1>5, <1>6
  <2>3. \A j \in DOMAIN objects : objects'[j].id = objects[j].id
    BY <1>1, <1>3, <1>6
  <2> QED
    BY <1>1, <1>5, <2>1, <2>2, <2>3, DirtyByPosition
<1> QED
  BY <1>1, <1>3, <1>5, <1>6, <1>7 DEF Change

-----------------------------------------------------------------------------
(* Every step keeps the invariant.                                          *)

\* The viewport's camera is in the scene when a camera with its id is in the list.
LEMMA CameraByPosition ==
    CameraIsHere <=>
      (scene_camera_id # None =>
          \E i \in DOMAIN objects :
             objects[i].id = scene_camera_id /\ objects[i].class = "Camera")
BY DEF CameraIsHere, ToSet

\* Nothing is loaded, shown or listed when the program starts.
LEMMA InitScene == ASSUME Init PROVE SceneInv
<1> USE DEF Init
<1>1. TypeOK
  <2>1. task \in Tasks(task.objects_by_id)
    BY EmptyList DEF NoTask, Tasks
  <2> QED
    BY <2>1, EmptyList DEF TypeOK, NoTask
<1>2. IdsAgree
  BY <1>1, EmptyList DEF IdsAgree, BooksMatch, CameraIsHere
<1>3. ShownIsCurrent
  BY EmptyList DEF ShownIsCurrent
<1>4. StagedMatch /\ OneScene
  BY EmptyList DEF StagedMatch, OneScene, NoTask
<1> QED
  BY <1>2, <1>3, <1>4 DEF SceneInv

\* An edit leaves the object dirty and listed.
LEMMA EditStep == ASSUME SceneInv, Edits PROVE SceneInv'
<1>1. /\ TypeOK /\ BooksMatch /\ CameraIsHere
      /\ ShownIsCurrent /\ StagedMatch /\ OneScene
  BY DEF SceneInv, IdsAgree
<1>2. /\ objects' \in Seq(SceneObject)
      /\ DOMAIN objects' = DOMAIN objects
      /\ \A i \in DOMAIN objects :
           /\ objects'[i].id = objects[i].id /\ objects'[i].class = objects[i].class
           /\ objects'[i].scene = objects[i].scene
           /\ objects'[i].snapshot = objects[i].snapshot
           /\ objects'[i].sections = objects[i].sections
           /\ objects'[i].held = objects[i].held
           /\ objects'[i].shape # objects[i].shape => objects'[i].shape \notin Paths
           /\ objects'[i] = objects[i] \/ objects'[i].dirty
      /\ dirty_meshes' = StillDirty(objects')
      /\ UNCHANGED <<objects_by_id, meshes, task, pc, opening, scene_camera_id>>
  BY <1>1, EditedObjects
<1>3. dirty_meshes' \subseteq Ids
  <2>1. \A i \in DOMAIN objects' : objects'[i].id \in Ids
    BY <1>2, ListElements DEF SceneObject
  <2> QED
    BY <1>2, <2>1, DirtyByPosition
<1>4. TypeOK'
  BY <1>1, <1>2, <1>3 DEF TypeOK
<1>5. BooksMatch'
  <2>1. Indexed(objects', objects_by_id)
    BY <1>1, <1>2, SameIds DEF BooksMatch, TypeOK
  <2> QED
    BY <1>1, <1>2, <2>1 DEF BooksMatch, Indexed, StillDirty
<1>6. CameraIsHere'
  <2>1. scene_camera_id' # None => \E i \in DOMAIN objects' :
                            objects'[i].id = scene_camera_id' /\ objects'[i].class = "Camera"
    BY <1>1, <1>2, CameraByPosition
  <2> QED
    BY <2>1 DEF CameraIsHere, ToSet
<1>7. ShownIsCurrent'
  BY <1>1, <1>2 DEF ShownIsCurrent, IsCurrent, IsMesh
<1>8. StagedMatch'
  BY <1>1, <1>2 DEF StagedMatch, Indexed, StillDirty, IsMesh
<1>9. OneScene'
  BY <1>1, <1>2, EmptyList, ListElements, EmptySeq DEF OneScene, TypeOK
<1> QED
  BY <1>4, <1>5, <1>6, <1>7, <1>8, <1>9 DEF SceneInv, IdsAgree

\* What is left of the invariant where the objects of the active scene stay.
LEMMA SceneStays ==
    ASSUME SceneInv, UNCHANGED scene, TypeOK', StagedMatch',
           scene_camera_id' = scene_camera_id \/ CameraIsHere',
           OneScene',
           \A p \in Paths : meshes[p].at = "ready" => meshes'[p].at = "ready"
    PROVE  SceneInv'
<1>1. TypeOK /\ BooksMatch /\ CameraIsHere /\ ShownIsCurrent
  BY DEF SceneInv, IdsAgree
<1>2. BooksMatch'
  BY <1>1 DEF scene, BooksMatch, Indexed, StillDirty
<1>3. CameraIsHere'
  BY <1>1 DEF scene, CameraIsHere
<1>4. ShownIsCurrent'
  BY <1>1 DEF scene, ShownIsCurrent, IsCurrent, IsMesh
<1> QED
  BY <1>2, <1>3, <1>4 DEF SceneInv, IdsAgree

\* An import ends, or process_pending finalizes it.
LEMMA MeshStep ==
    ASSUME SceneInv, ProcessPending \/ \E p \in Paths : ImportEnds(p)
    PROVE  SceneInv'
<1>1. TypeOK /\ StagedMatch /\ OneScene
  BY DEF SceneInv, IdsAgree
<1>2. UNCHANGED <<scene, task, scene_camera_id, opening>> /\ pc' \in {pc, "dirty"}
  BY DEF ProcessPending, ImportEnds
<1> DEFINE Ats == {"loading", "loaded", "broken", "ready", "failed"}
           Known == {NoMesh} \cup [at : Ats, material : Materials]
<1>3. ASSUME NEW m \in Known, NEW at \in Ats, m.at # "none"
      PROVE  [m EXCEPT !.at = at] \in Known
  BY <1>3 DEF NoMesh
<1>4. /\ meshes' \in [Paths -> Known]
      /\ \A p \in Paths : meshes[p].at = "ready" => meshes'[p].at = "ready"
  <2>1. meshes \in [Paths -> Known]
    BY <1>1 DEF TypeOK
  <2>2. CASE ProcessPending
    <3>1. \A p \in Paths :
             meshes'[p] \in Known /\ (meshes[p].at = "ready" => meshes'[p].at = "ready")
      <4> TAKE p \in Paths
      <4>1. meshes[p] \in Known
        BY <2>1
      <4> QED
        BY <1>3, <2>2, <4>1 DEF ProcessPending
    <3> QED
      BY <2>2, <3>1 DEF ProcessPending
  <2>3. ASSUME NEW p \in Paths, ImportEnds(p)
        PROVE  /\ meshes' \in [Paths -> Known]
               /\ \A q \in Paths : meshes[q].at = "ready" => meshes'[q].at = "ready"
    <3>1. PICK end \in {"loaded", "broken"} : meshes' = [meshes EXCEPT ![p].at = end]
      BY <2>3 DEF ImportEnds
    <3>2. [meshes[p] EXCEPT !.at = end] \in Known
      BY <1>3, <2>1, <2>3 DEF ImportEnds
    <3> QED
      BY <2>1, <2>3, <3>1, <3>2 DEF ImportEnds
  <2> QED
    BY <2>2, <2>3
<1>5. TypeOK'
  BY <1>1, <1>2, <1>4 DEF TypeOK, scene
<1>6. StagedMatch' /\ OneScene'
  BY <1>1, <1>2 DEF scene, StagedMatch, OneScene, Indexed, StillDirty, IsMesh
<1> QED
  BY <1>2, <1>4, <1>5, <1>6, SceneStays DEF SceneInv

\* The camera of the viewport is one that the overlay's list shows.
LEMMA CameraStep ==
    ASSUME SceneInv, UseLocalCamera \/ \E i \in DOMAIN objects : UseSceneCamera(i)
    PROVE  SceneInv'
<1>1. TypeOK /\ StagedMatch /\ OneScene
  BY DEF SceneInv, IdsAgree
<1>2. UNCHANGED <<scene, meshes, task, pc, opening>>
  BY DEF UseLocalCamera, UseSceneCamera
<1>3. CameraIsHere' /\ scene_camera_id' \in Ids \cup {None}
  <2>1. CASE UseLocalCamera
    BY <2>1 DEF UseLocalCamera, CameraIsHere
  <2>2. ASSUME NEW i \in DOMAIN objects, UseSceneCamera(i)
        PROVE  CameraIsHere' /\ scene_camera_id' \in Ids
    <3>1. objects[i].id \in Ids
      BY <1>1, <2>2, ListElements DEF TypeOK, SceneObject
    <3> QED
      BY <1>2, <2>2, <3>1 DEF UseSceneCamera, CameraIsHere, scene, ToSet
  <2> QED
    BY <2>1, <2>2
<1>4. TypeOK'
  BY <1>1, <1>2, <1>3 DEF TypeOK, scene
<1>5. StagedMatch' /\ OneScene'
  BY <1>1, <1>2 DEF scene, StagedMatch, OneScene, Indexed, StillDirty, IsMesh
<1> QED
  BY <1>2, <1>3, <1>4, <1>5, SceneStays DEF SceneInv

\* The materials of the sections change, and nothing else.
LEMMA SetMaterialStep ==
    ASSUME SceneInv, NEW class \in Meshes, NEW material \in Materials,
           SetMaterial(class, material)
    PROVE  SceneInv'
<1>1. TypeOK /\ BooksMatch /\ CameraIsHere /\ ShownIsCurrent /\ StagedMatch /\ OneScene
  BY DEF SceneInv, IdsAgree
<1>2. UNCHANGED <<objects_by_id, dirty_meshes, meshes, task, pc, opening, scene_camera_id>>
  BY DEF SetMaterial
<1>3. ASSUME NEW o \in SceneObject, o.sections # None
      PROVE  LET c == [o EXCEPT !.sections.material = material]
             IN  /\ c \in SceneObject /\ c.id = o.id /\ c.class = o.class /\ c.scene = o.scene
                 /\ c.snapshot = o.snapshot /\ c.held = o.held /\ c.shape = o.shape
                 /\ c.dirty = o.dirty
                 /\ c.sections # None /\ c.sections.shape = o.sections.shape
  <2> DEFINE s == [o.sections EXCEPT !.material = material]
             c == [o EXCEPT !.sections = s]
  <2>1. s \in Sections /\ s.shape = o.sections.shape
    BY <1>3 DEF SceneObject, Sections
  <2>2. s # None
    BY <2>1, SceneAssumption
  <2> HIDE DEF s
  <2>3. c \in SceneObject
    BY <2>1 DEF SceneObject
  <2>4. /\ c.id = o.id /\ c.class = o.class /\ c.scene = o.scene /\ c.dirty = o.dirty
        /\ c.snapshot = o.snapshot /\ c.held = o.held /\ c.shape = o.shape /\ c.sections = s
    BY DEF SceneObject
  <2>5. [o EXCEPT !.sections.material = material] = c
    BY DEF c, s
  <2> QED
    BY <2>1, <2>2, <2>3, <2>4, <2>5
<1>4. \A i \in DOMAIN objects : objects[i] \in SceneObject
  BY <1>1, ListElements DEF TypeOK
<1>5. /\ DOMAIN objects' = DOMAIN objects
      /\ \A i \in DOMAIN objects :
           /\ objects'[i] \in SceneObject
           /\ objects'[i].id = objects[i].id /\ objects'[i].class = objects[i].class
           /\ objects'[i].scene = objects[i].scene /\ objects'[i].dirty = objects[i].dirty
           /\ objects'[i].snapshot = objects[i].snapshot /\ objects'[i].held = objects[i].held
           /\ objects'[i].shape = objects[i].shape
           /\ (objects'[i].sections = None) = (objects[i].sections = None)
           /\ objects[i].sections # None => objects'[i].sections.shape = objects[i].sections.shape
  BY <1>3, <1>4 DEF SetMaterial
<1>6. objects' \in Seq(SceneObject)
  <2>1. objects' = [i \in DOMAIN objects |-> objects'[i]]
    BY <1>5 DEF SetMaterial
  <2>2. objects' \in [DOMAIN objects -> SceneObject]
    BY <1>5, <2>1
  <2> QED
    BY <1>1, <2>2, ListOfSameLength DEF TypeOK
<1>7. TypeOK'
  BY <1>1, <1>2, <1>5, <1>6 DEF TypeOK
<1>8. BooksMatch'
  <2>1. Indexed(objects', objects_by_id)
    BY <1>1, <1>5, SameIds DEF BooksMatch, TypeOK
  <2>2. {i \in DOMAIN objects' : objects'[i].dirty} = {i \in DOMAIN objects : objects[i].dirty}
    BY <1>5
  <2>3. StillDirty(objects') = StillDirty(objects)
    <3>1. StillDirty(objects') =
              {objects'[i].id : i \in {j \in DOMAIN objects' : objects'[j].dirty}}
      BY DirtyByPosition
    <3>2. StillDirty(objects) = {objects[i].id : i \in {j \in DOMAIN objects : objects[j].dirty}}
      BY DirtyByPosition
    <3> QED
      BY <1>5, <2>2, <3>1, <3>2
  <2>4. \A i \in DOMAIN objects' : objects'[i].scene = "active"
    BY <1>1, <1>5 DEF BooksMatch
  <2>5. Indexed(objects', objects_by_id')
    BY <1>2, <2>1
  <2>6. dirty_meshes' = StillDirty(objects')
    BY <1>1, <1>2, <2>3 DEF BooksMatch
  <2> QED
    BY <2>4, <2>5, <2>6 DEF BooksMatch, Indexed, StillDirty
<1>9. CameraIsHere'
  BY <1>1, <1>2, <1>5, CameraByPosition DEF CameraIsHere, ToSet
<1>10. ShownIsCurrent'
  BY <1>1, <1>2, <1>5 DEF ShownIsCurrent, IsCurrent, IsMesh
<1>11. StagedMatch' /\ OneScene'
  BY <1>1, <1>2, <1>5, <1>6, EmptySeq, ListElements, EmptyList
     DEF StagedMatch, OneScene, Indexed, StillDirty, IsMesh, TypeOK, SetMaterial
<1> QED
  BY <1>7, <1>8, <1>9, <1>10, <1>11 DEF SceneInv, IdsAgree

\* An empty scene has nothing to agree about.
LEMMA EmptyScene ==
    ASSUME DestroyScene, scene_camera_id' = None, TypeOK', StagedMatch'
    PROVE  SceneInv'
<1>1. objects' = <<>> /\ objects_by_id' = <<>> /\ dirty_meshes' = {}
  BY DEF DestroyScene
<1>2. BooksMatch' /\ CameraIsHere' /\ ShownIsCurrent' /\ OneScene'
  BY <1>1, EmptyList DEF BooksMatch, Indexed, StillDirty, CameraIsHere, ShownIsCurrent, OneScene
<1> QED
  BY <1>2 DEF SceneInv, IdsAgree

\* load_scene ends with an empty scene and a new task or none.
LEMMA LoadStep == ASSUME SceneInv, LoadScene PROVE SceneInv'
<1>1. TypeOK /\ CameraIsHere /\ OneScene
  BY DEF SceneInv, IdsAgree
<1>2. scene_camera_id' = None
  <2>1. objects = <<>>
    BY <1>1 DEF OneScene, LoadScene
  <2> QED
    BY <1>1, <2>1, EmptyList DEF CameraIsHere, LoadScene
<1>3. /\ DestroyScene /\ opening' = None /\ pc' = "ui"
      /\ \/ task' = [NoTask EXCEPT !.at = "start", !.file = opening]
         \/ task' = NoTask
  BY DEF LoadScene
<1> DEFINE started == [at |-> "start", file |-> opening, cancelled |-> FALSE, next |-> 0,
                       objects |-> <<>>, objects_by_id |-> <<>>, dirty_meshes |-> {}]
<1>4. task' = started \/ task' = NoTask
  BY <1>3 DEF NoTask
<1>5. opening \in Files
  BY <1>1 DEF TypeOK, LoadScene
<1>6. TypeOK'
  <2>1. started \in Tasks(started.objects_by_id) /\ NoTask \in Tasks(NoTask.objects_by_id)
    BY <1>5, EmptyList DEF NoTask, Tasks
  <2>2. task' \in Tasks(task'.objects_by_id)
    BY <1>4, <2>1
  <2>3. task'.at = "start" => task'.file \in Files
    BY <1>4, <1>5 DEF NoTask
  <2>4. task'.at # "done"
    BY <1>4 DEF NoTask
  <2> QED
    BY <1>2, <1>3, <2>2, <2>3, <2>4, EmptyList DEF TypeOK, DestroyScene
<1>7. StagedMatch'
  BY <1>4, EmptyList DEF StagedMatch, NoTask
<1> QED
  BY <1>2, <1>3, <1>6, <1>7, EmptyScene

\* Application::reset empties the scene; a task that runs keeps its objects, without
\* what they held.
LEMMA OpenStep ==
    ASSUME SceneInv, NEW file \in Files \cup {None}, Open(file)
    PROVE  SceneInv'
<1>1. TypeOK /\ StagedMatch
  BY DEF SceneInv, IdsAgree
<1> DEFINE list == task.objects
           freed == [i \in DOMAIN list |-> [list[i] EXCEPT !.held = FALSE]]
<1>2. list \in Seq(SceneObject) /\ task \in Tasks(task.objects_by_id)
  BY <1>1 DEF TypeOK, Tasks
<1>3. \A i \in DOMAIN list : list[i] \in SceneObject
  BY <1>2, ListElements
<1>4. /\ freed \in Seq(SceneObject) /\ DOMAIN freed = DOMAIN list
      /\ \A i \in DOMAIN list :
           /\ freed[i].id = list[i].id /\ freed[i].class = list[i].class
           /\ freed[i].dirty = list[i].dirty /\ freed[i].sections = list[i].sections
           /\ freed[i].snapshot = list[i].snapshot /\ ~freed[i].held
  <2>1. \A i \in DOMAIN list : /\ freed[i] \in SceneObject
                               /\ freed[i].id = list[i].id /\ freed[i].class = list[i].class
                               /\ freed[i].dirty = list[i].dirty
                               /\ freed[i].sections = list[i].sections
                               /\ freed[i].snapshot = list[i].snapshot /\ ~freed[i].held
    <3>1. ASSUME NEW o \in SceneObject
          PROVE  LET c == [o EXCEPT !.held = FALSE]
                 IN  /\ c \in SceneObject /\ c.id = o.id /\ c.class = o.class
                     /\ c.dirty = o.dirty /\ c.sections = o.sections
                     /\ c.snapshot = o.snapshot /\ ~c.held
      BY DEF SceneObject
    <3> QED
      BY <1>3, <3>1
  <2>2. freed \in [DOMAIN list -> SceneObject]
    BY <2>1
  <2> HIDE DEF freed
  <2> QED
    BY <1>2, <2>1, <2>2, ListOfSameLength
<1>5. /\ task'.at = task.at /\ task'.file = task.file /\ task'.next = task.next
      /\ task'.objects = freed /\ task'.objects_by_id = task.objects_by_id
      /\ task'.dirty_meshes = task.dirty_meshes
      /\ task' \in Tasks(task'.objects_by_id)
  <2> DEFINE cancelled == file # None /\ task.at # "none"
  <2>1. task' = [task EXCEPT !.objects = freed, !.cancelled = cancelled]
    BY <1>2 DEF Open, Forgotten, Tasks
  <2>2. cancelled \in BOOLEAN
    OBVIOUS
  <2> HIDE DEF freed, cancelled
  <2> QED
    BY <1>2, <1>4, <2>1, <2>2 DEF Tasks
<1> HIDE DEF freed
<1>6. TypeOK'
  <2>1. /\ DestroyScene /\ scene_camera_id' = None /\ opening' = file
        /\ pc' = IF file = None THEN "ui" ELSE "wait"
    BY DEF Open, NoCamera
  <2>2. task'.at = "done" => \A i \in DOMAIN task'.objects : task'.objects[i].snapshot # None
    BY <1>1, <1>4, <1>5 DEF TypeOK
  <2>3. task'.at = "start" => task'.file \in Files
    BY <1>1, <1>5 DEF TypeOK
  <2> QED
    BY <1>5, <2>1, <2>2, <2>3, EmptyList DEF TypeOK, DestroyScene
<1>7. StagedMatch'
  <2>1. task.at \in {"resolve", "done"} => Indexed(freed, task.objects_by_id)
    BY <1>1, <1>2, <1>4, SameIds DEF StagedMatch
  <2>2. StillDirty(freed) = StillDirty(list)
    <3>1. StillDirty(freed) = {freed[i].id : i \in {j \in DOMAIN freed : freed[j].dirty}}
      BY DirtyByPosition
    <3>2. StillDirty(list) = {list[i].id : i \in {j \in DOMAIN list : list[j].dirty}}
      BY DirtyByPosition
    <3> QED
      BY <1>4, <3>1, <3>2
  <2>3. task.at \notin {"resolve", "done"} => freed = <<>>
    BY <1>1, <1>2, <1>4, EmptyList, EmptySeq, ListElements DEF StagedMatch
  <2>4. task.at = "done" => \A i \in DOMAIN freed : freed[i].dirty = IsMesh(freed[i])
    BY <1>1, <1>4 DEF StagedMatch, IsMesh
  <2>5. \A i \in DOMAIN freed : freed[i].sections = None /\ ~freed[i].held
    BY <1>1, <1>4 DEF StagedMatch
  <2>6. task'.at \in {"resolve", "done"} => Indexed(task'.objects, task'.objects_by_id)
    BY <1>5, <2>1
  <2>7. task'.at = "done" => task'.dirty_meshes = StillDirty(task'.objects)
    BY <1>1, <1>5, <2>2 DEF StagedMatch
  <2>8. task'.at = "resolve" => task'.next > 0
    BY <1>1, <1>5 DEF StagedMatch
  <2> QED
    BY <1>5, <2>3, <2>4, <2>5, <2>6, <2>7, <2>8 DEF StagedMatch, Indexed, StillDirty, IsMesh
<1> QED
  BY <1>6, <1>7, EmptyScene DEF Open, NoCamera

-----------------------------------------------------------------------------
(* The frame.                                                               *)

\* Whoever is still dirty is listed again.
LEMMA DirtyStep == ASSUME SceneInv, ProcessDirtyMeshes PROVE SceneInv'
<1>1. TypeOK /\ BooksMatch /\ CameraIsHere /\ ShownIsCurrent /\ StagedMatch /\ OneScene
  BY DEF SceneInv, IdsAgree
<1>2. /\ UNCHANGED <<objects_by_id, meshes, task, opening, scene_camera_id>>
      /\ dirty_meshes' = StillDirty(objects') /\ pc = "dirty" /\ pc' = "load"
  BY DEF ProcessDirtyMeshes
<1>3. /\ DOMAIN objects' = DOMAIN objects
      /\ \A i \in DOMAIN objects : objects'[i] \in {objects[i], Show(objects[i])}
      /\ objects' = [i \in DOMAIN objects |-> objects'[i]]
  BY DEF ProcessDirtyMeshes
<1>4. \A i \in DOMAIN objects : objects[i] \in SceneObject
  BY <1>1, ListElements DEF TypeOK
<1>5. \A i \in DOMAIN objects :
        /\ objects'[i] \in SceneObject
        /\ objects'[i].id = objects[i].id /\ objects'[i].class = objects[i].class
        /\ objects'[i].scene = objects[i].scene
        /\ objects'[i].snapshot = objects[i].snapshot
        /\ IsCurrent(objects[i]) => IsCurrent(objects'[i])
  BY <1>1, <1>3, <1>4, ShowObject
<1>6. objects' \in Seq(SceneObject)
  <2>1. objects' \in [DOMAIN objects -> SceneObject]
    BY <1>3, <1>5
  <2> QED
    BY <1>1, <2>1, ListOfSameLength DEF TypeOK
<1>7. dirty_meshes' \subseteq Ids
  <2>1. \A i \in DOMAIN objects' : objects'[i].id \in Ids
    BY <1>3, <1>5 DEF SceneObject
  <2>2. StillDirty(objects') =
            {objects'[i].id : i \in {j \in DOMAIN objects' : objects'[j].dirty}}
    BY DirtyByPosition
  <2> QED
    BY <1>2, <2>1, <2>2
<1>8. TypeOK'
  BY <1>1, <1>2, <1>3, <1>5, <1>6, <1>7 DEF TypeOK
<1>9. BooksMatch'
  <2>1. Indexed(objects', objects_by_id)
    BY <1>1, <1>3, <1>5, SameIds DEF BooksMatch, TypeOK
  <2>2. Indexed(objects', objects_by_id')
    BY <1>2, <2>1
  <2>3. \A i \in DOMAIN objects' : objects'[i].scene = "active"
    BY <1>1, <1>3, <1>5 DEF BooksMatch
  <2> QED
    BY <1>2, <2>2, <2>3 DEF BooksMatch, Indexed, StillDirty
<1>10. CameraIsHere'
  BY <1>1, <1>2, <1>3, <1>5, CameraByPosition DEF CameraIsHere, ToSet
<1>11. ShownIsCurrent'
  BY <1>1, <1>2, <1>3, <1>5 DEF ShownIsCurrent, IsCurrent, IsMesh
<1>12. StagedMatch'
  BY <1>1, <1>2 DEF StagedMatch, Indexed, StillDirty, IsMesh
<1>13. OneScene'
  <2>1. objects = <<>> => objects' = <<>>
    BY <1>3, <1>6, EmptyList, EmptySeq, ListElements
  <2> QED
    BY <1>1, <1>2, <2>1 DEF OneScene
<1> QED
  BY <1>8, <1>9, <1>10, <1>11, <1>12, <1>13 DEF SceneInv, IdsAgree

\* A scene that is done takes the place of an empty one, and brings its books.
LEMMA ReplaceStep == ASSUME SceneInv, UpdateSceneLoadTask PROVE SceneInv'
<1>1. TypeOK /\ BooksMatch /\ CameraIsHere /\ ShownIsCurrent /\ StagedMatch /\ OneScene
  BY DEF SceneInv, IdsAgree
<1>2. /\ UNCHANGED <<meshes, opening, scene_camera_id>> /\ pc = "load" /\ pc' = "ui"
      /\ task' = NoTask \/ (task' = task /\ task.at \notin {"done", "threw"})
  BY DEF UpdateSceneLoadTask
<1>3. /\ StagedMatch' /\ task' \in Tasks(task'.objects_by_id)
      /\ (task'.at = "start" => task'.file \in Files) /\ task'.at # "done"
  <2>1. CASE task' = NoTask
    BY <2>1, EmptyList DEF StagedMatch, NoTask, Tasks
  <2>2. CASE task' = task /\ task.at \notin {"done", "threw"}
    BY <1>1, <2>2 DEF StagedMatch, Indexed, StillDirty, IsMesh, TypeOK
  <2> QED
    BY <1>2, <2>1, <2>2
<1>4. CASE task.at = "done"
  <2> DEFINE list == task.objects
  <2>1. /\ objects' = TakeOver(list) /\ objects_by_id' = task.objects_by_id
        /\ dirty_meshes' = task.dirty_meshes /\ task' = NoTask
    BY <1>4 DEF UpdateSceneLoadTask
  <2>2. list \in Seq(SceneObject) /\ \A i \in DOMAIN list : list[i] \in SceneObject
    BY <1>1, ListElements DEF TypeOK, Tasks
  <2>3. /\ DOMAIN objects' = DOMAIN list
        /\ \A i \in DOMAIN list :
             /\ objects'[i] \in SceneObject /\ objects'[i].scene = "active"
             /\ objects'[i].id = list[i].id /\ objects'[i].class = list[i].class
             /\ objects'[i].dirty = list[i].dirty /\ objects'[i].sections = list[i].sections
             /\ objects'[i].snapshot = list[i].snapshot
        /\ objects' = [i \in DOMAIN list |-> objects'[i]]
    BY <2>1, <2>2, TakenObject DEF TakeOver
  <2>4. objects' \in Seq(SceneObject)
    <3>1. objects' \in [DOMAIN list -> SceneObject]
      BY <2>3
    <3> QED
      BY <2>2, <3>1, ListOfSameLength
  <2>5. scene_camera_id' = None
    BY <1>1, <1>2, <1>4, EmptyList DEF OneScene, CameraIsHere
  <2>6. TypeOK'
    <3>1. \A i \in DOMAIN objects' : objects'[i].snapshot # None
      BY <1>1, <1>4, <2>3 DEF TypeOK
    <3>2. dirty_meshes' \subseteq Ids
      BY <1>1, <2>1 DEF TypeOK, Tasks
    <3> QED
      BY <1>1, <1>2, <1>3, <2>4, <2>5, <3>1, <3>2 DEF TypeOK
  <2>7. BooksMatch'
    <3>1. Indexed(list, task.objects_by_id) /\ task.dirty_meshes = StillDirty(list)
      BY <1>1, <1>4 DEF StagedMatch
    <3>2. Indexed(objects', objects_by_id')
      BY <2>1, <2>2, <2>3, <3>1, SameIds
    <3>3. StillDirty(objects') = StillDirty(list)
      <4>1. StillDirty(objects') =
                {objects'[i].id : i \in {j \in DOMAIN objects' : objects'[j].dirty}}
        BY DirtyByPosition
      <4>2. StillDirty(list) = {list[i].id : i \in {j \in DOMAIN list : list[j].dirty}}
        BY DirtyByPosition
      <4> QED
        BY <2>3, <4>1, <4>2
    <3> QED
      BY <2>1, <2>3, <3>1, <3>2, <3>3 DEF BooksMatch, Indexed, StillDirty
  <2>8. ShownIsCurrent'
    BY <1>1, <1>4, <2>3 DEF ShownIsCurrent, IsCurrent, IsMesh, StagedMatch
  <2>9. CameraIsHere' /\ OneScene'
    BY <1>2, <2>1, <2>5 DEF CameraIsHere, OneScene, NoTask
  <2> QED
    BY <1>3, <2>6, <2>7, <2>8, <2>9 DEF SceneInv, IdsAgree
<1>5. CASE task.at # "done"
  <2>1. UNCHANGED scene
    BY <1>5 DEF UpdateSceneLoadTask
  <2>2. TypeOK'
    BY <1>1, <1>2, <1>3, <2>1 DEF TypeOK, scene
  <2>3. OneScene'
    BY <1>1, <1>2, <2>1 DEF OneScene, scene, NoTask
  <2> QED
    BY <1>2, <1>3, <2>1, <2>2, <2>3, SceneStays
<1> QED
  BY <1>4, <1>5

-----------------------------------------------------------------------------
(* The load task.                                                           *)

\* A task that throws lets its staged scene go.
LEMMA FailStep ==
    ASSUME SceneInv, task.at # "none", LoadFails,
           UNCHANGED <<scene, meshes, pc, opening, scene_camera_id>>
    PROVE  SceneInv'
<1>1. TypeOK /\ OneScene
  BY DEF SceneInv, IdsAgree
<1> DEFINE thrown == [at |-> "threw", file |-> task.file, cancelled |-> FALSE, next |-> 0,
                      objects |-> <<>>, objects_by_id |-> <<>>, dirty_meshes |-> {}]
<1>2. task' = thrown
  BY DEF LoadFails, NoTask
<1>3. thrown \in Tasks(thrown.objects_by_id)
  BY <1>1, EmptyList DEF TypeOK, Tasks
<1>4. TypeOK'
  <2>1. task' \in Tasks(task'.objects_by_id)
    BY <1>2, <1>3
  <2>2. task'.at = "threw"
    BY <1>2
  <2> QED
    BY <1>1, <2>1, <2>2 DEF TypeOK, scene
<1>5. StagedMatch'
  BY <1>2, EmptyList DEF StagedMatch
<1>6. OneScene'
  BY <1>1 DEF OneScene, scene
<1> QED
  BY <1>4, <1>5, <1>6, SceneStays DEF SceneInv

\* A task that goes on has a staged scene with its index.
LEMMA TaskGoesOn ==
    ASSUME SceneInv, UNCHANGED <<scene, pc, opening, scene_camera_id>>,
           meshes' = meshes \/
             \E p \in Paths, m \in Materials :
               /\ meshes' = [meshes EXCEPT ![p] = [at |-> "loading", material |-> m]]
               /\ objects = <<>>,
           task.at # "none", task'.at \in {"resolve", "done"},
           task' \in Tasks(task'.objects_by_id),
           task'.at = "done" => \A i \in DOMAIN task'.objects : task'.objects[i].snapshot # None,
           StagedMatch'
    PROVE  SceneInv'
<1>1. TypeOK /\ BooksMatch /\ CameraIsHere /\ ShownIsCurrent /\ OneScene
  BY DEF SceneInv, IdsAgree
<1>2. meshes' \in [Paths -> {NoMesh} \cup
         [at : {"loading", "loaded", "broken", "ready", "failed"}, material : Materials]]
  <2>1. \A m \in Materials : [at |-> "loading", material |-> m]
           \in [at : {"loading", "loaded", "broken", "ready", "failed"}, material : Materials]
    OBVIOUS
  <2> QED
    BY <1>1, <2>1 DEF TypeOK
<1>3. TypeOK'
  BY <1>1, <1>2 DEF TypeOK, scene
<1>4. ShownIsCurrent'
  BY <1>1, EmptyList DEF ShownIsCurrent, IsCurrent, IsMesh, scene
<1>5. BooksMatch' /\ CameraIsHere' /\ OneScene'
  BY <1>1 DEF BooksMatch, Indexed, StillDirty, CameraIsHere, OneScene, scene
<1> QED
  BY <1>3, <1>4, <1>5 DEF SceneInv, IdsAgree

\* The file's objects are constructed, and none of them shares an id.
LEMMA LoadObjectsStep == ASSUME SceneInv, LoadObjects PROVE SceneInv'
<1>1. TypeOK
  BY DEF SceneInv, IdsAgree
<1> DEFINE file == Content[task.file]
           list == [i \in DOMAIN file |-> Construct(file[i])]
<1>2. /\ task.at = "start" /\ task \in Tasks(task.objects_by_id)
      /\ UNCHANGED <<scene, meshes, pc, opening, scene_camera_id>>
  BY <1>1 DEF LoadObjects, TypeOK
<1>3. CASE task.cancelled \/ ~IdsDiffer(list)
  BY <1>2, <1>3, FailStep DEF LoadObjects
<1>4. CASE ~(task.cancelled \/ ~IdsDiffer(list))
  <2>1. task' = [task EXCEPT !.at = "resolve", !.next = 1, !.objects = list,
                             !.objects_by_id = IndexOf(list)]
    BY <1>4 DEF LoadObjects
  <2>2. /\ file \in Seq(Entries) /\ DOMAIN file = 1 .. Len(file) /\ Len(file) \in Nat
        /\ \A i \in DOMAIN file : file[i] \in Entries
    <3>1. file \in Seq(Entries)
      BY <1>1, <1>2, SceneAssumption DEF TypeOK
    <3> QED
      BY <3>1, LenProperties, ElementOfSeq
  <2>3. \A i \in DOMAIN file : /\ list[i] \in SceneObject
                               /\ list[i].sections = None /\ ~list[i].held
    BY <2>2, ConstructObject
  <2>4. list \in Seq(SceneObject) /\ DOMAIN list = DOMAIN file
    <3>1. list \in [DOMAIN file -> SceneObject]
      BY <2>3
    <3> QED
      BY <2>2, <3>1, MapIsSeq
  <2>5. Indexed(list, IndexOf(list))
    BY <1>4, <2>4, IndexOfDistinct
  <2> HIDE DEF list
  <2>6. /\ task'.at = "resolve" /\ task'.next = 1
        /\ task'.objects = list /\ task'.objects_by_id = IndexOf(list)
        /\ task' \in Tasks(task'.objects_by_id)
    BY <1>2, <2>1, <2>4 DEF Tasks
  <2>7. StagedMatch'
    <3>1. Indexed(task'.objects, task'.objects_by_id)
      BY <2>5, <2>6
    <3> QED
      BY <2>3, <2>4, <2>6, <3>1 DEF StagedMatch, Indexed, StillDirty, IsMesh
  <2> QED
    BY <1>2, <2>6, <2>7, TaskGoesOn
<1> QED
  BY <1>3, <1>4

\* The next object is resolved, which may start an import, or throws.
LEMMA ResolveStep == ASSUME SceneInv, ResolveNext PROVE SceneInv'
<1>1. TypeOK /\ StagedMatch /\ OneScene
  BY DEF SceneInv, IdsAgree
<1> DEFINE list == task.objects
           n == task.next
           o == list[n]
           new == [list EXCEPT ![n] = Resolve(o)]
<1>2. /\ task.at = "resolve" /\ task \in Tasks(task.objects_by_id)
      /\ UNCHANGED <<scene, pc, opening, scene_camera_id>>
      /\ n <= Len(list)
  BY <1>1 DEF ResolveNext, TypeOK
<1>3. CASE LoadFails /\ UNCHANGED meshes
  BY <1>2, <1>3, FailStep
<1>4. CASE /\ task' = [task EXCEPT !.next = @ + 1, !.objects[task.next] = Resolve(o)]
           /\ meshes' = IF Resolve(o).held /\ ~Cached(o.shape)
                          THEN [meshes EXCEPT ![o.shape] =
                                  [at |-> "loading", material |-> o.material]]
                          ELSE meshes
  <2>1. /\ list \in Seq(SceneObject) /\ n \in 1 .. Len(list)
        /\ DOMAIN list = 1 .. Len(list)
        /\ \A i \in DOMAIN list : list[i] \in SceneObject
    BY <1>1, <1>2, ListElements DEF Tasks, StagedMatch
  <2>2. \A i \in DOMAIN list : list[i].sections = None /\ (list[i].held => list[i].material # None)
    BY <1>1 DEF StagedMatch
  <2>3. o \in SceneObject /\ o.sections = None /\ (o.held => o.material # None)
    BY <2>1, <2>2
  <2>4. /\ Resolve(o) \in SceneObject /\ Resolve(o).id = o.id /\ Resolve(o).sections = None
        /\ Resolve(o).shape = o.shape /\ Resolve(o).material = o.material
        /\ Resolve(o).held => o.material # None
    BY <2>3, ResolveObject
  <2>5. /\ new \in Seq(SceneObject) /\ DOMAIN new = DOMAIN list
        /\ \A i \in DOMAIN list : new[i] = IF i = n THEN Resolve(o) ELSE list[i]
    BY <2>1, <2>4, ExceptSeq, ListElements
  <2> HIDE DEF new
  <2>6. /\ task'.at = "resolve" /\ task'.objects = new /\ task'.next = n + 1
        /\ task'.objects_by_id = task.objects_by_id
        /\ task' \in Tasks(task'.objects_by_id)
    <3> DEFINE next == n + 1
    <3>1. task' = [task EXCEPT !.next = next, !.objects = new]
      BY <1>2, <1>4 DEF Tasks, new
    <3>2. next \in Nat
      BY <1>2 DEF Tasks
    <3> HIDE DEF next
    <3>3. task' \in Tasks(task.objects_by_id)
      BY <1>2, <2>5, <3>1, <3>2 DEF Tasks
    <3>4. /\ task'.at = "resolve" /\ task'.objects = new /\ task'.next = next
          /\ task'.objects_by_id = task.objects_by_id
      BY <1>2, <3>1 DEF Tasks
    <3> QED
      BY <3>3, <3>4 DEF next
  <2>7. StagedMatch'
    <3>1. \A i \in DOMAIN list : new[i].id = list[i].id
      BY <2>4, <2>5
    <3>2. Indexed(list, task.objects_by_id)
      BY <1>1, <1>2 DEF StagedMatch
    <3>3. Indexed(new, task.objects_by_id)
      BY <2>1, <2>5, <3>1, <3>2, SameIds
    <3>4. \A i \in DOMAIN new : new[i].sections = None /\ (new[i].held => new[i].material # None)
      BY <2>2, <2>4, <2>5
    <3>5. Indexed(task'.objects, task'.objects_by_id)
      BY <2>6, <3>3
    <3>6. n \in Nat
      BY <1>2 DEF Tasks
    <3> QED
      BY <2>6, <3>4, <3>5, <3>6 DEF StagedMatch, Indexed, StillDirty, IsMesh
  <2>8. meshes' = meshes \/
          \E p \in Paths, m \in Materials :
            /\ meshes' = [meshes EXCEPT ![p] = [at |-> "loading", material |-> m]]
            /\ objects = <<>>
    <3>1. objects = <<>>
      BY <1>1, <1>2 DEF OneScene
    <3>2. CASE Resolve(o).held /\ ~Cached(o.shape) /\ o.shape \in Paths
      <4>1. o.material \in Materials
        BY <2>3, <2>4, <3>2 DEF SceneObject
      <4> QED
        BY <1>4, <3>1, <3>2, <4>1
    <3>3. CASE o.shape \notin Paths
      <4>1. [meshes EXCEPT ![o.shape] = [at |-> "loading", material |-> o.material]] = meshes
        BY <1>1, <3>3 DEF TypeOK
      <4> QED
        BY <1>4, <4>1
    <3>4. CASE ~(Resolve(o).held /\ ~Cached(o.shape))
      BY <1>4, <3>4
    <3> QED
      BY <3>2, <3>3, <3>4
  <2> QED
    BY <1>2, <2>6, <2>7, <2>8, TaskGoesOn
<1> QED
  BY <1>3, <1>4 DEF ResolveNext

\* Every mesh of the scene that is handed over is dirty and listed, and everything
\* has its snapshot.
LEMMA PostLoadStep == ASSUME SceneInv, PostLoad PROVE SceneInv'
<1>1. TypeOK /\ StagedMatch
  BY DEF SceneInv, IdsAgree
<1> DEFINE list == task.objects
           new == [i \in DOMAIN list |-> Capture([list[i] EXCEPT !.dirty = IsMesh(list[i])])]
<1>2. /\ task.at = "resolve" /\ task \in Tasks(task.objects_by_id)
      /\ UNCHANGED <<scene, meshes, pc, opening, scene_camera_id>>
  BY <1>1 DEF PostLoad, TypeOK
<1>3. CASE task.cancelled
  BY <1>2, <1>3, FailStep DEF PostLoad
<1>4. CASE ~task.cancelled
  <2>1. task' = [task EXCEPT !.at = "done", !.objects = new, !.dirty_meshes = MeshIds(list)]
    BY <1>4 DEF PostLoad
  <2>2. list \in Seq(SceneObject) /\ (\A i \in DOMAIN list : list[i] \in SceneObject)
    BY <1>2, ListElements DEF Tasks
  <2>3. \A o \in SceneObject : IsMesh(o) \in BOOLEAN
    BY DEF IsMesh
  <2>4. \A i \in DOMAIN list :
          /\ new[i] \in SceneObject
          /\ new[i].id = list[i].id /\ new[i].class = list[i].class
          /\ new[i].dirty = IsMesh(list[i])
          /\ new[i].sections = list[i].sections /\ new[i].held = list[i].held
          /\ new[i].material = list[i].material /\ new[i].snapshot # None
    <3> TAKE i \in DOMAIN list
    <3> DEFINE dirty == IsMesh(list[i])
    <3>1. dirty \in BOOLEAN /\ list[i] \in SceneObject
      BY <2>2, <2>3
    <3>2. new[i] = Capture([list[i] EXCEPT !.dirty = dirty])
      OBVIOUS
    <3> HIDE DEF dirty, new
    <3>3. /\ new[i] \in SceneObject
          /\ new[i].id = list[i].id /\ new[i].class = list[i].class /\ new[i].dirty = dirty
          /\ new[i].sections = list[i].sections /\ new[i].held = list[i].held
          /\ new[i].material = list[i].material /\ new[i].snapshot # None
      BY <3>1, <3>2, CaptureObject
    <3> QED
      BY <3>3 DEF dirty
  <2>5. new \in Seq(SceneObject) /\ DOMAIN new = DOMAIN list
    <3>1. new \in [DOMAIN list -> SceneObject]
      BY <2>4
    <3> QED
      BY <2>2, <3>1, ListOfSameLength
  <2> HIDE DEF new
  <2>6. MeshIds(list) = StillDirty(new)
    <3>1. MeshIds(list) = {list[i].id : i \in {j \in DOMAIN list : IsMesh(list[j])}}
      BY DEF MeshIds, ToSet
    <3>2. StillDirty(new) = {new[i].id : i \in {j \in DOMAIN new : new[j].dirty}}
      BY DirtyByPosition
    <3>3. {j \in DOMAIN new : new[j].dirty} = {j \in DOMAIN list : IsMesh(list[j])}
      BY <2>4, <2>5
    <3> QED
      BY <2>4, <3>1, <3>2, <3>3
  <2>7. MeshIds(list) \subseteq Ids
    BY <2>2, ListElements DEF MeshIds, SceneObject
  <2>8. /\ task'.at = "done" /\ task'.objects = new
        /\ task'.objects_by_id = task.objects_by_id /\ task'.dirty_meshes = MeshIds(list)
        /\ task' \in Tasks(task'.objects_by_id)
    BY <1>2, <2>1, <2>5, <2>7 DEF Tasks
  <2>9. StagedMatch'
    <3>1. Indexed(list, task.objects_by_id)
      BY <1>1, <1>2 DEF StagedMatch
    <3>2. Indexed(new, task.objects_by_id)
      BY <2>2, <2>4, <2>5, <3>1, SameIds
    <3>3. Indexed(task'.objects, task'.objects_by_id)
      BY <2>8, <3>2
    <3>4. \A i \in DOMAIN new :
            /\ new[i].dirty = IsMesh(new[i])
            /\ new[i].sections = None
            /\ new[i].held => new[i].material # None
      BY <1>1, <2>4, <2>5 DEF StagedMatch, IsMesh
    <3>5. task'.dirty_meshes = StillDirty(task'.objects)
      BY <2>6, <2>8
    <3> QED
      BY <2>8, <3>3, <3>4, <3>5 DEF StagedMatch, Indexed, StillDirty, IsMesh
  <2>10. \A i \in DOMAIN task'.objects : task'.objects[i].snapshot # None
    BY <2>4, <2>5, <2>8
  <2> QED
    BY <1>2, <2>8, <2>9, <2>10, TaskGoesOn
<1> QED
  BY <1>3, <1>4

-----------------------------------------------------------------------------
(* The theorems.                                                            *)

\* Loading, replacing, clearing, editing and showing scenes keep the books of the
\* active scene and of the one that is staged.
THEOREM SceneInvariant == Spec => []SceneInv
<1>1. SceneInv /\ [Next]_vars => SceneInv'
  <2> SUFFICES ASSUME SceneInv, [Next]_vars PROVE SceneInv'
    OBVIOUS
  <2>1. CASE UNCHANGED vars
    BY <2>1 DEF vars, scene, SceneInv, IdsAgree, TypeOK, BooksMatch, CameraIsHere,
                ShownIsCurrent, IsCurrent, StagedMatch, OneScene, Indexed, StillDirty, IsMesh
  <2>2. CASE Frame
    BY <2>2, MeshStep, DirtyStep, ReplaceStep DEF Frame
  <2>3. CASE Panels
    <3>1. Edits \/ OtherPanels
      BY <2>3, PanelsEdit DEF SceneInv, IdsAgree
    <3> QED
      BY <3>1, EditStep, CameraStep, SetMaterialStep, OpenStep DEF OtherPanels
  <2>4. CASE LoadScene
    BY <2>4, LoadStep
  <2>5. CASE LoadTask
    BY <2>5, LoadObjectsStep, ResolveStep, PostLoadStep DEF LoadTask
  <2>6. CASE \E p \in Paths : ImportEnds(p)
    BY <2>6, MeshStep
  <2> QED
    BY <2>1, <2>2, <2>3, <2>4, <2>5, <2>6 DEF Next
<1> QED
  BY <1>1, InitScene, PTL DEF Spec

\* An id means the same to the index of the active scene, to its list of dirty meshes
\* and to the viewport, whatever files are loaded, cancelled, cleared or refused.
THEOREM IdsAlwaysAgree == Spec => []IdsAgree
<1>1. SceneInv => IdsAgree
  BY DEF SceneInv
<1> QED
  BY <1>1, SceneInvariant, PTL

\* A mesh that is not dirty shows what its properties say and holds the import it
\* shows, whatever was edited, reset, replaced or cleared in between.
THEOREM ShownAlwaysCurrent == Spec => []ShownIsCurrent
<1>1. SceneInv => ShownIsCurrent
  BY DEF SceneInv
<1> QED
  BY <1>1, SceneInvariant, PTL

-----------------------------------------------------------------------------
(* Vectors.                                                                 *)

\* The operations on vectors give vectors, the product of two a number.
LEMMA VectorsAre ==
    ASSUME NEW u \in Vectors, NEW v \in Vectors, NEW k \in Int
    PROVE  /\ Plus(u, v) \in Vectors /\ Times(k, u) \in Vectors /\ Minus(u, v) \in Vectors
           /\ Cross(u, v) \in Vectors /\ Dot(u, v) \in Int
<1>1. u[1] \in Int /\ u[2] \in Int /\ u[3] \in Int /\ v[1] \in Int /\ v[2] \in Int /\ v[3] \in Int
  BY DEF Vectors
<1>2. Plus(u, v) \in Vectors /\ Times(k, u) \in Vectors
  BY DEF Plus, Times, Vectors
<1>3. Minus(u, v) \in Vectors
  BY DEF Minus, Plus, Times, Vectors
<1>4. Dot(u, v) \in Int
  BY <1>1 DEF Dot
<1>5. Cross(u, v) \in Vectors
  BY <1>1 DEF Cross, Vectors
<1> QED
  BY <1>2, <1>3, <1>4, <1>5

\* The directions of a pitch and a yaw are vectors.
LEMMA DirectionsAre ==
    ASSUME NEW p \in Int, NEW y \in Int
    PROVE  /\ ForwardDirection(p, y) \in Vectors
           /\ RightDirection(y) \in Vectors
           /\ UpDirection(p, y) \in Vectors
<1>1. \A a \in Int : Cos(a) \in Int /\ Sin(a) \in Int
  BY DEF Cos, Sin
<1>2. Sin(y) * Cos(p) \in Int /\ -Sin(p) \in Int /\ -Cos(y) * Cos(p) \in Int
  BY <1>1
<1>3. ForwardDirection(p, y) \in Vectors
  BY <1>2 DEF ForwardDirection, Vectors
<1>4. RightDirection(y) \in Vectors
  BY <1>1 DEF RightDirection, Vectors
<1> QED
  BY <1>3, <1>4, VectorsAre DEF UpDirection

\* What is moved back is where it was.
LEMMA ThereAndBack ==
    ASSUME NEW u \in Vectors, NEW v \in Vectors
    PROVE  Minus(Plus(u, v), v) = u
<1>1. \A i \in 1 .. 3 : (u[i] + v[i]) + (-1) * v[i] = u[i]
  BY DEF Vectors
<1>2. Minus(Plus(u, v), v) = [i \in 1 .. 3 |-> u[i]]
  BY <1>1 DEF Minus, Plus, Times
<1> QED
  BY <1>2 DEF Vectors

-----------------------------------------------------------------------------
(* The controller of the viewport's own camera.                             *)

Controllers ==
    [position : Vectors, target : Vectors, distance : Int, height : Int, pitch : Int, yaw : Int]
Displays ==
    [wireframe : BOOLEAN, cullFace : BOOLEAN, cullFrustum : BOOLEAN, dynamicLod : BOOLEAN,
     sortMeshes : BOOLEAN, debugDepth : BOOLEAN]
Viewports ==
    [selection : SceneCameras \cup {Local}, view : Views, mode : Modes, lastMode : Modes,
     controller : Controllers, display : Displays, showGrid : BOOLEAN,
     resolution : (Nat \ {0}) \X (Nat \ {0}), captured : BOOLEAN]

\* A controller's eye and target follow from each other.
LEMMA AlignedIs ==
    ASSUME NEW c \in Controllers
    PROVE  /\ Facing(c) \in Vectors
           /\ AlignPosition(c) \in Controllers /\ AlignTarget(c) \in Controllers
<1>1. Facing(c) \in Vectors
  BY DirectionsAre DEF Facing, Controllers
<1>2. /\ Minus(c.target, Times(c.distance, Facing(c))) \in Vectors
      /\ Plus(c.position, Times(c.distance, Facing(c))) \in Vectors
  BY <1>1, VectorsAre DEF Controllers
<1> QED
  BY <1>1, <1>2 DEF AlignPosition, AlignTarget, Controllers

\* The controller of a view is a controller.
LEMMA ResetIs ==
    ASSUME NEW view \in Views
    PROVE  ResetController(view) \in Controllers
<1>1. AngleOf(view) \in [pitch : Int, yaw : Int]
  BY ViewportCameraAssumption DEF AngleOf
<1>2. <<0, 0, 0>> \in Vectors
  BY DEF Vectors
<1>3. DefaultDistance \in Int
  BY ViewportCameraAssumption
<1> QED
  BY <1>1, <1>2, <1>3, AlignedIs DEF ResetController, Controllers

\* An input leaves a viewport what it is.
LEMMA ControlledIs ==
    ASSUME NEW v \in Viewports, NEW input \in Inputs \cup {NoInput}
    PROVE  Controlled(v, input) \in Viewports
<1> DEFINE synced == IF v.mode # v.lastMode THEN Synchronize(v.controller, v.mode)
                     ELSE v.controller
           looked == Look(synced, input)
           turned == Zoom(looked, v.view, v.mode, input)
           step == IF input.fast THEN 2 ELSE 1
           way == Plus(Plus(Times(input.forward, Facing(turned)),
                            Times(input.right, RightDirection(turned.yaw))),
                       <<0, input.rise, 0>>)
<1>1. synced \in Controllers
  BY AlignedIs DEF Synchronize, Viewports
<1>2. input \in [forward : Int, right : Int, rise : Int, yaw : Int, pitch : Int,
                 zoom : Int, fast : BOOLEAN, active : BOOLEAN]
  <2>1. CASE input \in Inputs
    BY <2>1, ViewportCameraAssumption
  <2>2. CASE input = NoInput
    BY <2>2 DEF NoInput
  <2> QED
    BY <2>1, <2>2
<1> HIDE DEF synced
<1>3. looked \in Controllers
  <2>1. (synced.yaw + input.yaw) % 4 \in Int
    BY <1>1, <1>2 DEF Controllers
  <2>2. Clamp(-1, synced.pitch + input.pitch, 1) \in Int
    BY <1>1, <1>2 DEF Controllers, Clamp, AtLeast
  <2> QED
    BY <1>1, <2>1, <2>2 DEF Look, Controllers
<1> HIDE DEF looked
<1>4. turned \in Controllers
  BY <1>2, <1>3 DEF Zoom, AtLeast, Controllers
<1> HIDE DEF turned
<1>5. Move(turned, input) \in Controllers
  <2>1. <<0, input.rise, 0>> \in Vectors
    BY <1>2 DEF Vectors
  <2>2. RightDirection(turned.yaw) \in Vectors /\ Facing(turned) \in Vectors
    BY <1>4, DirectionsAre, AlignedIs DEF Controllers
  <2>3. way \in Vectors /\ step \in Int
    BY <1>2, <2>1, <2>2, VectorsAre
  <2> HIDE DEF way, step
  <2>4. Plus(turned.position, Times(step, way)) \in Vectors
    BY <1>4, <2>3, VectorsAre DEF Controllers
  <2>5. [turned EXCEPT !.position = Plus(@, Times(step, way))] \in Controllers
    BY <1>4, <2>4 DEF Controllers
  <2> QED
    BY <2>5, AlignedIs DEF Move, way, step
<1>6. (IF ~input.active THEN synced ELSE IF v.mode = "Orbit" THEN turned ELSE Move(turned, input))
        \in Controllers
  BY <1>1, <1>4, <1>5
<1> QED
  BY <1>6 DEF Controlled, synced, looked, turned, Viewports

\* Changing the way the viewport is navigated leaves the eye where it is.
LEMMA EyeIsKept ==
    ASSUME NEW c \in Controllers, NEW mode \in Modes, NEW last \in Modes, mode # last
    PROVE  MakeView(Synchronize(c, mode), mode) = MakeView(c, last)
<1>1. /\ AlignPosition(c).pitch = c.pitch /\ AlignPosition(c).yaw = c.yaw
      /\ AlignTarget(c).pitch = c.pitch /\ AlignTarget(c).yaw = c.yaw
      /\ AlignTarget(c).distance = c.distance
      /\ AlignTarget(c).target = Plus(c.position, Times(c.distance, Facing(c)))
  BY DEF AlignPosition, AlignTarget, Controllers
<1>2. CASE mode = "Orbit"
  <2>1. Facing(AlignTarget(c)) = Facing(c)
    BY <1>1 DEF Facing
  <2>2. AlignPosition(AlignTarget(c)).position
          = Minus(Plus(c.position, Times(c.distance, Facing(c))), Times(c.distance, Facing(c)))
    BY <1>1, <2>1, AlignedIs DEF AlignPosition, Controllers
  <2>3. Times(c.distance, Facing(c)) \in Vectors /\ c.position \in Vectors
    BY AlignedIs, VectorsAre DEF Controllers
  <2>4. AlignPosition(AlignTarget(c)).position = c.position
    BY <2>2, <2>3, ThereAndBack
  <2> QED
    BY <1>1, <1>2, <2>1, <2>4 DEF MakeView, Synchronize, Modes
<1>3. CASE mode = "Fps"
  <2>1. Facing(AlignPosition(c)) = Facing(c)
    BY <1>1 DEF Facing
  <2> QED
    BY <1>1, <1>3, <2>1 DEF MakeView, Synchronize, Modes
<1> QED
  BY <1>2, <1>3 DEF Modes

-----------------------------------------------------------------------------
(* Cameras.                                                                 *)

Kinds == {"Perspective", "Orthographic"}
CameraRecords ==
    [transform : Transforms, type : Kinds, height : Int,
     cached : [aspect : Int, type : Kinds, height : Int]]

AreCameras(cams) ==
    /\ Local \in DOMAIN cams /\ DOMAIN cams \subseteq SceneCameras \cup {Local}
    /\ cams \in [DOMAIN cams -> CameraRecords]

\* The transform of a controller's view.
LEMMA ViewIs ==
    ASSUME NEW c \in Controllers, NEW mode \in Modes
    PROVE  MakeView(c, mode) \in Transforms
<1>1. AlignPosition(c).position \in Vectors /\ c.position \in Vectors /\ Facing(c) \in Vectors
  BY AlignedIs DEF Controllers
<1>2. UpDirection(c.pitch, c.yaw) \in Vectors
  BY DirectionsAre DEF Controllers
<1> QED
  BY <1>1, <1>2 DEF MakeView, LookAt, Transforms

\* The viewport's own camera follows its controller, the others stay.
LEMMA LocalIsSynced ==
    ASSUME NEW v \in Viewports, NEW cams, AreCameras(cams)
    PROVE  LET synced == SyncLocalCamera(cams, v)
           IN  /\ AreCameras(synced) /\ DOMAIN synced = DOMAIN cams
               /\ synced[Local].transform = MakeView(v.controller, v.mode)
<1> DEFINE c == [cams[Local] EXCEPT !.type = ProjectionOf(v.view),
                                    !.height = v.controller.height,
                                    !.transform = MakeView(v.controller, v.mode)]
<1>1. MakeView(v.controller, v.mode) \in Transforms
  BY ViewIs DEF Viewports
<1>2. ProjectionOf(v.view) \in Kinds /\ v.controller.height \in Int
  BY DEF ProjectionOf, Kinds, Viewports, Controllers
<1>3. cams[Local] \in CameraRecords
  BY DEF AreCameras
<1>4. c \in CameraRecords /\ c.transform = MakeView(v.controller, v.mode)
  BY <1>1, <1>2, <1>3 DEF CameraRecords
<1> HIDE DEF c
<1>5. SyncLocalCamera(cams, v) = [cams EXCEPT ![Local] = c]
  BY DEF SyncLocalCamera, c
<1> QED
  BY <1>4, <1>5 DEF AreCameras

\* The selected camera is one of the cameras.
LEMMA SelectedIs ==
    ASSUME NEW v \in Viewports, NEW cams, AreCameras(cams)
    PROVE  /\ Selected(v, cams) \in DOMAIN cams
           /\ cams[Selected(v, cams)] \in CameraRecords
           /\ cams[Selected(v, cams)].transform \in Transforms
BY DEF Selected, AreCameras, CameraRecords

\* The aspect ratio of the viewport is a number.
LEMMA AspectIs ==
    ASSUME NEW v \in Viewports
    PROVE  AspectRatio(v) \in Int
<1>1. v.resolution[1] \in Nat /\ v.resolution[2] \in Nat /\ v.resolution[2] # 0
  BY DEF Viewports
<1> QED
  BY <1>1 DEF AspectRatio

\* The projection a camera has cached is for its own kind and the viewport's size.
IsProjected(camera, v) ==
    camera.cached =
        [aspect |-> AspectRatio(v), type |-> camera.type, height |-> camera.height]

\* The selected camera may be moved and gets a projection; the others stay.
LEMMA SelectedMoves ==
    ASSUME NEW v \in Viewports, NEW cams, AreCameras(cams), NEW t \in Transforms
    PROVE  LET id == Selected(v, cams)
               moved == MoveSelected(cams, t, v)
           IN  /\ AreCameras(moved) /\ DOMAIN moved = DOMAIN cams
               /\ Selected(v, moved) = id /\ moved[id].transform = t
               /\ IsProjected(moved[id], v)
<1> DEFINE id == Selected(v, cams)
           c == UpdateProjection([cams[id] EXCEPT !.transform = t], AspectRatio(v))
<1>1. id \in DOMAIN cams /\ cams[id] \in CameraRecords
  BY SelectedIs
<1>2. AspectRatio(v) \in Int
  BY AspectIs
<1>3. /\ c \in CameraRecords /\ c.transform = t
      /\ IsProjected(c, v)
  BY <1>1, <1>2 DEF UpdateProjection, CameraRecords, IsProjected
<1> HIDE DEF c
<1>4. MoveSelected(cams, t, v) = [cams EXCEPT ![id] = c]
  BY DEF c, MoveSelected
<1> HIDE DEF id
<1>5. /\ AreCameras([cams EXCEPT ![id] = c]) /\ DOMAIN [cams EXCEPT ![id] = c] = DOMAIN cams
      /\ [cams EXCEPT ![id] = c][id] = c
  BY <1>1, <1>3 DEF AreCameras
<1>6. Selected(v, [cams EXCEPT ![id] = c]) = id
  BY <1>5 DEF id, Selected
<1> QED
  BY <1>3, <1>4, <1>5, <1>6 DEF id

\* The selected camera gets its projection; no camera moves.
LEMMA ProjectionUpdates ==
    ASSUME NEW v \in Viewports, NEW cams, AreCameras(cams)
    PROVE  LET id == Selected(v, cams)
               updated == UpdateActiveProjection(v, cams)
           IN  /\ AreCameras(updated) /\ DOMAIN updated = DOMAIN cams
               /\ Selected(v, updated) = id
               /\ \A c \in DOMAIN cams : updated[c].transform = cams[c].transform
               /\ IsProjected(updated[id], v)
<1> DEFINE id == Selected(v, cams)
           c == UpdateProjection(cams[id], AspectRatio(v))
<1>1. id \in DOMAIN cams /\ cams[id] \in CameraRecords
  BY SelectedIs
<1>2. AspectRatio(v) \in Int
  BY AspectIs
<1>3. /\ c \in CameraRecords /\ c.transform = cams[id].transform
      /\ IsProjected(c, v)
  BY <1>1, <1>2 DEF UpdateProjection, CameraRecords, IsProjected
<1> HIDE DEF c
<1>4. UpdateActiveProjection(v, cams) = [cams EXCEPT ![id] = c]
  BY DEF c, UpdateActiveProjection
<1> HIDE DEF id
<1>5. /\ AreCameras([cams EXCEPT ![id] = c]) /\ DOMAIN [cams EXCEPT ![id] = c] = DOMAIN cams
      /\ [cams EXCEPT ![id] = c][id] = c
      /\ \A d \in DOMAIN cams \ {id} : [cams EXCEPT ![id] = c][d] = cams[d]
  BY <1>1, <1>3 DEF AreCameras
<1>6. Selected(v, [cams EXCEPT ![id] = c]) = id
  BY <1>5 DEF id, Selected
<1> QED
  BY <1>3, <1>4, <1>5, <1>6 DEF id

-----------------------------------------------------------------------------
(* The benchmark: what it counts and what it remembers.                     *)

SorterModes == {"FullSort", "BinSort"}
Sorters == [mode : SorterModes, bins : Nat \ {0}]
Timings == [count : Nat, modes : SUBSET SorterModes]
Results == [sorted : Timings, unsorted : Timings, iterations : Nat]
Benches ==
    [active : BOOLEAN, sorted : BOOLEAN, target : Nat, current : Nat, timesSorted : Timings,
     timesUnsorted : Timings, saved : Transforms \cup {Nothing}, result : Results]
Comparisons ==
    [active : BOOLEAN, index : 1 .. 3, results : [1 .. 2 -> Results] \cup {<<>>},
     savedMode : SorterModes, iterations : Nat]

\* The parts a step of the benchmark works on, whatever the device and the
\* statistics are.
IsRenderer(r) ==
    r \in [sorter : Sorters, shadowMap : {r.shadowMap}, shadowCamera : {r.shadowCamera},
           stats : {r.stats}]
ArePartsOf(b) ==
    /\ b \in [bench : Benches, comp : Comparisons, cameras : {b.cameras}, device : {b.device},
              renderer : {b.renderer}]
    /\ AreCameras(b.cameras)
    /\ IsRenderer(b.renderer)

\* The frames a running benchmark has counted: with sorting first, then without.
Counted(bb) ==
    /\ bb.target >= 1 /\ bb.current <= bb.target
    /\ bb.timesSorted.count = IF bb.sorted THEN bb.current ELSE bb.target
    /\ bb.timesUnsorted.count = IF bb.sorted THEN 0 ELSE bb.current

\* Frames that were all counted in one mode.
AllIn(times, mode) == times.modes = IF times.count = 0 THEN {} ELSE {mode}

\* What a comparison should publish for its i-th mode.
ResultOf(i, n) ==
    LET times == [count |-> n, modes |-> {SortModes[i]}]
    IN  [sorted |-> times, unsorted |-> times, iterations |-> n]

\* A comparison has its benchmark in progress, and the results of the modes it is
\* done with.
Compared(b, n) ==
    /\ b.comp.results \in [1 .. 2 -> Results]
    /\ b.comp.iterations = n
    /\ b.comp.index \in 1 .. 2

InItsMode(b) ==
    /\ b.renderer.sorter.mode = SortModes[b.comp.index]
    /\ AllIn(b.bench.timesSorted, SortModes[b.comp.index])
    /\ AllIn(b.bench.timesUnsorted, SortModes[b.comp.index])
    /\ \A i \in 1 .. b.comp.index - 1 : b.comp.results[i] = ResultOf(i, b.comp.iterations)

\* The benchmark's books, where "what" has been touched since it began and the
\* camera was at "at".
BooksAreRight(b, what, at) ==
    /\ ArePartsOf(b)
    /\ b.comp.active => b.bench.active
    /\ b.bench.active =>
          /\ Counted(b.bench)
          /\ b.bench.saved \in Transforms
          /\ "view" \notin what => b.bench.saved = at
          /\ b.comp.active =>
                /\ Compared(b, b.bench.target)
                /\ "mode" \notin what => InItsMode(b)

\* The two modes of sorting.
LEMMA SortModesAre ==
    /\ DOMAIN SortModes = 1 .. 2 /\ Range(SortModes) = SorterModes
    /\ SortModes[1] = "FullSort" /\ SortModes[2] = "BinSort"
    /\ \A i \in 1 .. 2 : SortModes[i] \in SorterModes
<1>1. /\ DOMAIN SortModes = 1 .. 2
      /\ SortModes[1] = "FullSort" /\ SortModes[2] = "BinSort"
  BY DEF SortModes
<1>2. Range(SortModes) = SorterModes
  BY <1>1 DEF Range, SorterModes
<1> QED
  BY <1>1, <1>2 DEF SorterModes

\* A sorter is exchanged for one of another mode.
LEMMA ModeIsSet ==
    ASSUME NEW r, IsRenderer(r), NEW mode \in SorterModes
    PROVE  LET s == SetSortMode(r, mode)
           IN  /\ IsRenderer(s) /\ s.sorter.mode = mode
               /\ s.shadowMap = r.shadowMap /\ s.shadowCamera = r.shadowCamera
<1>1. DefaultBins \in Nat \ {0}
  BY FrameRendererAssumption
<1> QED
  BY <1>1 DEF SetSortMode, IsRenderer, Sorters

\* A benchmark that has not run has the result of none.
LEMMA NoResultIs == NoTimes \in Timings /\ NoResult \in Results
BY DEF NoTimes, NoResult, Timings, Results

\* A benchmark that starts has counted nothing and remembers the camera.
LEMMA Started ==
    ASSUME NEW b, ArePartsOf(b), ~b.bench.active, NEW v \in Viewports, NEW n \in Nat \ {0}
    PROVE  LET s == StartSorting(b, n, v)
           IN  /\ ArePartsOf(s) /\ Counted(s.bench)
               /\ s.comp = b.comp /\ s.cameras = b.cameras /\ s.renderer = b.renderer
               /\ s.device = b.device
               /\ s.bench.active /\ s.bench.target = n
               /\ s.bench.result = b.bench.result
               /\ s.bench.timesSorted = NoTimes /\ s.bench.timesUnsorted = NoTimes
               /\ s.bench.saved = b.cameras[Selected(v, b.cameras)].transform
               /\ s.bench.saved \in Transforms
<1> DEFINE t == b.cameras[Selected(v, b.cameras)].transform
           bb == [IdleBenchmark EXCEPT !.active = TRUE, !.target = n, !.saved = t,
                                       !.result = b.bench.result]
<1>1. t \in Transforms
  BY SelectedIs DEF ArePartsOf
<1>2. b.bench.result \in Results
  BY DEF ArePartsOf, Benches
<1>3. bb \in [active : {TRUE}, sorted : {TRUE}, target : {n}, current : {0},
              timesSorted : {NoTimes}, timesUnsorted : {NoTimes}, saved : {t},
              result : {b.bench.result}]
  <2>1. IdleBenchmark \in
          [active : {FALSE}, sorted : {TRUE}, target : {0}, current : {0},
           timesSorted : {NoTimes}, timesUnsorted : {NoTimes}, saved : {Nothing},
           result : {NoResult}]
    BY DEF IdleBenchmark
  <2> HIDE DEF t
  <2> QED
    BY <2>1
<1>4. StartSorting(b, n, v) = [b EXCEPT !.bench = bb]
  BY DEF StartSorting
<1> HIDE DEF bb, t
<1>8. /\ bb.active /\ bb.sorted /\ bb.target = n /\ bb.current = 0
      /\ bb.timesSorted = NoTimes /\ bb.timesUnsorted = NoTimes
      /\ bb.saved = t /\ bb.result = b.bench.result
  BY <1>3
<1>9. n \in Nat /\ n >= 1 /\ NoTimes.count = 0
  BY DEF NoTimes
<1>5. bb \in Benches
  <2>1. bb = [active |-> TRUE, sorted |-> TRUE, target |-> n, current |-> 0,
              timesSorted |-> NoTimes, timesUnsorted |-> NoTimes, saved |-> t,
              result |-> b.bench.result]
    BY <1>3
  <2>2. t \in Transforms \cup {Nothing} /\ 0 \in Nat
    BY <1>1
  <2> QED
    BY <2>1, <2>2, <1>2, <1>9, NoResultIs DEF Benches
<1>6. Counted(bb)
  BY <1>8, <1>9 DEF Counted
<1>7. /\ ArePartsOf([b EXCEPT !.bench = bb])
      /\ [b EXCEPT !.bench = bb].bench = bb
      /\ [b EXCEPT !.bench = bb].comp = b.comp /\ [b EXCEPT !.bench = bb].cameras = b.cameras
      /\ [b EXCEPT !.bench = bb].renderer = b.renderer
      /\ [b EXCEPT !.bench = bb].device = b.device
  BY <1>5 DEF ArePartsOf
<1> QED
  BY <1>1, <1>8, <1>4, <1>6, <1>7 DEF t

\* What a benchmark publishes.
ResultIn(bb) ==
    [sorted |-> bb.timesSorted, unsorted |-> bb.timesUnsorted, iterations |-> bb.target]

\* What both phases of a benchmark have counted when it ends.
LEMMA Measured ==
    ASSUME NEW b, NEW what, NEW at, BooksAreRight(b, what, at), b.bench.active,
           ~b.bench.sorted, b.bench.current >= b.bench.target
    PROVE  LET r == ResultIn(b.bench)
           IN  /\ r \in Results
               /\ r.sorted.count = b.bench.target /\ r.unsorted.count = b.bench.target
               /\ (b.comp.active /\ "mode" \notin what) =>
                     r = ResultOf(b.comp.index, b.comp.iterations)
<1>1. b.bench \in Benches
  BY DEF BooksAreRight, ArePartsOf
<1>2. /\ b.bench.timesSorted \in Timings /\ b.bench.timesUnsorted \in Timings
      /\ b.bench.target \in Nat /\ b.bench.current \in Nat
  BY <1>1 DEF Benches
<1>3. /\ b.bench.timesSorted.count = b.bench.target
      /\ b.bench.timesUnsorted.count = b.bench.target
      /\ b.bench.target >= 1
  BY <1>2 DEF BooksAreRight, Counted
<1>4. ASSUME b.comp.active, "mode" \notin what
      PROVE  ResultIn(b.bench) = ResultOf(b.comp.index, b.comp.iterations)
  <2> DEFINE m == SortModes[b.comp.index]
             times == [count |-> b.bench.target, modes |-> {m}]
  <2>1. /\ b.comp.iterations = b.bench.target
        /\ AllIn(b.bench.timesSorted, m) /\ AllIn(b.bench.timesUnsorted, m)
    BY <1>4 DEF BooksAreRight, Compared, InItsMode
  <2>2. b.bench.timesSorted.modes = {m} /\ b.bench.timesUnsorted.modes = {m}
    BY <1>2, <1>3, <2>1 DEF AllIn
  <2>3. b.bench.timesSorted = times /\ b.bench.timesUnsorted = times
    BY <1>2, <1>3, <2>2 DEF Timings
  <2> QED
    BY <2>1, <2>3 DEF ResultOf, ResultIn
<1> QED
  BY <1>2, <1>3, <1>4 DEF Results, ResultIn

\* The selected camera is put where it was, and what was measured is published.
LEMMA PublishedIs ==
    ASSUME NEW b, NEW what, NEW at, BooksAreRight(b, what, at), b.bench.active,
           ~b.bench.sorted, b.bench.current >= b.bench.target, NEW v \in Viewports
    PROVE  LET p == Published(RestoreCamera(b, v))
           IN  /\ ArePartsOf(p)
               /\ DOMAIN p.cameras = DOMAIN b.cameras
               /\ p.cameras[Selected(v, p.cameras)].transform = b.bench.saved
               /\ p.comp = b.comp /\ p.renderer = b.renderer /\ p.device = b.device
               /\ ~p.bench.active
               /\ p.bench.result = ResultIn(b.bench)
<1> DEFINE id == Selected(v, b.cameras)
           moved == MoveSelected(b.cameras, b.bench.saved, v)
           R == ResultIn(b.bench)
           bb == [b.bench EXCEPT !.active = FALSE, !.result = R]
           q == [b EXCEPT !.cameras = moved]
           p == [q EXCEPT !.bench = bb]
<1>1. ArePartsOf(b) /\ b.bench.saved \in Transforms
  BY DEF BooksAreRight
<1>2. /\ AreCameras(moved) /\ DOMAIN moved = DOMAIN b.cameras /\ Selected(v, moved) = id
      /\ moved[id].transform = b.bench.saved
  <2>1. AreCameras(b.cameras)
    BY <1>1 DEF ArePartsOf
  <2> HIDE DEF id
  <2>2. /\ AreCameras(moved) /\ DOMAIN moved = DOMAIN b.cameras /\ Selected(v, moved) = id
        /\ moved[id].transform = b.bench.saved
    BY <2>1, <1>1, SelectedMoves DEF id
  <2> QED
    BY <2>2
<1>3. RestoreCamera(b, v) = q
  BY DEF RestoreCamera
<1> HIDE DEF moved
<1>4. R \in Results
  BY Measured
<1>5. /\ q.bench = b.bench /\ q.comp = b.comp /\ q.cameras = moved
      /\ q.renderer = b.renderer /\ q.device = b.device
      /\ q \in [bench : {b.bench}, comp : {b.comp}, cameras : {moved}, device : {b.device},
                renderer : {b.renderer}]
  BY <1>1 DEF ArePartsOf
<1>6. Published(q) = p
  BY <1>5 DEF Published, ResultIn
<1> HIDE DEF R, q
<1>7. bb \in Benches /\ ~bb.active /\ bb.result = R
  BY <1>1, <1>4 DEF ArePartsOf, Benches
<1> HIDE DEF bb
<1>8. /\ p.bench = bb /\ p.comp = b.comp /\ p.cameras = moved
      /\ p.renderer = b.renderer /\ p.device = b.device
      /\ p \in [bench : {bb}, comp : {b.comp}, cameras : {moved}, device : {b.device},
                renderer : {b.renderer}]
  BY <1>5
<1> HIDE DEF p
<1>9. ArePartsOf(p)
  BY <1>1, <1>2, <1>7, <1>8 DEF ArePartsOf
<1> QED
  BY <1>2, <1>3, <1>6, <1>7, <1>8, <1>9 DEF R

\* A mode of a comparison is recorded; the next one starts or the comparison
\* ends.
LEMMA Continued ==
    ASSUME NEW p, ArePartsOf(p), ~p.bench.active, NEW v \in Viewports, p.comp.active,
           NEW n \in Nat \ {0}, Compared(p, n)
    PROVE  LET f == NextMode(p, v)
           IN  /\ ArePartsOf(f)
               /\ f.cameras = p.cameras /\ f.device = p.device
               /\ f.renderer.shadowMap = p.renderer.shadowMap
               /\ f.renderer.shadowCamera = p.renderer.shadowCamera
               /\ f.bench.result = p.bench.result
               /\ f.comp.results \in [1 .. 2 -> Results]
               /\ f.comp.results[p.comp.index] = p.bench.result
               /\ \A i \in 1 .. 2 \ {p.comp.index} : f.comp.results[i] = p.comp.results[i]
               /\ p.comp.index = 1 =>
                     /\ f.comp.active /\ f.comp.index = 2 /\ f.comp.iterations = n
                     /\ f.renderer.sorter.mode = SortModes[2]
                     /\ f.bench.active /\ f.bench.target = n /\ Counted(f.bench)
                     /\ f.bench.timesSorted = NoTimes /\ f.bench.timesUnsorted = NoTimes
                     /\ f.bench.saved = p.cameras[Selected(v, p.cameras)].transform
                     /\ f.bench.saved \in Transforms
               /\ p.comp.index = 2 =>
                     /\ ~f.comp.active /\ ~f.bench.active
                     /\ f.renderer.sorter.mode = p.comp.savedMode
<1> DEFINE results == [p.comp.results EXCEPT ![p.comp.index] = p.bench.result]
           c == [[p.comp EXCEPT !.results = results] EXCEPT !.index = p.comp.index + 1]
           d == [c EXCEPT !.active = FALSE]
           q == [p EXCEPT !.comp = c]
           recorded == [p EXCEPT !.comp.results[p.comp.index] = p.bench.result,
                                 !.comp.index = @ + 1]
<1>1. /\ p.comp \in Comparisons /\ p.bench \in Benches /\ p.bench.result \in Results
      /\ p.comp.index \in 1 .. 2 /\ p.comp.results \in [1 .. 2 -> Results]
      /\ p.comp.iterations = n /\ p.comp.savedMode \in SorterModes
  BY DEF ArePartsOf, Benches, Compared, Comparisons
<1>2. /\ results \in [1 .. 2 -> Results] /\ results[p.comp.index] = p.bench.result
      /\ \A i \in 1 .. 2 \ {p.comp.index} : results[i] = p.comp.results[i]
  BY <1>1
<1>3. recorded = q
  BY DEF ArePartsOf, Comparisons
<1> HIDE DEF results
<1>4. /\ c \in Comparisons /\ c.results = results /\ c.index = p.comp.index + 1
      /\ c.active = TRUE /\ c.iterations = n /\ c.savedMode = p.comp.savedMode
  <2>1. p.comp.index + 1 \in 1 .. 3 /\ results \in [1 .. 2 -> Results] \cup {<<>>}
    BY <1>1, <1>2
  <2> DEFINE index == p.comp.index + 1
  <2> HIDE DEF index
  <2>2. [p.comp EXCEPT !.results = results] \in Comparisons
    BY <1>1, <2>1 DEF Comparisons
  <2>3. c = [[p.comp EXCEPT !.results = results] EXCEPT !.index = index]
    BY DEF index
  <2>4. index \in 1 .. 3
    BY <2>1 DEF index
  <2>5. /\ c \in Comparisons /\ c.results = results /\ c.index = index
        /\ c.active = TRUE /\ c.iterations = p.comp.iterations
        /\ c.savedMode = p.comp.savedMode
    BY <1>1, <2>2, <2>3, <2>4 DEF Comparisons
  <2> QED
    BY <1>1, <2>5 DEF index
<1> HIDE DEF c, recorded
<1>5. /\ ArePartsOf(q) /\ q.comp = c /\ q.bench = p.bench /\ q.renderer = p.renderer
      /\ q.cameras = p.cameras /\ q.device = p.device
  BY <1>4 DEF ArePartsOf
<1> HIDE DEF q
<1>6. CASE p.comp.index = 1
  <2> DEFINE r == SetSortMode(q.renderer, SortModes[2])
             s == [q EXCEPT !.renderer = r]
             f == StartSorting(s, n, v)
  <2>1. IsRenderer(r) /\ r.sorter.mode = SortModes[2] /\ r.shadowMap = p.renderer.shadowMap
        /\ r.shadowCamera = p.renderer.shadowCamera
    BY <1>5, SortModesAre, ModeIsSet DEF ArePartsOf
  <2>2. NextMode(p, v) = f
    <3>1. c.index \in DOMAIN SortModes /\ c.index = 2
      BY <1>4, <1>6, SortModesAre
    <3>2. NextMode(p, v) = StartSorting(
             [recorded EXCEPT !.renderer = SetSortMode(@, SortModes[recorded.comp.index])],
             recorded.comp.iterations, v)
      BY <1>3, <1>5, <3>1 DEF NextMode, recorded
    <3> QED
      BY <1>3, <1>4, <1>5, <3>1, <3>2
  <2> HIDE DEF r
  <2>4. /\ ArePartsOf(s) /\ s.comp = c /\ s.bench = p.bench /\ s.renderer = r
        /\ s.cameras = p.cameras /\ s.device = p.device
    BY <1>5, <2>1 DEF ArePartsOf
  <2> HIDE DEF s
  <2>5. /\ ArePartsOf(f) /\ Counted(f.bench)
        /\ f.comp = s.comp /\ f.cameras = s.cameras /\ f.renderer = s.renderer
        /\ f.device = s.device
        /\ f.bench.active /\ f.bench.target = n
        /\ f.bench.result = s.bench.result
        /\ f.bench.timesSorted = NoTimes /\ f.bench.timesUnsorted = NoTimes
        /\ f.bench.saved = s.cameras[Selected(v, s.cameras)].transform
        /\ f.bench.saved \in Transforms
    BY <2>4, Started
  <2> HIDE DEF f
  <2> QED
    <3>1. f.comp = c /\ c.active /\ c.index = 2 /\ c.iterations = n
      BY <1>4, <1>6, <2>4, <2>5
    <3>2. /\ f.comp.results \in [1 .. 2 -> Results]
          /\ f.comp.results[p.comp.index] = p.bench.result
          /\ \A i \in 1 .. 2 \ {p.comp.index} : f.comp.results[i] = p.comp.results[i]
      BY <1>2, <1>4, <2>4, <2>5
    <3>3. f.bench.saved = p.cameras[Selected(v, p.cameras)].transform
      BY <2>4, <2>5
    <3>4. /\ f.cameras = p.cameras /\ f.device = p.device
          /\ f.renderer.shadowMap = p.renderer.shadowMap
          /\ f.renderer.shadowCamera = p.renderer.shadowCamera
          /\ f.bench.result = p.bench.result /\ f.renderer.sorter.mode = SortModes[2]
      BY <2>1, <2>4, <2>5
    <3> QED
      BY <1>6, <2>2, <2>5, <3>1, <3>2, <3>3, <3>4
<1>7. CASE p.comp.index = 2
  <2> DEFINE r == SetSortMode(q.renderer, q.comp.savedMode)
             s == [q EXCEPT !.comp = d]
             f == [s EXCEPT !.renderer = r]
  <2>1. IsRenderer(r) /\ r.sorter.mode = c.savedMode /\ r.shadowMap = p.renderer.shadowMap
        /\ r.shadowCamera = p.renderer.shadowCamera
    BY <1>1, <1>4, <1>5, ModeIsSet DEF ArePartsOf
  <2>2. NextMode(p, v) = f
    <3>1. c.index \notin DOMAIN SortModes
      BY <1>4, <1>7, SortModesAre
    <3>2. NextMode(p, v) = [q EXCEPT !.comp.active = FALSE,
                                     !.renderer = SetSortMode(@, q.comp.savedMode)]
      BY <1>3, <1>5, <3>1 DEF NextMode, recorded
    <3> QED
      BY <1>5, <3>2 DEF ArePartsOf
  <2>3. d \in Comparisons /\ ~d.active /\ d.results = results
    BY <1>4 DEF Comparisons
  <2> HIDE DEF r, d
  <2>5. /\ ArePartsOf(f) /\ f.comp = d /\ f.bench = p.bench /\ f.renderer = r
        /\ f.cameras = p.cameras /\ f.device = p.device
    BY <1>5, <2>1, <2>3 DEF ArePartsOf
  <2> HIDE DEF f
  <2> QED
    BY <1>2, <1>4, <1>7, <2>1, <2>2, <2>3, <2>5
<1> QED
  BY <1>1, <1>6, <1>7

\* A comparison that ended has the results of its modes, and the mode from before.
EndsWell(b, f) ==
    /\ f.renderer.sorter.mode = b.comp.savedMode
    /\ f.comp.results \in [1 .. 2 -> Results]
    /\ \A i \in 1 .. 2 : f.comp.results[i] = ResultOf(i, b.comp.iterations)

\* A benchmark that is over publishes its result and gives the camera back; the next
\* one of a comparison starts, or the comparison ends with each mode's own results.
LEMMA Finished ==
    ASSUME NEW b, NEW what, NEW at, BooksAreRight(b, what, at), b.bench.active,
           ~b.bench.sorted, b.bench.current >= b.bench.target, NEW v \in Viewports
    PROVE  LET f == FinishBenchmark(b, v)
           IN  /\ BooksAreRight(f, what, at)
               /\ DOMAIN f.cameras = DOMAIN b.cameras /\ f.device = b.device
               /\ f.renderer.shadowMap = b.renderer.shadowMap
               /\ f.renderer.shadowCamera = b.renderer.shadowCamera
               /\ f.cameras[Selected(v, f.cameras)].transform = b.bench.saved
               /\ f.bench.result = ResultIn(b.bench)
               /\ (b.comp.active /\ ~f.comp.active /\ "mode" \notin what) => EndsWell(b, f)
<1> DEFINE p == Published(RestoreCamera(b, v))
           f == NextMode(p, v)
           n == b.bench.target
<1>1. /\ ArePartsOf(p) /\ DOMAIN p.cameras = DOMAIN b.cameras
      /\ p.cameras[Selected(v, p.cameras)].transform = b.bench.saved
      /\ p.comp = b.comp /\ p.renderer = b.renderer /\ p.device = b.device
      /\ ~p.bench.active /\ p.bench.result = ResultIn(b.bench)
  BY PublishedIs
<1>2. FinishBenchmark(b, v) = f
  BY DEF FinishBenchmark
<1> HIDE DEF p
<1>3. CASE ~b.comp.active
  <2>1. f = p
    BY <1>1, <1>3 DEF NextMode
  <2> QED
    BY <1>1, <1>2, <1>3, <2>1 DEF BooksAreRight
<1>4. CASE b.comp.active
  <2>1. /\ Compared(b, n) /\ n \in Nat \ {0}
        /\ "mode" \notin what => InItsMode(b)
        /\ "view" \notin what => b.bench.saved = at
    BY <1>4 DEF BooksAreRight, Counted, ArePartsOf, Benches
  <2>2. Compared(p, n) /\ p.comp.active
    BY <1>1, <1>4, <2>1 DEF Compared
  <2>3. /\ ArePartsOf(f)
        /\ f.cameras = p.cameras /\ f.device = p.device
        /\ f.renderer.shadowMap = p.renderer.shadowMap
        /\ f.renderer.shadowCamera = p.renderer.shadowCamera
        /\ f.bench.result = p.bench.result
        /\ f.comp.results \in [1 .. 2 -> Results]
        /\ f.comp.results[p.comp.index] = p.bench.result
        /\ \A i \in 1 .. 2 \ {p.comp.index} : f.comp.results[i] = p.comp.results[i]
        /\ p.comp.index = 1 =>
              /\ f.comp.active /\ f.comp.index = 2 /\ f.comp.iterations = n
              /\ f.renderer.sorter.mode = SortModes[2]
              /\ f.bench.active /\ f.bench.target = n /\ Counted(f.bench)
              /\ f.bench.timesSorted = NoTimes /\ f.bench.timesUnsorted = NoTimes
              /\ f.bench.saved = p.cameras[Selected(v, p.cameras)].transform
              /\ f.bench.saved \in Transforms
        /\ p.comp.index = 2 =>
              /\ ~f.comp.active /\ ~f.bench.active
              /\ f.renderer.sorter.mode = p.comp.savedMode
    BY <1>1, <2>1, <2>2, Continued
  <2> HIDE DEF f
  <2>4. b.comp.index \in 1 .. 2 /\ b.comp.iterations = n
    BY <2>1 DEF Compared
  <2>5. "mode" \notin what => ResultIn(b.bench) = ResultOf(b.comp.index, n)
    BY <1>4, <2>4, Measured
  <2>6. ASSUME "mode" \notin what, NEW i \in 1 .. b.comp.index
        PROVE  f.comp.results[i] = ResultOf(i, n)
    <3>1. CASE i = b.comp.index
      BY <1>1, <2>3, <2>5, <2>6, <3>1
    <3>2. CASE i # b.comp.index
      <4>1. i \in 1 .. b.comp.index - 1 /\ i \in 1 .. 2 \ {p.comp.index}
        BY <1>1, <2>4, <3>2
      <4>2. b.comp.results[i] = ResultOf(i, b.comp.iterations)
        BY <2>1, <2>6, <4>1 DEF InItsMode
      <4> QED
        BY <1>1, <2>3, <2>4, <4>1, <4>2
    <3> QED
      BY <3>1, <3>2
  <2>7. CASE b.comp.index = 1
    <3>1. Compared(f, n)
      BY <1>1, <2>3, <2>7 DEF Compared
    <3>2. ASSUME "mode" \notin what PROVE InItsMode(f)
      <4>1. AllIn(NoTimes, SortModes[2])
        BY DEF AllIn, NoTimes
      <4>2. f.comp.index = 2 /\ f.comp.iterations = n
        BY <1>1, <2>3, <2>7
      <4>3. \A i \in 1 .. f.comp.index - 1 : f.comp.results[i] = ResultOf(i, f.comp.iterations)
        BY <2>6, <2>7, <3>2, <4>2
      <4> QED
        BY <1>1, <2>3, <2>7, <4>1, <4>2, <4>3 DEF InItsMode
    <3>3. BooksAreRight(f, what, at)
      BY <1>1, <2>1, <2>3, <2>7, <3>1, <3>2 DEF BooksAreRight
    <3> QED
      BY <1>1, <1>2, <2>3, <2>7, <3>3
  <2>8. CASE b.comp.index = 2
    <3>1. BooksAreRight(f, what, at)
      BY <1>1, <2>3, <2>8 DEF BooksAreRight
    <3>2. ASSUME "mode" \notin what PROVE EndsWell(b, f)
      BY <1>1, <2>3, <2>4, <2>6, <2>8, <3>2 DEF EndsWell
    <3> QED
      BY <1>1, <1>2, <2>3, <3>1, <3>2
  <2> QED
    BY <2>4, <2>7, <2>8
<1> QED
  BY <1>3, <1>4

-----------------------------------------------------------------------------
(* What is drawn changes the device and what the renderer knows of it.      *)

Redraws(g, h) ==
    /\ h \in [bench : {g.bench}, comp : {g.comp}, cameras : {g.cameras}, device : {h.device},
              renderer : {h.renderer}]
    /\ IsRenderer(h.renderer) /\ h.renderer.sorter = g.renderer.sorter

SameShadow(r, s) == r.shadowMap = s.shadowMap /\ r.shadowCamera = s.shadowCamera

\* Drawing leaves the benchmark, the cameras and the sorter alone.
LEMMA RedrawnParts ==
    ASSUME NEW g, ArePartsOf(g), NEW h, Redraws(g, h)
    PROVE  /\ ArePartsOf(h) /\ h.bench = g.bench /\ h.comp = g.comp /\ h.cameras = g.cameras
           /\ h.renderer.sorter = g.renderer.sorter
BY DEF Redraws, ArePartsOf

\* Only the device changes.
LEMMA DeviceChanges ==
    ASSUME NEW g, ArePartsOf(g), NEW d
    PROVE  LET h == [g EXCEPT !.device = d]
           IN  Redraws(g, h) /\ h.device = d /\ h.renderer = g.renderer
BY DEF Redraws, ArePartsOf

\* Only the renderer changes, with the sorter it had.
LEMMA RendererChanges ==
    ASSUME NEW g, ArePartsOf(g), NEW r, IsRenderer(r), r.sorter = g.renderer.sorter
    PROVE  LET h == [g EXCEPT !.renderer = r]
           IN  Redraws(g, h) /\ h.device = g.device /\ h.renderer = r
BY DEF Redraws, ArePartsOf

\* Only the statistics of a renderer change.
LEMMA StatsChange ==
    ASSUME NEW r, IsRenderer(r), NEW stats
    PROVE  LET s == [r EXCEPT !.stats = stats]
           IN  IsRenderer(s) /\ s.sorter = r.sorter /\ SameShadow(s, r)
BY DEF IsRenderer, SameShadow

\* Drawing twice is drawing.
LEMMA RedrawsAgain ==
    ASSUME NEW f, NEW g, NEW h, Redraws(f, g), Redraws(g, h)
    PROVE  Redraws(f, h)
BY DEF Redraws

\* The queue a scene is drawn with.
QueueOf(g, w, camera, display) ==
    SortRenderQueue(Resident(w, BuildRenderQueue(w, camera, display, g.renderer)), display,
                    g.renderer.sorter)
RasterizerOf(display) == [wireframe |-> display.wireframe, cullFace |-> display.cullFace]

\* The scene is drawn by running its queue with the rasterizer of the display.
LEMMA SceneRenders ==
    ASSUME NEW g, ArePartsOf(g), NEW w, NEW camera, NEW display
    PROVE  LET h == RenderScene(g, w, camera, display)
           IN  /\ Redraws(g, h) /\ SameShadow(h.renderer, g.renderer)
               /\ h.device = ClearShadowMap(
                      ExecuteRenderQueue(BindRasterizerState(g.device, RasterizerOf(display)),
                                         QueueOf(g, w, camera, display), camera, w))
<1> DEFINE submissions == BuildRenderQueue(w, camera, display, g.renderer)
           d == ClearShadowMap(
                   ExecuteRenderQueue(BindRasterizerState(g.device, RasterizerOf(display)),
                                      QueueOf(g, w, camera, display), camera, w))
           r == [g.renderer EXCEPT !.stats = StatsOf(w, submissions)]
           f == [g EXCEPT !.device = d]
           h == [f EXCEPT !.renderer = r]
<1>1. RenderScene(g, w, camera, display)
        = [g EXCEPT !.device = d, !.renderer.stats = StatsOf(w, submissions)]
  BY DEF RenderScene, RenderSubmissions, QueueOf, RasterizerOf
<1> HIDE DEF d
<1>2. RenderScene(g, w, camera, display) = h
  BY <1>1 DEF ArePartsOf
<1> HIDE DEF submissions
<1>3. IsRenderer(r) /\ r.sorter = g.renderer.sorter /\ SameShadow(r, g.renderer)
  BY StatsChange DEF ArePartsOf
<1> HIDE DEF r
<1>4. Redraws(g, f) /\ f.device = d /\ f.renderer = g.renderer
  BY DeviceChanges
<1> HIDE DEF f
<1>5. ArePartsOf(f)
  BY <1>4, RedrawnParts
<1>6. Redraws(f, h) /\ h.device = d /\ h.renderer = r
  BY <1>3, <1>4, <1>5, RendererChanges
<1> HIDE DEF h
<1>7. Redraws(g, h)
  BY <1>4, <1>6, RedrawsAgain
<1> QED
  BY <1>2, <1>3, <1>6, <1>7 DEF d

\* The grid is drawn when it is shown.
LEMMA GridRenders ==
    ASSUME NEW g, ArePartsOf(g), NEW shown, NEW camera, NEW w
    PROVE  LET h == ShowGrid(g, shown, camera, w)
           IN  /\ Redraws(g, h) /\ h.renderer = g.renderer
               /\ h.device = IF shown THEN Overlay(g.device, "grid", "grid", camera,
                                                   [enabled |-> FALSE], w)
                             ELSE g.device
<1>1. CASE shown
  <2> DEFINE d == Overlay(g.device, "grid", "grid", camera, [enabled |-> FALSE], w)
  <2>1. ShowGrid(g, shown, camera, w) = [g EXCEPT !.device = d]
    BY <1>1 DEF ShowGrid, RenderGrid
  <2> HIDE DEF d
  <2>2. LET h == [g EXCEPT !.device = d]
        IN  Redraws(g, h) /\ h.device = d /\ h.renderer = g.renderer
    BY DeviceChanges
  <2> QED
    BY <1>1, <2>1, <2>2 DEF d
<1>2. CASE ~shown
  BY <1>2 DEF ShowGrid, Redraws, ArePartsOf
<1> QED
  BY <1>1, <1>2

\* The device after the scene, with or without the grid.
SceneDrawn(g, w, camera, display, grid) ==
    LET d == ClearShadowMap(
                ExecuteRenderQueue(BindRasterizerState(g.device, RasterizerOf(display)),
                                   QueueOf(g, w, camera, display), camera, w))
    IN  IF grid THEN Overlay(d, "grid", "grid", camera, [enabled |-> FALSE], w) ELSE d

\* The scene, then the grid.
LEMMA SceneAndGrid ==
    ASSUME NEW g, ArePartsOf(g), NEW w, NEW camera, NEW display, NEW grid
    PROVE  LET h == ShowGrid(RenderScene(g, w, camera, display), grid, camera, w)
           IN  /\ Redraws(g, h) /\ SameShadow(h.renderer, g.renderer)
               /\ h.device = SceneDrawn(g, w, camera, display, grid)
<1> DEFINE f == RenderScene(g, w, camera, display)
           d == ClearShadowMap(
                   ExecuteRenderQueue(BindRasterizerState(g.device, RasterizerOf(display)),
                                      QueueOf(g, w, camera, display), camera, w))
           h == ShowGrid(f, grid, camera, w)
<1>1. Redraws(g, f) /\ SameShadow(f.renderer, g.renderer) /\ f.device = d
  BY SceneRenders
<1> HIDE DEF f
<1>2. ArePartsOf(f)
  BY <1>1, RedrawnParts
<1>3. /\ Redraws(f, h) /\ h.renderer = f.renderer
      /\ h.device = IF grid THEN Overlay(f.device, "grid", "grid", camera,
                                         [enabled |-> FALSE], w)
                    ELSE f.device
  BY <1>2, GridRenders
<1>4. h.device = SceneDrawn(g, w, camera, display, grid)
  BY <1>1, <1>3 DEF SceneDrawn
<1> HIDE DEF h
<1>5. Redraws(g, h) /\ SameShadow(h.renderer, g.renderer)
  BY <1>1, <1>3, RedrawsAgain DEF SameShadow
<1> QED
  BY <1>4, <1>5 DEF f, h

\* An iteration of the benchmark draws the scene with the phase's sorting.
LEMMA BenchmarkDraws ==
    ASSUME NEW g, ArePartsOf(g), NEW w, NEW v, NEW camera, NEW sorted
    PROVE  LET h == BenchmarkRendered(g, w, v, camera, sorted)
           IN  /\ Redraws(g, h) /\ SameShadow(h.renderer, g.renderer)
               /\ h.device = SceneDrawn(g, w, camera,
                                        [v.display EXCEPT !.sortMeshes = sorted], v.showGrid)
<1> DEFINE display == [v.display EXCEPT !.sortMeshes = sorted]
           f == ShowGrid(RenderScene(g, w, camera, display), v.showGrid, camera, w)
           r == [f.renderer EXCEPT !.stats = g.renderer.stats]
           h == [f EXCEPT !.renderer = r]
<1>1. BenchmarkRendered(g, w, v, camera, sorted) = [f EXCEPT !.renderer.stats = g.renderer.stats]
  BY DEF BenchmarkRendered
<1>2. /\ Redraws(g, f) /\ SameShadow(f.renderer, g.renderer)
      /\ f.device = SceneDrawn(g, w, camera, display, v.showGrid)
  BY SceneAndGrid
<1> HIDE DEF f
<1>3. ArePartsOf(f) /\ f.renderer.sorter = g.renderer.sorter
  BY <1>2, RedrawnParts
<1>4. BenchmarkRendered(g, w, v, camera, sorted) = h
  BY <1>1, <1>3 DEF ArePartsOf
<1>5. IsRenderer(r) /\ r.sorter = f.renderer.sorter /\ SameShadow(r, f.renderer)
  BY <1>3, StatsChange DEF ArePartsOf
<1> HIDE DEF r
<1>6. Redraws(f, h) /\ h.device = f.device /\ h.renderer = r
  BY <1>3, <1>5, RendererChanges
<1> HIDE DEF h
<1>7. Redraws(g, h)
  BY <1>2, <1>6, RedrawsAgain
<1> QED
  BY <1>2, <1>4, <1>5, <1>6, <1>7 DEF SameShadow

\* One more frame of the phase the benchmark is in, in the sorter's mode.
LEMMA IteratedIs ==
    ASSUME NEW bb \in Benches, bb.active, Counted(bb), bb.current < bb.target,
           NEW mode \in SorterModes
    PROVE  LET c == Iterated(bb, mode)
           IN  /\ c \in Benches /\ c.active /\ Counted(c) /\ c.current = bb.current + 1
               /\ c.target = bb.target /\ c.saved = bb.saved /\ c.sorted = bb.sorted
               /\ c.result = bb.result
               /\ AllIn(bb.timesSorted, mode) => AllIn(c.timesSorted, mode)
               /\ AllIn(bb.timesUnsorted, mode) => AllIn(c.timesUnsorted, mode)
<1>1. /\ bb.current \in Nat /\ bb.target \in Nat /\ bb.timesSorted \in Timings
      /\ bb.timesUnsorted \in Timings
  BY DEF Benches
<1>2. ASSUME NEW times \in Timings
      PROVE  /\ Timed(times, mode) \in Timings
             /\ Timed(times, mode).count = times.count + 1
             /\ AllIn(times, mode) => AllIn(Timed(times, mode), mode)
  BY DEF Timed, Timings, AllIn
<1> DEFINE s == Timed(bb.timesSorted, mode)
           u == Timed(bb.timesUnsorted, mode)
           next == bb.current + 1
<1>3. s \in Timings /\ u \in Timings /\ next \in Nat
  BY <1>1, <1>2
<1>4. Iterated(bb, mode) = IF bb.sorted THEN [bb EXCEPT !.current = next, !.timesSorted = s]
                          ELSE [bb EXCEPT !.current = next, !.timesUnsorted = u]
  BY DEF Iterated
<1>5. /\ s.count = bb.timesSorted.count + 1 /\ u.count = bb.timesUnsorted.count + 1
      /\ AllIn(bb.timesSorted, mode) => AllIn(s, mode)
      /\ AllIn(bb.timesUnsorted, mode) => AllIn(u, mode)
  BY <1>1, <1>2
<1> HIDE DEF s, u
<1> DEFINE c == Iterated(bb, mode)
<1>6. /\ c \in Benches /\ c.active /\ c.current = next /\ c.target = bb.target
      /\ c.saved = bb.saved /\ c.sorted = bb.sorted /\ c.result = bb.result
      /\ c.timesSorted = IF bb.sorted THEN s ELSE bb.timesSorted
      /\ c.timesUnsorted = IF bb.sorted THEN bb.timesUnsorted ELSE u
  <2> HIDE DEF next
  <2>1. CASE bb.sorted
    BY <1>3, <1>4, <2>1 DEF Benches
  <2>2. CASE ~bb.sorted
    BY <1>3, <1>4, <2>2 DEF Benches
  <2> QED
    BY <2>1, <2>2
<1> HIDE DEF c
<1>7. Counted(c)
  <2>1. CASE bb.sorted
    <3>1. c.sorted /\ c.timesSorted = s /\ c.timesUnsorted = bb.timesUnsorted
      BY <1>6, <2>1
    <3> QED
      BY <1>1, <1>5, <1>6, <2>1, <3>1 DEF Counted
  <2>2. CASE ~bb.sorted
    <3>1. ~c.sorted /\ c.timesUnsorted = u /\ c.timesSorted = bb.timesSorted
      BY <1>6, <2>2
    <3> QED
      BY <1>1, <1>5, <1>6, <2>2, <3>1 DEF Counted
  <2> QED
    BY <2>1, <2>2
<1>8. /\ AllIn(bb.timesSorted, mode) => AllIn(c.timesSorted, mode)
      /\ AllIn(bb.timesUnsorted, mode) => AllIn(c.timesUnsorted, mode)
  BY <1>5, <1>6
<1> QED
  BY <1>6, <1>7, <1>8 DEF c

\* The benchmark places the selected camera, with its projection.
LEMMA Placed ==
    ASSUME NEW b, NEW what, NEW at, BooksAreRight(b, what, at), b.bench.active,
           NEW v \in Viewports
    PROVE  LET p == PlaceCamera(b, v)
           IN  /\ BooksAreRight(p, what, at)
               /\ DOMAIN p.cameras = DOMAIN b.cameras
               /\ IsProjected(p.cameras[Selected(v, p.cameras)], v)
               /\ p.bench = b.bench /\ p.comp = b.comp /\ p.renderer = b.renderer
               /\ p.device = b.device
<1> DEFINE k == (b.bench.current % Len(BenchmarkPositions)) + 1
           position == BenchmarkPositions[k]
           t == LookAt(position.eye, position.forward, <<0, 1, 0>>)
           moved == MoveSelected(b.cameras, t, v)
           p == [b EXCEPT !.cameras = moved]
<1>1. k \in DOMAIN BenchmarkPositions
  <2>1. /\ Len(BenchmarkPositions) \in Nat \ {0}
        /\ DOMAIN BenchmarkPositions = 1 .. Len(BenchmarkPositions)
    BY FrameRendererAssumption
  <2>2. b.bench.current \in Nat
    BY DEF BooksAreRight, ArePartsOf, Benches
  <2> QED
    BY <2>1, <2>2
<1> HIDE DEF k
<1>2. t \in Transforms
  <2>1. BenchmarkPositions \in Seq([eye : Vectors, forward : Vectors])
    BY FrameRendererAssumption
  <2>2. position \in [eye : Vectors, forward : Vectors]
    <3>1. \A E : BenchmarkPositions \in Seq(E) => BenchmarkPositions[k] \in E
      BY <1>1
    <3> QED
      BY <2>1, <3>1
  <2>3. <<0, 1, 0>> \in Vectors
    BY DEF Vectors
  <2> QED
    BY <2>2, <2>3 DEF LookAt, Transforms
<1> HIDE DEF t
<1>3. /\ AreCameras(moved) /\ DOMAIN moved = DOMAIN b.cameras
      /\ Selected(v, moved) = Selected(v, b.cameras)
      /\ IsProjected(moved[Selected(v, b.cameras)], v)
  <2>1. AreCameras(b.cameras)
    BY DEF BooksAreRight, ArePartsOf
  <2> QED
    BY <1>2, <2>1, SelectedMoves
<1>4. PlaceCamera(b, v) = p
  BY DEF PlaceCamera, t, k
<1> HIDE DEF moved
<1>5. /\ ArePartsOf(p) /\ p.cameras = moved /\ p.bench = b.bench /\ p.comp = b.comp
      /\ p.renderer = b.renderer /\ p.device = b.device
  BY <1>3 DEF ArePartsOf, BooksAreRight
<1> HIDE DEF p
<1>6. BooksAreRight(p, what, at)
  BY <1>5 DEF BooksAreRight, Compared, InItsMode
<1> QED
  BY <1>3, <1>4, <1>5, <1>6

\* An iteration leaves the books right, and the cameras where PlaceCamera put them.
LEMMA IterationIs ==
    ASSUME NEW b, NEW what, NEW at, BooksAreRight(b, what, at), b.bench.active,
           b.bench.current < b.bench.target, NEW v \in Viewports, NEW w
    PROVE  LET i == Iteration(b, w, v)
           IN  /\ BooksAreRight(i, what, at)
               /\ i.cameras = b.cameras /\ i.comp = b.comp /\ i.bench.active
               /\ i.bench.result = b.bench.result /\ i.bench.saved = b.bench.saved
               /\ SameShadow(i.renderer, b.renderer)
               /\ i.renderer.sorter = b.renderer.sorter
               /\ i.device = SceneDrawn(b, w, b.cameras[Selected(v, b.cameras)],
                                        [v.display EXCEPT !.sortMeshes = b.bench.sorted],
                                        v.showGrid)
<1> DEFINE camera == b.cameras[Selected(v, b.cameras)]
           d == SceneDrawn(b, w, camera, [v.display EXCEPT !.sortMeshes = b.bench.sorted],
                           v.showGrid)
           h == BenchmarkRendered(b, w, v, camera, b.bench.sorted)
           mode == b.renderer.sorter.mode
           c == Iterated(b.bench, mode)
           i == [h EXCEPT !.bench = c]
<1>1. ArePartsOf(b) /\ b.bench \in Benches /\ Counted(b.bench) /\ mode \in SorterModes
  BY DEF BooksAreRight, ArePartsOf, IsRenderer, Sorters
<1>2. Redraws(b, h) /\ SameShadow(h.renderer, b.renderer) /\ h.device = d
  BY <1>1, BenchmarkDraws
<1> HIDE DEF d
<1>3. Iteration(b, w, v) = [h EXCEPT !.bench = Iterated(@, mode)]
  BY DEF Iteration
<1> HIDE DEF h
<1>4. /\ ArePartsOf(h) /\ h.bench = b.bench /\ h.comp = b.comp /\ h.cameras = b.cameras
      /\ h.renderer.sorter = b.renderer.sorter
  BY <1>1, <1>2, RedrawnParts
<1>5. Iteration(b, w, v) = i
  BY <1>3, <1>4 DEF ArePartsOf
<1>6. /\ c \in Benches /\ c.active /\ Counted(c) /\ c.current = b.bench.current + 1
      /\ c.target = b.bench.target /\ c.saved = b.bench.saved /\ c.sorted = b.bench.sorted
      /\ c.result = b.bench.result
      /\ AllIn(b.bench.timesSorted, mode) => AllIn(c.timesSorted, mode)
      /\ AllIn(b.bench.timesUnsorted, mode) => AllIn(c.timesUnsorted, mode)
  BY <1>1, IteratedIs
<1> HIDE DEF c
<1>7. /\ ArePartsOf(i) /\ i.bench = c /\ i.comp = b.comp /\ i.cameras = b.cameras
      /\ i.renderer = h.renderer /\ i.device = d
  BY <1>2, <1>4, <1>6 DEF ArePartsOf
<1> HIDE DEF i
<1>8. BooksAreRight(i, what, at)
  BY <1>4, <1>6, <1>7 DEF BooksAreRight, Compared, InItsMode
<1> QED
  BY <1>2, <1>4, <1>5, <1>6, <1>7, <1>8 DEF SameShadow, d

\* The phase with sorting ends: the other one starts to count.
LEMMA PhaseEnds ==
    ASSUME NEW b, NEW what, NEW at, BooksAreRight(b, what, at), b.bench.active,
           b.bench.sorted, IsDone(b)
    PROVE  LET e == [b EXCEPT !.bench = EndPhase(@)]
           IN  /\ BooksAreRight(e, what, at)
               /\ e.cameras = b.cameras /\ e.comp = b.comp /\ e.bench.active
               /\ e.bench.result = b.bench.result
               /\ e.renderer = b.renderer /\ e.device = b.device
<1> DEFINE c == EndPhase(b.bench)
           e == [b EXCEPT !.bench = c]
<1>1. ArePartsOf(b) /\ b.bench \in Benches /\ Counted(b.bench)
  BY DEF BooksAreRight, ArePartsOf
<1>2. b.bench.current = b.bench.target
  BY <1>1 DEF Counted, IsDone, Benches
<1>3. /\ c \in Benches /\ c.active /\ ~c.sorted /\ c.current = 0
      /\ c.target = b.bench.target /\ c.saved = b.bench.saved /\ c.result = b.bench.result
      /\ c.timesSorted = b.bench.timesSorted /\ c.timesUnsorted = b.bench.timesUnsorted
  BY <1>1 DEF EndPhase, Benches
<1> HIDE DEF c
<1>4. Counted(c)
  <2>1. /\ b.bench.timesSorted.count = b.bench.target /\ b.bench.timesUnsorted.count = 0
        /\ b.bench.target \in Nat /\ b.bench.target >= 1
    BY <1>1, <1>2 DEF Counted, Benches
  <2> QED
    BY <1>3, <2>1 DEF Counted
<1>5. /\ ArePartsOf(e) /\ e.bench = c /\ e.comp = b.comp /\ e.cameras = b.cameras
      /\ e.renderer = b.renderer /\ e.device = b.device
  BY <1>1, <1>3 DEF ArePartsOf
<1>6. [b EXCEPT !.bench = EndPhase(@)] = e
  BY DEF c
<1> HIDE DEF e
<1>7. BooksAreRight(e, what, at)
  BY <1>3, <1>4, <1>5 DEF BooksAreRight, Compared, InItsMode
<1> QED
  BY <1>3, <1>5, <1>6, <1>7

\* What a frame of the benchmark draws: nothing at the end of a phase.
BenchmarkFrame(b, w, v) ==
    LET p == PlaceCamera(b, v)
    IN  IF IsDone(b) THEN b.device
        ELSE SceneDrawn(p, w, p.cameras[Selected(v, p.cameras)],
                        [v.display EXCEPT !.sortMeshes = b.bench.sorted], v.showGrid)

\* A step of the benchmark keeps its books, and what it publishes is right.
LEMMA BenchmarkGoesOn ==
    ASSUME NEW b, NEW what, NEW at, BooksAreRight(b, what, at), b.bench.active,
           NEW v \in Viewports, NEW w
    PROVE  LET u == UpdatedBenchmark(b, w, v)
           IN  /\ BooksAreRight(u, what, at)
               /\ DOMAIN u.cameras = DOMAIN b.cameras
               /\ SameShadow(u.renderer, b.renderer)
               /\ u.device = BenchmarkFrame(b, w, v)
               /\ \/ u.bench.result = b.bench.result
                  \/ /\ u.bench.result.sorted.count = u.bench.result.iterations
                     /\ u.bench.result.unsorted.count = u.bench.result.iterations
               /\ ~u.bench.active =>
                     u.cameras[Selected(v, u.cameras)].transform = b.bench.saved
               /\ (b.comp.active /\ ~u.comp.active /\ "mode" \notin what) => EndsWell(b, u)
<1> DEFINE u == UpdatedBenchmark(b, w, v)
           p == PlaceCamera(b, v)
           i == Iteration(p, w, v)
<1>1. ArePartsOf(b) /\ b.bench \in Benches /\ Counted(b.bench)
  BY DEF BooksAreRight, ArePartsOf
<1>2. CASE IsDone(b) /\ b.bench.sorted
  <2>1. u = [b EXCEPT !.bench = EndPhase(@)]
    BY <1>2 DEF UpdatedBenchmark
  <2> DEFINE e == [b EXCEPT !.bench = EndPhase(@)]
  <2>2. /\ BooksAreRight(e, what, at)
        /\ e.cameras = b.cameras /\ e.comp = b.comp /\ e.bench.active
        /\ e.bench.result = b.bench.result
        /\ e.renderer = b.renderer /\ e.device = b.device
    BY <1>2, PhaseEnds
  <2> HIDE DEF e
  <2> QED
    BY <1>2, <2>1, <2>2 DEF SameShadow, BenchmarkFrame, e
<1>3. CASE IsDone(b) /\ ~b.bench.sorted
  <2>1. u = FinishBenchmark(b, v)
    BY <1>3 DEF UpdatedBenchmark
  <2>2. b.bench.current >= b.bench.target
    BY <1>3 DEF IsDone
  <2> DEFINE f == FinishBenchmark(b, v)
  <2>3. /\ BooksAreRight(f, what, at)
        /\ DOMAIN f.cameras = DOMAIN b.cameras /\ f.device = b.device
        /\ f.renderer.shadowMap = b.renderer.shadowMap
        /\ f.renderer.shadowCamera = b.renderer.shadowCamera
        /\ f.cameras[Selected(v, f.cameras)].transform = b.bench.saved
        /\ f.bench.result = ResultIn(b.bench)
        /\ (b.comp.active /\ ~f.comp.active /\ "mode" \notin what) => EndsWell(b, f)
    BY <1>3, <2>2, Finished
  <2>4. /\ ResultIn(b.bench).sorted.count = b.bench.target
        /\ ResultIn(b.bench).unsorted.count = b.bench.target
        /\ ResultIn(b.bench).iterations = b.bench.target
    BY <1>3, <2>2, Measured DEF ResultIn
  <2> HIDE DEF f
  <2> QED
    BY <1>3, <2>1, <2>3, <2>4 DEF SameShadow, BenchmarkFrame, f
<1>4. CASE ~IsDone(b)
  <2>1. u = FinishIfDone(i, v)
    BY <1>4 DEF UpdatedBenchmark
  <2>2. b.bench.current < b.bench.target
    BY <1>1, <1>4 DEF IsDone, Benches
  <2>3. /\ BooksAreRight(p, what, at) /\ DOMAIN p.cameras = DOMAIN b.cameras
        /\ p.bench = b.bench /\ p.comp = b.comp /\ p.renderer = b.renderer
    BY Placed
  <2> HIDE DEF p
  <2>4. /\ BooksAreRight(i, what, at)
        /\ i.cameras = p.cameras /\ i.comp = p.comp /\ i.bench.active
        /\ i.bench.result = p.bench.result /\ i.bench.saved = p.bench.saved
        /\ SameShadow(i.renderer, p.renderer)
        /\ i.renderer.sorter = p.renderer.sorter
        /\ i.device = SceneDrawn(p, w, p.cameras[Selected(v, p.cameras)],
                                 [v.display EXCEPT !.sortMeshes = p.bench.sorted], v.showGrid)
    BY <2>2, <2>3, IterationIs
  <2>5. i.device = BenchmarkFrame(b, w, v)
    BY <1>4, <2>3, <2>4 DEF BenchmarkFrame, p
  <2> HIDE DEF i
  <2>6. CASE IsDone(i) /\ ~i.bench.sorted
    <3>1. u = FinishBenchmark(i, v)
      BY <2>1, <2>6 DEF FinishIfDone
    <3>2. i.bench.current >= i.bench.target
      BY <2>6 DEF IsDone
    <3> DEFINE f == FinishBenchmark(i, v)
    <3>3. /\ BooksAreRight(f, what, at)
          /\ DOMAIN f.cameras = DOMAIN i.cameras /\ f.device = i.device
          /\ f.renderer.shadowMap = i.renderer.shadowMap
          /\ f.renderer.shadowCamera = i.renderer.shadowCamera
          /\ f.cameras[Selected(v, f.cameras)].transform = i.bench.saved
          /\ f.bench.result = ResultIn(i.bench)
          /\ (i.comp.active /\ ~f.comp.active /\ "mode" \notin what) => EndsWell(i, f)
      BY <2>4, <2>6, <3>2, Finished
    <3>4. /\ ResultIn(i.bench).sorted.count = i.bench.target
          /\ ResultIn(i.bench).unsorted.count = i.bench.target
          /\ ResultIn(i.bench).iterations = i.bench.target
      BY <2>4, <2>6, <3>2, Measured DEF ResultIn
    <3>5. i.comp = b.comp
      BY <2>3, <2>4
    <3>6. EndsWell(i, f) => EndsWell(b, f)
      BY <3>5 DEF EndsWell
    <3> HIDE DEF f
    <3> QED
      BY <2>3, <2>4, <2>5, <3>1, <3>3, <3>4, <3>5, <3>6 DEF SameShadow, f
  <2>7. CASE ~(IsDone(i) /\ ~i.bench.sorted)
    <3>1. u = i
      BY <2>1, <2>7 DEF FinishIfDone
    <3> QED
      BY <2>3, <2>4, <2>5, <3>1 DEF SameShadow
  <2> QED
    BY <2>6, <2>7
<1> QED
  BY <1>2, <1>3, <1>4

-----------------------------------------------------------------------------
(* A frame without a benchmark.                                             *)

\* The device with a shadow map, the one the renderer has or a new one.
ReadyDevice(d, handle) == IF handle # 0 THEN d ELSE CreateShadowMap(WithoutShadowMap(d, 0))
ReadyMap(d, handle) == IF handle # 0 THEN handle ELSE WithoutShadowMap(d, 0).next

\* The device after the shadow map was drawn.
ShadowDrawn(d, handle, light, w) ==
    LET begun == BindShadowUniforms(
                     BindMaterial(BeginShadowMapPass(d, handle, light), "shadow", w),
                     [enabled |-> FALSE])
    IN  EndShadowMapPass(DrawCasters(begun,
                                     InScene(w.visible \intersect w.loaded \intersect w.casts),
                                     light))

\* The shadow map is there after it was asked for.
LEMMA ShadowMapIsReady ==
    ASSUME NEW g, ArePartsOf(g)
    PROVE  LET h == EnsureShadowMap(g)
           IN  /\ Redraws(g, h) /\ h.renderer.shadowCamera = g.renderer.shadowCamera
               /\ h.renderer.shadowMap = ReadyMap(g.device, g.renderer.shadowMap)
               /\ h.device = ReadyDevice(g.device, g.renderer.shadowMap)
<1>1. CASE g.renderer.shadowMap # 0
  <2>1. EnsureShadowMap(g) = g
    BY <1>1 DEF EnsureShadowMap
  <2> QED
    BY <1>1, <2>1 DEF Redraws, ArePartsOf, ReadyMap, ReadyDevice
<1>2. CASE g.renderer.shadowMap = 0
  <2> DEFINE d == WithoutShadowMap(g.device, 0)
             clean == [g EXCEPT !.device = d, !.renderer.shadowMap = 0]
             r == [g.renderer EXCEPT !.shadowMap = d.next]
             f == [g EXCEPT !.device = CreateShadowMap(d)]
             h == [f EXCEPT !.renderer = r]
  <2>1. ReleaseShadowMapResources(g) = clean
    BY <1>2 DEF ReleaseShadowMapResources
  <2>2. EnsureShadowMap(g) = [clean EXCEPT !.device = CreateShadowMap(@),
                                           !.renderer.shadowMap = clean.device.next]
    BY <1>2, <2>1 DEF EnsureShadowMap
  <2> HIDE DEF d
  <2>3. EnsureShadowMap(g) = h
    BY <2>2 DEF ArePartsOf, IsRenderer
  <2>4. IsRenderer(r) /\ r.sorter = g.renderer.sorter
        /\ r.shadowCamera = g.renderer.shadowCamera /\ r.shadowMap = d.next
    BY DEF ArePartsOf, IsRenderer
  <2> HIDE DEF r
  <2>5. Redraws(g, f) /\ f.device = CreateShadowMap(d) /\ f.renderer = g.renderer
    BY DeviceChanges
  <2> HIDE DEF f
  <2>6. ArePartsOf(f)
    BY <2>5, RedrawnParts
  <2>7. Redraws(f, h) /\ h.device = f.device /\ h.renderer = r
    BY <2>4, <2>5, <2>6, RendererChanges
  <2> HIDE DEF h
  <2>8. Redraws(g, h)
    BY <2>5, <2>7, RedrawsAgain
  <2> QED
    BY <1>2, <2>3, <2>4, <2>5, <2>7, <2>8 DEF ReadyMap, ReadyDevice, d
<1> QED
  BY <1>1, <1>2

\* The shadow map is drawn when there is a light, into a map that is there.
LEMMA ShadowMapRenders ==
    ASSUME NEW g, ArePartsOf(g), NEW w
    PROVE  LET h == RenderShadowMap(g, w)
               light == g.renderer.shadowCamera
               handle == ReadyMap(g.device, g.renderer.shadowMap)
           IN  /\ Redraws(g, h) /\ h.renderer.shadowCamera = light
               /\ light = Nothing => h = g
               /\ light # Nothing =>
                     /\ h.renderer.shadowMap = handle
                     /\ h.device = ShadowDrawn(ReadyDevice(g.device, g.renderer.shadowMap),
                                               handle, light, w)
<1>1. CASE g.renderer.shadowCamera = Nothing
  <2>1. RenderShadowMap(g, w) = g
    BY <1>1 DEF RenderShadowMap
  <2> QED
    BY <1>1, <2>1 DEF Redraws, ArePartsOf
<1>2. CASE g.renderer.shadowCamera # Nothing
  <2> DEFINE ready == EnsureShadowMap(g)
             d == ShadowDrawn(ready.device, ready.renderer.shadowMap,
                              ready.renderer.shadowCamera, w)
             h == [ready EXCEPT !.device = d]
  <2>1. RenderShadowMap(g, w) = h
    BY <1>2 DEF RenderShadowMap, ShadowDrawn
  <2>2. /\ Redraws(g, ready) /\ ready.renderer.shadowCamera = g.renderer.shadowCamera
        /\ ready.renderer.shadowMap = ReadyMap(g.device, g.renderer.shadowMap)
        /\ ready.device = ReadyDevice(g.device, g.renderer.shadowMap)
    BY ShadowMapIsReady
  <2> HIDE DEF ready
  <2>3. ArePartsOf(ready)
    BY <2>2, RedrawnParts
  <2> HIDE DEF d
  <2>4. Redraws(ready, h) /\ h.device = d /\ h.renderer = ready.renderer
    BY <2>3, DeviceChanges
  <2> HIDE DEF h
  <2>5. Redraws(g, h)
    BY <2>2, <2>4, RedrawsAgain
  <2> QED
    BY <1>2, <2>1, <2>2, <2>4, <2>5 DEF d
<1> QED
  BY <1>1, <1>2

\* The shadow map as a picture.
DepthDrawn(d, handle, camera, w) ==
    LET shadow == [enabled |-> TRUE, handle |-> handle, from |-> "identity"]
    IN  IF handle = 0 THEN d
        ELSE ClearShadowMap(Overlay(BindShadowMap(d, shadow), "quad", "depth", camera, shadow, w))

\* The depth view is drawn.
LEMMA DepthRenders ==
    ASSUME NEW g, ArePartsOf(g), NEW camera, NEW w
    PROVE  LET h == RenderSpotlightDepth(g, camera, w)
           IN  /\ Redraws(g, h) /\ h.renderer = g.renderer
               /\ h.device = DepthDrawn(g.device, g.renderer.shadowMap, camera, w)
<1>1. CASE g.renderer.shadowMap = 0
  <2>1. RenderSpotlightDepth(g, camera, w) = g
    BY <1>1 DEF RenderSpotlightDepth
  <2> QED
    BY <1>1, <2>1 DEF Redraws, ArePartsOf, DepthDrawn
<1>2. CASE g.renderer.shadowMap # 0
  <2> DEFINE d == DepthDrawn(g.device, g.renderer.shadowMap, camera, w)
             h == [g EXCEPT !.device = d]
  <2>1. RenderSpotlightDepth(g, camera, w) = h
    BY <1>2 DEF RenderSpotlightDepth, DepthDrawn
  <2> HIDE DEF d
  <2>2. Redraws(g, h) /\ h.device = d /\ h.renderer = g.renderer
    BY DeviceChanges
  <2> HIDE DEF h
  <2> QED
    BY <2>1, <2>2 DEF d
<1> QED
  BY <1>1, <1>2

\* What a frame begins with: the light is looked for.
LEMMA FrameBegins ==
    ASSUME NEW g, ArePartsOf(g), NEW w
    PROVE  LET h == [g EXCEPT !.renderer.stats = NoStats,
                              !.renderer.shadowCamera = CollectShadowCamera(w)]
           IN  /\ Redraws(g, h) /\ h.renderer.shadowCamera = CollectShadowCamera(w)
               /\ h.renderer.shadowMap = g.renderer.shadowMap /\ h.device = g.device
<1> DEFINE light == CollectShadowCamera(w)
           r == [[g.renderer EXCEPT !.stats = NoStats] EXCEPT !.shadowCamera = light]
           h == [g EXCEPT !.renderer = r]
<1> HIDE DEF light
<1>1. [g EXCEPT !.renderer.stats = NoStats, !.renderer.shadowCamera = light] = h
  BY DEF ArePartsOf, IsRenderer
<1>2. /\ IsRenderer(r) /\ r.sorter = g.renderer.sorter
      /\ r.shadowCamera = light /\ r.shadowMap = g.renderer.shadowMap
  BY DEF ArePartsOf, IsRenderer
<1> HIDE DEF r
<1>3. Redraws(g, h) /\ h.device = g.device /\ h.renderer = r
  BY <1>2, RendererChanges
<1> HIDE DEF h
<1> QED
  BY <1>1, <1>2, <1>3 DEF light

\* The parts after the shadow map was drawn, and the whole frame.
LitParts(g, w) ==
    RenderShadowMap([g EXCEPT !.renderer.stats = NoStats,
                              !.renderer.shadowCamera = CollectShadowCamera(w)], w)
AfterFrame(l, w, v, camera) ==
    IF v.display.debugDepth /\ l.renderer.shadowCamera # Nothing
    THEN DepthDrawn(l.device, l.renderer.shadowMap, camera, w)
    ELSE SceneDrawn(l, w, camera, v.display, ~v.display.debugDepth /\ v.showGrid)

\* A frame looks for its light and draws the shadow map.
LEMMA LitIs ==
    ASSUME NEW g, ArePartsOf(g), NEW w
    PROVE  LET l == LitParts(g, w)
               light == CollectShadowCamera(w)
               handle == ReadyMap(g.device, g.renderer.shadowMap)
           IN  /\ Redraws(g, l) /\ l.renderer.shadowCamera = light
               /\ light = Nothing =>
                     l.device = g.device /\ l.renderer.shadowMap = g.renderer.shadowMap
               /\ light # Nothing =>
                     /\ l.renderer.shadowMap = handle
                     /\ l.device = ShadowDrawn(ReadyDevice(g.device, g.renderer.shadowMap),
                                               handle, light, w)
<1> DEFINE h == [g EXCEPT !.renderer.stats = NoStats,
                          !.renderer.shadowCamera = CollectShadowCamera(w)]
           l == RenderShadowMap(h, w)
<1>1. /\ Redraws(g, h) /\ h.renderer.shadowCamera = CollectShadowCamera(w)
      /\ h.renderer.shadowMap = g.renderer.shadowMap /\ h.device = g.device
  BY FrameBegins
<1>2. LitParts(g, w) = l
  BY DEF LitParts
<1> HIDE DEF h
<1>3. ArePartsOf(h)
  BY <1>1, RedrawnParts
<1>4. /\ Redraws(h, l) /\ l.renderer.shadowCamera = h.renderer.shadowCamera
      /\ h.renderer.shadowCamera = Nothing => l = h
      /\ h.renderer.shadowCamera # Nothing =>
            /\ l.renderer.shadowMap = ReadyMap(h.device, h.renderer.shadowMap)
            /\ l.device = ShadowDrawn(ReadyDevice(h.device, h.renderer.shadowMap),
                                      ReadyMap(h.device, h.renderer.shadowMap),
                                      h.renderer.shadowCamera, w)
  BY <1>3, ShadowMapRenders
<1> HIDE DEF l
<1>5. Redraws(g, l)
  BY <1>1, <1>4, RedrawsAgain
<1> QED
  BY <1>1, <1>2, <1>4, <1>5

\* A frame is the shadow map, and then the scene or the depth view.
LEMMA FrameRenders ==
    ASSUME NEW g, ArePartsOf(g), NEW w, NEW v \in Viewports, NEW camera
    PROVE  LET h == Rendered(g, w, v, camera)
           IN  /\ Redraws(g, h) /\ SameShadow(h.renderer, LitParts(g, w).renderer)
               /\ h.device = AfterFrame(LitParts(g, w), w, v, camera)
<1> DEFINE l == LitParts(g, w)
           grid == ~v.display.debugDepth /\ v.showGrid
           s == ShowScene(l, w, camera, v.display)
           h == ShowGrid(s, grid, camera, w)
<1>1. Rendered(g, w, v, camera) = h
  BY DEF Rendered, LitParts
<1>2. Redraws(g, l)
  BY LitIs
<1> HIDE DEF l
<1>3. ArePartsOf(l)
  BY <1>2, RedrawnParts
<1>4. CASE v.display.debugDepth /\ l.renderer.shadowCamera # Nothing
  <2>1. s = RenderSpotlightDepth(l, camera, w)
    BY <1>4 DEF ShowScene
  <2>2. /\ Redraws(l, s) /\ s.renderer = l.renderer
        /\ s.device = DepthDrawn(l.device, l.renderer.shadowMap, camera, w)
    BY <1>3, <2>1, DepthRenders
  <2>3. h = s
    BY <1>4 DEF ShowGrid
  <2> HIDE DEF h, s
  <2>4. Redraws(g, h)
    BY <1>2, <2>2, <2>3, RedrawsAgain
  <2> QED
    BY <1>1, <1>4, <2>2, <2>3, <2>4 DEF AfterFrame, SameShadow, l
<1>5. CASE ~(v.display.debugDepth /\ l.renderer.shadowCamera # Nothing)
  <2>1. s = RenderScene(l, w, camera, v.display)
    BY <1>5 DEF ShowScene
  <2>2. /\ Redraws(l, h) /\ SameShadow(h.renderer, l.renderer)
        /\ h.device = SceneDrawn(l, w, camera, v.display, grid)
    BY <1>3, <2>1, SceneAndGrid
  <2> HIDE DEF h, s
  <2>3. Redraws(g, h)
    BY <1>2, <2>2, RedrawsAgain
  <2> QED
    BY <1>1, <1>5, <2>2, <2>3 DEF AfterFrame, l
<1> QED
  BY <1>4, <1>5

-----------------------------------------------------------------------------
(* The invariant of the viewport and the benchmark.                         *)

PartsNow ==
    [bench |-> bench, comp |-> comp, cameras |-> cameras, device |-> device,
     renderer |-> renderer]

ViewInv ==
    /\ part \in {"update", "viewport", "menu", "tools", "inspector", "quit"}
    /\ events \in 0 .. MaxEvents
    /\ viewport \in Viewports
    /\ panel \in [iterations : Int, bins : Nat \ {0}]
    /\ BooksAreRight(PartsNow, touched, home)

\* The parts of the program, by their names.
LEMMA NowIs ==
    /\ PartsNow.bench = bench /\ PartsNow.comp = comp /\ PartsNow.cameras = cameras
    /\ PartsNow.device = device /\ PartsNow.renderer = renderer
    /\ ArePartsOf(PartsNow) <=>
          /\ bench \in Benches /\ comp \in Comparisons /\ AreCameras(cameras)
          /\ IsRenderer(renderer)
BY DEF PartsNow, ArePartsOf

\* The types of the parts.
LEMMA TypesNow ==
    ASSUME ViewInv
    PROVE  /\ bench \in Benches /\ comp \in Comparisons /\ AreCameras(cameras)
           /\ IsRenderer(renderer) /\ renderer.sorter \in Sorters
           /\ ArePartsOf(PartsNow)
<1>1. ArePartsOf(PartsNow)
  BY DEF ViewInv, BooksAreRight
<1> QED
  BY <1>1, NowIs DEF IsRenderer

\* The books stay right when what they are about is left alone.
LEMMA BooksStay ==
    ASSUME NEW b, NEW what, NEW at, BooksAreRight(b, what, at), NEW c, ArePartsOf(c),
           c.bench = b.bench, c.comp = b.comp, NEW more, what \subseteq more,
           c.renderer.sorter.mode = b.renderer.sorter.mode \/ ~b.bench.active
             \/ "mode" \in more
    PROVE  BooksAreRight(c, more, at)
BY DEF BooksAreRight, Compared, InItsMode

\* The viewport as it is created.
LEMMA NewViewportIs ==
    /\ NewViewport \in Viewports /\ DefaultDisplay \in Displays
    /\ \A v \in Viewports, view \in Views :
          /\ WithView(v, view) \in Viewports
          /\ WithView(v, view).selection = v.selection
          /\ WithView(v, view).display = v.display
<1>1. DefaultDisplay \in Displays
  BY DEF DefaultDisplay, Displays
<1>2. ResetController("Perspective") \in Controllers
  BY ResetIs DEF Views
<1>3. <<1, 1>> \in (Nat \ {0}) \X (Nat \ {0})
  OBVIOUS
<1>4. NewViewport \in Viewports
  BY <1>1, <1>2, <1>3 DEF NewViewport, Viewports, Views, Modes
<1>5. ASSUME NEW v \in Viewports, NEW view \in Views
      PROVE  /\ WithView(v, view) \in Viewports
             /\ WithView(v, view).selection = v.selection
             /\ WithView(v, view).display = v.display
  BY ResetIs DEF WithView, Viewports
<1> QED
  BY <1>1, <1>4, <1>5

\* A camera as it is created.
LEMMA NewCameraIs ==
    ASSUME NEW t \in Transforms
    PROVE  NewCamera(t) \in CameraRecords
<1>1. DefaultDistance \in Int
  BY ViewportCameraAssumption
<1> QED
  BY <1>1 DEF NewCamera, CameraRecords, Kinds

\* The cameras at the start.
LEMMA InitialCamerasAre == AreCameras(InitialCameras)
<1> DEFINE origin == LookAt(<<0, 0, 0>>, <<0, 0, -1>>, <<0, 1, 0>>)
           start(id) == IF id = Local THEN origin ELSE HomeOf[id]
           made == [id \in SceneCameras \cup {Local} |-> NewCamera(start(id))]
<1>1. origin \in Transforms
  BY DEF LookAt, Transforms, Vectors
<1>2. \A id \in SceneCameras \cup {Local} : start(id) \in Transforms
  BY <1>1, ViewportCameraAssumption
<1> HIDE DEF start
<1>3. \A id \in SceneCameras \cup {Local} : NewCamera(start(id)) \in CameraRecords
  BY <1>2, NewCameraIs
<1>4. AreCameras(made)
  BY <1>3 DEF AreCameras
<1>5. InitialCameras = SyncLocalCamera(made, NewViewport)
  BY DEF InitialCameras, start
<1> QED
  BY <1>4, <1>5, LocalIsSynced, NewViewportIs

\* The invariant of the view holds at the start.
LEMMA ViewBegins == RendererInit => ViewInv
<1> SUFFICES ASSUME RendererInit PROVE ViewInv
  OBVIOUS
<1>1. bench \in Benches /\ ~bench.active
  BY NoResultIs DEF RendererInit, IdleBenchmark, Benches
<1>2. comp \in Comparisons /\ ~comp.active
  BY DEF RendererInit, IdleComparison, Comparisons, SorterModes
<1>3. IsRenderer(renderer)
  BY FrameRendererAssumption DEF RendererInit, IsRenderer, Sorters, SorterModes
<1>4. AreCameras(cameras)
  BY InitialCamerasAre DEF RendererInit
<1>5. BooksAreRight(PartsNow, touched, home)
  BY <1>1, <1>2, <1>3, <1>4, NowIs DEF BooksAreRight
<1>6. panel \in [iterations : Int, bins : Nat \ {0}]
  BY FrameRendererAssumption DEF RendererInit
<1> QED
  BY <1>5, <1>6, NewViewportIs, FrameRendererAssumption DEF RendererInit, ViewInv

\* Who does something is counted, up to the bound.
LEMMA EventsAre ==
    ASSUME events \in 0 .. MaxEvents
    PROVE  /\ Does => events' \in 0 .. MaxEvents /\ events' # events
           /\ events' = events => events' \in 0 .. MaxEvents
BY FrameRendererAssumption DEF Does

\* Books of the next state, for the steps that leave the benchmark alone.
LEMMA BooksNext ==
    ASSUME ViewInv, bench' = bench, comp' = comp, AreCameras(cameras'), IsRenderer(renderer'),
           home' = home, touched \subseteq touched',
           renderer'.sorter.mode = renderer.sorter.mode \/ ~bench.active \/ "mode" \in touched'
    PROVE  BooksAreRight(PartsNow, touched, home)'
<1>1. BooksAreRight(PartsNow, touched, home) /\ ArePartsOf(PartsNow)
  BY DEF ViewInv, BooksAreRight
<1>2. /\ PartsNow'.bench = PartsNow.bench /\ PartsNow'.comp = PartsNow.comp
      /\ PartsNow'.renderer = renderer' /\ PartsNow'.cameras = cameras'
      /\ PartsNow.renderer = renderer /\ PartsNow.bench = bench /\ PartsNow.comp = comp
      /\ ArePartsOf(PartsNow)' <=>
            /\ bench' \in Benches /\ comp' \in Comparisons /\ AreCameras(cameras')
            /\ IsRenderer(renderer')
  BY NowIs DEF PartsNow, ArePartsOf
<1>3. bench \in Benches /\ comp \in Comparisons
  BY <1>1, NowIs
<1>4. ArePartsOf(PartsNow')
  BY <1>2, <1>3
<1> QED
  BY <1>1, <1>2, <1>4, BooksStay

\* Update keeps the invariant of the view.
LEMMA UpdateKeepsView ==
    ASSUME ViewInv, Update
    PROVE  ViewInv'
<1>1. PICK mouse \in {"released", "inside"}, input \in Inputs \cup {NoInput} :
        UpdateEditorCamera(mouse, input)
  BY DEF Update
<1> DEFINE captured == CaptureMouse(viewport, cameras, mouse)
           v == [viewport EXCEPT !.captured = captured]
           updated == Controlled(v, input)
<1>2. captured \in BOOLEAN
  BY DEF CaptureMouse
<1>3. viewport' = updated /\ cameras' = SyncLocalCamera(cameras, updated)
  BY <1>1 DEF UpdateEditorCamera
<1> HIDE DEF captured
<1>4. v \in Viewports
  BY <1>2 DEF ViewInv, Viewports
<1> HIDE DEF v
<1>5. updated \in Viewports
  BY <1>4, ControlledIs
<1> HIDE DEF updated
<1>6. AreCameras(cameras')
  BY <1>3, <1>5, LocalIsSynced, TypesNow
<1>7. renderer' = renderer /\ bench' = bench /\ comp' = comp /\ home' = home /\ panel' = panel
  BY DEF Update, benchmark
<1>8. touched \subseteq touched' /\ part' = "viewport"
  BY DEF Update, Touch
<1>9. events' \in 0 .. MaxEvents
  BY EventsAre DEF Update, ViewInv
<1>10. IsRenderer(renderer') /\ renderer'.sorter.mode = renderer.sorter.mode
  BY <1>7, TypesNow
<1>11. BooksAreRight(PartsNow, touched, home)'
  BY <1>6, <1>7, <1>8, <1>10, BooksNext
<1> QED
  BY <1>3, <1>5, <1>7, <1>8, <1>9, <1>11 DEF ViewInv

\* What the frame is drawn from, in a viewport v.
PartsIn(v) ==
    [bench |-> bench, comp |-> comp, cameras |-> UpdateActiveProjection(v, cameras),
     device |-> [device EXCEPT !.draws = <<>>], renderer |-> renderer]

\* The parts as the viewport panel finds them.
LEMMA PartsInAre ==
    ASSUME ViewInv, NEW v \in Viewports
    PROVE  LET g == PartsIn(v)
           IN  /\ BooksAreRight(g, touched, home)
               /\ g.bench = bench /\ g.comp = comp /\ g.renderer = renderer
               /\ g.device = [device EXCEPT !.draws = <<>>]
               /\ g.cameras = UpdateActiveProjection(v, cameras)
               /\ AreCameras(g.cameras) /\ DOMAIN g.cameras = DOMAIN cameras
               /\ IsProjected(g.cameras[Selected(v, g.cameras)], v)
<1> DEFINE g == PartsIn(v)
           cams == UpdateActiveProjection(v, cameras)
<1>1. /\ bench \in Benches /\ comp \in Comparisons /\ AreCameras(cameras)
      /\ IsRenderer(renderer) /\ ArePartsOf(PartsNow)
  BY TypesNow
<1>2. /\ AreCameras(cams) /\ DOMAIN cams = DOMAIN cameras
      /\ IsProjected(cams[Selected(v, cams)], v)
  BY <1>1, ProjectionUpdates
<1> HIDE DEF cams
<1>3. /\ ArePartsOf(g) /\ g.bench = bench /\ g.comp = comp /\ g.renderer = renderer
      /\ g.device = [device EXCEPT !.draws = <<>>] /\ g.cameras = cams
  BY <1>1, <1>2 DEF PartsIn, ArePartsOf, cams
<1> HIDE DEF g
<1>4. BooksAreRight(g, touched, home)
  BY <1>3, NowIs, BooksStay DEF ViewInv
<1> QED
  BY <1>2, <1>3, <1>4 DEF g, cams

\* What is presented is what the next state has.
LEMMA Presented ==
    ASSUME NEW h, Present(h), NEW what, NEW at, BooksAreRight(h, what, at)
    PROVE  BooksAreRight(PartsNow', what, at)
<1>1. /\ bench' = h.bench /\ comp' = h.comp /\ cameras' = h.cameras /\ renderer' = h.renderer
  BY DEF Present
<1>2. ArePartsOf(h)
  BY DEF BooksAreRight
<1>3. /\ PartsNow'.bench = h.bench /\ PartsNow'.comp = h.comp
      /\ PartsNow'.renderer = h.renderer /\ ArePartsOf(PartsNow')
  BY <1>1, <1>2 DEF PartsNow, ArePartsOf
<1> QED
  BY <1>3, BooksStay

\* The frame, or an iteration of the benchmark.
LEMMA PanelDraws ==
    ASSUME ViewInv, NEW size \in Resolutions, ViewportPanel(size)
    PROVE  LET v == viewport'
               g == PartsIn(v)
               h == NextFrame(g, world, v)
           IN  /\ v \in Viewports /\ Present(h) /\ BooksAreRight(h, touched, home)
               /\ v = [viewport EXCEPT !.resolution = size]
               /\ DOMAIN h.cameras = DOMAIN cameras
               /\ ~bench.active => Redraws(g, h)
<1> DEFINE v == [viewport EXCEPT !.resolution = size]
           g == PartsIn(v)
           h == NextFrame(g, world, v)
<1>1. viewport' = v /\ Present(h)
  BY DEF ViewportPanel, PartsIn
<1>2. v \in Viewports
  BY ViewportCameraAssumption DEF ViewInv, Viewports
<1> HIDE DEF v
<1>3. /\ BooksAreRight(g, touched, home) /\ g.bench = bench
      /\ DOMAIN g.cameras = DOMAIN cameras
  BY <1>2, PartsInAre
<1> HIDE DEF g
<1>4. CASE bench.active
  <2>1. h = UpdatedBenchmark(g, world, v)
    BY <1>3, <1>4 DEF NextFrame
  <2>2. BooksAreRight(h, touched, home) /\ DOMAIN h.cameras = DOMAIN g.cameras
    BY <1>2, <1>3, <1>4, <2>1, BenchmarkGoesOn
  <2> QED
    BY <1>1, <1>2, <1>3, <1>4, <2>2 DEF g, v
<1>5. CASE ~bench.active
  <2> DEFINE camera == g.cameras[Selected(v, g.cameras)]
  <2>1. h = Rendered(g, world, v, camera)
    BY <1>3, <1>5 DEF NextFrame
  <2>2. ArePartsOf(g)
    BY <1>3 DEF BooksAreRight
  <2> HIDE DEF camera
  <2>20. Redraws(g, Rendered(g, world, v, camera))
    BY <1>2, <2>2, FrameRenders
  <2> HIDE DEF h
  <2>3. Redraws(g, h)
    BY <2>1, <2>20
  <2>4. /\ ArePartsOf(h) /\ h.bench = g.bench /\ h.comp = g.comp /\ h.cameras = g.cameras
        /\ h.renderer.sorter = g.renderer.sorter
    BY <2>2, <2>3, RedrawnParts
  <2>5. BooksAreRight(h, touched, home)
    BY <1>3, <2>4, BooksStay
  <2> QED
    BY <1>1, <1>2, <1>3, <1>5, <2>3, <2>4, <2>5 DEF g, h, v
<1> QED
  BY <1>4, <1>5

\* A frame keeps the invariant of the view, also the last one of a benchmark.
LEMMA PanelKeepsView ==
    ASSUME ViewInv, NEW size \in Resolutions, ViewportPanel(size)
    PROVE  ViewInv'
<1> DEFINE h == NextFrame(PartsIn(viewport'), world, viewport')
<1>1. viewport' \in Viewports /\ Present(h) /\ BooksAreRight(h, touched, home)
  BY PanelDraws
<1> HIDE DEF h
<1>2. BooksAreRight(PartsNow', touched, home)
  BY <1>1, Presented
<1>3. /\ part' = "menu" /\ panel' = panel /\ home' = home /\ touched' = touched
      /\ (events' = events \/ Does)
  BY DEF ViewportPanel
<1>4. events' \in 0 .. MaxEvents
  BY <1>3, EventsAre DEF ViewInv
<1>5. BooksAreRight(PartsNow, touched, home)'
  BY <1>2, <1>3
<1> QED
  BY <1>1, <1>3, <1>4, <1>5 DEF ViewInv

\* A step that leaves the benchmark alone keeps the invariant.
LEMMA ViewNext ==
    ASSUME ViewInv, bench' = bench, comp' = comp, home' = home,
           panel' \in [iterations : Int, bins : Nat \ {0}],
           viewport' \in Viewports, AreCameras(cameras'), IsRenderer(renderer'),
           renderer'.sorter.mode = renderer.sorter.mode \/ ~bench.active \/ "mode" \in touched',
           touched \subseteq touched', events' = events \/ Does,
           part' \in {"update", "viewport", "menu", "tools", "inspector", "quit"}
    PROVE  ViewInv'
<1>1. BooksAreRight(PartsNow, touched, home)'
  BY BooksNext
<1>2. events' \in 0 .. MaxEvents
  BY EventsAre DEF ViewInv
<1> QED
  BY <1>1, <1>2 DEF ViewInv

\* A viewport with another view, selection or display is still one.
LEMMA ViewportsChange ==
    ASSUME NEW v \in Viewports
    PROVE  /\ \A d \in Displays :
                 /\ [v EXCEPT !.display = d] \in Viewports
                 /\ \A id \in SceneCameras \cup {Local} :
                       /\ [v EXCEPT !.selection = id, !.display = d] \in Viewports
                       /\ [v EXCEPT !.selection = id, !.display = d, !.showGrid = FALSE]
                             \in Viewports
           /\ \A shown \in BOOLEAN : [v EXCEPT !.showGrid = shown] \in Viewports
           /\ \A mode \in Modes : [v EXCEPT !.mode = mode] \in Viewports
BY DEF Viewports

\* A setting of the display is set.
LEMMA DisplaysChange ==
    ASSUME NEW d \in Displays, NEW setting \in DOMAIN DefaultDisplay, NEW value \in BOOLEAN
    PROVE  [d EXCEPT ![setting] = value] \in Displays
<1>1. DOMAIN DefaultDisplay = {"wireframe", "cullFace", "cullFrustum", "dynamicLod",
                               "sortMeshes", "debugDepth"}
  BY DEF DefaultDisplay
<1> QED
  BY <1>1 DEF Displays

\* The menu keeps the invariant of the view.
LEMMA MenuKeepsView ==
    ASSUME ViewInv, OverlayMenu
    PROVE  ViewInv'
<1>1. viewport \in Viewports /\ viewport.display \in Displays /\ Local \in SceneCameras \cup {Local}
  BY DEF ViewInv, Viewports
<1>2. AreCameras(cameras) /\ IsRenderer(renderer)
  BY TypesNow
<1>3. /\ renderer' = renderer /\ bench' = bench /\ comp' = comp /\ home' = home /\ panel' = panel
      /\ part' = "tools"
  BY DEF OverlayMenu, rendering, benchmark
<1>4. touched \subseteq touched' /\ (events' = events \/ Does)
  BY DEF OverlayMenu, Clicks, Touch
<1>5. \A d \in Displays : [d EXCEPT !.debugDepth = FALSE] \in Displays
                          /\ [d EXCEPT !.debugDepth = ~@] \in Displays
  BY DEF Displays
<1>6. ASSUME NEW view \in Views, NEW id \in SceneCameras \cup {Local}
      PROVE  /\ [WithView(viewport, view) EXCEPT !.selection = Local,
                                                 !.display.debugDepth = FALSE] \in Viewports
             /\ [WithView(viewport, view) EXCEPT !.display.debugDepth = FALSE] \in Viewports
             /\ [viewport EXCEPT !.selection = id, !.display.debugDepth = FALSE] \in Viewports
  <2> DEFINE w == WithView(viewport, view)
             flat(d) == [d EXCEPT !.debugDepth = FALSE]
  <2>1. w \in Viewports /\ viewport \in Viewports
    BY <1>1, NewViewportIs
  <2> HIDE DEF w
  <2>2. flat(w.display) \in Displays /\ flat(viewport.display) \in Displays
    BY <2>1, <1>5 DEF Viewports
  <2>3. /\ [w EXCEPT !.selection = Local, !.display.debugDepth = FALSE]
             = [w EXCEPT !.selection = Local, !.display = flat(w.display)]
        /\ [w EXCEPT !.display.debugDepth = FALSE] = [w EXCEPT !.display = flat(w.display)]
        /\ [viewport EXCEPT !.selection = id, !.display.debugDepth = FALSE]
             = [viewport EXCEPT !.selection = id, !.display = flat(viewport.display)]
    BY <2>1 DEF Viewports
  <2> HIDE DEF flat
  <2>4. /\ [w EXCEPT !.selection = Local, !.display = flat(w.display)] \in Viewports
        /\ [w EXCEPT !.display = flat(w.display)] \in Viewports
    BY <1>1, <2>1, <2>2, ViewportsChange
  <2>5. [viewport EXCEPT !.selection = id, !.display = flat(viewport.display)] \in Viewports
    BY <1>1, <2>1, <2>2, ViewportsChange
  <2> QED
    BY <2>3, <2>4, <2>5 DEF w
<1>7. viewport' \in Viewports /\ AreCameras(cameras')
  <2>1. CASE UNCHANGED <<viewport, cameras, touched, events>>
    BY <1>1, <1>2, <2>1
  <2>2. ASSUME NEW view \in MenuViews, ChooseLocalCamera(view)
        PROVE  viewport' \in Viewports /\ AreCameras(cameras')
    BY <1>2, <1>6, <2>2, LocalIsSynced, FrameRendererAssumption DEF ChooseLocalCamera
  <2>3. ASSUME NEW id \in SceneCameras, ChooseSceneCamera(id)
        PROVE  viewport' \in Viewports /\ AreCameras(cameras')
    BY <1>2, <1>6, <2>3 DEF ChooseSceneCamera, Views
  <2>4. ASSUME ResetCameras
        PROVE  viewport' \in Viewports /\ AreCameras(cameras')
    <3>1. viewport.view \in Views
      BY <1>1 DEF Viewports
    <3> QED
      BY <1>2, <1>6, <2>4, <3>1, LocalIsSynced DEF ResetCameras
  <2>5. ASSUME ToggleSpotlightDepth
        PROVE  viewport' \in Viewports /\ AreCameras(cameras')
    <3>1. [viewport.display EXCEPT !.debugDepth = ~@] \in Displays
      BY <1>1, <1>5
    <3>2. [viewport EXCEPT !.display.debugDepth = ~@]
            = [viewport EXCEPT !.display = [viewport.display EXCEPT !.debugDepth = ~@]]
      OBVIOUS
    <3> QED
      BY <1>1, <1>2, <2>5, <3>1, <3>2, ViewportsChange DEF ToggleSpotlightDepth
  <2> QED
    BY <2>1, <2>2, <2>3, <2>4, <2>5 DEF OverlayMenu
<1> QED
  BY <1>2, <1>3, <1>4, <1>7, ViewNext DEF ViewInv

\* A comparison starts with the benchmark of its first mode.
LEMMA Comparing ==
    ASSUME NEW b, ArePartsOf(b), ~b.bench.active, ~b.comp.active, NEW v \in Viewports,
           NEW n \in Nat \ {0}, NEW at, at = b.cameras[Selected(v, b.cameras)].transform
    PROVE  /\ BooksAreRight(StartSorting(b, n, v), {}, at)
           /\ BooksAreRight(StartComparing(b, n, v), {}, at)
<1>1. BooksAreRight(StartSorting(b, n, v), {}, at)
  <2> DEFINE s == StartSorting(b, n, v)
  <2>1. /\ ArePartsOf(s) /\ Counted(s.bench) /\ ~s.comp.active /\ s.bench.saved = at
        /\ s.bench.saved \in Transforms
    BY Started
  <2> HIDE DEF s
  <2>2. BooksAreRight(s, {}, at)
    BY <2>1 DEF BooksAreRight
  <2> QED
    BY <2>2 DEF s
<1>2. BooksAreRight(StartComparing(b, n, v), {}, at)
  <2> DEFINE results == [i \in DOMAIN SortModes |-> NoResult]
             c == [active |-> TRUE, index |-> 1, results |-> results,
                   savedMode |-> b.renderer.sorter.mode, iterations |-> n]
             r == SetSortMode(b.renderer, SortModes[1])
             d == [b EXCEPT !.comp = c, !.renderer = r]
             s == StartSorting(d, n, v)
  <2>1. StartComparing(b, n, v) = s
    BY DEF StartComparing
  <2>2. results \in [1 .. 2 -> Results]
    BY NoResultIs, SortModesAre
  <2> HIDE DEF results
  <2>3. /\ c \in Comparisons /\ c.active /\ c.index = 1 /\ c.results = results
        /\ c.iterations = n
    BY <2>2 DEF Comparisons, ArePartsOf, IsRenderer, Sorters
  <2> HIDE DEF c
  <2>4. IsRenderer(r) /\ r.sorter.mode = SortModes[1]
    BY ModeIsSet, SortModesAre DEF ArePartsOf
  <2> HIDE DEF r
  <2>5. /\ ArePartsOf(d) /\ d.comp = c /\ d.renderer = r /\ d.cameras = b.cameras
        /\ ~d.bench.active
    BY <2>3, <2>4 DEF ArePartsOf
  <2> HIDE DEF d
  <2>6. /\ ArePartsOf(s) /\ Counted(s.bench) /\ s.comp = c /\ s.renderer = r /\ s.bench.active
        /\ s.bench.target = n
        /\ s.bench.timesSorted = NoTimes /\ s.bench.timesUnsorted = NoTimes
        /\ s.bench.saved = at /\ s.bench.saved \in Transforms
    BY <2>5, Started
  <2> HIDE DEF s
  <2>7. Compared(s, n)
    BY <2>2, <2>3, <2>6 DEF Compared
  <2>8. AllIn(NoTimes, SortModes[1])
    BY DEF AllIn, NoTimes
  <2>9. 1 .. s.comp.index - 1 = {}
    BY <2>3, <2>6
  <2>10. InItsMode(s)
    BY <2>3, <2>4, <2>6, <2>8, <2>9 DEF InItsMode
  <2>11. BooksAreRight(s, {}, at)
    BY <2>6, <2>7, <2>10 DEF BooksAreRight
  <2> QED
    BY <2>1, <2>11
<1> QED
  BY <1>1, <1>2

\* The sorter takes the panel's bins over and nothing else.
LEMMA SyncedIs ==
    ASSUME NEW r, IsRenderer(r), NEW bins \in Nat \ {0}
    PROVE  LET s == Synced(r, bins)
           IN  /\ IsRenderer(s) /\ s.sorter.mode = r.sorter.mode
               /\ s.shadowMap = r.shadowMap /\ s.shadowCamera = r.shadowCamera
BY DEF Synced, SetDepthBinCount, IsRenderer, Sorters

\* A count that is typed in becomes a size that is not zero.
LEMMA CountIs ==
    ASSUME ViewInv
    PROVE  IterationCount \in Nat \ {0}
<1>1. panel.iterations \in Int /\ CountValues \in Nat \ {0}
  BY FrameRendererAssumption DEF ViewInv
<1>2. panel.iterations % CountValues \in Nat
  BY <1>1
<1> QED
  BY <1>2 DEF IterationCount, AtLeast

\* A benchmark begins with its books in order.
LEMMA StartKeepsBooks ==
    ASSUME ViewInv, StartBenchmark, cameras' = cameras, device' = device
    PROVE  BooksAreRight(PartsNow', {}, home')
<1> DEFINE r == Synced(renderer, panel.bins)
           b == [bench |-> bench, comp |-> comp, cameras |-> cameras, device |-> device,
                 renderer |-> r]
<1>1. /\ bench \in Benches /\ comp \in Comparisons /\ AreCameras(cameras)
      /\ IsRenderer(renderer)
  BY TypesNow
<1>2. IsRenderer(r)
  BY <1>1, SyncedIs DEF ViewInv
<1>3. ~bench.active /\ ~comp.active
  BY NowIs DEF StartBenchmark, ViewInv, BooksAreRight
<1>4. PICK s \in {StartSorting(b, IterationCount, viewport),
                  StartComparing(b, IterationCount, viewport)} :
        bench' = s.bench /\ comp' = s.comp /\ renderer' = s.renderer
  BY DEF StartBenchmark
<1> HIDE DEF r
<1>5. /\ ArePartsOf(b) /\ b.cameras = cameras /\ b.bench = bench /\ b.comp = comp
  BY <1>1, <1>2 DEF ArePartsOf
<1> HIDE DEF b
<1>6. home' = b.cameras[Selected(viewport, b.cameras)].transform
  BY <1>5 DEF StartBenchmark
<1>7. BooksAreRight(s, {}, home')
  BY <1>3, <1>4, <1>5, <1>6, Comparing, CountIs DEF ViewInv
<1>8. ArePartsOf(s)
  BY <1>7 DEF BooksAreRight
<1>9. /\ PartsNow'.bench = s.bench /\ PartsNow'.comp = s.comp
      /\ PartsNow'.renderer = s.renderer /\ ArePartsOf(PartsNow')
  BY <1>1, <1>4, <1>8 DEF PartsNow, ArePartsOf
<1> QED
  BY <1>7, <1>9, BooksStay

\* The Tools panel keeps the invariant of the view.
LEMMA ToolsKeepView ==
    ASSUME ViewInv, ToolsPanel
    PROVE  ViewInv'
<1>1. viewport \in Viewports /\ viewport.display \in Displays /\ viewport.showGrid \in BOOLEAN
  BY DEF ViewInv, Viewports
<1>2. /\ AreCameras(cameras) /\ IsRenderer(renderer)
      /\ panel \in [iterations : Int, bins : Nat \ {0}]
  BY TypesNow DEF ViewInv
<1>3. /\ cameras' = cameras /\ device' = device /\ part' = "inspector"
      /\ (events' = events \/ Does)
  BY DEF ToolsPanel, Clicks
<1>4. ASSUME NEW setting \in DOMAIN DefaultDisplay, ToggleDisplay(setting)
      PROVE  viewport' \in Viewports
  <2> DEFINE d == [viewport.display EXCEPT ![setting] = ~@]
  <2>1. viewport' = [viewport EXCEPT !.display = d]
    BY <1>4 DEF ToggleDisplay
  <2>2. d \in Displays
    BY <1>1, DisplaysChange
  <2> HIDE DEF d
  <2> QED
    BY <1>1, <2>1, <2>2, ViewportsChange
<1>5. CASE UNCHANGED <<benchmark, panel, touched>> /\ renderer' = Synced(renderer, panel.bins)
            /\ \/ UNCHANGED <<viewport, events>>
               \/ Clicks /\ (SetNavigationMode \/ ToggleGrid)
               \/ Clicks /\ \E setting \in DOMAIN DefaultDisplay \ {"debugDepth"} :
                                ToggleDisplay(setting)
  <2>1. IsRenderer(renderer') /\ renderer'.sorter.mode = renderer.sorter.mode
    BY <1>2, <1>5, SyncedIs
  <2>2. viewport' \in Viewports
    <3>1. SetNavigationMode => viewport' \in Viewports
      BY <1>1, ViewportsChange DEF SetNavigationMode
    <3>2. ToggleGrid => viewport' \in Viewports
      BY <1>1, ViewportsChange DEF ToggleGrid
    <3> QED
      BY <1>1, <1>4, <1>5, <3>1, <3>2
  <2>3. bench' = bench /\ comp' = comp /\ home' = home /\ panel' = panel /\ touched' = touched
    BY <1>5 DEF benchmark
  <2> QED
    BY <1>2, <1>3, <2>1, <2>2, <2>3, ViewNext
<1>6. CASE /\ UNCHANGED <<viewport, benchmark, panel>> /\ Touch("mode")
           /\ \E mode \in Range(SortModes) \ {renderer.sorter.mode} :
                  renderer' = Synced(SetSortMode(renderer, mode), panel.bins)
  <2>1. PICK mode \in SorterModes : renderer' = Synced(SetSortMode(renderer, mode), panel.bins)
    BY <1>6, SortModesAre
  <2>2. IsRenderer(SetSortMode(renderer, mode))
    BY <1>2, ModeIsSet
  <2>3. IsRenderer(renderer')
    BY <1>2, <2>1, <2>2, SyncedIs
  <2>4. /\ bench' = bench /\ comp' = comp /\ home' = home /\ panel' = panel
        /\ viewport' = viewport
    BY <1>6 DEF benchmark
  <2>5. touched \subseteq touched' /\ "mode" \in touched'
    BY <1>6 DEF Touch
  <2> QED
    BY <1>1, <1>2, <1>3, <2>3, <2>4, <2>5, ViewNext
<1>7. CASE /\ UNCHANGED <<viewport, benchmark, touched>>
           /\ \/ \E n \in Iterations : panel' = [panel EXCEPT !.iterations = n]
              \/ \E n \in BinCounts : panel' = [panel EXCEPT !.bins = n]
           /\ renderer' = Synced(renderer, panel'.bins)
  <2>1. panel' \in [iterations : Int, bins : Nat \ {0}]
    BY <1>2, <1>7, FrameRendererAssumption
  <2>2. IsRenderer(renderer') /\ renderer'.sorter.mode = renderer.sorter.mode
    BY <1>2, <1>7, <2>1, SyncedIs
  <2>3. bench' = bench /\ comp' = comp /\ home' = home /\ viewport' = viewport
        /\ touched' = touched
    BY <1>7 DEF benchmark
  <2> QED
    BY <1>1, <1>2, <1>3, <2>1, <2>2, <2>3, ViewNext
<1>8. CASE StartBenchmark
  <2>1. BooksAreRight(PartsNow', {}, home')
    BY <1>3, <1>8, StartKeepsBooks
  <2>2. touched' = {} /\ viewport' = viewport /\ panel' = panel
    BY <1>8 DEF StartBenchmark
  <2>3. BooksAreRight(PartsNow, touched, home)'
    BY <2>1, <2>2
  <2>4. events' \in 0 .. MaxEvents
    BY <1>3, EventsAre DEF ViewInv
  <2> QED
    BY <1>1, <1>2, <1>3, <2>2, <2>3, <2>4 DEF ViewInv
<1> QED
  BY <1>5, <1>6, <1>7, <1>8 DEF ToolsPanel

\* The inspector keeps the invariant of the view.
LEMMA InspectorKeepsView ==
    ASSUME ViewInv, Inspector
    PROVE  ViewInv'
<1>1. AreCameras(cameras) /\ IsRenderer(renderer)
  BY TypesNow
<1>2. /\ renderer' = renderer /\ bench' = bench /\ comp' = comp /\ home' = home /\ panel' = panel
      /\ viewport' = viewport /\ part' = "update" /\ (events' = events \/ Does)
  BY DEF Inspector, rendering, benchmark
<1>3. AreCameras(cameras') /\ touched \subseteq touched'
  <2>1. ASSUME NEW id \in SceneCameras, MoveCamera(id)
        PROVE  AreCameras(cameras') /\ touched \subseteq touched'
    <3>1. /\ id \in DOMAIN cameras /\ touched \subseteq touched'
          /\ cameras' = [cameras EXCEPT ![id].transform = Elsewhere]
      BY <2>1 DEF MoveCamera, Touch
    <3> DEFINE c == [cameras[id] EXCEPT !.transform = Elsewhere]
    <3>2. cameras[id] \in CameraRecords
      BY <1>1, <3>1 DEF AreCameras
    <3>3. c \in CameraRecords
      BY <3>2, FrameRendererAssumption DEF CameraRecords
    <3>4. cameras' = [cameras EXCEPT ![id] = c]
      BY <3>1
    <3> HIDE DEF c
    <3> QED
      BY <1>1, <3>1, <3>3, <3>4 DEF AreCameras
  <2> QED
    BY <1>1, <2>1 DEF Inspector
<1> QED
  BY <1>1, <1>2, <1>3, ViewNext DEF ViewInv

\* Emptying the scene keeps the invariant of the view.
LEMMA ResetKeepsView ==
    ASSUME ViewInv, Reset
    PROVE  ViewInv'
<1>1. AreCameras(cameras) /\ IsRenderer(renderer)
  BY TypesNow
<1>2. /\ renderer' = renderer /\ bench' = bench /\ comp' = comp /\ home' = home /\ panel' = panel
      /\ part' = part /\ Does /\ touched \subseteq touched'
  BY DEF Reset, rendering, benchmark, Clicks, Touch
<1> DEFINE w == WithView(viewport, "Perspective")
           only == [id \in {Local} |-> cameras[id]]
<1>3. w \in Viewports
  BY NewViewportIs DEF ViewInv, Views
<1>4. /\ viewport' = [w EXCEPT !.selection = Local, !.display = DefaultDisplay, !.showGrid = FALSE]
      /\ cameras' = SyncLocalCamera(only, viewport')
  BY DEF Reset, ResetViewport
<1> HIDE DEF w
<1>5. viewport' \in Viewports
  BY <1>3, <1>4, NewViewportIs, ViewportsChange
<1>6. AreCameras(only)
  BY <1>1 DEF AreCameras
<1> HIDE DEF only
<1>7. AreCameras(cameras')
  BY <1>4, <1>5, <1>6, LocalIsSynced
<1> QED
  BY <1>1, <1>2, <1>5, <1>7, ViewNext DEF ViewInv

\* The end of the program keeps the invariant of the view.
LEMMA QuitKeepsView ==
    ASSUME ViewInv, Quit
    PROVE  ViewInv'
<1>1. AreCameras(cameras) /\ IsRenderer(renderer)
  BY TypesNow
<1>2. /\ bench' = bench /\ comp' = comp /\ home' = home /\ panel' = panel /\ events' = events
      /\ viewport' = viewport /\ cameras' = cameras /\ touched' = touched /\ part' = "quit"
  BY DEF Quit, benchmark
<1>3. IsRenderer(renderer') /\ renderer'.sorter = renderer.sorter
  BY <1>1 DEF Quit, IsRenderer
<1> QED
  BY <1>1, <1>2, <1>3, ViewNext DEF ViewInv

\* A step of something else keeps the invariant of the view.
LEMMA StutterKeepsView ==
    ASSUME ViewInv, UNCHANGED rendererVars
    PROVE  ViewInv'
BY DEF ViewInv, rendererVars, rendering, benchmark, PartsNow

\* Every step keeps the invariant of the view.
LEMMA ViewKept == ViewInv /\ [RendererNext]_rendererVars => ViewInv'
BY UpdateKeepsView, PanelKeepsView, MenuKeepsView, ToolsKeepView, InspectorKeepsView,
   ResetKeepsView, QuitKeepsView, StutterKeepsView DEF RendererNext, Tick

\* The viewport, its cameras and the benchmark's books are always in order.
THEOREM ViewInvariant == RendererSpec => []ViewInv
BY ViewBegins, ViewKept, PTL DEF RendererSpec

-----------------------------------------------------------------------------
(* Properties of the steps.                                                 *)

\* Without input the viewport's own camera stays where it is, whatever mode of
\* navigation was chosen meanwhile (synchronize_controller_to_navigation_mode).
THEOREM EyeIsStill == RendererSpec => EyeStays
<1> DEFINE Still == part = "update" /\ part' = "viewport" /\ events' = events =>
              cameras'[Local].transform = MakeView(viewport.controller, viewport.lastMode)
<1>1. ViewInv /\ [RendererNext]_rendererVars => [Still]_rendererVars
  <2> SUFFICES ASSUME ViewInv, RendererNext, part = "update", part' = "viewport",
                      events' = events
               PROVE  cameras'[Local].transform
                        = MakeView(viewport.controller, viewport.lastMode)
    BY DEF rendererVars
  <2>1. ~Does
    BY EventsAre DEF ViewInv
  <2>2. UpdateEditorCamera("released", NoInput)
    BY <2>1 DEF RendererNext, Tick, Update, ViewportPanel, OverlayMenu, ToolsPanel, Inspector,
                Reset, Clicks, Quit
  <2> DEFINE captured == CaptureMouse(viewport, cameras, "released")
             v == [viewport EXCEPT !.captured = captured]
             u == Controlled(v, NoInput)
             synced == IF viewport.mode # viewport.lastMode
                       THEN Synchronize(viewport.controller, viewport.mode)
                       ELSE viewport.controller
  <2>3. cameras' = SyncLocalCamera(cameras, u)
    BY <2>2 DEF UpdateEditorCamera
  <2>4. captured \in BOOLEAN
    BY DEF CaptureMouse
  <2>5. viewport \in Viewports /\ viewport.mode \in Modes /\ viewport.lastMode \in Modes
        /\ viewport.controller \in Controllers
    BY DEF ViewInv, Viewports
  <2> HIDE DEF captured
  <2>6. /\ v \in Viewports /\ v.mode = viewport.mode /\ v.lastMode = viewport.lastMode
        /\ v.controller = viewport.controller
    BY <2>4, <2>5 DEF Viewports
  <2> HIDE DEF v
  <2>7. u.mode = viewport.mode /\ u.controller = synced
    BY <2>6 DEF Controlled, NoInput, Viewports
  <2>8. u \in Viewports
    BY <2>6, ControlledIs
  <2> HIDE DEF u
  <2>9. cameras'[Local].transform = MakeView(u.controller, u.mode)
    BY <2>3, <2>8, LocalIsSynced, TypesNow
  <2>10. MakeView(synced, viewport.mode) = MakeView(viewport.controller, viewport.lastMode)
    BY <2>5, EyeIsKept
  <2> QED
    BY <2>7, <2>9, <2>10
<1> QED
  BY <1>1, ViewInvariant, PTL DEF RendererSpec, EyeStays

\* What starts a benchmark leaves the last result where it is.
LEMMA ResultIsKept ==
    ASSUME NEW b, ArePartsOf(b), ~b.bench.active, NEW v \in Viewports, NEW n \in Nat \ {0}
    PROVE  /\ StartSorting(b, n, v).bench.result = b.bench.result
           /\ StartComparing(b, n, v).bench.result = b.bench.result
<1>1. StartSorting(b, n, v).bench.result = b.bench.result
  BY Started
<1>2. StartComparing(b, n, v).bench.result = b.bench.result
  <2> DEFINE c == [active |-> TRUE, index |-> 1, results |-> [i \in DOMAIN SortModes |-> NoResult],
                   savedMode |-> b.renderer.sorter.mode, iterations |-> n]
             r == SetSortMode(b.renderer, SortModes[1])
             d == [b EXCEPT !.comp = c, !.renderer = r]
  <2>1. CASE b.comp.active
    BY <2>1 DEF StartComparing
  <2>2. CASE ~b.comp.active
    <3>1. StartComparing(b, n, v) = StartSorting(d, n, v)
      BY <2>2 DEF StartComparing
    <3>2. c \in Comparisons
      <4>1. [i \in DOMAIN SortModes |-> NoResult] \in [1 .. 2 -> Results]
        BY NoResultIs, SortModesAre
      <4> QED
        BY <4>1 DEF Comparisons, ArePartsOf, IsRenderer, Sorters
    <3> HIDE DEF c
    <3>3. IsRenderer(r)
      BY ModeIsSet, SortModesAre DEF ArePartsOf
    <3> HIDE DEF r
    <3>4. ArePartsOf(d) /\ d.bench = b.bench
      BY <3>2, <3>3 DEF ArePartsOf
    <3> HIDE DEF d
    <3> QED
      BY <3>1, <3>4, Started
  <2> QED
    BY <2>1, <2>2
<1> QED
  BY <1>1, <1>2

\* Only a frame ends a benchmark, or publishes a result.
LEMMA OnlyFramesEnd ==
    ASSUME ViewInv, RendererNext
    PROVE  \/ \E size \in Resolutions : ViewportPanel(size)
           \/ /\ bench'.result = bench.result
              /\ bench.active => bench' = bench /\ comp' = comp
<1>1. ASSUME UNCHANGED benchmark
      PROVE  bench' = bench /\ comp' = comp
  BY <1>1 DEF benchmark
<1>2. ASSUME StartBenchmark
      PROVE  bench'.result = bench.result /\ ~bench.active
  <2> DEFINE r == Synced(renderer, panel.bins)
             b == [bench |-> bench, comp |-> comp, cameras |-> cameras, device |-> device,
                   renderer |-> r]
  <2>1. IsRenderer(r)
    BY TypesNow, SyncedIs DEF ViewInv
  <2>2. \E s \in {StartSorting(b, IterationCount, viewport),
                  StartComparing(b, IterationCount, viewport)} : bench' = s.bench
    BY <1>2 DEF StartBenchmark
  <2> HIDE DEF r
  <2>3. ArePartsOf(b) /\ b.bench = bench
    BY <2>1, TypesNow DEF ArePartsOf
  <2> HIDE DEF b
  <2> QED
    BY <1>2, <2>2, <2>3, ResultIsKept, CountIs DEF StartBenchmark, ViewInv
<1>3. Update \/ OverlayMenu \/ Inspector \/ Reset \/ Quit => UNCHANGED benchmark
  BY DEF Update, OverlayMenu, Inspector, Reset, Quit
<1>4. ToolsPanel => UNCHANGED benchmark \/ StartBenchmark
  BY DEF ToolsPanel
<1> QED
  BY <1>1, <1>2, <1>3, <1>4 DEF RendererNext, Tick

\* What a frame does to a benchmark that is running.
LEMMA FrameMeasures ==
    ASSUME ViewInv, NEW size \in Resolutions, ViewportPanel(size), bench.active
    PROVE  /\ \/ bench'.result = bench.result
              \/ /\ bench'.result.sorted.count = bench'.result.iterations
                 /\ bench'.result.unsorted.count = bench'.result.iterations
           /\ ~bench'.active /\ "view" \notin touched =>
                 cameras'[Selected(viewport', cameras')].transform = home
           /\ comp.active /\ ~comp'.active /\ "mode" \notin touched =>
                 /\ renderer'.sorter.mode = comp.savedMode
                 /\ \A i \in 1 .. 2 : comp'.results[i] = ResultOf(i, comp.iterations)
<1> DEFINE v == viewport'
           g == PartsIn(v)
           h == NextFrame(g, world, v)
<1>1. v \in Viewports /\ Present(h)
  BY PanelDraws
<1> HIDE DEF v
<1>2. BooksAreRight(g, touched, home) /\ g.bench = bench /\ g.comp = comp
  BY <1>1, PartsInAre
<1> HIDE DEF g
<1>3. h = UpdatedBenchmark(g, world, v)
  BY <1>2 DEF NextFrame
<1> HIDE DEF h
<1>4. /\ \/ h.bench.result = g.bench.result
         \/ /\ h.bench.result.sorted.count = h.bench.result.iterations
            /\ h.bench.result.unsorted.count = h.bench.result.iterations
      /\ ~h.bench.active => h.cameras[Selected(v, h.cameras)].transform = g.bench.saved
      /\ (g.comp.active /\ ~h.comp.active /\ "mode" \notin touched) => EndsWell(g, h)
  BY <1>1, <1>2, <1>3, BenchmarkGoesOn
<1>5. "view" \notin touched => g.bench.saved = home
  BY <1>2 DEF BooksAreRight
<1>6. bench' = h.bench /\ comp' = h.comp /\ cameras' = h.cameras /\ renderer' = h.renderer
  BY <1>1 DEF Present
<1> QED
  BY <1>2, <1>4, <1>5, <1>6 DEF EndsWell, v

\* A benchmark leaves the camera it found where it was, unless the view was
\* changed meanwhile; it publishes as many frames with sorting as without; and a
\* comparison shows for each mode its own results and brings the mode back that
\* it found (Renderer::start_sorting_benchmark, update_sorting_benchmark).
THEOREM BenchmarkMeasures == RendererSpec => BenchmarkIsFair
<1> DEFINE Back == (bench.active \/ comp.active) /\ ~bench'.active /\ ~comp'.active
                      /\ "view" \notin touched' =>
                    cameras'[Selected(viewport', cameras')].transform = home
           Fair == bench'.result # bench.result =>
                    {bench'.result.sorted.count, bench'.result.unsorted.count}
                       = {bench'.result.iterations}
           Theirs == (comp.active /\ ~comp'.active /\ "mode" \notin touched) =>
                    /\ renderer'.sorter.mode = comp.savedMode
                    /\ \A i \in DOMAIN SortModes :
                          LET times == [count |-> comp.iterations, modes |-> {SortModes[i]}]
                          IN  comp'.results[i] = [sorted |-> times, unsorted |-> times,
                                                  iterations |-> comp.iterations]
<1>1. ASSUME ViewInv, RendererNext
      PROVE  Back /\ Fair /\ Theirs
  <2>1. comp.active => bench.active
    BY <1>1, NowIs DEF ViewInv, BooksAreRight
  <2>2. CASE ~\E size \in Resolutions : ViewportPanel(size)
    BY <1>1, <2>1, <2>2, OnlyFramesEnd
  <2>3. ASSUME NEW size \in Resolutions, ViewportPanel(size)
        PROVE  Back /\ Fair /\ Theirs
    <3>1. touched' = touched
      BY <2>3 DEF ViewportPanel
    <3>2. CASE bench.active
      <4>1. /\ \/ bench'.result = bench.result
               \/ /\ bench'.result.sorted.count = bench'.result.iterations
                  /\ bench'.result.unsorted.count = bench'.result.iterations
            /\ ~bench'.active /\ "view" \notin touched =>
                  cameras'[Selected(viewport', cameras')].transform = home
            /\ comp.active /\ ~comp'.active /\ "mode" \notin touched =>
                  /\ renderer'.sorter.mode = comp.savedMode
                  /\ \A i \in 1 .. 2 : comp'.results[i] = ResultOf(i, comp.iterations)
        BY <1>1, <2>3, <3>2, FrameMeasures
      <4>2. Back
        BY <2>1, <3>1, <4>1
      <4>3. Fair
        BY <4>1
      <4>4. Theirs
        BY <4>1, SortModesAre DEF ResultOf
      <4> QED
        BY <4>2, <4>3, <4>4
    <3>3. CASE ~bench.active
      <4> DEFINE h == NextFrame(PartsIn(viewport'), world, viewport')
      <4>1. Present(h) /\ Redraws(PartsIn(viewport'), h) /\ viewport' \in Viewports
        BY <1>1, <2>3, <3>3, PanelDraws
      <4> HIDE DEF h
      <4>2. h.bench = bench
        BY <1>1, <4>1, PartsInAre DEF Redraws
      <4>3. bench' = bench
        BY <4>1, <4>2 DEF Present
      <4> QED
        BY <2>1, <3>3, <4>3
    <3> QED
      BY <3>2, <3>3
  <2> QED
    BY <2>2, <2>3
<1>2. ViewInv /\ [RendererNext]_rendererVars => [Back]_rendererVars /\ [Fair /\ Theirs]_rendererVars
  BY <1>1
<1> QED
  BY <1>2, ViewInvariant, PTL DEF RendererSpec, BenchmarkIsFair, CameraComesBack,
     ResultsAreTheirs

-----------------------------------------------------------------------------
(* Lists: what is picked from them, and in which order.                     *)

\* A set of naturals that is not empty has a least member.
LEMMA LeastNatural ==
    ASSUME NEW S, S \subseteq Nat, S # {}
    PROVE  \E m \in S : \A n \in S : m <= n
<1> DEFINE R == OpToRel(<, Nat)
<1>1. IsWellFoundedOn(R, Nat)
  BY NatLessThanWellFounded
<1>2. \A m, n \in Nat : <<m, n>> \in R <=> m < n
  <2> SUFFICES ASSUME NEW m \in Nat, NEW n \in Nat
               PROVE  <<m, n>> \in R <=> m < n
    OBVIOUS
  <2> DEFINE p == <<m, n>>
  <2>1. p \in Nat \X Nat /\ p[1] = m /\ p[2] = n
    OBVIOUS
  <2>2. ASSUME NEW q PROVE q \in R <=> q \in Nat \X Nat /\ q[1] < q[2]
    BY Zenon DEF OpToRel
  <2>3. p \in R <=> p \in Nat \X Nat /\ p[1] < p[2]
    BY <2>2
  <2> HIDE DEF p, R
  <2>4. p \in R <=> m < n
    BY <2>1, <2>3
  <2> QED
    BY <2>4, Zenon DEF p
<1>3. \E m \in S : \A n \in S : m <= n
  <2> HIDE DEF R
  <2>1. PICK m \in S : \A n \in S : ~(<<n, m>> \in R)
    BY <1>1, WFMin
  <2>2. \A n \in S : ~(n < m)
    BY <1>2, <2>1
  <2> QED
    BY <2>2
<1> QED
  BY <1>3

\* What holds at 0 and at the successor of each number below n holds up to n.
LEMMA UpTo ==
    ASSUME NEW n \in Nat, NEW S, 0 \in S, \A k \in 1 .. n : k - 1 \in S => k \in S
    PROVE  0 .. n \subseteq S
<1> SUFFICES ASSUME ~(0 .. n \subseteq S) PROVE FALSE
  OBVIOUS
<1> DEFINE T == (0 .. n) \ S
<1>1. T \subseteq Nat /\ T # {}
  OBVIOUS
<1>2. PICK m \in T : \A k \in T : m <= k
  <2> HIDE DEF T
  <2> QED
    BY <1>1, LeastNatural
<1>3. m \in 1 .. n /\ m - 1 \in 0 .. n /\ ~(m <= m - 1)
  OBVIOUS
<1>4. m - 1 \in S
  BY <1>2, <1>3
<1> QED
  BY <1>3, <1>4

Pairs == Int \X Int

\* The order of pairs is strict, total and transitive.
LEMMA PrecedesIs ==
    /\ \A p \in Pairs : ~Precedes(p, p)
    /\ \A p, q \in Pairs : p = q \/ Precedes(p, q) \/ Precedes(q, p)
    /\ \A p, q, r \in Pairs : Precedes(p, q) /\ Precedes(q, r) => Precedes(p, r)
<1>1. \A p \in Pairs : p[1] \in Int /\ p[2] \in Int
  BY DEF Pairs
<1>2. \A p, q \in Pairs : p[1] = q[1] /\ p[2] = q[2] => p = q
  BY DEF Pairs
<1> QED
  BY <1>1, <1>2 DEF Precedes

\* How many pairs of P are before p.
Before(P, p) == {q \in P : Precedes(q, p)}
Rank(P, p) == Cardinality(Before(P, p))

\* The ranks of finitely many pairs are the numbers below their count, in their order.
LEMMA RanksAre ==
    ASSUME NEW P, P \subseteq Pairs, IsFiniteSet(P)
    PROVE  /\ Cardinality(P) \in Nat
           /\ \A p \in P : Rank(P, p) \in 0 .. Cardinality(P) - 1
           /\ \A p, q \in P : Precedes(p, q) => Rank(P, p) < Rank(P, q)
           /\ \A k \in 0 .. Cardinality(P) - 1 : \E p \in P : Rank(P, p) = k
<1> DEFINE n == Cardinality(P)
<1>1. n \in Nat
  BY FS_CardinalityType
<1>2. ASSUME NEW p \in P
      PROVE  /\ IsFiniteSet(Before(P, p)) /\ Rank(P, p) \in 0 .. n - 1
  <2>1. Before(P, p) \subseteq P \ {p}
    BY PrecedesIs DEF Before
  <2>2. IsFiniteSet(P \ {p}) /\ Cardinality(P \ {p}) = n - 1
    BY FS_RemoveElement
  <2>3. IsFiniteSet(Before(P, p)) /\ Cardinality(Before(P, p)) <= n - 1
    BY <2>1, <2>2, FS_Subset
  <2>4. Cardinality(Before(P, p)) \in Nat
    BY <2>3, FS_CardinalityType
  <2> QED
    BY <1>1, <2>3, <2>4 DEF Rank
<1>3. ASSUME NEW p \in P, NEW q \in P, Precedes(p, q)
      PROVE  Rank(P, p) < Rank(P, q)
  <2>1. Before(P, p) \subseteq Before(P, q)
    BY <1>3, PrecedesIs DEF Before
  <2>2. p \in Before(P, q) /\ p \notin Before(P, p)
    BY <1>3, PrecedesIs DEF Before
  <2>3. /\ IsFiniteSet(Before(P, q))
        /\ Cardinality(Before(P, p)) \in Nat /\ Cardinality(Before(P, q)) \in Nat
    BY <1>2, FS_CardinalityType
  <2>4. /\ Cardinality(Before(P, p)) <= Cardinality(Before(P, q))
        /\ Cardinality(Before(P, p)) # Cardinality(Before(P, q))
    BY <2>1, <2>2, <2>3, FS_Subset
  <2> QED
    BY <2>3, <2>4 DEF Rank
<1>4. \A k \in 0 .. n - 1 : \E p \in P : Rank(P, p) = k
  <2> DEFINE f == [p \in P |-> Rank(P, p)]
  <2>1. f \in [P -> 0 .. n - 1]
    BY <1>2
  <2>2. \A p, q \in P : f[p] = f[q] => p = q
    <3> SUFFICES ASSUME NEW p \in P, NEW q \in P, p # q PROVE f[p] # f[q]
      OBVIOUS
    <3>1. Precedes(p, q) \/ Precedes(q, p)
      BY PrecedesIs
    <3>2. Rank(P, p) < Rank(P, q) \/ Rank(P, q) < Rank(P, p)
      BY <1>3, <3>1
    <3>3. Rank(P, p) \in Nat /\ Rank(P, q) \in Nat
      BY <1>2
    <3> QED
      BY <3>2, <3>3
  <2>3. f \in Injection(P, 0 .. n - 1)
    BY <2>1, <2>2 DEF Injection, IsInjective
  <2>4. IsFiniteSet(0 .. n - 1) /\ Cardinality(0 .. n - 1) = n
    BY <1>1, FS_Interval
  <2> HIDE DEF f
  <2>5. f \in Surjection(P, 0 .. n - 1)
    BY <2>3, <2>4, FS_Injection
  <2>6. \A k \in 0 .. n - 1 : \E p \in P : f[p] = k
    BY <2>5 DEF Surjection
  <2> QED
    BY <2>6 DEF f
<1> QED
  BY <1>1, <1>2, <1>3, <1>4

\* The pairs of a finite set, each once and in order.
LEMMA InOrderIs ==
    ASSUME NEW P, P \subseteq Pairs, IsFiniteSet(P)
    PROVE  LET order == InOrder(P)
           IN  /\ Cardinality(P) \in Nat
               /\ order \in [1 .. Cardinality(P) -> P]
               /\ \A p \in P : \E n \in DOMAIN order : order[n] = p
               /\ \A m, n \in DOMAIN order : m < n <=> Precedes(order[m], order[n])
<1> DEFINE order == InOrder(P)
           N == Cardinality(P)
<1>1. /\ N \in Nat
      /\ \A p \in P : Rank(P, p) \in 0 .. N - 1
      /\ \A p, q \in P : Precedes(p, q) => Rank(P, p) < Rank(P, q)
      /\ \A k \in 0 .. N - 1 : \E p \in P : Rank(P, p) = k
  BY RanksAre
<1>2. order = [n \in 1 .. N |-> CHOOSE p \in P : Rank(P, p) = n - 1]
  BY DEF InOrder, Rank, Before
<1>3. \A n \in 1 .. N : order[n] \in P /\ Rank(P, order[n]) = n - 1
  <2> TAKE n \in 1 .. N
  <2>1. n - 1 \in 0 .. N - 1
    BY <1>1
  <2>2. \E p \in P : Rank(P, p) = n - 1
    BY <1>1, <2>1
  <2>3. order[n] = CHOOSE p \in P : Rank(P, p) = n - 1
    BY <1>2
  <2> QED
    BY <2>2, <2>3
<1>4. order \in [1 .. N -> P] /\ DOMAIN order = 1 .. N
  BY <1>2, <1>3
<1> HIDE DEF order
<1>5. \A p, q \in P : Rank(P, p) = Rank(P, q) => p = q
  <2> SUFFICES ASSUME NEW p \in P, NEW q \in P, p # q PROVE Rank(P, p) # Rank(P, q)
    OBVIOUS
  <2>1. Precedes(p, q) \/ Precedes(q, p)
    BY PrecedesIs
  <2>2. Rank(P, p) < Rank(P, q) \/ Rank(P, q) < Rank(P, p)
    BY <1>1, <2>1
  <2>3. Rank(P, p) \in Nat /\ Rank(P, q) \in Nat
    BY <1>1
  <2> QED
    BY <2>2, <2>3
<1>6. \A p \in P : \E n \in 1 .. N : order[n] = p
  <2> TAKE p \in P
  <2>1. Rank(P, p) + 1 \in 1 .. N /\ (Rank(P, p) + 1) - 1 = Rank(P, p)
    BY <1>1
  <2>2. Rank(P, order[Rank(P, p) + 1]) = Rank(P, p) /\ order[Rank(P, p) + 1] \in P
    BY <1>3, <2>1
  <2> QED
    BY <1>5, <2>1, <2>2
<1>7. ASSUME NEW m \in 1 .. N, NEW n \in 1 .. N
      PROVE  m < n <=> Precedes(order[m], order[n])
  <2>1. /\ order[m] \in P /\ order[n] \in P
        /\ Rank(P, order[m]) = m - 1 /\ Rank(P, order[n]) = n - 1
    BY <1>3
  <2>2. ASSUME Precedes(order[m], order[n]) PROVE m < n
    <3>1. m - 1 < n - 1
      BY <1>1, <2>1, <2>2
    <3> QED
      BY <1>1, <3>1
  <2>3. ASSUME m < n PROVE Precedes(order[m], order[n])
    <3>1. order[m] # order[n] /\ ~Precedes(order[n], order[m])
      <4>1. m - 1 # n - 1 /\ ~(n - 1 < m - 1)
        BY <1>1, <2>3
      <4> QED
        BY <1>1, <2>1, <4>1
    <3> QED
      BY <2>1, <3>1, PrecedesIs
  <2> QED
    BY <2>2, <2>3
<1> QED
  BY <1>1, <1>4, <1>6, <1>7 DEF order

\* e lists the numbers of S, once each and in order.
Enumerates(e, S) ==
    /\ Cardinality(S) \in Nat /\ e \in [1 .. Cardinality(S) -> S]
    /\ \A i \in S : \E n \in 1 .. Cardinality(S) : e[n] = i
    /\ \A m, n \in 1 .. Cardinality(S) : m < n => e[m] < e[n]

\* p has the elements of a list whose numbers e lists.
IsPicked(p, list, S, e) ==
    Enumerates(e, S) /\ p = [n \in 1 .. Cardinality(S) |-> list[e[n]]]

\* Picking elements of a list takes their numbers in order.
LEMMA PickedIs ==
    ASSUME NEW list, NEW S, S \subseteq Int, IsFiniteSet(S)
    PROVE  \E e : IsPicked(Picked(list, S), list, S, e)
<1> DEFINE P == {0} \X S
           N == Cardinality(S)
           order == InOrder(P)
           e == [n \in 1 .. N |-> order[n][2]]
<1>1. P \subseteq Pairs
  <2>1. ASSUME NEW i \in S PROVE <<0, i>> \in Int \X Int
    <3>1. i \in Int
      OBVIOUS
    <3> QED
      BY <3>1
  <2>2. \A q \in P : q[2] \in S /\ q = <<0, q[2]>>
    OBVIOUS
  <2> HIDE DEF P
  <2>3. \A q \in P : q \in Int \X Int
    BY <2>1, <2>2
  <2> QED
    BY <2>3 DEF Pairs
<1>2. IsFiniteSet(P) /\ Cardinality(P) = N /\ N \in Nat
  <2>1. IsFiniteSet({0}) /\ Cardinality({0}) = 1
    BY FS_Singleton
  <2>2. IsFiniteSet({0} \X S) /\ Cardinality({0} \X S) = 1 * Cardinality(S)
    BY <2>1, FS_Product
  <2>3. Cardinality(S) \in Nat
    BY FS_CardinalityType
  <2> QED
    BY <2>2, <2>3
<1>3. \A q \in P : q[1] = 0 /\ q[2] \in S /\ q = <<0, q[2]>>
  OBVIOUS
<1>10. \A i \in S : <<0, i>> \in P /\ <<0, i>>[2] = i
  OBVIOUS
<1> HIDE DEF P
<1>4. /\ order \in [1 .. N -> P]
      /\ \A p \in P : \E n \in 1 .. N : order[n] = p
      /\ \A m, n \in 1 .. N : m < n <=> Precedes(order[m], order[n])
  <2>1. /\ order \in [1 .. Cardinality(P) -> P]
        /\ \A p \in P : \E n \in DOMAIN order : order[n] = p
        /\ \A m, n \in DOMAIN order : m < n <=> Precedes(order[m], order[n])
    BY <1>1, <1>2, InOrderIs
  <2> HIDE DEF order
  <2>2. DOMAIN order = 1 .. N
    BY <1>2, <2>1
  <2> QED
    BY <1>2, <2>1, <2>2
<1> HIDE DEF order
<1>5. e \in [1 .. N -> S]
  BY <1>3, <1>4
<1>6. \A i \in S : \E n \in 1 .. N : e[n] = i
  BY <1>4, <1>10
<1>7. \A m, n \in 1 .. N : m < n => e[m] < e[n]
  <2> SUFFICES ASSUME NEW m \in 1 .. N, NEW n \in 1 .. N, m < n PROVE e[m] < e[n]
    OBVIOUS
  <2>1. Precedes(order[m], order[n]) /\ order[m][1] = 0 /\ order[n][1] = 0
    BY <1>3, <1>4
  <2> QED
    BY <2>1 DEF Precedes
<1>8. Picked(list, S) = [n \in 1 .. N |-> list[e[n]]]
  <2>1. Picked(list, S) = [n \in DOMAIN order |-> list[order[n][2]]]
    BY DEF Picked, order, P
  <2>2. DOMAIN order = 1 .. N
    BY <1>4
  <2> QED
    BY <2>1, <2>2
<1> HIDE DEF e
<1>9. Enumerates(e, S)
  BY <1>2, <1>5, <1>6, <1>7 DEF Enumerates
<1> QED
  BY <1>8, <1>9 DEF IsPicked

\* e lists 1 .. n by the key first, those with the same key as they are.
Sorts(e, n, key) ==
    /\ e \in [1 .. n -> 1 .. n]
    /\ \A i \in 1 .. n : \E m \in 1 .. n : e[m] = i
    /\ \A i, j \in 1 .. n :
          i < j => key[e[i]] < key[e[j]] \/ (key[e[i]] = key[e[j]] /\ e[i] < e[j])

\* p is a list of n elements, sorted by a key.
IsSortedList(p, list, n, key, e) ==
    Sorts(e, n, key) /\ p = [m \in 1 .. n |-> list[e[m]]]

\* Sorting a list lists its numbers by the key and then as they are.
LEMMA SortedByIs ==
    ASSUME NEW list, NEW n \in Nat, DOMAIN list = 1 .. n, NEW key \in [1 .. n -> Int]
    PROVE  \E e : IsSortedList(SortedBy(list, key), list, n, key, e)
<1> DEFINE P == {<<key[i], i>> : i \in 1 .. n}
           f == [i \in 1 .. n |-> <<key[i], i>>]
           order == InOrder(P)
           e == [m \in 1 .. n |-> order[m][2]]
<1>1. P \subseteq Pairs
  BY DEF Pairs
<1>2. IsFiniteSet(P) /\ Cardinality(P) = n
  <2>1. f \in Surjection(1 .. n, P) /\ f \in Injection(1 .. n, P)
    <3>1. f \in [1 .. n -> P]
      OBVIOUS
    <3>2. \A p \in P : \E i \in 1 .. n : f[i] = p
      OBVIOUS
    <3>3. \A i, j \in 1 .. n : f[i] = f[j] => i = j
      OBVIOUS
    <3> HIDE DEF f, P
    <3> QED
      BY <3>1, <3>2, <3>3 DEF Surjection, Injection, IsInjective
  <2>2. IsFiniteSet(1 .. n) /\ Cardinality(1 .. n) = n
    BY FS_Interval
  <2> HIDE DEF f, P
  <2> QED
    BY <2>1, <2>2, FS_Surjection
<1>3. \A q \in P : q[2] \in 1 .. n /\ q[1] = key[q[2]]
  OBVIOUS
<1>11. \A i \in 1 .. n : <<key[i], i>> \in P /\ <<key[i], i>>[2] = i
  OBVIOUS
<1>12. SortedBy(list, key) = [m \in DOMAIN order |-> list[order[m][2]]]
  BY DEF SortedBy
<1> HIDE DEF P
<1>4. /\ order \in [1 .. n -> P]
      /\ \A p \in P : \E m \in 1 .. n : order[m] = p
      /\ \A i, j \in 1 .. n : i < j <=> Precedes(order[i], order[j])
  BY <1>1, <1>2, InOrderIs
<1> HIDE DEF order
<1>5. e \in [1 .. n -> 1 .. n]
  BY <1>3, <1>4
<1>6. \A i \in 1 .. n : \E m \in 1 .. n : e[m] = i
  <2> TAKE i \in 1 .. n
  <2> DEFINE p == <<key[i], i>>
  <2>1. p \in P /\ p[2] = i
    BY <1>11
  <2> HIDE DEF p
  <2>2. PICK m \in 1 .. n : order[m] = p
    BY <1>4, <2>1
  <2> QED
    BY <2>1, <2>2
<1>7. \A i, j \in 1 .. n :
        i < j => key[e[i]] < key[e[j]] \/ (key[e[i]] = key[e[j]] /\ e[i] < e[j])
  <2> SUFFICES ASSUME NEW i \in 1 .. n, NEW j \in 1 .. n, i < j
               PROVE  key[e[i]] < key[e[j]] \/ (key[e[i]] = key[e[j]] /\ e[i] < e[j])
    OBVIOUS
  <2>1. /\ Precedes(order[i], order[j])
        /\ order[i][1] = key[e[i]] /\ order[j][1] = key[e[j]]
        /\ order[i][2] = e[i] /\ order[j][2] = e[j]
    BY <1>3, <1>4
  <2> QED
    BY <2>1 DEF Precedes
<1>8. SortedBy(list, key) = [m \in 1 .. n |-> list[e[m]]]
  <2>1. DOMAIN order = 1 .. n
    BY <1>4
  <2> QED
    BY <1>12, <2>1
<1> HIDE DEF e
<1>9. Sorts(e, n, key)
  BY <1>5, <1>6, <1>7 DEF Sorts
<1> QED
  BY <1>8, <1>9 DEF IsSortedList

\* The numbers of an interval are listed one after the other.
LEMMA IntervalEnumerated ==
    ASSUME NEW a \in Nat, NEW n \in Nat, NEW e, Enumerates(e, a + 1 .. a + n)
    PROVE  Cardinality(a + 1 .. a + n) = n /\ \A k \in 1 .. n : e[k] = a + k
<1> DEFINE I == a + 1 .. a + n
<1>1. Cardinality(I) = n
  BY FS_Interval
<1>2. /\ e \in [1 .. n -> I]
      /\ \A i \in I : \E k \in 1 .. n : e[k] = i
      /\ \A k, m \in 1 .. n : k < m => e[k] < e[m]
  BY <1>1 DEF Enumerates
<1>3. \A k \in 1 .. n : e[k] >= a + k
  <2> DEFINE S == {k \in 0 .. n : k = 0 \/ e[k] >= a + k}
  <2>1. 0 \in S
    OBVIOUS
  <2>2. ASSUME NEW k \in 1 .. n, k - 1 \in S PROVE k \in S
    <3>1. CASE k = 1
      BY <1>2, <3>1
    <3>2. CASE k # 1
      <4>1. k - 1 \in 1 .. n /\ k - 1 < k
        BY <3>2
      <4>2. e[k - 1] < e[k] /\ e[k - 1] \in Int /\ e[k] \in Int
        BY <1>2, <4>1
      <4>3. e[k - 1] >= a + (k - 1)
        BY <2>2, <4>1
      <4> QED
        BY <4>2, <4>3
    <3> QED
      BY <3>1, <3>2
  <2>3. 0 .. n \subseteq S
    <3> HIDE DEF S
    <3> QED
      BY <2>1, <2>2, UpTo
  <2> QED
    BY <2>3
<1>4. \A k \in 1 .. n : e[k] <= a + k
  <2> DEFINE S == {k \in 0 .. n : n - k = 0 \/ e[n - k] <= a + (n - k)}
  <2>1. 0 \in S
    <3>1. n # 0 => e[n] \in I
      BY <1>2
    <3> QED
      BY <3>1
  <2>2. ASSUME NEW k \in 1 .. n, k - 1 \in S PROVE k \in S
    <3>1. CASE n - k = 0
      BY <3>1
    <3>2. CASE n - k # 0
      <4>1. n - k \in 1 .. n /\ n - (k - 1) \in 1 .. n /\ n - k < n - (k - 1)
        BY <3>2
      <4>2. e[n - k] < e[n - (k - 1)] /\ e[n - k] \in Int /\ e[n - (k - 1)] \in Int
        BY <1>2, <4>1
      <4>3. e[n - (k - 1)] <= a + (n - (k - 1))
        BY <2>2, <4>1
      <4> QED
        BY <4>2, <4>3
    <3> QED
      BY <3>1, <3>2
  <2>3. 0 .. n \subseteq S
    <3> HIDE DEF S
    <3> QED
      BY <2>1, <2>2, UpTo
  <2>4. ASSUME NEW k \in 1 .. n PROVE e[k] <= a + k
    <3>1. n - k \in 0 .. n /\ n - (n - k) = k
      OBVIOUS
    <3>2. n - k \in S
      BY <2>3, <3>1
    <3> QED
      BY <3>1, <3>2
  <2> QED
    BY <2>4
<1>5. \A k \in 1 .. n : e[k] \in Int
  BY <1>2
<1> QED
  BY <1>1, <1>3, <1>4, <1>5

-----------------------------------------------------------------------------
(* The operations of the device.                                            *)

IsList(s) == s \in Seq(Range(s))

\* A list grows by one element at its end.
LEMMA ListsGrow ==
    ASSUME NEW s, IsList(s), NEW x
    PROVE  LET t == Append(s, x)
           IN  /\ IsList(t) /\ Len(s) \in Nat /\ Len(t) = Len(s) + 1
               /\ DOMAIN s = 1 .. Len(s) /\ DOMAIN t = 1 .. Len(t)
               /\ t[Len(t)] = x /\ \A i \in 1 .. Len(s) : t[i] = s[i]
<1> DEFINE t == Append(s, x)
           E == Range(s) \cup {x}
<1>1. s \in Seq(E)
  <2>1. s \in [1 .. Len(s) -> Range(s)] /\ Len(s) \in Nat
    BY DEF IsList
  <2>2. s \in [1 .. Len(s) -> E]
    BY <2>1
  <2> QED
    BY <2>1, <2>2
<1>2. x \in E
  OBVIOUS
<1> HIDE DEF E
<1>3. /\ t \in Seq(E) /\ Len(s) \in Nat /\ Len(t) = Len(s) + 1
      /\ DOMAIN s = 1 .. Len(s) /\ DOMAIN t = 1 .. Len(t)
      /\ t[Len(t)] = x /\ \A i \in 1 .. Len(s) : t[i] = s[i]
  BY <1>1, <1>2
<1> HIDE DEF t
<1>4. \A i \in DOMAIN t : t[i] \in Range(t)
  BY DEF Range
<1>5. t \in [1 .. Len(t) -> Range(t)]
  BY <1>3, <1>4
<1>6. IsList(t)
  BY <1>3, <1>5 DEF IsList
<1> QED
  BY <1>3, <1>6 DEF t

\* The empty list.
LEMMA EmptyListIs == IsList(<<>>) /\ Len(<<>>) = 0
BY DEF IsList

IsDevice(d) ==
    DOMAIN d = {"meshes", "materials", "shadowMaps", "next", "pass", "binding", "rasterizer",
                "gl", "material", "sampler", "uniform", "draws"}

\* What exists stays as it is.
Stays(d, e) ==
    /\ e.shadowMaps = d.shadowMaps /\ e.next = d.next /\ e.meshes = d.meshes
    /\ e.materials = d.materials

\* A draw as the device makes it.
DrawnAs(d, what, view) ==
    [what |-> what, target |-> d.pass, material |-> d.material, gl |-> d.gl, view |-> view,
     shadow |-> d.uniform,
     sampled |-> IF d.uniform # Nothing /\ HasShadowMap(d, d.sampler)
                 THEN d.shadowMaps[d.sampler] ELSE Nothing]

\* Between passes the rasterizer is what was bound last.
LEMMA RasterizerBinds ==
    ASSUME NEW d, IsDevice(d), NEW state
    PROVE  LET e == BindRasterizerState(d, state)
           IN  /\ IsDevice(e) /\ Stays(d, e) /\ e.pass = d.pass /\ e.binding = d.binding
               /\ e.draws = d.draws /\ e.rasterizer = state
               /\ d.gl = d.rasterizer => e.gl = state
<1>1. CASE d.rasterizer = state
  BY <1>1 DEF BindRasterizerState, Stays
<1>2. CASE d.rasterizer # state
  BY <1>2 DEF BindRasterizerState, Stays, IsDevice
<1> QED
  BY <1>1, <1>2

\* A material that is there is bound, and with it the shadow map as the sampler.
LEMMA MaterialBinds ==
    ASSUME NEW d, IsDevice(d), NEW material, NEW w
    PROVE  LET e == BindMaterial(d, material, w)
           IN  /\ IsDevice(e) /\ Stays(d, e) /\ e.pass = d.pass /\ e.binding = d.binding
               /\ e.draws = d.draws /\ e.rasterizer = d.rasterizer /\ e.gl = d.gl
               /\ material \in w.resident =>
                     /\ e.material = material
                     /\ HasShadowMap(d, d.binding) => e.sampler = d.binding
<1>1. CASE material \notin d.materials \union w.resident
  BY <1>1 DEF BindMaterial, Stays
<1>2. CASE material \in d.materials \union w.resident
  BY <1>2 DEF BindMaterial, Stays, IsDevice
<1> QED
  BY <1>1, <1>2

\* A shadow map that is there is bound.
LEMMA ShadowMapBinds ==
    ASSUME NEW d, IsDevice(d), NEW shadow
    PROVE  LET e == BindShadowMap(d, shadow)
           IN  /\ IsDevice(e) /\ Stays(d, e) /\ e.pass = d.pass
               /\ e.draws = d.draws /\ e.rasterizer = d.rasterizer /\ e.gl = d.gl
               /\ e.binding = IF shadow.enabled /\ HasShadowMap(d, shadow.handle)
                              THEN shadow.handle ELSE 0
BY DEF BindShadowMap, Stays, IsDevice

\* No shadow map is bound afterwards.
LEMMA ShadowMapClears ==
    ASSUME NEW d, IsDevice(d)
    PROVE  LET e == ClearShadowMap(d)
           IN  /\ IsDevice(e) /\ Stays(d, e) /\ e.pass = d.pass /\ e.binding = 0
               /\ e.draws = d.draws /\ e.rasterizer = d.rasterizer /\ e.gl = d.gl
BY DEF ClearShadowMap, Stays, IsDevice

\* The matrix of the shadow is bound if there is one.
LEMMA UniformBinds ==
    ASSUME NEW d, IsDevice(d), NEW shadow
    PROVE  LET e == BindShadowUniforms(d, shadow)
           IN  /\ IsDevice(e) /\ Stays(d, e) /\ e.pass = d.pass /\ e.binding = d.binding
               /\ e.draws = d.draws /\ e.rasterizer = d.rasterizer /\ e.gl = d.gl
               /\ e.material = d.material /\ e.sampler = d.sampler
               /\ shadow.enabled => e.uniform = shadow.from
               /\ ~shadow.enabled => e.uniform = Nothing
BY DEF BindShadowUniforms, Stays, IsDevice

\* A mesh is drawn outside a shadow pass: one draw more, and the maps stay.
LEMMA SceneMeshDraws ==
    ASSUME NEW d, IsDevice(d), d.pass = 0, NEW what, NEW view
    PROVE  LET e == DrawMesh(d, what, view)
           IN  /\ IsDevice(e) /\ Stays(d, e) /\ e.pass = 0 /\ e.binding = d.binding
               /\ e.rasterizer = d.rasterizer /\ e.gl = d.gl
               /\ e.draws = Append(d.draws, DrawnAs(d, what, view))
<1> DEFINE draws == Append(d.draws, DrawnAs(d, what, view))
<1>1. DrawMesh(d, what, view) = [d EXCEPT !.draws = draws]
  BY DEF DrawMesh, DrawnAs
<1> HIDE DEF draws
<1>2. LET e == [d EXCEPT !.draws = draws]
      IN  /\ IsDevice(e) /\ Stays(d, e) /\ e.pass = d.pass /\ e.binding = d.binding
          /\ e.rasterizer = d.rasterizer /\ e.gl = d.gl
          /\ e.draws = draws
  BY DEF Stays, IsDevice
<1> QED
  BY <1>1, <1>2 DEF draws

\* The shadow of a submission is there, or it has none.
IsLit(shadow, maps) ==
    shadow.enabled => shadow.handle \in DOMAIN maps /\ shadow.from # Nothing

\* The draw of a submission, with the rasterizer gl and the shadow maps there are.
DrawOf(s, gl, maps, camera) ==
    [what |-> [mesh |-> s.mesh, section |-> s.section, lod |-> s.lod], target |-> 0,
     material |-> s.material, gl |-> gl, view |-> ViewOf(camera),
     shadow |-> IF s.shadow.enabled THEN s.shadow.from ELSE Nothing,
     sampled |-> IF s.shadow.enabled THEN maps[s.shadow.handle] ELSE Nothing]

\* A submission is drawn with its own material and shadow.
LEMMA SubmissionDraws ==
    ASSUME NEW d, IsDevice(d), d.pass = 0, NEW s, NEW camera, NEW w, s.material \in w.resident,
           IsLit(s.shadow, d.shadowMaps)
    PROVE  LET e == DrawSubmission(d, s, camera, w)
           IN  /\ IsDevice(e) /\ Stays(d, e) /\ e.pass = 0
               /\ e.rasterizer = d.rasterizer /\ e.gl = d.gl
               /\ e.draws = Append(d.draws, DrawOf(s, d.gl, d.shadowMaps, camera))
<1> DEFINE a == BindShadowMap(d, s.shadow)
           b == BindMaterial(a, s.material, w)
           c == BindShadowUniforms(b, s.shadow)
           what == [mesh |-> s.mesh, section |-> s.section, lod |-> s.lod]
           view == ViewOf(camera)
           e == DrawMesh(c, what, view)
<1>0. DrawSubmission(d, s, camera, w) = e
  BY DEF DrawSubmission
<1>1. /\ IsDevice(a) /\ Stays(d, a) /\ a.pass = d.pass
      /\ a.draws = d.draws /\ a.rasterizer = d.rasterizer /\ a.gl = d.gl
      /\ a.binding = IF s.shadow.enabled /\ HasShadowMap(d, s.shadow.handle)
                     THEN s.shadow.handle ELSE 0
  BY ShadowMapBinds
<1> HIDE DEF a
<1>2. /\ IsDevice(b) /\ Stays(a, b) /\ b.pass = a.pass /\ b.binding = a.binding
      /\ b.draws = a.draws /\ b.rasterizer = a.rasterizer /\ b.gl = a.gl
      /\ b.material = s.material
      /\ HasShadowMap(a, a.binding) => b.sampler = a.binding
  BY <1>1, MaterialBinds
<1> HIDE DEF b
<1>3. /\ IsDevice(c) /\ Stays(b, c) /\ c.pass = b.pass /\ c.binding = b.binding
      /\ c.draws = b.draws /\ c.rasterizer = b.rasterizer /\ c.gl = b.gl
      /\ c.material = b.material /\ c.sampler = b.sampler
  BY <1>2, UniformBinds
<1>13. /\ s.shadow.enabled => c.uniform = s.shadow.from
       /\ ~s.shadow.enabled => c.uniform = Nothing
  BY <1>2 DEF BindShadowUniforms, IsDevice
<1> HIDE DEF c
<1>4. /\ IsDevice(e) /\ Stays(c, e) /\ e.pass = 0 /\ e.binding = c.binding
      /\ e.rasterizer = c.rasterizer /\ e.gl = c.gl
      /\ e.draws = Append(c.draws, DrawnAs(c, what, view))
  BY <1>1, <1>2, <1>3, SceneMeshDraws
<1> HIDE DEF e
<1>5. Stays(d, e) /\ Stays(d, c)
  BY <1>1, <1>2, <1>3, <1>4 DEF Stays
<1>6. DrawnAs(c, what, view) = DrawOf(s, d.gl, d.shadowMaps, camera)
  <2>1. c.pass = 0 /\ c.material = s.material /\ c.gl = d.gl /\ c.shadowMaps = d.shadowMaps
    BY <1>1, <1>2, <1>3, <1>5 DEF Stays
  <2>2. CASE s.shadow.enabled
    <3>1. HasShadowMap(d, s.shadow.handle) /\ s.shadow.from # Nothing
      BY <2>2 DEF IsLit, HasShadowMap
    <3>2. HasShadowMap(a, a.binding) /\ a.binding = s.shadow.handle
      BY <1>1, <2>2, <3>1 DEF Stays, HasShadowMap
    <3>3. c.sampler = s.shadow.handle /\ c.uniform = s.shadow.from
      BY <1>2, <1>3, <1>13, <2>2, <3>2
    <3>4. c.uniform # Nothing /\ HasShadowMap(c, c.sampler)
      BY <2>1, <3>1, <3>3 DEF HasShadowMap
    <3> QED
      BY <2>1, <2>2, <3>3, <3>4 DEF DrawnAs, DrawOf
  <2>3. CASE ~s.shadow.enabled
    <3>1. c.uniform = Nothing
      BY <1>13, <2>3
    <3> QED
      BY <2>1, <2>3, <3>1 DEF DrawnAs, DrawOf
  <2> QED
    BY <2>2, <2>3
<1> QED
  BY <1>0, <1>1, <1>2, <1>3, <1>4, <1>5, <1>6

IsQueueRun(h, d, queue, camera, w) ==
    /\ DOMAIN h = 0 .. Len(queue) /\ h[0] = d
    /\ \A k \in 1 .. Len(queue) : h[k] = DrawSubmission(h[k - 1], queue[k], camera, w)
    /\ h[Len(queue)] = ExecuteRenderQueue(d, queue, camera, w)

\* A queue is drawn one submission after the other.
LEMMA QueueRuns ==
    ASSUME NEW d, NEW queue, Len(queue) \in Nat, NEW camera, NEW w
    PROVE  \E h : IsQueueRun(h, d, queue, camera, w)
<1> DEFINE N == Len(queue)
           Step(k, f) == DrawSubmission(f, queue[k], camera, w)
           Good(h, k) == DOMAIN h = 0 .. k /\ h[0] = d /\ \A j \in 1 .. k : h[j] = Step(j, h[j - 1])
           S == {k \in 0 .. N : \E h : Good(h, k)}
           Is(h) == h = [n \in 0 .. N |-> IF n = 0 THEN d ELSE Step(n, h[n - 1])]
           run == CHOOSE h : Is(h)
<1>1. ExecuteRenderQueue(d, queue, camera, w) = run[N]
  BY DEF ExecuteRenderQueue
<1> HIDE DEF Step
<1>2. 0 \in S
  <2> DEFINE h == [j \in 0 .. 0 |-> d]
  <2>1. Good(h, 0)
    OBVIOUS
  <2> HIDE DEF h
  <2> QED
    BY <2>1
<1>3. ASSUME NEW k \in 1 .. N, k - 1 \in S PROVE k \in S
  <2>1. PICK h : Good(h, k - 1)
    BY <1>3
  <2> DEFINE g == [j \in 0 .. k |-> IF j = k THEN Step(k, h[k - 1]) ELSE h[j]]
  <2>2. DOMAIN g = 0 .. k
    OBVIOUS
  <2>3. g[0] = d /\ \A j \in 1 .. k - 1 : g[j] = h[j] /\ g[j - 1] = h[j - 1]
    BY <2>1
  <2>4. g[k] = Step(k, h[k - 1]) /\ g[k - 1] = h[k - 1]
    OBVIOUS
  <2> HIDE DEF g
  <2>5. Good(g, k)
    BY <2>1, <2>2, <2>3, <2>4
  <2> HIDE DEF Good
  <2> QED
    BY <2>5
<1>4. 0 .. N \subseteq S
  <2> HIDE DEF S
  <2> QED
    BY <1>2, <1>3, UpTo
<1>5. PICK f : Good(f, N)
  BY <1>4
<1> DEFINE h == [n \in 0 .. N |-> f[n]]
<1>6. DOMAIN h = 0 .. N /\ h[0] = d /\ \A j \in 1 .. N : h[j] = Step(j, h[j - 1])
  BY <1>5
<1> HIDE DEF h
<1>7. Is(h)
  <2>1. h = [n \in 0 .. N |-> h[n]]
    BY DEF h
  <2> QED
    BY <1>6, <2>1
<1>8. Is(run)
  <2> HIDE DEF Is
  <2> QED
    BY <1>7
<1> HIDE DEF run
<1>9. DOMAIN run = 0 .. N /\ run[0] = d /\ \A k \in 1 .. N : run[k] = Step(k, run[k - 1])
  BY <1>8
<1> QED
  BY <1>1, <1>9 DEF Step, IsQueueRun

IsCastersRun(h, d, listed, light) ==
    /\ DOMAIN h = 0 .. Len(listed) /\ h[0] = d
    /\ \A k \in 1 .. Len(listed) :
            h[k] = DrawMesh(h[k - 1],
                            [mesh |-> listed[k], section |-> 0, lod |-> 1], light)
    /\ h[Len(listed)] = DrawCasters(d, listed, light)

\* So are the casters of a shadow.
LEMMA CastersRun ==
    ASSUME NEW d, NEW listed, Len(listed) \in Nat, NEW light
    PROVE  \E h : IsCastersRun(h, d, listed, light)
<1> DEFINE N == Len(listed)
           Step(k, f) == DrawMesh(f, [mesh |-> listed[k], section |-> 0, lod |-> 1], light)
           Good(h, k) == DOMAIN h = 0 .. k /\ h[0] = d /\ \A j \in 1 .. k : h[j] = Step(j, h[j - 1])
           S == {k \in 0 .. N : \E h : Good(h, k)}
           Is(h) == h = [n \in 0 .. N |-> IF n = 0 THEN d ELSE Step(n, h[n - 1])]
           run == CHOOSE h : Is(h)
<1>1. DrawCasters(d, listed, light) = run[N]
  BY DEF DrawCasters
<1> HIDE DEF Step
<1>2. 0 \in S
  <2> DEFINE h == [j \in 0 .. 0 |-> d]
  <2>1. Good(h, 0)
    OBVIOUS
  <2> HIDE DEF h
  <2> QED
    BY <2>1
<1>3. ASSUME NEW k \in 1 .. N, k - 1 \in S PROVE k \in S
  <2>1. PICK h : Good(h, k - 1)
    BY <1>3
  <2> DEFINE g == [j \in 0 .. k |-> IF j = k THEN Step(k, h[k - 1]) ELSE h[j]]
  <2>2. DOMAIN g = 0 .. k
    OBVIOUS
  <2>3. g[0] = d /\ \A j \in 1 .. k - 1 : g[j] = h[j] /\ g[j - 1] = h[j - 1]
    BY <2>1
  <2>4. g[k] = Step(k, h[k - 1]) /\ g[k - 1] = h[k - 1]
    OBVIOUS
  <2> HIDE DEF g
  <2>5. Good(g, k)
    BY <2>1, <2>2, <2>3, <2>4
  <2> HIDE DEF Good
  <2> QED
    BY <2>5
<1>4. 0 .. N \subseteq S
  <2> HIDE DEF S
  <2> QED
    BY <1>2, <1>3, UpTo
<1>5. PICK f : Good(f, N)
  BY <1>4
<1> DEFINE h == [n \in 0 .. N |-> f[n]]
<1>6. DOMAIN h = 0 .. N /\ h[0] = d /\ \A j \in 1 .. N : h[j] = Step(j, h[j - 1])
  BY <1>5
<1> HIDE DEF h
<1>7. Is(h)
  <2>1. h = [n \in 0 .. N |-> h[n]]
    BY DEF h
  <2> QED
    BY <1>6, <2>1
<1>8. Is(run)
  <2> HIDE DEF Is
  <2> QED
    BY <1>7
<1> HIDE DEF run
<1>9. DOMAIN run = 0 .. N /\ run[0] = d /\ \A k \in 1 .. N : run[k] = Step(k, run[k - 1])
  BY <1>8
<1> QED
  BY <1>1, <1>9 DEF Step, IsCastersRun

\* The draws of a queue come after those there were, and are those of its
\* submissions.
Extends(draws, before, queue, gl, maps, camera) ==
    /\ IsList(draws) /\ Len(draws) = Len(before) + Len(queue)
    /\ \A i \in 1 .. Len(before) : draws[i] = before[i]
    /\ \A k \in 1 .. Len(queue) : draws[Len(before) + k] = DrawOf(queue[k], gl, maps, camera)

\* A queue adds the draws of its submissions in its order.
LEMMA QueueDraws ==
    ASSUME NEW d, IsDevice(d), d.pass = 0, IsList(d.draws), NEW queue, Len(queue) \in Nat,
           NEW camera, NEW w,
           \A k \in 1 .. Len(queue) :
              queue[k].material \in w.resident /\ IsLit(queue[k].shadow, d.shadowMaps)
    PROVE  LET e == ExecuteRenderQueue(d, queue, camera, w)
           IN  /\ IsDevice(e) /\ Stays(d, e) /\ e.pass = 0
               /\ e.rasterizer = d.rasterizer /\ e.gl = d.gl
               /\ Extends(e.draws, d.draws, queue, d.gl, d.shadowMaps, camera)
<1>1. PICK h : /\ DOMAIN h = 0 .. Len(queue) /\ h[0] = d
               /\ \A k \in 1 .. Len(queue) : h[k] = DrawSubmission(h[k - 1], queue[k], camera, w)
               /\ h[Len(queue)] = ExecuteRenderQueue(d, queue, camera, w)
  BY QueueRuns DEF IsQueueRun
<1> DEFINE L == Len(d.draws)
           Drawn(f, k) ==
              /\ IsDevice(f) /\ Stays(d, f) /\ f.pass = 0
              /\ f.rasterizer = d.rasterizer /\ f.gl = d.gl
              /\ IsList(f.draws) /\ Len(f.draws) = L + k
              /\ \A i \in 1 .. L : f.draws[i] = d.draws[i]
              /\ \A i \in 1 .. k : f.draws[L + i] = DrawOf(queue[i], d.gl, d.shadowMaps, camera)
           S == {k \in 0 .. Len(queue) : Drawn(h[k], k)}
<1>2. L \in Nat
  BY ListsGrow
<1>3. 0 \in S
  <2>1. Drawn(d, 0)
    BY <1>2 DEF Stays
  <2> HIDE DEF Drawn
  <2> QED
    BY <1>1, <2>1
<1>4. ASSUME NEW k \in 1 .. Len(queue), k - 1 \in S PROVE k \in S
  <2> DEFINE f == h[k - 1]
             e == h[k]
             draw == DrawOf(queue[k], d.gl, d.shadowMaps, camera)
  <2>1. Drawn(f, k - 1)
    BY <1>4
  <2>2. e = DrawSubmission(f, queue[k], camera, w)
    BY <1>1
  <2>3. queue[k].material \in w.resident /\ IsLit(queue[k].shadow, d.shadowMaps)
    OBVIOUS
  <2>4. f.shadowMaps = d.shadowMaps
    BY <2>1 DEF Stays
  <2> HIDE DEF f, e
  <2>5. /\ IsDevice(e) /\ Stays(f, e) /\ e.pass = 0
        /\ e.rasterizer = f.rasterizer /\ e.gl = f.gl
        /\ e.draws = Append(f.draws, DrawOf(queue[k], f.gl, f.shadowMaps, camera))
    BY <2>1, <2>2, <2>3, <2>4, SubmissionDraws
  <2>6. e.draws = Append(f.draws, draw)
    BY <2>1, <2>4, <2>5
  <2> HIDE DEF draw
  <2>7. /\ IsList(e.draws) /\ Len(f.draws) \in Nat /\ Len(e.draws) = Len(f.draws) + 1
        /\ e.draws[Len(e.draws)] = draw
        /\ \A i \in 1 .. Len(f.draws) : e.draws[i] = f.draws[i]
    BY <2>1, <2>6, ListsGrow
  <2>8. Len(e.draws) = L + k /\ Len(f.draws) = L + (k - 1)
    BY <1>2, <2>1, <2>7
  <2>9. \A i \in 1 .. L : e.draws[i] = d.draws[i]
    <3> TAKE i \in 1 .. L
    <3>1. i \in 1 .. Len(f.draws)
      BY <1>2, <2>8
    <3> QED
      BY <2>1, <2>7, <3>1
  <2>10. \A i \in 1 .. k : e.draws[L + i] = DrawOf(queue[i], d.gl, d.shadowMaps, camera)
    <3> TAKE i \in 1 .. k
    <3>1. CASE i = k
      BY <2>7, <2>8, <3>1 DEF draw
    <3>2. CASE i # k
      <4>1. i \in 1 .. k - 1 /\ L + i \in 1 .. Len(f.draws)
        BY <1>2, <2>8, <3>2
      <4> QED
        BY <2>1, <2>7, <4>1
    <3> QED
      BY <3>1, <3>2
  <2>11. Stays(d, e)
    BY <2>1, <2>5 DEF Stays
  <2>12. Drawn(e, k)
    BY <2>1, <2>5, <2>7, <2>8, <2>9, <2>10, <2>11
  <2> QED
    BY <2>12 DEF e
<1>5. 0 .. Len(queue) \subseteq S
  <2> HIDE DEF S
  <2> QED
    BY <1>3, <1>4, UpTo
<1>6. Drawn(h[Len(queue)], Len(queue))
  <2>1. Len(queue) \in S
    BY <1>5
  <2> QED
    BY <2>1
<1> QED
  BY <1>1, <1>6 DEF Extends

-----------------------------------------------------------------------------
(* The meshes of the scene.                                                 *)

PlacesOf(S) == {k \in DOMAIN MeshOrder : MeshOrder[k] \in S}

\* A function on 1 .. n is a list of length n.
LEMMA ListIs ==
    ASSUME NEW n \in Nat, NEW f, DOMAIN f = 1 .. n, f = [i \in 1 .. n |-> f[i]]
    PROVE  IsList(f) /\ Len(f) = n
<1>1. f \in [1 .. n -> Range(f)]
  BY DEF Range
<1> HIDE DEF Range
<1>2. f \in Seq(Range(f))
  BY <1>1
<1> QED
  BY <1>2 DEF IsList

\* The meshes of the scene are listed, each at finitely many places.
LEMMA OrderIs ==
    /\ Len(MeshOrder) \in Nat /\ DOMAIN MeshOrder = 1 .. Len(MeshOrder)
    /\ \A k \in DOMAIN MeshOrder : MeshOrder[k] \in StaticMeshes
    /\ \A m \in StaticMeshes : \E k \in DOMAIN MeshOrder : MeshOrder[k] = m
    /\ \A S : PlacesOf(S) \subseteq Int /\ IsFiniteSet(PlacesOf(S))
<1>1. /\ Len(MeshOrder) \in Nat /\ DOMAIN MeshOrder = 1 .. Len(MeshOrder)
      /\ \A k \in DOMAIN MeshOrder : MeshOrder[k] \in StaticMeshes
  BY FrameRendererAssumption
<1>2. \A m \in StaticMeshes : \E k \in DOMAIN MeshOrder : MeshOrder[k] = m
  BY DEF StaticMeshes, Range
<1>3. ASSUME NEW S PROVE PlacesOf(S) \subseteq Int /\ IsFiniteSet(PlacesOf(S))
  <2>1. PlacesOf(S) \subseteq 1 .. Len(MeshOrder)
    BY <1>1 DEF PlacesOf
  <2>2. IsFiniteSet(1 .. Len(MeshOrder))
    BY <1>1, FS_Interval
  <2> QED
    BY <1>1, <2>1, <2>2, FS_Subset
<1> QED
  BY <1>1, <1>2, <1>3

\* The meshes of a set, each once, in the order of the scene.
LEMMA InSceneIs ==
    ASSUME NEW S, S \subseteq StaticMeshes
    PROVE  LET list == InScene(S)
           IN  /\ IsList(list) /\ Len(list) \in Nat /\ DOMAIN list = 1 .. Len(list)
               /\ \A n \in 1 .. Len(list) : list[n] \in S
               /\ \A m \in S : \E n \in 1 .. Len(list) : list[n] = m
               /\ \E e : /\ Enumerates(e, PlacesOf(S)) /\ Len(list) = Cardinality(PlacesOf(S))
                         /\ \A n \in 1 .. Len(list) : list[n] = MeshOrder[e[n]]
<1> DEFINE list == InScene(S)
           places == PlacesOf(S)
           N == Cardinality(places)
<1>1. places \subseteq Int /\ IsFiniteSet(places)
  BY OrderIs
<1>2. list = Picked(MeshOrder, places)
  BY DEF InScene, PlacesOf
<1> HIDE DEF places, list
<1>13. PICK e : IsPicked(list, MeshOrder, places, e)
  BY <1>1, <1>2, PickedIs
<1>3. Enumerates(e, places) /\ list = [n \in 1 .. N |-> MeshOrder[e[n]]]
  BY <1>13 DEF IsPicked
<1>4. /\ N \in Nat /\ \A n \in 1 .. N : e[n] \in places
      /\ \A i \in places : \E n \in 1 .. N : e[n] = i
  BY <1>3 DEF Enumerates
<1>5. DOMAIN list = 1 .. N /\ list = [i \in 1 .. N |-> list[i]]
  BY <1>3
<1>6. IsList(list) /\ Len(list) = N
  BY <1>4, <1>5, ListIs
<1>7. \A n \in 1 .. N : list[n] = MeshOrder[e[n]] /\ MeshOrder[e[n]] \in S
  BY <1>3, <1>4 DEF places, PlacesOf
<1>8. \A m \in S : \E n \in 1 .. N : list[n] = m
  <2> TAKE m \in S
  <2>1. PICK k \in DOMAIN MeshOrder : MeshOrder[k] = m
    BY OrderIs
  <2>2. k \in places
    BY <2>1 DEF places, PlacesOf
  <2>3. PICK n \in 1 .. N : e[n] = k
    BY <1>4, <2>2
  <2> QED
    BY <1>7, <2>1, <2>3
<1> QED
  BY <1>3, <1>4, <1>5, <1>6, <1>7, <1>8 DEF list, places

-----------------------------------------------------------------------------
(* The shadow map.                                                          *)

MapOf(light, casters) == [from |-> light, casters |-> casters]

\* What a shadow pass into a map has done to a device so far.
IsCasting(e, d, handle, light, casters) ==
    /\ IsDevice(e) /\ e.next = d.next /\ e.meshes = d.meshes
    /\ e.pass = handle /\ e.binding = 0 /\ e.rasterizer = d.rasterizer
    /\ DOMAIN e.shadowMaps = DOMAIN d.shadowMaps
    /\ e.shadowMaps[handle] = MapOf(light, casters)
    /\ IsList(e.draws)
    /\ \A i \in 1 .. Len(e.draws) : e.draws[i].target = handle

\* In a shadow pass a draw adds its mesh to the casters of the map.
LEMMA CasterDraws ==
    ASSUME NEW e, NEW d, NEW handle, NEW light, NEW casters,
           IsCasting(e, d, handle, light, casters), handle \in DOMAIN d.shadowMaps, handle # 0,
           NEW what, NEW view
    PROVE  IsCasting(DrawMesh(e, what, view), d, handle, light, casters \cup {what.mesh})
<1> DEFINE draw == DrawnAs(e, what, view)
           draws == Append(e.draws, draw)
           drawn == [e EXCEPT !.draws = draws]
           map == MapOf(light, casters \cup {what.mesh})
           maps == [e.shadowMaps EXCEPT ![handle] = map]
           f == [drawn EXCEPT !.shadowMaps = maps]
<1>1. DrawMesh(e, what, view) = [drawn EXCEPT !.shadowMaps[handle].casters = @ \union {what.mesh}]
  BY DEF DrawMesh, DrawnAs, IsCasting
<1>2. e.shadowMaps[handle] = MapOf(light, casters)
  BY DEF IsCasting
<1>3. IsList(draws) /\ \A i \in 1 .. Len(draws) : draws[i].target = handle
  <2>1. draw.target = handle
    BY DEF DrawnAs, IsCasting
  <2> HIDE DEF draw
  <2>2. IsList(e.draws) /\ \A i \in 1 .. Len(e.draws) : e.draws[i].target = handle
    BY DEF IsCasting
  <2>3. /\ IsList(draws) /\ Len(e.draws) \in Nat /\ Len(draws) = Len(e.draws) + 1
        /\ draws[Len(draws)] = draw
        /\ \A i \in 1 .. Len(e.draws) : draws[i] = e.draws[i]
    BY <2>2, ListsGrow
  <2> HIDE DEF draws
  <2> QED
    BY <2>1, <2>2, <2>3
<1> HIDE DEF draws
<1>4. [e.shadowMaps[handle] EXCEPT !.casters = @ \union {what.mesh}] = map
  BY <1>2 DEF MapOf
<1>5. /\ IsDevice(drawn) /\ drawn.next = e.next /\ drawn.meshes = e.meshes /\ drawn.pass = e.pass
      /\ drawn.binding = e.binding /\ drawn.rasterizer = e.rasterizer
      /\ drawn.shadowMaps = e.shadowMaps /\ drawn.draws = draws
  BY DEF IsCasting, IsDevice
<1> HIDE DEF drawn, map
<1>6. DrawMesh(e, what, view) = f
  BY <1>1, <1>4, <1>5
<1>7. DOMAIN maps = DOMAIN e.shadowMaps /\ maps[handle] = map
  BY DEF IsCasting
<1> HIDE DEF maps
<1>8. /\ IsDevice(f) /\ f.next = drawn.next /\ f.meshes = drawn.meshes /\ f.pass = drawn.pass
      /\ f.binding = drawn.binding /\ f.rasterizer = drawn.rasterizer
      /\ f.shadowMaps = maps /\ f.draws = draws
  BY <1>5 DEF IsDevice
<1> HIDE DEF f
<1> QED
  BY <1>3, <1>5, <1>6, <1>7, <1>8 DEF IsCasting, map

\* After the meshes of a set were drawn in a pass, the map has that set as its casters.
LEMMA CastersDraw ==
    ASSUME NEW e, NEW d, NEW handle, NEW light,
           IsCasting(e, d, handle, light, {}), handle \in DOMAIN d.shadowMaps, handle # 0,
           NEW S, S \subseteq StaticMeshes
    PROVE  IsCasting(DrawCasters(e, InScene(S), light), d, handle, light, S)
<1> DEFINE listed == InScene(S)
           N == Len(listed)
           Cast(k) == {listed[i] : i \in 1 .. k}
<1>1. /\ N \in Nat /\ \A n \in 1 .. N : listed[n] \in S
      /\ \A m \in S : \E n \in 1 .. N : listed[n] = m
  BY InSceneIs
<1> HIDE DEF listed
<1>2. PICK h : IsCastersRun(h, e, listed, light)
  BY <1>1, CastersRun
<1>3. /\ DOMAIN h = 0 .. N /\ h[0] = e /\ h[N] = DrawCasters(e, listed, light)
      /\ \A k \in 1 .. N : h[k] = DrawMesh(h[k - 1],
                                          [mesh |-> listed[k], section |-> 0, lod |-> 1], light)
  BY <1>2 DEF IsCastersRun
<1> DEFINE Is(k) == IsCasting(h[k], d, handle, light, Cast(k))
           T == {k \in 0 .. N : Is(k)}
<1>4. 0 \in T
  <2>1. Cast(0) = {}
    OBVIOUS
  <2> HIDE DEF Cast
  <2>2. Is(0)
    BY <1>3, <2>1
  <2> HIDE DEF Is
  <2> QED
    BY <1>1, <2>2
<1>5. ASSUME NEW k \in 1 .. N, k - 1 \in T PROVE k \in T
  <2> DEFINE what == [mesh |-> listed[k], section |-> 0, lod |-> 1]
  <2>1. what.mesh = listed[k]
    OBVIOUS
  <2>2. h[k] = DrawMesh(h[k - 1], what, light)
    BY <1>3
  <2> HIDE DEF what
  <2>3. IsCasting(h[k], d, handle, light, Cast(k - 1) \cup {what.mesh})
    <3> HIDE DEF Cast
    <3>1. IsCasting(h[k - 1], d, handle, light, Cast(k - 1))
      BY <1>5
    <3> QED
      BY <2>2, <3>1, CasterDraws
  <2>4. Cast(k - 1) \cup {what.mesh} = Cast(k)
    BY <1>1, <2>1
  <2> HIDE DEF Cast
  <2>5. Is(k)
    BY <2>3, <2>4
  <2> HIDE DEF Is
  <2> QED
    BY <2>5
<1>6. 0 .. N \subseteq T
  <2> HIDE DEF T
  <2> QED
    BY <1>1, <1>4, <1>5, UpTo
<1>7. IsCasting(h[N], d, handle, light, Cast(N))
  <2> HIDE DEF Cast
  <2>1. N \in T
    BY <1>1, <1>6
  <2> QED
    BY <2>1
<1>8. Cast(N) = S
  BY <1>1
<1> QED
  BY <1>3, <1>7, <1>8 DEF listed

\* Between passes: nothing is open or bound, and the rasterizer is what it is
\* believed to be.
Quiet(d) ==
    /\ IsDevice(d) /\ d.pass = 0 /\ d.binding = 0 /\ d.gl = d.rasterizer /\ IsList(d.draws)

CastersOf(w) == w.visible \intersect w.loaded \intersect w.casts

\* A shadow pass leaves the map with the casters of the scene, seen from the light, and
\* nothing open or bound.
LEMMA ShadowIsDrawn ==
    ASSUME NEW d, Quiet(d), d.draws = <<>>, NEW handle, handle \in DOMAIN d.shadowMaps,
           handle # 0, NEW light, NEW w, w.visible \subseteq StaticMeshes
    PROVE  LET e == ShadowDrawn(d, handle, light, w)
           IN  /\ Quiet(e) /\ e.next = d.next /\ e.meshes = d.meshes
               /\ DOMAIN e.shadowMaps = DOMAIN d.shadowMaps
               /\ e.shadowMaps[handle] = MapOf(light, CastersOf(w))
               /\ \A i \in 1 .. Len(e.draws) : e.draws[i].target = handle
<1> DEFINE map == MapOf(light, {})
           maps == [d.shadowMaps EXCEPT ![handle] = map]
           a == BeginShadowMapPass(d, handle, light)
           b == BindMaterial(a, "shadow", w)
           off == [enabled |-> FALSE]
           c == BindShadowUniforms(b, off)
           f == DrawCasters(c, InScene(CastersOf(w)), light)
           e == EndShadowMapPass(f)
<1>1. ShadowDrawn(d, handle, light, w) = e
  BY DEF ShadowDrawn, CastersOf
<1>2. a = [d EXCEPT !.pass = handle, !.gl = Fill, !.shadowMaps = maps]
  BY DEF BeginShadowMapPass, HasShadowMap, MapOf, Quiet, IsDevice
<1>3. DOMAIN maps = DOMAIN d.shadowMaps /\ maps[handle] = map
  OBVIOUS
<1> HIDE DEF maps, a
<1>4. /\ IsDevice(a) /\ a.next = d.next /\ a.meshes = d.meshes /\ a.pass = handle
      /\ a.binding = 0 /\ a.rasterizer = d.rasterizer /\ a.shadowMaps = maps
      /\ a.draws = <<>>
  BY <1>2 DEF Quiet, IsDevice
<1>5. /\ IsDevice(b) /\ Stays(a, b) /\ b.pass = a.pass /\ b.binding = a.binding
      /\ b.draws = a.draws /\ b.rasterizer = a.rasterizer
  BY <1>4, MaterialBinds
<1> HIDE DEF b, off
<1>6. /\ IsDevice(c) /\ Stays(b, c) /\ c.pass = b.pass /\ c.binding = b.binding
      /\ c.draws = b.draws /\ c.rasterizer = b.rasterizer
  BY <1>5, UniformBinds
<1> HIDE DEF c
<1>7. IsCasting(c, d, handle, light, {})
  <2>1. c.draws = <<>> /\ c.shadowMaps = maps /\ c.next = d.next /\ c.meshes = d.meshes
    BY <1>4, <1>5, <1>6 DEF Stays
  <2> QED
    BY <1>3, <1>4, <1>5, <1>6, <2>1, EmptyListIs DEF IsCasting, map
<1>8. IsCasting(f, d, handle, light, CastersOf(w))
  <2>1. CastersOf(w) \subseteq StaticMeshes
    BY DEF CastersOf
  <2> QED
    BY <1>7, <2>1, CastersDraw
<1> HIDE DEF f
<1>9. e = [f EXCEPT !.pass = 0, !.gl = f.rasterizer]
  BY <1>8 DEF EndShadowMapPass, IsCasting
<1> HIDE DEF e
<1>10. /\ IsDevice(e) /\ e.pass = 0 /\ e.gl = e.rasterizer /\ e.next = f.next
       /\ e.meshes = f.meshes /\ e.binding = f.binding /\ e.shadowMaps = f.shadowMaps
       /\ e.draws = f.draws
  BY <1>8, <1>9 DEF IsCasting, IsDevice
<1> QED
  BY <1>1, <1>8, <1>10 DEF IsCasting, Quiet

\* The shadow map that is there is the renderer's.
HasOne(d, handle) ==
    /\ DOMAIN d.shadowMaps = {handle} \ {0}
    /\ handle \in Nat /\ d.next \in Nat \ {0} /\ handle < d.next

\* Of a device with no shadow map but one handle, the map is there after it was asked for.
LEMMA OneIsReady ==
    ASSUME NEW d, Quiet(d), NEW handle, HasOne(d, handle)
    PROVE  LET e == ReadyDevice(d, handle)
               h == ReadyMap(d, handle)
           IN  /\ Quiet(e) /\ HasOne(e, h) /\ h # 0 /\ h \in DOMAIN e.shadowMaps
               /\ e.draws = d.draws /\ e.meshes = d.meshes
<1>1. CASE handle # 0
  BY <1>1 DEF ReadyDevice, ReadyMap, HasOne
<1>2. CASE handle = 0
  <2> DEFINE a == WithoutShadowMap(d, 0)
             map == [from |-> Nothing, casters |-> {}]
             maps == [h \in DOMAIN a.shadowMaps \union {a.next} |->
                         IF h = a.next THEN map ELSE a.shadowMaps[h]]
             e == [a EXCEPT !.shadowMaps = maps, !.next = @ + 1,
                            !.materials = @ \union {"shadow"}]
  <2>1. a = [d EXCEPT !.materials = @ \ {"shadow"}]
    BY <1>2 DEF WithoutShadowMap, DeleteShadowMap, HasShadowMap, HasOne
  <2>2. ReadyDevice(d, handle) = e /\ ReadyMap(d, handle) = a.next
    BY <1>2 DEF ReadyDevice, ReadyMap, CreateShadowMap
  <2>3. /\ IsDevice(a) /\ a.pass = 0 /\ a.binding = 0 /\ a.gl = a.rasterizer
        /\ a.draws = d.draws /\ a.next = d.next /\ a.shadowMaps = d.shadowMaps
        /\ a.meshes = d.meshes
    BY <2>1 DEF Quiet, IsDevice
  <2> HIDE DEF a, map
  <2>4. DOMAIN maps = {a.next}
    BY <1>2, <2>3 DEF HasOne
  <2> HIDE DEF maps
  <2>5. /\ IsDevice(e) /\ e.pass = 0 /\ e.binding = 0 /\ e.gl = e.rasterizer
        /\ e.draws = d.draws /\ e.next = d.next + 1 /\ e.shadowMaps = maps
        /\ e.meshes = d.meshes
    BY <2>3 DEF IsDevice
  <2> HIDE DEF e
  <2> QED
    BY <2>2, <2>3, <2>4, <2>5 DEF Quiet, HasOne
<1> QED
  BY <1>1, <1>2

-----------------------------------------------------------------------------
(* The scene, the overlays.                                                 *)

\* A mesh that is drawn over what is there.
IsAdded(e, d, mesh) ==
    /\ IsDevice(e) /\ Stays(d, e) /\ e.pass = 0 /\ e.binding = d.binding /\ e.gl = e.rasterizer
    /\ IsList(e.draws) /\ Len(e.draws) = Len(d.draws) + 1 /\ Len(d.draws) \in Nat
    /\ \A i \in 1 .. Len(d.draws) : e.draws[i] = d.draws[i]
    /\ e.draws[Len(d.draws) + 1].what.mesh = mesh

\* An overlay is one draw more.
LEMMA OverlayIsDrawn ==
    ASSUME NEW d, IsDevice(d), d.pass = 0, d.gl = d.rasterizer, IsList(d.draws),
           NEW mesh, NEW material, NEW camera, NEW shadow, NEW w
    PROVE  IsAdded(Overlay(d, mesh, material, camera, shadow, w), d, mesh)
<1> DEFINE a == BindRasterizerState(d, Unculled)
           b == BindMaterial(a, material, w)
           c == BindShadowUniforms(b, shadow)
           what == [mesh |-> mesh, section |-> 0, lod |-> 1]
           view == ViewOf(camera)
           e == DrawMesh(c, what, view)
<1>1. Overlay(d, mesh, material, camera, shadow, w) = e
  BY DEF Overlay
<1>2. /\ IsDevice(a) /\ Stays(d, a) /\ a.pass = d.pass /\ a.binding = d.binding
      /\ a.draws = d.draws /\ a.rasterizer = Unculled /\ a.gl = Unculled
  BY RasterizerBinds
<1> HIDE DEF a
<1>3. /\ IsDevice(b) /\ Stays(a, b) /\ b.pass = a.pass /\ b.binding = a.binding
      /\ b.draws = a.draws /\ b.rasterizer = a.rasterizer /\ b.gl = a.gl
  BY <1>2, MaterialBinds
<1> HIDE DEF b
<1>4. /\ IsDevice(c) /\ Stays(b, c) /\ c.pass = b.pass /\ c.binding = b.binding
      /\ c.draws = b.draws /\ c.rasterizer = b.rasterizer /\ c.gl = b.gl
  BY <1>3, UniformBinds
<1> HIDE DEF c
<1>5. what.mesh = mesh
  OBVIOUS
<1> HIDE DEF what, view
<1>6. /\ IsDevice(e) /\ Stays(c, e) /\ e.pass = 0 /\ e.binding = c.binding
      /\ e.rasterizer = c.rasterizer /\ e.gl = c.gl
      /\ e.draws = Append(c.draws, DrawnAs(c, what, view))
  BY <1>2, <1>3, <1>4, SceneMeshDraws
<1> HIDE DEF e
<1>7. Stays(d, e) /\ e.gl = e.rasterizer
  BY <1>2, <1>3, <1>4, <1>6 DEF Stays
<1> DEFINE draw == DrawnAs(c, what, view)
<1>8. draw.what.mesh = mesh
  BY <1>5 DEF DrawnAs
<1>9. e.draws = Append(d.draws, draw)
  BY <1>2, <1>3, <1>4, <1>6
<1> HIDE DEF draw
<1>10. /\ IsList(e.draws) /\ Len(d.draws) \in Nat /\ Len(e.draws) = Len(d.draws) + 1
       /\ e.draws[Len(e.draws)] = draw
       /\ \A i \in 1 .. Len(d.draws) : e.draws[i] = d.draws[i]
  BY <1>9, ListsGrow
<1> QED
  BY <1>1, <1>2, <1>3, <1>4, <1>6, <1>7, <1>8, <1>10 DEF IsAdded

\* What follows the draws there were: those of a queue, then others of a mesh.
FollowedBy(draws, before, queue, gl, maps, camera, mesh) ==
    /\ IsList(draws) /\ Len(before) \in Nat /\ Len(queue) \in Nat /\ Len(draws) \in Nat
    /\ Len(draws) >= Len(before) + Len(queue)
    /\ \A i \in 1 .. Len(before) : draws[i] = before[i]
    /\ \A k \in 1 .. Len(queue) : draws[Len(before) + k] = DrawOf(queue[k], gl, maps, camera)
    /\ \A i \in 1 .. Len(draws) : i > Len(before) + Len(queue) => draws[i].what.mesh = mesh

\* A queue whose sections can be drawn with the shadow maps there are.
CanBeDrawn(queue, w, maps) ==
    /\ Len(queue) \in Nat
    /\ \A k \in 1 .. Len(queue) :
          queue[k].material \in w.resident /\ IsLit(queue[k].shadow, maps)

\* The draws of the queue follow those before, and then at most the grid's.
LEMMA SceneIsDrawn ==
    ASSUME NEW g, Quiet(g.device), NEW w, NEW camera, NEW display, NEW grid,
           CanBeDrawn(QueueOf(g, w, camera, display), w, g.device.shadowMaps)
    PROVE  LET e == SceneDrawn(g, w, camera, display, grid)
           IN  /\ Quiet(e) /\ Stays(g.device, e)
               /\ FollowedBy(e.draws, g.device.draws, QueueOf(g, w, camera, display),
                             RasterizerOf(display), g.device.shadowMaps, camera, "grid")
<1> DEFINE d == g.device
           q == QueueOf(g, w, camera, display)
           gl == RasterizerOf(display)
           a == BindRasterizerState(d, gl)
           b == ExecuteRenderQueue(a, q, camera, w)
           c == ClearShadowMap(b)
           off == [enabled |-> FALSE]
           e == IF grid THEN Overlay(c, "grid", "grid", camera, off, w) ELSE c
<1>1. SceneDrawn(g, w, camera, display, grid) = e
  BY DEF SceneDrawn
<1> HIDE DEF q, d, gl
<1>2. /\ IsDevice(d) /\ d.pass = 0 /\ d.binding = 0 /\ d.gl = d.rasterizer /\ IsList(d.draws)
      /\ Len(q) \in Nat
      /\ \A k \in 1 .. Len(q) :
            q[k].material \in w.resident /\ IsLit(q[k].shadow, d.shadowMaps)
  BY DEF Quiet, CanBeDrawn, d, q
<1>3. /\ IsDevice(a) /\ Stays(d, a) /\ a.pass = d.pass /\ a.binding = d.binding
      /\ a.draws = d.draws /\ a.rasterizer = gl /\ a.gl = gl
  BY <1>2, RasterizerBinds
<1> HIDE DEF a
<1>4. a.shadowMaps = d.shadowMaps /\ a.pass = 0 /\ IsList(a.draws)
  BY <1>2, <1>3 DEF Stays
<1>5. /\ IsDevice(b) /\ Stays(a, b) /\ b.pass = 0
      /\ b.rasterizer = a.rasterizer /\ b.gl = a.gl
      /\ Extends(b.draws, a.draws, q, a.gl, a.shadowMaps, camera)
  BY <1>2, <1>3, <1>4, QueueDraws
<1> HIDE DEF b
<1>6. /\ IsDevice(c) /\ Stays(b, c) /\ c.pass = b.pass /\ c.binding = 0
      /\ c.draws = b.draws /\ c.rasterizer = b.rasterizer /\ c.gl = b.gl
  BY <1>5, ShadowMapClears
<1> HIDE DEF c
<1>7. /\ Stays(d, c) /\ c.gl = c.rasterizer
      /\ Extends(c.draws, d.draws, q, gl, d.shadowMaps, camera)
  BY <1>3, <1>4, <1>5, <1>6 DEF Stays
<1>8. IsList(c.draws) /\ Len(c.draws) = Len(d.draws) + Len(q) /\ Len(d.draws) \in Nat
  BY <1>2, <1>7, ListsGrow DEF Extends
<1>9. CASE ~grid
  <2>1. e = c
    BY <1>9
  <2> HIDE DEF e
  <2>2. FollowedBy(c.draws, d.draws, q, gl, d.shadowMaps, camera, "grid")
    BY <1>2, <1>7, <1>8 DEF Extends, FollowedBy
  <2> QED
    BY <1>1, <1>5, <1>6, <1>7, <1>8, <2>1, <2>2 DEF Quiet, d, q, gl
<1>10. CASE grid
  <2>1. IsAdded(e, c, "grid")
    <3> HIDE DEF off
    <3>1. e = Overlay(c, "grid", "grid", camera, off, w)
      BY <1>10
    <3>2. IsAdded(Overlay(c, "grid", "grid", camera, off, w), c, "grid")
      BY <1>5, <1>6, <1>7, <1>8, OverlayIsDrawn
    <3> QED
      BY <3>1, <3>2
  <2> HIDE DEF e
  <2>2. /\ IsDevice(e) /\ Stays(c, e) /\ e.pass = 0 /\ e.binding = c.binding
        /\ e.gl = e.rasterizer
        /\ IsList(e.draws) /\ Len(e.draws) = Len(c.draws) + 1
        /\ \A i \in 1 .. Len(c.draws) : e.draws[i] = c.draws[i]
        /\ e.draws[Len(c.draws) + 1].what.mesh = "grid"
    BY <2>1 DEF IsAdded
  <2>3. FollowedBy(e.draws, d.draws, q, gl, d.shadowMaps, camera, "grid")
    <3>1. \A i \in 1 .. Len(d.draws) : e.draws[i] = d.draws[i]
      <4> TAKE i \in 1 .. Len(d.draws)
      <4>1. i \in 1 .. Len(c.draws) /\ c.draws[i] = d.draws[i]
        BY <1>2, <1>7, <1>8 DEF Extends
      <4> QED
        BY <2>2, <4>1
    <3>2. \A k \in 1 .. Len(q) :
             e.draws[Len(d.draws) + k] = DrawOf(q[k], gl, d.shadowMaps, camera)
      <4> TAKE k \in 1 .. Len(q)
      <4>1. Len(d.draws) + k \in 1 .. Len(c.draws)
        BY <1>2, <1>8
      <4>2. c.draws[Len(d.draws) + k] = DrawOf(q[k], gl, d.shadowMaps, camera)
        BY <1>7 DEF Extends
      <4> QED
        BY <2>2, <4>1, <4>2
    <3>3. \A i \in 1 .. Len(e.draws) :
             i > Len(d.draws) + Len(q) => e.draws[i].what.mesh = "grid"
      <4> TAKE i \in 1 .. Len(e.draws)
      <4>1. i > Len(d.draws) + Len(q) => i = Len(c.draws) + 1
        BY <1>2, <1>8, <2>2
      <4> QED
        BY <2>2, <4>1
    <3>4. /\ Len(e.draws) \in Nat /\ Len(e.draws) >= Len(d.draws) + Len(q)
      BY <1>2, <1>8, <2>2
    <3> QED
      BY <1>2, <1>8, <2>2, <3>1, <3>2, <3>3, <3>4 DEF FollowedBy
  <2>4. Stays(d, e)
    BY <1>7, <2>2 DEF Stays
  <2> QED
    BY <1>1, <1>6, <2>2, <2>3, <2>4 DEF Quiet, d, q, gl
<1> QED
  BY <1>9, <1>10

\* A frame with the shadow map as a picture has no draws of the scene.
LEMMA DepthIsDrawn ==
    ASSUME NEW d, Quiet(d), NEW handle, NEW camera, NEW w, NEW maps, NEW gl
    PROVE  LET e == DepthDrawn(d, handle, camera, w)
           IN  /\ Quiet(e) /\ Stays(d, e)
               /\ FollowedBy(e.draws, d.draws, <<>>, gl, maps, camera, "quad")
<1>1. /\ IsDevice(d) /\ d.pass = 0 /\ d.binding = 0 /\ d.gl = d.rasterizer /\ IsList(d.draws)
      /\ Len(d.draws) \in Nat /\ Len(<<>>) = 0
  BY ListsGrow, EmptyListIs DEF Quiet
<1>2. CASE handle = 0
  BY <1>1, <1>2 DEF DepthDrawn, Quiet, Stays, FollowedBy
<1>3. CASE handle # 0
  <2> DEFINE shadow == [enabled |-> TRUE, handle |-> handle, from |-> "identity"]
             a == BindShadowMap(d, shadow)
             b == Overlay(a, "quad", "depth", camera, shadow, w)
             e == ClearShadowMap(b)
  <2>1. DepthDrawn(d, handle, camera, w) = e
    BY <1>3 DEF DepthDrawn
  <2> HIDE DEF shadow
  <2>2. /\ IsDevice(a) /\ Stays(d, a) /\ a.pass = d.pass
        /\ a.draws = d.draws /\ a.rasterizer = d.rasterizer /\ a.gl = d.gl
    BY <1>1, ShadowMapBinds
  <2> HIDE DEF a
  <2>3. IsAdded(b, a, "quad")
    BY <1>1, <2>2, OverlayIsDrawn
  <2> HIDE DEF b
  <2>4. /\ IsDevice(b) /\ Stays(a, b) /\ b.pass = 0 /\ b.gl = b.rasterizer
        /\ IsList(b.draws) /\ Len(b.draws) = Len(d.draws) + 1
        /\ \A i \in 1 .. Len(d.draws) : b.draws[i] = d.draws[i]
        /\ b.draws[Len(d.draws) + 1].what.mesh = "quad"
    BY <2>2, <2>3 DEF IsAdded
  <2>5. /\ IsDevice(e) /\ Stays(b, e) /\ e.pass = b.pass /\ e.binding = 0
        /\ e.draws = b.draws /\ e.rasterizer = b.rasterizer /\ e.gl = b.gl
    BY <2>4, ShadowMapClears
  <2> HIDE DEF e
  <2>6. FollowedBy(e.draws, d.draws, <<>>, gl, maps, camera, "quad")
    <3>1. \A i \in 1 .. Len(e.draws) : i > Len(d.draws) + 0 => i = Len(d.draws) + 1
      BY <1>1, <2>4, <2>5
    <3> QED
      BY <1>1, <2>4, <2>5, <3>1 DEF FollowedBy
  <2>7. Quiet(e) /\ Stays(d, e)
    BY <2>2, <2>4, <2>5 DEF Quiet, Stays
  <2> QED
    BY <2>1, <2>6, <2>7
<1> QED
  BY <1>2, <1>3

-----------------------------------------------------------------------------
(* Depths.                                                                  *)

\* A function with a finite domain has finitely many values.
LEMMA RangeIsFinite ==
    ASSUME NEW D, IsFiniteSet(D), NEW f, DOMAIN f = D, f = [x \in D |-> f[x]]
    PROVE  IsFiniteSet(Range(f)) /\ (D # {} => Range(f) # {})
<1>1. f \in [D -> Range(f)] /\ \A y \in Range(f) : \E x \in D : f[x] = y
  BY DEF Range
<1>2. D # {} => Range(f) # {}
  BY DEF Range
<1> HIDE DEF Range
<1>3. f \in Surjection(D, Range(f))
  BY <1>1 DEF Surjection
<1> QED
  BY <1>2, <1>3, FS_Surjection

\* The least and the greatest of finitely many numbers.
LEMMA ExtremesAre ==
    ASSUME NEW S, S \subseteq Int, IsFiniteSet(S), S # {}
    PROVE  /\ Least(S) \in S /\ \A x \in S : Least(S) <= x
           /\ Greatest(S) \in S /\ \A x \in S : x <= Greatest(S)
<1> DEFINE list == <<>>
           N == Cardinality(S)
<1>1. PICK e : Enumerates(e, S)
  BY PickedIs DEF IsPicked
<1>2. /\ N \in Nat /\ e \in [1 .. N -> S]
      /\ \A i \in S : \E n \in 1 .. N : e[n] = i
      /\ \A m, n \in 1 .. N : m < n => e[m] < e[n]
  BY <1>1 DEF Enumerates
<1>3. 1 \in 1 .. N /\ N \in 1 .. N
  <2>1. PICK n \in 1 .. N : TRUE
    BY <1>2
  <2> QED
    BY <1>2, <2>1
<1>4. \A x \in S : e[1] <= x /\ x <= e[N]
  <2> TAKE x \in S
  <2>1. PICK n \in 1 .. N : e[n] = x
    BY <1>2
  <2>2. (n = 1 \/ 1 < n) /\ (n = N \/ n < N)
    BY <1>2
  <2>3. e[1] \in Int /\ e[n] \in Int /\ e[N] \in Int
    BY <1>2, <1>3
  <2> QED
    BY <1>2, <1>3, <2>1, <2>2, <2>3
<1>5. e[1] \in S /\ e[N] \in S
  BY <1>2, <1>3
<1>6. \E x \in S : \A y \in S : x <= y
  BY <1>4, <1>5
<1>7. \E x \in S : \A y \in S : x >= y
  BY <1>4, <1>5
<1>8. Least(S) \in S /\ \A x \in S : Least(S) <= x
  BY <1>6 DEF Least
<1>9. Greatest(S) \in S /\ \A x \in S : Greatest(S) >= x
  BY <1>7 DEF Greatest
<1>10. \A x \in S : x <= Greatest(S)
  BY <1>9
<1> QED
  BY <1>8, <1>9, <1>10

\* The sections of a mesh that have bounds.
KnownOf(m) == {s \in Range(SectionsOf[m]) : s.bounds.valid}

\* The sections of a mesh are finitely many, those with vertices have boxes.
LEMMA SectionsAre ==
    ASSUME NEW m \in StaticMeshes
    PROVE  /\ Len(SectionsOf[m]) \in Nat /\ DOMAIN SectionsOf[m] = 1 .. Len(SectionsOf[m])
           /\ \A i \in 1 .. Len(SectionsOf[m]) :
                 /\ SectionsOf[m][i].bounds \in Bounds
                 /\ SectionsOf[m][i].material \in SceneMaterials
           /\ IsFiniteSet(KnownOf(m)) /\ \A s \in KnownOf(m) : s.bounds \in Boxes
<1> DEFINE list == SectionsOf[m]
           Kind == [bounds : Bounds, material : SceneMaterials, lods : Seq(Nat)]
<1>1. list \in Seq(Kind)
  BY FrameRendererAssumption
<1> HIDE DEF list, Kind
<1>2. Len(list) \in Nat /\ DOMAIN list = 1 .. Len(list) /\ list \in [1 .. Len(list) -> Kind]
  BY <1>1
<1>3. IsFiniteSet(1 .. Len(list))
  BY <1>2, FS_Interval
<1> USE DEF Kind
<1>4. IsFiniteSet(Range(list)) /\ \A s \in Range(list) : s \in Kind
  <2>1. list = [i \in 1 .. Len(list) |-> list[i]]
    BY <1>2
  <2>2. \A s \in Range(list) : s \in Kind
    BY <1>2 DEF Range
  <2> HIDE DEF Kind
  <2> QED
    BY <1>2, <1>3, <2>1, <2>2, RangeIsFinite
<1>5. KnownOf(m) \subseteq Range(list) /\ \A s \in KnownOf(m) : s.bounds.valid
  BY DEF KnownOf, list
<1>6. \A b \in Bounds : b.valid => b \in Boxes
  BY DEF Bounds
<1>7. \A s \in KnownOf(m) : s.bounds \in Boxes
  BY <1>4, <1>5, <1>6
<1>8. IsFiniteSet(KnownOf(m))
  BY <1>4, <1>5, FS_Subset
<1> QED
  BY <1>2, <1>7, <1>8 DEF list

\* The bounds of a mesh hold those of its sections that have any.
LEMMA BoundsAre ==
    ASSUME NEW m \in StaticMeshes
    PROVE  LET b == BoundsOf[m]
           IN  /\ KnownOf(m) = {} => ~b.valid
               /\ KnownOf(m) # {} =>
                     /\ b.valid = TRUE /\ b.min \in Vectors /\ b.max \in Vectors
                     /\ \A s \in KnownOf(m) : \A i \in 1 .. 3 :
                           b.min[i] <= s.bounds.min[i] /\ s.bounds.max[i] <= b.max[i]
<1> DEFINE K == KnownOf(m)
           low == [i \in 1 .. 3 |-> Least({s.bounds.min[i] : s \in K})]
           high == [i \in 1 .. 3 |-> Greatest({s.bounds.max[i] : s \in K})]
<1>1. BoundsOf[m] = IF K = {} THEN [valid |-> FALSE]
                                ELSE [valid |-> TRUE, min |-> low, max |-> high]
  BY DEF BoundsOf, KnownOf
<1>2. IsFiniteSet(K) /\ \A s \in K : s.bounds \in Boxes
  BY SectionsAre
<1> HIDE DEF K
<1>3. CASE K = {}
  BY <1>1, <1>3 DEF K
<1>4. CASE K # {}
  <2>1. ASSUME NEW i \in 1 .. 3
        PROVE  /\ low[i] \in Int /\ \A s \in K : low[i] <= s.bounds.min[i]
               /\ high[i] \in Int /\ \A s \in K : s.bounds.max[i] <= high[i]
    <3> DEFINE f == [s \in K |-> s.bounds.min[i]]
               g == [s \in K |-> s.bounds.max[i]]
    <3>1. \A s \in K : s.bounds.min[i] \in Int /\ s.bounds.max[i] \in Int
      BY <1>2 DEF Boxes, Vectors
    <3>2. Range(f) = {s.bounds.min[i] : s \in K} /\ Range(g) = {s.bounds.max[i] : s \in K}
      BY DEF Range
    <3>3. Range(f) \subseteq Int /\ Range(g) \subseteq Int
      BY <3>1, <3>2
    <3>4. low[i] = Least(Range(f)) /\ high[i] = Greatest(Range(g))
      BY <3>2
    <3>5. \A s \in K : s.bounds.min[i] \in Range(f) /\ s.bounds.max[i] \in Range(g)
      BY <3>2
    <3>6. /\ DOMAIN f = K /\ f = [s \in K |-> f[s]]
          /\ DOMAIN g = K /\ g = [s \in K |-> g[s]]
      OBVIOUS
    <3> HIDE DEF f, g, low, high
    <3>7. /\ IsFiniteSet(Range(f)) /\ Range(f) # {}
          /\ IsFiniteSet(Range(g)) /\ Range(g) # {}
      BY <1>2, <1>4, <3>6, RangeIsFinite
    <3>8. /\ Least(Range(f)) \in Range(f) /\ \A x \in Range(f) : Least(Range(f)) <= x
          /\ Greatest(Range(g)) \in Range(g) /\ \A x \in Range(g) : x <= Greatest(Range(g))
      BY <3>3, <3>7, ExtremesAre
    <3> QED
      BY <3>3, <3>4, <3>5, <3>8
  <2>2. DOMAIN low = 1 .. 3 /\ DOMAIN high = 1 .. 3
    OBVIOUS
  <2>3. low = [i \in 1 .. 3 |-> low[i]] /\ high = [i \in 1 .. 3 |-> high[i]]
    OBVIOUS
  <2> HIDE DEF low, high
  <2>4. low \in Vectors /\ high \in Vectors
    BY <2>1, <2>3 DEF Vectors
  <2>5. BoundsOf[m] = [valid |-> TRUE, min |-> low, max |-> high]
    BY <1>1, <1>4
  <2> QED
    BY <1>4, <2>1, <2>4, <2>5 DEF K
<1> QED
  BY <1>3, <1>4

\* The centre of a mesh is a point.
LEMMA CenterIs ==
    ASSUME NEW m \in StaticMeshes
    PROVE  Center(BoundsOf[m]) \in Vectors
<1> DEFINE b == BoundsOf[m]
<1>1. CASE KnownOf(m) = {}
  <2>1. ~b.valid
    BY <1>1, BoundsAre
  <2>2. <<0, 0, 0>> \in Vectors
    BY DEF Vectors
  <2> HIDE DEF b
  <2>3. Center(b) = <<0, 0, 0>>
    BY <2>1 DEF Center
  <2> QED
    BY <2>2, <2>3 DEF b
<1>2. CASE KnownOf(m) # {}
  <2>1. b.valid /\ b.min \in Vectors /\ b.max \in Vectors
    BY <1>2, BoundsAre
  <2> HIDE DEF b
  <2>2. \A i \in 1 .. 3 : (b.min[i] + b.max[i]) \div 2 \in Int
    BY <2>1 DEF Vectors
  <2>3. Center(b) = [i \in 1 .. 3 |-> (b.min[i] + b.max[i]) \div 2]
    BY <2>1 DEF Center
  <2>4. Center(b) \in Vectors
    BY <2>2, <2>3 DEF Vectors
  <2> QED
    BY <2>4 DEF b
<1> QED
  BY <1>1, <1>2

\* The depth of a mesh is a number.
LEMMA DepthIs ==
    ASSUME NEW m \in StaticMeshes, NEW camera, camera.transform \in Transforms
    PROVE  EstimateSortDepth(m, camera) \in Int
<1>1. Center(BoundsOf[m]) \in Vectors
  BY CenterIs
<1>2. camera.transform.eye \in Vectors /\ camera.transform.forward \in Vectors
  BY DEF Transforms
<1>3. Minus(Center(BoundsOf[m]), camera.transform.eye) \in Vectors
  BY <1>1, <1>2, VectorsAre
<1> QED
  BY <1>2, <1>3, VectorsAre DEF EstimateSortDepth, DepthOf

-----------------------------------------------------------------------------
(* The render queue.                                                        *)

Worlds ==
    [visible : SUBSET StaticMeshes, loaded : SUBSET StaticMeshes,
     resident : SUBSET SceneMaterials, casts : SUBSET StaticMeshes,
     receives : SUBSET StaticMeshes, enabled : SUBSET Lights, casting : SUBSET Lights,
     at : [Lights -> Int]]

ShadowOf(m, w, r) ==
    [handle |-> r.shadowMap, from |-> r.shadowCamera,
     enabled |-> r.shadowCamera # Nothing /\ m \in w.receives /\ r.shadowMap # 0]

\* What a submission says of its section.
LEMMA SubmissionIs ==
    ASSUME NEW m, NEW i, NEW camera, NEW display, NEW w, NEW r
    PROVE  LET s == Submission(m, i, camera, display, w, r)
           IN  /\ s.mesh = m /\ s.section = i /\ s.material = SectionsOf[m][i].material
               /\ s.depth = EstimateSortDepth(m, camera) /\ s.shadow = ShadowOf(m, w, r)
BY DEF Submission, ShadowOf

\* One submission before another in the order of the scene.
AsInScene(s, t) ==
    \E a, b \in DOMAIN MeshOrder :
        /\ MeshOrder[a] = s.mesh /\ MeshOrder[b] = t.mesh
        /\ a < b \/ (a = b /\ s.section < t.section)

\* s submits a section of a mesh in M.
Submits(s, M, camera, display, w, r) ==
    \E m \in M : \E i \in DrawnSections(m, camera, display) :
        s = Submission(m, i, camera, display, w, r)

\* Each section of the meshes in M that is not culled, once, in the scene's order.
IsBuilt(q, M, camera, display, w, r) ==
    /\ IsList(q) /\ Len(q) \in Nat /\ DOMAIN q = 1 .. Len(q)
    /\ \A n \in 1 .. Len(q) : Submits(q[n], M, camera, display, w, r)
    /\ \A m \in M : \A i \in DrawnSections(m, camera, display) :
          \E n \in 1 .. Len(q) : q[n] = Submission(m, i, camera, display, w, r)
    /\ \A a, b \in 1 .. Len(q) : a < b => AsInScene(q[a], q[b])

\* The sections of a mesh that are drawn are finitely many of its own.
LEMMA DrawnAre ==
    ASSUME NEW m \in StaticMeshes, NEW camera, NEW display
    PROVE  /\ DrawnSections(m, camera, display) \subseteq 1 .. Len(SectionsOf[m])
           /\ IsFiniteSet(DrawnSections(m, camera, display))
           /\ DrawnSections(m, camera, display) \subseteq Int
<1>1. Len(SectionsOf[m]) \in Nat /\ DOMAIN SectionsOf[m] = 1 .. Len(SectionsOf[m])
  BY SectionsAre
<1>2. DrawnSections(m, camera, display) \subseteq 1 .. Len(SectionsOf[m])
  BY <1>1 DEF DrawnSections
<1>3. IsFiniteSet(1 .. Len(SectionsOf[m]))
  BY <1>1, FS_Interval
<1> QED
  BY <1>1, <1>2, <1>3, FS_Subset

\* The queue has the sections that are not culled, once each, in the order of the scene.
LEMMA QueueIsBuilt ==
    ASSUME NEW w \in Worlds, NEW camera, NEW display, NEW r
    PROVE  IsBuilt(BuildRenderQueue(w, camera, display, r), w.visible \cap w.loaded,
                   camera, display, w, r)
<1> DEFINE M == w.visible \cap w.loaded
           listed == InScene(M)
           D(m) == DrawnSections(m, camera, display)
           Part(k) == {k} \X D(listed[k])
           P == UNION {Part(k) : k \in DOMAIN listed}
           order == InOrder(P)
           Sub(m, i) == Submission(m, i, camera, display, w, r)
           q == BuildRenderQueue(w, camera, display, r)
           N == Cardinality(P)
<1>1. q = [n \in DOMAIN order |-> Sub(listed[order[n][1]], order[n][2])]
  BY DEF BuildRenderQueue, VisibleMeshes
<1>2. M \subseteq StaticMeshes
  BY DEF Worlds
<1> HIDE DEF M
<1>3. PICK e : /\ Len(listed) \in Nat /\ DOMAIN listed = 1 .. Len(listed)
               /\ \A k \in 1 .. Len(listed) : listed[k] \in M
               /\ \A m \in M : \E k \in 1 .. Len(listed) : listed[k] = m
               /\ Enumerates(e, PlacesOf(M)) /\ Len(listed) = Cardinality(PlacesOf(M))
               /\ \A k \in 1 .. Len(listed) : listed[k] = MeshOrder[e[k]]
  BY <1>2, InSceneIs
<1>4. \A k \in 1 .. Len(listed) : IsFiniteSet(D(listed[k])) /\ D(listed[k]) \subseteq Int
  BY <1>2, <1>3, DrawnAre
<1>5. \A p : p \in P <=> /\ p \in Int \X Int /\ p[1] \in 1 .. Len(listed)
                         /\ p[2] \in D(listed[p[1]])
  <2> SUFFICES ASSUME NEW p
               PROVE  p \in P <=> /\ p \in Int \X Int /\ p[1] \in 1 .. Len(listed)
                                  /\ p[2] \in D(listed[p[1]])
    OBVIOUS
  <2> HIDE DEF D, listed
  <2>1. ASSUME p \in P
        PROVE  p \in Int \X Int /\ p[1] \in 1 .. Len(listed) /\ p[2] \in D(listed[p[1]])
    <3>1. PICK k \in 1 .. Len(listed) : p \in {k} \X D(listed[k])
      BY <1>3, <2>1
    <3>2. p[1] = k /\ p[2] \in D(listed[k]) /\ p = <<k, p[2]>>
      BY <3>1
    <3>3. k \in Int /\ p[2] \in Int
      BY <1>3, <1>4, <3>2
    <3> QED
      BY <3>2, <3>3
  <2>2. ASSUME p \in Int \X Int, p[1] \in 1 .. Len(listed), p[2] \in D(listed[p[1]])
        PROVE  p \in P
    <3>1. p \in {p[1]} \X D(listed[p[1]])
      BY <2>2
    <3> QED
      BY <1>3, <2>2, <3>1
  <2> QED
    BY <2>1, <2>2
<1>6. P \subseteq Pairs
  <2> HIDE DEF P
  <2> QED
    BY <1>5 DEF Pairs
<1>7. IsFiniteSet(P)
  <2> DEFINE f == [k \in 1 .. Len(listed) |-> Part(k)]
  <2>1. P = UNION Range(f)
    BY <1>3 DEF Range
  <2>2. \A T \in Range(f) : \E k \in 1 .. Len(listed) : T = Part(k)
    BY DEF Range
  <2>3. DOMAIN f = 1 .. Len(listed) /\ f = [k \in 1 .. Len(listed) |-> f[k]]
    OBVIOUS
  <2>4. \A k \in 1 .. Len(listed) : IsFiniteSet(Part(k))
    <3> TAKE k \in 1 .. Len(listed)
    <3>1. IsFiniteSet({k})
      BY FS_Singleton
    <3>2. IsFiniteSet(D(listed[k]))
      BY <1>4
    <3> HIDE DEF D, listed
    <3> QED
      BY <3>1, <3>2, FS_Product
  <2> HIDE DEF f, P, Part
  <2>5. IsFiniteSet(1 .. Len(listed))
    BY <1>3, FS_Interval
  <2>6. IsFiniteSet(Range(f))
    BY <2>3, <2>5, RangeIsFinite
  <2>7. \A T \in Range(f) : IsFiniteSet(T)
    BY <2>2, <2>4
  <2> QED
    BY <2>1, <2>6, <2>7, FS_UNION
<1> HIDE DEF P, D, listed
<1>8. /\ N \in Nat /\ order \in [1 .. N -> P]
      /\ \A p \in P : \E n \in DOMAIN order : order[n] = p
      /\ \A a, b \in DOMAIN order : a < b <=> Precedes(order[a], order[b])
  BY <1>6, <1>7, InOrderIs
<1> HIDE DEF order, q
<1>9. DOMAIN order = 1 .. N
  BY <1>8
<1>10. /\ DOMAIN q = 1 .. N /\ q = [n \in 1 .. N |-> q[n]]
       /\ \A n \in 1 .. N : q[n] = Sub(listed[order[n][1]], order[n][2])
  BY <1>1, <1>9
<1>11. IsList(q) /\ Len(q) = N
  BY <1>8, <1>10, ListIs
<1>12. \A n \in 1 .. N :
          order[n][1] \in 1 .. Len(listed) /\ order[n][2] \in D(listed[order[n][1]])
  BY <1>5, <1>8, <1>9
<1>13. ASSUME NEW n \in 1 .. N PROVE Submits(q[n], M, camera, display, w, r)
  <2>1. listed[order[n][1]] \in M
    BY <1>3, <1>12
  <2> QED
    BY <1>10, <1>12, <2>1 DEF Submits, D
<1>14. ASSUME NEW m \in M, NEW i \in D(m)
       PROVE  \E n \in 1 .. N : q[n] = Sub(m, i)
  <2>1. PICK k \in 1 .. Len(listed) : listed[k] = m
    BY <1>3
  <2> DEFINE p == <<k, i>>
  <2>2. k \in Int /\ i \in Int
    BY <1>4, <2>1
  <2>3. p \in Int \X Int /\ p[1] = k /\ p[2] = i
    BY <2>2
  <2> HIDE DEF p
  <2>4. p \in P
    BY <1>5, <2>1, <2>3
  <2>5. PICK n \in 1 .. N : order[n] = p
    BY <1>8, <1>9, <2>4
  <2>6. q[n] = Sub(listed[p[1]], p[2])
    BY <1>10, <2>5
  <2> QED
    BY <2>1, <2>3, <2>6
<1>15. ASSUME NEW a \in 1 .. N, NEW b \in 1 .. N, a < b
       PROVE  AsInScene(q[a], q[b])
  <2> DEFINE k == order[a][1]
             l == order[b][1]
  <2>1. k \in 1 .. Len(listed) /\ l \in 1 .. Len(listed)
    BY <1>12
  <2>2. k < l \/ (k = l /\ order[a][2] < order[b][2])
    BY <1>8, <1>9, <1>15 DEF Precedes
  <2>3. /\ q[a] = Sub(listed[k], order[a][2]) /\ q[b] = Sub(listed[l], order[b][2])
    BY <1>10
  <2>4. /\ q[a].mesh = listed[k] /\ q[a].section = order[a][2]
        /\ q[b].mesh = listed[l] /\ q[b].section = order[b][2]
    BY <2>3, SubmissionIs
  <2> HIDE DEF k, l
  <2>5. /\ e[k] \in PlacesOf(M) /\ e[l] \in PlacesOf(M) /\ (k < l => e[k] < e[l])
    BY <1>3, <2>1 DEF Enumerates
  <2>6. e[k] \in DOMAIN MeshOrder /\ e[l] \in DOMAIN MeshOrder
    BY <2>5 DEF PlacesOf
  <2>7. listed[k] = MeshOrder[e[k]] /\ listed[l] = MeshOrder[e[l]]
    BY <1>3, <2>1
  <2> QED
    BY <2>2, <2>4, <2>5, <2>6, <2>7 DEF AsInScene, k, l
<1>16. \A m \in M : \A i \in D(m) : \E n \in 1 .. N : q[n] = Sub(m, i)
  BY <1>14
<1> QED
  BY <1>8, <1>10, <1>11, <1>13, <1>15, <1>16 DEF IsBuilt, M, D, q

\* A queue of the sections of M that can be drawn: their materials are there.
HoldsSections(q, M, camera, display, w, r) ==
    /\ IsList(q) /\ Len(q) \in Nat /\ DOMAIN q = 1 .. Len(q)
    /\ \A n \in 1 .. Len(q) :
          Submits(q[n], M, camera, display, w, r) /\ q[n].material \in w.resident
    /\ \A m \in M : \A i \in DrawnSections(m, camera, display) :
          SectionsOf[m][i].material \in w.resident =>
             \E n \in 1 .. Len(q) : q[n] = Submission(m, i, camera, display, w, r)

IsInScene(q) == \A a, b \in 1 .. Len(q) : a < b => AsInScene(q[a], q[b])

\* What is left of a queue without the sections whose material is missing.
LEMMA ResidentAre ==
    ASSUME NEW q, NEW M, NEW camera, NEW display, NEW w, NEW r,
           IsBuilt(q, M, camera, display, w, r)
    PROVE  /\ HoldsSections(Resident(w, q), M, camera, display, w, r)
           /\ IsInScene(Resident(w, q))
<1> DEFINE S == {n \in DOMAIN q : q[n].material \in w.resident}
           p == Resident(w, q)
           N == Cardinality(S)
<1>1. /\ Len(q) \in Nat /\ DOMAIN q = 1 .. Len(q)
      /\ \A n \in 1 .. Len(q) : Submits(q[n], M, camera, display, w, r)
      /\ \A m \in M : \A i \in DrawnSections(m, camera, display) :
            \E n \in 1 .. Len(q) : q[n] = Submission(m, i, camera, display, w, r)
      /\ \A a, b \in 1 .. Len(q) : a < b => AsInScene(q[a], q[b])
  BY DEF IsBuilt
<1>2. p = Picked(q, S)
  BY DEF Resident
<1>3. S \subseteq 1 .. Len(q) /\ \A n \in 1 .. Len(q) : n \in S <=> q[n].material \in w.resident
  BY <1>1
<1> HIDE DEF S, p
<1>4. IsFiniteSet(S) /\ S \subseteq Int
  <2> DEFINE I == 1 .. Len(q)
  <2>1. IsFiniteSet(I) /\ I \subseteq Int
    BY <1>1, FS_Interval
  <2>2. S \subseteq I
    BY <1>3
  <2> HIDE DEF I
  <2> QED
    BY <2>1, <2>2, FS_Subset
<1>5. PICK e : IsPicked(p, q, S, e)
  BY <1>2, <1>4, PickedIs
<1>6. /\ N \in Nat /\ e \in [1 .. N -> S]
      /\ \A i \in S : \E n \in 1 .. N : e[n] = i
      /\ \A m, n \in 1 .. N : m < n => e[m] < e[n]
      /\ p = [n \in 1 .. N |-> q[e[n]]]
  BY <1>5 DEF IsPicked, Enumerates
<1>7. /\ DOMAIN p = 1 .. N /\ p = [n \in 1 .. N |-> p[n]]
      /\ \A n \in 1 .. N : p[n] = q[e[n]] /\ e[n] \in S /\ e[n] \in 1 .. Len(q)
  BY <1>3, <1>6
<1>8. IsList(p) /\ Len(p) = N
  BY <1>6, <1>7, ListIs
<1>9. \A n \in 1 .. N : Submits(p[n], M, camera, display, w, r) /\ p[n].material \in w.resident
  BY <1>1, <1>3, <1>7
<1>10. ASSUME NEW m \in M, NEW i \in DrawnSections(m, camera, display),
              SectionsOf[m][i].material \in w.resident
       PROVE  \E n \in 1 .. N : p[n] = Submission(m, i, camera, display, w, r)
  <2>1. PICK k \in 1 .. Len(q) : q[k] = Submission(m, i, camera, display, w, r)
    BY <1>1
  <2>2. q[k].material = SectionsOf[m][i].material
    BY <2>1, SubmissionIs
  <2>3. k \in S
    BY <1>3, <1>10, <2>2
  <2>4. PICK n \in 1 .. N : e[n] = k
    BY <1>6, <2>3
  <2> QED
    BY <1>7, <2>1, <2>4
<1>11. IsInScene(p)
  BY <1>1, <1>6, <1>7, <1>8 DEF IsInScene
<1> QED
  BY <1>6, <1>7, <1>8, <1>9, <1>10, <1>11 DEF HoldsSections, p

DepthsOf(q) == {s.depth : s \in Range(q)}

\* What a queue is sorted by.
SortKey(s, sorter, depths) ==
    IF sorter.mode = "FullSort" THEN s.depth
    ELSE BinOf(s.depth, Least(depths), Greatest(depths) - Least(depths), sorter.bins)

\* By the key, and those with the same key as in the scene.
IsSortedBy(q, sorter, depths) ==
    \A a, b \in 1 .. Len(q) : a < b =>
        \/ SortKey(q[a], sorter, depths) < SortKey(q[b], sorter, depths)
        \/ /\ SortKey(q[a], sorter, depths) = SortKey(q[b], sorter, depths)
           /\ AsInScene(q[a], q[b])

\* The depths of a queue are finitely many numbers.
LEMMA DepthsAre ==
    ASSUME NEW q, NEW M, M \subseteq StaticMeshes, NEW camera, camera.transform \in Transforms,
           NEW display, NEW w, NEW r, HoldsSections(q, M, camera, display, w, r)
    PROVE  /\ \A n \in 1 .. Len(q) : q[n].depth \in Int /\ q[n].depth \in DepthsOf(q)
           /\ DepthsOf(q) \subseteq Int /\ IsFiniteSet(DepthsOf(q))
           /\ Len(q) # 0 => DepthsOf(q) # {}
<1>1. /\ Len(q) \in Nat /\ DOMAIN q = 1 .. Len(q)
      /\ \A n \in 1 .. Len(q) : Submits(q[n], M, camera, display, w, r)
  BY DEF HoldsSections
<1>2. ASSUME NEW n \in 1 .. Len(q) PROVE q[n].depth \in Int
  <2>1. PICK m \in M : \E i \in DrawnSections(m, camera, display) :
                            q[n] = Submission(m, i, camera, display, w, r)
    BY <1>1 DEF Submits
  <2>2. q[n].depth = EstimateSortDepth(m, camera)
    BY <2>1, SubmissionIs
  <2> QED
    BY <2>2, DepthIs
<1> DEFINE f == [n \in 1 .. Len(q) |-> q[n].depth]
<1>3. DepthsOf(q) = Range(f)
  BY <1>1 DEF DepthsOf, Range
<1>4. \A n \in 1 .. Len(q) : q[n].depth \in Range(f)
  BY DEF Range
<1>5. Range(f) \subseteq Int
  BY <1>2 DEF Range
<1>6. DOMAIN f = 1 .. Len(q) /\ f = [n \in 1 .. Len(q) |-> f[n]]
  OBVIOUS
<1> HIDE DEF f
<1>7. IsFiniteSet(1 .. Len(q)) /\ (Len(q) # 0 => 1 .. Len(q) # {})
  <2>1. Len(q) # 0 => 1 \in 1 .. Len(q)
    BY <1>1
  <2>2. IsFiniteSet(1 .. Len(q))
    BY <1>1, FS_Interval
  <2> QED
    BY <2>1, <2>2
<1>8. IsFiniteSet(Range(f)) /\ (Len(q) # 0 => Range(f) # {})
  BY <1>6, <1>7, RangeIsFinite
<1> QED
  BY <1>2, <1>3, <1>4, <1>5, <1>8

\* Every depth has a bin.
LEMMA BinIs ==
    ASSUME NEW depth \in Int, NEW nearest \in Int, NEW range \in Int, NEW bins \in Nat \ {0}
    PROVE  BinOf(depth, nearest, range, bins) \in 0 .. bins - 1
<1> DEFINE x == IF range > 0 THEN ((depth - nearest) * bins) \div range ELSE 0
<1>1. x \in Int
  <2>1. (depth - nearest) * bins \in Int
    OBVIOUS
  <2> DEFINE y == (depth - nearest) * bins
  <2> HIDE DEF y
  <2>2. y \in Int => (range > 0 => y \div range \in Int)
    OBVIOUS
  <2> QED
    BY <2>1, <2>2 DEF y
<1> HIDE DEF x
<1>2. BinOf(depth, nearest, range, bins) = Clamp(0, x, bins - 1)
  BY DEF BinOf, x
<1> QED
  BY <1>1, <1>2 DEF Clamp, AtLeast

\* p has the elements of q in the order e, by a key and then as the scene has them.
IsReordered(p, q, key, e) ==
    /\ \A n \in 1 .. Len(q) : e[n] \in 1 .. Len(q) /\ p[n] = q[e[n]]
    /\ \A a, b \in 1 .. Len(q) : a < b =>
          \/ key[e[a]] < key[e[b]]
          \/ key[e[a]] = key[e[b]] /\ AsInScene(p[a], p[b])

\* Sorting a queue by a key leaves it with what it has.
LEMMA SortedHolds ==
    ASSUME NEW q, NEW M, NEW camera, NEW display, NEW w, NEW r,
           HoldsSections(q, M, camera, display, w, r), IsInScene(q),
           NEW key \in [1 .. Len(q) -> Int]
    PROVE  LET p == SortedBy(q, key)
           IN  /\ HoldsSections(p, M, camera, display, w, r) /\ DepthsOf(p) = DepthsOf(q)
               /\ Len(p) = Len(q)
               /\ \E e : IsReordered(p, q, key, e)
<1> DEFINE N == Len(q)
           p == SortedBy(q, key)
<1>1. /\ N \in Nat /\ DOMAIN q = 1 .. N
      /\ \A n \in 1 .. N :
            Submits(q[n], M, camera, display, w, r) /\ q[n].material \in w.resident
      /\ \A m \in M : \A i \in DrawnSections(m, camera, display) :
            SectionsOf[m][i].material \in w.resident =>
               \E n \in 1 .. N : q[n] = Submission(m, i, camera, display, w, r)
  BY DEF HoldsSections
<1>2. PICK e : IsSortedList(p, q, N, key, e)
  BY <1>1, SortedByIs
<1> HIDE DEF p
<1>3. /\ e \in [1 .. N -> 1 .. N]
      /\ \A i \in 1 .. N : \E m \in 1 .. N : e[m] = i
      /\ \A i, j \in 1 .. N :
            i < j => key[e[i]] < key[e[j]] \/ (key[e[i]] = key[e[j]] /\ e[i] < e[j])
      /\ p = [m \in 1 .. N |-> q[e[m]]]
  BY <1>2 DEF IsSortedList, Sorts
<1>4. /\ DOMAIN p = 1 .. N /\ p = [n \in 1 .. N |-> p[n]]
      /\ \A n \in 1 .. N : e[n] \in 1 .. N /\ p[n] = q[e[n]]
  BY <1>3
<1>5. IsList(p) /\ Len(p) = N
  BY <1>1, <1>4, ListIs
<1>6. \A k \in 1 .. N : \E n \in 1 .. N : p[n] = q[k]
  <2> TAKE k \in 1 .. N
  <2>1. PICK n \in 1 .. N : e[n] = k
    BY <1>3
  <2> QED
    BY <1>4, <2>1
<1>7. HoldsSections(p, M, camera, display, w, r)
  <2>1. ASSUME NEW m \in M, NEW i \in DrawnSections(m, camera, display),
               SectionsOf[m][i].material \in w.resident
        PROVE  \E n \in 1 .. N : p[n] = Submission(m, i, camera, display, w, r)
    <3>1. PICK k \in 1 .. N : q[k] = Submission(m, i, camera, display, w, r)
      BY <1>1, <2>1
    <3> QED
      BY <1>6, <3>1
  <2> QED
    BY <1>1, <1>4, <1>5, <2>1 DEF HoldsSections
<1>8. Range(p) = Range(q)
  <2>1. Range(p) \subseteq Range(q)
    BY <1>1, <1>4 DEF Range
  <2>2. Range(q) \subseteq Range(p)
    <3> SUFFICES ASSUME NEW k \in 1 .. N PROVE q[k] \in Range(p)
      BY <1>1 DEF Range
    <3>1. PICK n \in 1 .. N : p[n] = q[k]
      BY <1>6
    <3> QED
      BY <1>4, <3>1 DEF Range
  <2> QED
    BY <2>1, <2>2
<1>9. \A a, b \in 1 .. N : a < b =>
         \/ key[e[a]] < key[e[b]]
         \/ key[e[a]] = key[e[b]] /\ AsInScene(p[a], p[b])
  BY <1>3, <1>4 DEF IsInScene
<1>10. IsReordered(p, q, key, e)
  BY <1>4, <1>9 DEF IsReordered
<1> QED
  BY <1>5, <1>7, <1>8, <1>10 DEF DepthsOf, p

\* Sorted by its sorter's key, or left as the scene is.
IsInOrder(q, display, sorter) ==
    /\ display.sortMeshes => IsSortedBy(q, sorter, DepthsOf(q))
    /\ ~display.sortMeshes => IsInScene(q)

\* Sorting a queue by its sorter's key leaves it with what it has.
LEMMA QueueIsSorted ==
    ASSUME NEW q, NEW M, M \subseteq StaticMeshes, NEW camera, camera.transform \in Transforms,
           NEW display, NEW w, NEW r, HoldsSections(q, M, camera, display, w, r), IsInScene(q),
           NEW sorter \in Sorters
    PROVE  LET p == SortRenderQueue(q, display, sorter)
           IN  /\ HoldsSections(p, M, camera, display, w, r)
               /\ IsInOrder(p, display, sorter)
<1> DEFINE p == SortRenderQueue(q, display, sorter)
           N == Len(q)
           depths == DepthsOf(q)
           key == [i \in 1 .. N |-> SortKey(q[i], sorter, depths)]
<1>1. CASE ~display.sortMeshes
  <2>1. p = q
    BY <1>1 DEF SortRenderQueue
  <2> QED
    BY <1>1, <2>1 DEF IsInOrder
<1>2. CASE display.sortMeshes
  <2>1. N \in Nat /\ DOMAIN q = 1 .. N
    BY DEF HoldsSections
  <2>2. /\ \A n \in 1 .. N : q[n].depth \in Int /\ q[n].depth \in depths
        /\ depths \subseteq Int /\ IsFiniteSet(depths) /\ (N # 0 => depths # {})
    BY DepthsAre
  <2>3. sorter.bins \in Nat \ {0} /\ sorter.mode \in SorterModes
    BY DEF Sorters
  <2>4. p = SortedBy(q, key)
    <3>1. CASE sorter.mode = "FullSort"
      <4>1. p = SortedBy(q, [i \in 1 .. N |-> q[i].depth])
        BY <1>2, <2>1, <3>1 DEF SortRenderQueue, FullSort
      <4>2. key = [i \in 1 .. N |-> q[i].depth]
        BY <3>1 DEF SortKey
      <4> QED
        BY <4>1, <4>2
    <3>2. CASE sorter.mode # "FullSort"
      <4> DEFINE bin == [i \in 1 .. N |-> BinOf(q[i].depth, Least(depths),
                                                Greatest(depths) - Least(depths), sorter.bins)]
      <4>1. p = SortedBy(q, bin)
        BY <1>2, <2>1, <3>2 DEF SortRenderQueue, BinSort, DepthsOf
      <4>2. key = bin
        BY <3>2 DEF SortKey
      <4> QED
        BY <4>1, <4>2
    <3> QED
      BY <3>1, <3>2
  <2> HIDE DEF depths
  <2>5. \A n \in 1 .. N : SortKey(q[n], sorter, depths) \in Int
    <3> SUFFICES ASSUME NEW n \in 1 .. N PROVE SortKey(q[n], sorter, depths) \in Int
      OBVIOUS
    <3>1. CASE sorter.mode = "FullSort"
      BY <2>2, <3>1 DEF SortKey
    <3>2. CASE sorter.mode # "FullSort"
      <4>1. Least(depths) \in Int /\ Greatest(depths) \in Int
        <5>1. depths # {}
          BY <2>2
        <5>2. Least(depths) \in depths /\ Greatest(depths) \in depths
          BY <2>2, <5>1, ExtremesAre
        <5> QED
          BY <2>2, <5>2
      <4>2. Greatest(depths) - Least(depths) \in Int /\ q[n].depth \in Int
        BY <2>2, <4>1
      <4>3. BinOf(q[n].depth, Least(depths), Greatest(depths) - Least(depths), sorter.bins)
              \in 0 .. sorter.bins - 1
        BY <2>3, <4>1, <4>2, BinIs
      <4> QED
        BY <2>3, <3>2, <4>3 DEF SortKey
    <3> QED
      BY <3>1, <3>2
  <2>6. /\ key \in [1 .. N -> Int]
        /\ \A n \in 1 .. N : key[n] = SortKey(q[n], sorter, depths)
    BY <2>5
  <2> HIDE DEF p, key
  <2>10. /\ HoldsSections(p, M, camera, display, w, r) /\ DepthsOf(p) = DepthsOf(q)
         /\ Len(p) = N /\ \E e : IsReordered(p, q, key, e)
    BY <2>4, <2>6, SortedHolds
  <2>11. PICK e : IsReordered(p, q, key, e)
    BY <2>10
  <2>7. /\ \A n \in 1 .. N : e[n] \in 1 .. N /\ p[n] = q[e[n]]
        /\ \A a, b \in 1 .. N : a < b =>
              \/ key[e[a]] < key[e[b]]
              \/ key[e[a]] = key[e[b]] /\ AsInScene(p[a], p[b])
    BY <2>11 DEF IsReordered
  <2>8. \A n \in 1 .. N : key[e[n]] = SortKey(p[n], sorter, DepthsOf(p))
    BY <2>6, <2>7, <2>10 DEF depths
  <2>9. IsSortedBy(p, sorter, DepthsOf(p))
    BY <2>7, <2>8, <2>10 DEF IsSortedBy
  <2> QED
    BY <1>2, <2>9, <2>10 DEF IsInOrder, p
<1> QED
  BY <1>1, <1>2

\* What a frame draws: the sections of the visible meshes, in their order.
LEMMA QueueIs ==
    ASSUME NEW g, g.renderer.sorter \in Sorters, NEW w \in Worlds, NEW camera,
           camera.transform \in Transforms, NEW display
    PROVE  LET q == QueueOf(g, w, camera, display)
           IN  /\ HoldsSections(q, w.visible \cap w.loaded, camera, display, w, g.renderer)
               /\ IsInOrder(q, display, g.renderer.sorter)
<1> DEFINE M == w.visible \cap w.loaded
           built == BuildRenderQueue(w, camera, display, g.renderer)
           resident == Resident(w, built)
<1>1. M \subseteq StaticMeshes
  BY DEF Worlds
<1>2. IsBuilt(built, M, camera, display, w, g.renderer)
  BY QueueIsBuilt
<1> HIDE DEF built, M
<1>3. /\ HoldsSections(resident, M, camera, display, w, g.renderer)
      /\ IsInScene(resident)
  BY <1>2, ResidentAre
<1>4. QueueOf(g, w, camera, display) = SortRenderQueue(resident, display, g.renderer.sorter)
  BY DEF QueueOf, built
<1> HIDE DEF resident
<1> QED
  BY <1>1, <1>3, <1>4, QueueIsSorted DEF M

\* What the submissions of a queue bind is there.
LEMMA QueueCanBeDrawn ==
    ASSUME NEW q, NEW M, NEW camera, NEW display, NEW w, NEW r,
           HoldsSections(q, M, camera, display, w, r),
           NEW maps, r.shadowCamera # Nothing /\ r.shadowMap # 0 => r.shadowMap \in DOMAIN maps
    PROVE  CanBeDrawn(q, w, maps)
<1> SUFFICES ASSUME NEW n \in 1 .. Len(q)
             PROVE  q[n].material \in w.resident /\ IsLit(q[n].shadow, maps)
  BY DEF HoldsSections, CanBeDrawn
<1>1. Submits(q[n], M, camera, display, w, r) /\ q[n].material \in w.resident
  BY DEF HoldsSections
<1>2. PICK m \in M : q[n].shadow = ShadowOf(m, w, r)
  <2>1. PICK m \in M : \E i \in DrawnSections(m, camera, display) :
                            q[n] = Submission(m, i, camera, display, w, r)
    BY <1>1 DEF Submits
  <2> QED
    BY <2>1, SubmissionIs
<1>3. IsLit(ShadowOf(m, w, r), maps)
  BY DEF ShadowOf, IsLit
<1> QED
  BY <1>1, <1>2, <1>3

-----------------------------------------------------------------------------
(* What a frame shows of the scene.                                         *)

\* The draws of the scene are those of a queue, in its order.
Shows(f, queue, gl, maps, camera) ==
    /\ Len(queue) \in Nat /\ DOMAIN SceneDraws(f) = 1 .. Len(queue)
    /\ IsList(SceneDraws(f)) /\ Len(SceneDraws(f)) = Len(queue)
    /\ \A k \in 1 .. Len(queue) : SceneDraws(f)[k] = DrawOf(queue[k], gl, maps, camera)

\* Of the draws of a frame those of the scene are the ones of the queue.
LEMMA SceneDrawsAre ==
    ASSUME NEW f, NEW before, NEW queue, NEW gl, NEW maps, NEW camera, NEW mesh,
           FollowedBy(f, before, queue, gl, maps, camera, mesh), mesh \notin StaticMeshes,
           \A i \in 1 .. Len(before) : before[i].target # 0,
           \A k \in 1 .. Len(queue) : queue[k].mesh \in StaticMeshes
    PROVE  Shows(f, queue, gl, maps, camera)
<1> DEFINE a == Len(before)
           n == Len(queue)
           S == {i \in DOMAIN f : f[i].target = 0 /\ f[i].what.mesh \in StaticMeshes}
           p == SceneDraws(f)
<1>1. /\ IsList(f) /\ a \in Nat /\ n \in Nat /\ Len(f) \in Nat /\ Len(f) >= a + n
      /\ \A i \in 1 .. a : f[i] = before[i]
      /\ \A k \in 1 .. n : f[a + k] = DrawOf(queue[k], gl, maps, camera)
      /\ \A i \in 1 .. Len(f) : i > a + n => f[i].what.mesh = mesh
  BY DEF FollowedBy
<1>2. DOMAIN f = 1 .. Len(f)
  BY <1>1, ListsGrow
<1>3. S = a + 1 .. a + n
  <2>1. ASSUME NEW i \in 1 .. Len(f)
        PROVE  i \in S <=> i \in a + 1 .. a + n
    <3>1. CASE i <= a
      <4>1. i \in 1 .. a
        BY <1>1, <3>1
      <4> QED
        BY <1>1, <3>1, <4>1
    <3>2. CASE i > a + n
      BY <1>1, <3>2
    <3>3. CASE a < i /\ i <= a + n
      <4> DEFINE k == i - a
                 d == DrawOf(queue[k], gl, maps, camera)
      <4>1. k \in 1 .. n /\ i = a + k /\ i \in a + 1 .. a + n
        BY <1>1, <3>3
      <4>2. d.target = 0 /\ d.what.mesh = queue[k].mesh
        BY DEF DrawOf
      <4> HIDE DEF k, d
      <4>3. f[i] = d
        BY <1>1, <4>1 DEF d
      <4>4. i \in DOMAIN f /\ queue[k].mesh \in StaticMeshes
        BY <1>2, <4>1
      <4> QED
        BY <4>1, <4>2, <4>3, <4>4
    <3> QED
      BY <1>1, <3>1, <3>2, <3>3
  <2>2. a + 1 .. a + n \subseteq 1 .. Len(f)
    BY <1>1
  <2>3. S \subseteq 1 .. Len(f)
    BY <1>2
  <2> HIDE DEF S
  <2> QED
    BY <2>1, <2>2, <2>3
<1>4. p = Picked(f, S)
  BY DEF SceneDraws
<1> HIDE DEF S, p
<1>5. IsFiniteSet(S) /\ S \subseteq Int
  <2> DEFINE I == a + 1 .. a + n
  <2>1. IsFiniteSet(I)
    BY <1>1, FS_Interval
  <2>2. I \subseteq Int
    BY <1>1
  <2> QED
    BY <1>3, <2>1, <2>2
<1>6. PICK e : IsPicked(p, f, S, e)
  BY <1>4, <1>5, PickedIs
<1>7. Enumerates(e, a + 1 .. a + n) /\ p = [k \in 1 .. Cardinality(S) |-> f[e[k]]]
  BY <1>3, <1>6 DEF IsPicked
<1>8. Cardinality(S) = n /\ \A k \in 1 .. n : e[k] = a + k
  BY <1>1, <1>3, <1>7, IntervalEnumerated
<1>9. /\ DOMAIN p = 1 .. n /\ p = [k \in 1 .. n |-> p[k]]
      /\ \A k \in 1 .. n : p[k] = f[a + k]
  BY <1>7, <1>8
<1>10. IsList(p) /\ Len(p) = n
  BY <1>1, <1>9, ListIs
<1> QED
  BY <1>1, <1>9, <1>10 DEF Shows, p

\* The submissions of a queue are of its meshes.
LEMMA QueueMeshes ==
    ASSUME NEW q, NEW M, M \subseteq StaticMeshes, NEW camera, NEW display, NEW w, NEW r,
           HoldsSections(q, M, camera, display, w, r), NEW n \in 1 .. Len(q)
    PROVE  /\ q[n].mesh \in M /\ q[n].mesh \in StaticMeshes
           /\ q[n].shadow = ShadowOf(q[n].mesh, w, r)
<1>1. Submits(q[n], M, camera, display, w, r)
  BY DEF HoldsSections
<1>2. PICK m \in M : \E i \in DrawnSections(m, camera, display) :
                          q[n] = Submission(m, i, camera, display, w, r)
  BY <1>1 DEF Submits
<1> QED
  BY <1>2, SubmissionIs

\* What is drawn of the scene is its sorted queue.
LEMMA SceneShows ==
    ASSUME NEW g, Quiet(g.device),
           \A i \in 1 .. Len(g.device.draws) : g.device.draws[i].target # 0,
           g.renderer.sorter \in Sorters, NEW w \in Worlds, NEW camera,
           camera.transform \in Transforms, NEW display, NEW grid,
           g.renderer.shadowCamera # Nothing /\ g.renderer.shadowMap # 0
              => g.renderer.shadowMap \in DOMAIN g.device.shadowMaps
    PROVE  LET e == SceneDrawn(g, w, camera, display, grid)
               q == QueueOf(g, w, camera, display)
           IN  /\ Quiet(e) /\ Stays(g.device, e)
               /\ Shows(e.draws, q, RasterizerOf(display), g.device.shadowMaps, camera)
               /\ HoldsSections(q, w.visible \cap w.loaded, camera, display, w, g.renderer)
               /\ IsInOrder(q, display, g.renderer.sorter)
<1> DEFINE e == SceneDrawn(g, w, camera, display, grid)
           q == QueueOf(g, w, camera, display)
           M == w.visible \cap w.loaded
<1>1. M \subseteq StaticMeshes
  BY DEF Worlds
<1> HIDE DEF M
<1>2. /\ HoldsSections(q, M, camera, display, w, g.renderer)
      /\ IsInOrder(q, display, g.renderer.sorter)
  BY QueueIs DEF M
<1>3. CanBeDrawn(q, w, g.device.shadowMaps)
  <2> HIDE DEF q
  <2> QED
    BY <1>2, QueueCanBeDrawn
<1>4. /\ Quiet(e) /\ Stays(g.device, e)
      /\ FollowedBy(e.draws, g.device.draws, q, RasterizerOf(display), g.device.shadowMaps,
                    camera, "grid")
  BY <1>3, SceneIsDrawn
<1> HIDE DEF e, q
<1>5. \A k \in 1 .. Len(q) : q[k].mesh \in StaticMeshes
  BY <1>1, <1>2, QueueMeshes
<1>6. "grid" \notin StaticMeshes
  BY FrameRendererAssumption
<1>7. Shows(e.draws, q, RasterizerOf(display), g.device.shadowMaps, camera)
  BY <1>4, <1>5, <1>6, SceneDrawsAre
<1> QED
  BY <1>2, <1>4, <1>7 DEF e, q, M

\* The depth view draws nothing of the scene.
LEMMA DepthShows ==
    ASSUME NEW d, Quiet(d), \A i \in 1 .. Len(d.draws) : d.draws[i].target # 0,
           NEW handle, NEW camera, NEW w, NEW maps, NEW gl
    PROVE  LET e == DepthDrawn(d, handle, camera, w)
           IN  Quiet(e) /\ Stays(d, e) /\ Shows(e.draws, <<>>, gl, maps, camera)
<1> DEFINE e == DepthDrawn(d, handle, camera, w)
           none == <<>>
<1>1. Quiet(e) /\ Stays(d, e) /\ FollowedBy(e.draws, d.draws, none, gl, maps, camera, "quad")
  BY DepthIsDrawn
<1>2. Len(none) = 0
  OBVIOUS
<1> HIDE DEF e, none
<1>3. "quad" \notin StaticMeshes /\ \A k \in 1 .. Len(none) : none[k].mesh \in StaticMeshes
  BY <1>2, FrameRendererAssumption
<1>4. Shows(e.draws, none, gl, maps, camera)
  BY <1>1, <1>3, SceneDrawsAre
<1> QED
  BY <1>1, <1>4 DEF e, none

-----------------------------------------------------------------------------
(* The device between frames.                                               *)

\* No pass is open, nothing is bound, and the only shadow map is the renderer's.
Tidy(d, r) ==
    /\ Quiet(d) /\ HasOne(d, r.shadowMap)
    /\ r.shadowMap = 0 => d.shadowMaps = << >>
    /\ d.meshes \subseteq {"grid", "quad"}

\* The shadow map was drawn from the light the renderer remembers.
IsLitBy(d, r) ==
    r.shadowCamera # Nothing =>
        /\ r.shadowMap # 0 /\ d.shadowMaps[r.shadowMap].from = r.shadowCamera
        /\ d.shadowMaps[r.shadowMap] \in ShadowMaps

\* A shadow map is something.
LEMMA NothingIsNoMap == \A map \in ShadowMaps : map # Nothing
BY FrameRendererAssumption

\* The light of a scene that has one is one of its lights, and so are its
\* casters its meshes.
LEMMA LightIs ==
    ASSUME NEW w \in Worlds, CollectShadowCamera(w) # Nothing
    PROVE  MapOf(CollectShadowCamera(w), CastersOf(w)) \in ShadowMaps
<1> DEFINE S == {i \in DOMAIN LightOrder : LightOrder[i] \in w.enabled \intersect w.casting}
           light == LightOrder[Least(S)]
<1>1. S # {} /\ CollectShadowCamera(w) = [light |-> light, at |-> w.at[light]]
  BY DEF CollectShadowCamera
<1>2. DOMAIN LightOrder = 1 .. Len(LightOrder) /\ Len(LightOrder) \in Nat
  BY FrameRendererAssumption
<1>3. Least(S) \in S
  <2> DEFINE I == 1 .. Len(LightOrder)
  <2>1. IsFiniteSet(I) /\ I \subseteq Int
    BY <1>2, FS_Interval
  <2>2. S \subseteq I
    BY <1>2
  <2> HIDE DEF I, S
  <2>3. IsFiniteSet(S) /\ S \subseteq Int
    BY <2>1, <2>2, FS_Subset
  <2> QED
    BY <1>1, <2>3, ExtremesAre
<1>4. light \in w.enabled
  BY <1>3
<1> HIDE DEF light
<1>5. light \in Lights /\ w.at[light] \in Int
  BY <1>4 DEF Worlds
<1>6. CollectShadowCamera(w) \in Sights
  BY <1>1, <1>5 DEF Sights
<1>7. CastersOf(w) \subseteq StaticMeshes
  BY DEF CastersOf, Worlds
<1> QED
  BY <1>6, <1>7 DEF MapOf, ShadowMaps

\* What a frame shows when it shows the scene.
ShowsScene(f, q, maps, r, w, display, camera) ==
    /\ Shows(f, q, RasterizerOf(display), maps, camera)
    /\ HoldsSections(q, w.visible \cap w.loaded, camera, display, w, r)
    /\ IsInOrder(q, display, r.sorter) /\ camera.transform \in Transforms

\* The light and its shadow map are this frame's.
IsFresh(d, r, w) ==
    /\ r.shadowCamera = CollectShadowCamera(w)
    /\ r.shadowCamera # Nothing =>
          r.shadowMap # 0 /\ d.shadowMaps[r.shadowMap] = MapOf(r.shadowCamera, CastersOf(w))

\* The shadow map of a frame is drawn from its light, with its casters.
LEMMA LitIsTidy ==
    ASSUME NEW g, ArePartsOf(g), Tidy(g.device, g.renderer), g.device.draws = <<>>,
           NEW w \in Worlds
    PROVE  LET l == LitParts(g, w)
           IN  /\ Redraws(g, l) /\ Tidy(l.device, l.renderer) /\ IsFresh(l.device, l.renderer, w)
               /\ \A i \in 1 .. Len(l.device.draws) : l.device.draws[i].target # 0
<1> DEFINE l == LitParts(g, w)
           light == CollectShadowCamera(w)
           d == ReadyDevice(g.device, g.renderer.shadowMap)
           handle == ReadyMap(g.device, g.renderer.shadowMap)
           e == ShadowDrawn(d, handle, light, w)
<1>1. /\ Redraws(g, l) /\ l.renderer.shadowCamera = light
      /\ light = Nothing =>
            l.device = g.device /\ l.renderer.shadowMap = g.renderer.shadowMap
      /\ light # Nothing => l.renderer.shadowMap = handle /\ l.device = e
  BY LitIs
<1> HIDE DEF l
<1>2. CASE light = Nothing
  <2>1. Tidy(l.device, l.renderer)
    BY <1>1, <1>2 DEF Tidy, HasOne
  <2>2. IsFresh(l.device, l.renderer, w)
    BY <1>1, <1>2 DEF IsFresh
  <2>3. \A i \in 1 .. Len(l.device.draws) : l.device.draws[i].target # 0
    BY <1>1, <1>2
  <2> QED
    BY <1>1, <2>1, <2>2, <2>3 DEF l
<1>3. CASE light # Nothing
  <2>1. /\ Quiet(d) /\ HasOne(d, handle) /\ handle # 0 /\ handle \in DOMAIN d.shadowMaps
        /\ d.draws = <<>> /\ d.meshes = g.device.meshes
    BY OneIsReady DEF Tidy
  <2>2. w.visible \subseteq StaticMeshes
    BY DEF Worlds
  <2> HIDE DEF d, handle
  <2>3. /\ Quiet(e) /\ e.next = d.next /\ e.meshes = d.meshes
        /\ DOMAIN e.shadowMaps = DOMAIN d.shadowMaps
        /\ e.shadowMaps[handle] = MapOf(light, CastersOf(w))
        /\ \A i \in 1 .. Len(e.draws) : e.draws[i].target = handle
    BY <2>1, <2>2, ShadowIsDrawn
  <2> HIDE DEF e
  <2>4. l.renderer.shadowMap = handle /\ l.device = e
    BY <1>1, <1>3
  <2>5. Tidy(l.device, l.renderer)
    BY <2>1, <2>3, <2>4 DEF Tidy, HasOne
  <2>6. IsFresh(l.device, l.renderer, w)
    BY <1>1, <2>1, <2>3, <2>4 DEF IsFresh
  <2> QED
    BY <1>1, <2>1, <2>3, <2>4, <2>5, <2>6 DEF l
<1> QED
  BY <1>2, <1>3

\* Submissions are the same with the same shadow.
LEMMA SameSubmissions ==
    ASSUME NEW r, NEW s, SameShadow(r, s), NEW q, NEW M, NEW camera, NEW display, NEW w,
           HoldsSections(q, M, camera, display, w, r)
    PROVE  HoldsSections(q, M, camera, display, w, s)
<1>1. \A m, i : Submission(m, i, camera, display, w, r) = Submission(m, i, camera, display, w, s)
  BY DEF Submission, SameShadow
<1>2. \A x : Submits(x, M, camera, display, w, r) => Submits(x, M, camera, display, w, s)
  BY <1>1 DEF Submits
<1> QED
  BY <1>1, <1>2 DEF HoldsSections

\* A device that is quiet and still has what it had is as tidy as before.
LEMMA TidyStays ==
    ASSUME NEW d, NEW r, Tidy(d, r), NEW e, Quiet(e), Stays(d, e), NEW s, SameShadow(s, r)
    PROVE  /\ Tidy(e, s) /\ e.shadowMaps = d.shadowMaps
           /\ IsLitBy(d, r) => IsLitBy(e, s)
           /\ \A w : IsFresh(d, r, w) => IsFresh(e, s, w)
BY DEF Tidy, HasOne, Stays, SameShadow, IsLitBy, IsFresh

\* A frame without a benchmark.
LEMMA RegularFrame ==
    ASSUME NEW g, ArePartsOf(g), Tidy(g.device, g.renderer), g.device.draws = <<>>,
           NEW w \in Worlds, NEW v \in Viewports, NEW camera, camera.transform \in Transforms
    PROVE  LET h == Rendered(g, w, v, camera)
               gl == RasterizerOf(v.display)
           IN  /\ Redraws(g, h) /\ Tidy(h.device, h.renderer) /\ IsFresh(h.device, h.renderer, w)
               /\ v.display.debugDepth /\ h.renderer.shadowCamera # Nothing =>
                     Shows(h.device.draws, <<>>, gl, h.device.shadowMaps, camera)
               /\ ~(v.display.debugDepth /\ h.renderer.shadowCamera # Nothing) =>
                     \E q : ShowsScene(h.device.draws, q, h.device.shadowMaps, h.renderer, w,
                                       v.display, camera)
<1> DEFINE h == Rendered(g, w, v, camera)
           l == LitParts(g, w)
           gl == RasterizerOf(v.display)
           none == <<>>
<1>1. /\ Redraws(g, l) /\ Tidy(l.device, l.renderer) /\ IsFresh(l.device, l.renderer, w)
      /\ \A i \in 1 .. Len(l.device.draws) : l.device.draws[i].target # 0
  BY LitIsTidy
<1>2. /\ Redraws(g, h) /\ SameShadow(h.renderer, l.renderer)
      /\ h.device = AfterFrame(l, w, v, camera)
  BY FrameRenders
<1> HIDE DEF h, l
<1>3. Quiet(l.device)
  BY <1>1 DEF Tidy
<1>4. /\ l.renderer.sorter = g.renderer.sorter /\ h.renderer.sorter = g.renderer.sorter
      /\ g.renderer.sorter \in Sorters
  BY <1>1, <1>2, RedrawnParts DEF ArePartsOf, IsRenderer
<1>5. h.renderer.shadowCamera = l.renderer.shadowCamera
  BY <1>2 DEF SameShadow
<1>6. CASE v.display.debugDepth /\ l.renderer.shadowCamera # Nothing
  <2> DEFINE e == DepthDrawn(l.device, l.renderer.shadowMap, camera, w)
  <2>1. h.device = e
    BY <1>2, <1>6 DEF AfterFrame
  <2>2. /\ Quiet(e) /\ Stays(l.device, e)
        /\ Shows(e.draws, none, gl, h.device.shadowMaps, camera)
    BY <1>1, <1>3, DepthShows
  <2> HIDE DEF e, none
  <2>3. Tidy(h.device, h.renderer) /\ IsFresh(h.device, h.renderer, w)
    BY <1>1, <1>2, <2>1, <2>2, TidyStays
  <2> QED
    BY <1>2, <1>5, <1>6, <2>1, <2>2, <2>3 DEF h, none
<1>7. CASE ~(v.display.debugDepth /\ l.renderer.shadowCamera # Nothing)
  <2> DEFINE grid == ~v.display.debugDepth /\ v.showGrid
             e == SceneDrawn(l, w, camera, v.display, grid)
             q == QueueOf(l, w, camera, v.display)
  <2>1. h.device = e
    BY <1>2, <1>7 DEF AfterFrame
  <2>2. l.renderer.shadowCamera # Nothing /\ l.renderer.shadowMap # 0
           => l.renderer.shadowMap \in DOMAIN l.device.shadowMaps
    BY <1>1 DEF Tidy, HasOne
  <2> HIDE DEF grid
  <2>3. /\ Quiet(e) /\ Stays(l.device, e)
        /\ Shows(e.draws, q, gl, l.device.shadowMaps, camera)
        /\ HoldsSections(q, w.visible \cap w.loaded, camera, v.display, w, l.renderer)
        /\ IsInOrder(q, v.display, l.renderer.sorter)
    BY <1>1, <1>3, <1>4, <2>2, SceneShows
  <2> HIDE DEF e, q, gl
  <2>4. /\ Tidy(h.device, h.renderer) /\ IsFresh(h.device, h.renderer, w)
        /\ h.device.shadowMaps = l.device.shadowMaps
    BY <1>1, <1>2, <2>1, <2>3, TidyStays
  <2>5. SameShadow(l.renderer, h.renderer)
    BY <1>2 DEF SameShadow
  <2>6. HoldsSections(q, w.visible \cap w.loaded, camera, v.display, w, h.renderer)
    BY <2>3, <2>5, SameSubmissions
  <2>7. ShowsScene(h.device.draws, q, h.device.shadowMaps, h.renderer, w, v.display, camera)
    BY <1>4, <2>1, <2>3, <2>4, <2>6 DEF ShowsScene, gl
  <2> QED
    BY <1>2, <1>5, <1>7, <2>4, <2>7 DEF h
<1> QED
  BY <1>6, <1>7

\* A frame of a benchmark; none is drawn at the end of a phase.
LEMMA FrameOfBenchmark ==
    ASSUME NEW b, NEW what, NEW at, BooksAreRight(b, what, at), b.bench.active,
           Tidy(b.device, b.renderer), IsLitBy(b.device, b.renderer), b.device.draws = <<>>,
           NEW w \in Worlds, NEW v \in Viewports
    PROVE  LET u == UpdatedBenchmark(b, w, v)
               display == [v.display EXCEPT !.sortMeshes = b.bench.sorted]
           IN  /\ Tidy(u.device, u.renderer) /\ IsLitBy(u.device, u.renderer)
               /\ SameShadow(u.renderer, b.renderer) /\ u.device.shadowMaps = b.device.shadowMaps
               /\ IsDone(b) => u.device.draws = <<>>
               /\ ~IsDone(b) =>
                     \E q, camera :
                        ShowsScene(u.device.draws, q, b.device.shadowMaps, b.renderer, w,
                                   display, camera)
<1> DEFINE u == UpdatedBenchmark(b, w, v)
           display == [v.display EXCEPT !.sortMeshes = b.bench.sorted]
<1>1. SameShadow(u.renderer, b.renderer) /\ u.device = BenchmarkFrame(b, w, v)
  BY BenchmarkGoesOn
<1> HIDE DEF u, display
<1>2. CASE IsDone(b)
  <2>1. u.device = b.device
    BY <1>1, <1>2 DEF BenchmarkFrame
  <2>2. Tidy(u.device, u.renderer) /\ IsLitBy(u.device, u.renderer)
    BY <1>1, <2>1 DEF SameShadow, Tidy, IsLitBy
  <2> QED
    BY <1>1, <1>2, <2>1, <2>2 DEF u
<1>3. CASE ~IsDone(b)
  <2> DEFINE p == PlaceCamera(b, v)
             camera == p.cameras[Selected(v, p.cameras)]
             e == SceneDrawn(p, w, camera, display, v.showGrid)
             q == QueueOf(p, w, camera, display)
  <2>1. u.device = e
    BY <1>1, <1>3 DEF BenchmarkFrame, display
  <2>2. BooksAreRight(p, what, at) /\ p.renderer = b.renderer /\ p.device = b.device
    BY Placed
  <2> HIDE DEF p
  <2>3. ArePartsOf(p)
    BY <2>2 DEF BooksAreRight
  <2>4. camera.transform \in Transforms /\ p.renderer.sorter \in Sorters
    BY <2>3, SelectedIs DEF ArePartsOf, IsRenderer
  <2> HIDE DEF camera
  <2>5. /\ Quiet(p.device) /\ p.device.draws = <<>>
        /\ \A i \in 1 .. Len(p.device.draws) : p.device.draws[i].target # 0
        /\ p.renderer.shadowCamera # Nothing /\ p.renderer.shadowMap # 0
             => p.renderer.shadowMap \in DOMAIN p.device.shadowMaps
    BY <2>2 DEF Tidy, HasOne
  <2>6. /\ Quiet(e) /\ Stays(p.device, e)
        /\ Shows(e.draws, q, RasterizerOf(display), p.device.shadowMaps, camera)
        /\ HoldsSections(q, w.visible \cap w.loaded, camera, display, w, p.renderer)
        /\ IsInOrder(q, display, p.renderer.sorter)
    BY <2>4, <2>5, SceneShows
  <2> HIDE DEF e, q
  <2>7. /\ Tidy(u.device, u.renderer) /\ IsLitBy(u.device, u.renderer)
        /\ u.device.shadowMaps = b.device.shadowMaps
    BY <1>1, <2>1, <2>2, <2>6, TidyStays
  <2>8. ShowsScene(u.device.draws, q, b.device.shadowMaps, b.renderer, w, display, camera)
    BY <2>1, <2>2, <2>4, <2>6 DEF ShowsScene
  <2> QED
    BY <1>1, <1>3, <2>7, <2>8 DEF u, display
<1> QED
  BY <1>2, <1>3

-----------------------------------------------------------------------------
(* The invariant of the device and the scene.                               *)

DeviceInv ==
    /\ ViewInv
    /\ world \in Worlds
    /\ Tidy(device, renderer) /\ device.draws = <<>>
    /\ part # "quit" => IsLitBy(device, renderer)
    /\ part = "quit" => renderer.shadowMap = 0 /\ device.meshes = {}

\* The scenes a program has at the start and after it was emptied.
LEMMA WorldBegins == FullWorld \in Worlds /\ EmptyWorld \in Worlds
<1>1. [l \in Lights |-> 0] \in [Lights -> Int]
  OBVIOUS
<1>2. FullWorld \in Worlds
  BY <1>1 DEF FullWorld, Worlds
<1>3. EmptyWorld \in Worlds
  BY <1>2 DEF EmptyWorld, Worlds
<1> QED
  BY <1>2, <1>3

\* The invariant of the device holds at the start.
LEMMA DeviceBegins == RendererInit => DeviceInv
<1> SUFFICES ASSUME RendererInit PROVE DeviceInv
  OBVIOUS
<1>1. ViewInv
  BY ViewBegins
<1>2. world \in Worlds
  BY WorldBegins DEF RendererInit
<1>3. renderer.shadowMap = 0 /\ renderer.shadowCamera = Nothing /\ part = "update"
  BY DEF RendererInit
<1>4. device = NewDevice
  BY DEF RendererInit
<1>5. /\ IsDevice(NewDevice) /\ NewDevice.pass = 0 /\ NewDevice.binding = 0
      /\ NewDevice.gl = NewDevice.rasterizer /\ NewDevice.draws = <<>>
      /\ NewDevice.shadowMaps = << >> /\ NewDevice.next = 1
      /\ NewDevice.meshes = {"grid", "quad"}
  BY DEF NewDevice, IsDevice
<1>6. Tidy(device, renderer) /\ device.draws = <<>>
  BY <1>3, <1>4, <1>5, EmptyListIs DEF Tidy, Quiet, HasOne
<1> QED
  BY <1>1, <1>2, <1>3, <1>6 DEF DeviceInv, IsLitBy

\* A step that leaves the device and the shadow alone keeps the invariant.
LEMMA DeviceStays ==
    ASSUME DeviceInv, ViewInv', world' \in Worlds, device' = device,
           SameShadow(renderer', renderer), part # "quit", part' # "quit"
    PROVE  DeviceInv'
BY DEF DeviceInv, SameShadow, Tidy, HasOne, IsLitBy

\* Update keeps the invariant of the device.
LEMMA UpdateKeepsDevice ==
    ASSUME DeviceInv, Update
    PROVE  DeviceInv'
<1>1. ViewInv'
  BY UpdateKeepsView DEF DeviceInv
<1> QED
  BY <1>1, DeviceStays DEF Update, SameShadow, DeviceInv

\* The menu keeps the invariant of the device.
LEMMA MenuKeepsDevice ==
    ASSUME DeviceInv, OverlayMenu
    PROVE  DeviceInv'
<1>1. ViewInv'
  BY MenuKeepsView DEF DeviceInv
<1> QED
  BY <1>1, DeviceStays DEF OverlayMenu, rendering, SameShadow, DeviceInv

\* Emptying the scene keeps the invariant of the device.
LEMMA ResetKeepsDevice ==
    ASSUME DeviceInv, Reset
    PROVE  DeviceInv'
<1>1. ViewInv'
  BY ResetKeepsView DEF DeviceInv
<1> QED
  BY <1>1, DeviceStays, WorldBegins DEF Reset, rendering, SameShadow, DeviceInv

\* The scene stays a scene.
LEMMA WorldChanges ==
    ASSUME world \in Worlds, ChangeWorld
    PROVE  world' \in Worlds
<1>1. PICK change \in Changes :
        world' = IF change.field = "at" THEN [world EXCEPT !.at[change.of] = 1 - @]
                 ELSE [world EXCEPT ![change.field] = Flip(@, change.of)]
  BY DEF ChangeWorld
<1>2. \/ change.field \in {"visible", "casts", "receives", "loaded"} /\ change.of \in StaticMeshes
      \/ change.field = "resident" /\ change.of \in SceneMaterials
      \/ change.field \in {"enabled", "casting", "at"} /\ change.of \in Lights
  BY FrameRendererAssumption
<1>3. CASE change.field = "at"
  <2> DEFINE at == [world.at EXCEPT ![change.of] = 1 - @]
  <2>1. at \in [Lights -> Int]
    BY <1>2, <1>3 DEF Worlds
  <2>2. world' = [world EXCEPT !.at = at]
    BY <1>1, <1>3
  <2> HIDE DEF at
  <2> QED
    BY <2>1, <2>2 DEF Worlds
<1>4. CASE change.field # "at"
  <2>1. world' = [world EXCEPT ![change.field] = Flip(@, change.of)]
    BY <1>1, <1>4
  <2>2. CASE change.field \in {"visible", "casts", "receives", "loaded"}
    BY <1>2, <2>1, <2>2 DEF Worlds, Flip
  <2>3. CASE change.field = "resident"
    BY <1>2, <2>1, <2>3 DEF Worlds, Flip
  <2>4. CASE change.field \in {"enabled", "casting"}
    BY <1>2, <2>1, <2>4 DEF Worlds, Flip
  <2> QED
    BY <1>2, <1>4, <2>2, <2>3, <2>4
<1> QED
  BY <1>3, <1>4

\* A change of the scene keeps the invariant of the device.
LEMMA InspectorKeepsDevice ==
    ASSUME DeviceInv, Inspector
    PROVE  DeviceInv'
<1>1. ViewInv'
  BY InspectorKeepsView DEF DeviceInv
<1>2. world' \in Worlds
  BY WorldChanges DEF Inspector, DeviceInv
<1> QED
  BY <1>1, <1>2, DeviceStays DEF Inspector, rendering, SameShadow, DeviceInv

\* What starts a benchmark may exchange the sorter.
LEMMA ShadowStays ==
    ASSUME NEW b, ArePartsOf(b), NEW v, NEW n
    PROVE  /\ SameShadow(StartSorting(b, n, v).renderer, b.renderer)
           /\ SameShadow(StartComparing(b, n, v).renderer, b.renderer)
<1>1. ASSUME NEW c, ArePartsOf(c)
      PROVE  StartSorting(c, n, v).renderer = c.renderer
  BY <1>1 DEF StartSorting, ArePartsOf
<1>2. SameShadow(StartComparing(b, n, v).renderer, b.renderer)
  <2> DEFINE c == [active |-> TRUE, index |-> 1, results |-> [i \in DOMAIN SortModes |-> NoResult],
                   savedMode |-> b.renderer.sorter.mode, iterations |-> n]
             r == SetSortMode(b.renderer, SortModes[1])
             d == [b EXCEPT !.comp = c, !.renderer = r]
  <2>1. CASE b.comp.active
    BY <2>1 DEF StartComparing, SameShadow
  <2>2. CASE ~b.comp.active
    <3>1. StartComparing(b, n, v) = StartSorting(d, n, v)
      BY <2>2 DEF StartComparing
    <3>2. SameShadow(r, b.renderer)
      <4>1. IsRenderer(b.renderer) /\ SortModes[1] \in SorterModes
        BY SortModesAre DEF ArePartsOf
      <4> QED
        BY <4>1, ModeIsSet DEF SameShadow
    <3> HIDE DEF c, r
    <3>3. d.renderer = r /\ d.bench = b.bench /\ StartSorting(d, n, v).renderer = d.renderer
      BY DEF StartSorting, ArePartsOf
    <3> QED
      BY <3>1, <3>2, <3>3
  <2> QED
    BY <2>1, <2>2
<1> QED
  BY <1>1, <1>2 DEF SameShadow

\* The Tools panel keeps the invariant of the device.
LEMMA ToolsKeepDevice ==
    ASSUME DeviceInv, ToolsPanel
    PROVE  DeviceInv'
<1>1. ViewInv' /\ ViewInv
  BY ToolsKeepView DEF DeviceInv
<1>2. /\ IsRenderer(renderer) /\ bench \in Benches /\ comp \in Comparisons /\ AreCameras(cameras)
  BY <1>1, TypesNow
<1>3. panel.bins \in Nat \ {0}
  BY <1>1 DEF ViewInv
<1>4. ASSUME NEW r, IsRenderer(r), SameShadow(r, renderer), NEW bins \in Nat \ {0}
      PROVE  IsRenderer(Synced(r, bins)) /\ SameShadow(Synced(r, bins), renderer)
  BY <1>4, SyncedIs DEF SameShadow
<1>5. SameShadow(renderer, renderer)
  BY DEF SameShadow
<1>6. ASSUME renderer' = Synced(renderer, panel.bins)
      PROVE  SameShadow(renderer', renderer)
  BY <1>2, <1>3, <1>4, <1>5, <1>6
<1>7. ASSUME NEW mode \in Range(SortModes),
             renderer' = Synced(SetSortMode(renderer, mode), panel.bins)
      PROVE  SameShadow(renderer', renderer)
  <2>1. mode \in SorterModes
    BY <1>7, SortModesAre
  <2>2. IsRenderer(SetSortMode(renderer, mode)) /\ SameShadow(SetSortMode(renderer, mode), renderer)
    BY <1>2, <2>1, ModeIsSet DEF SameShadow
  <2> QED
    BY <1>3, <1>4, <1>7, <2>2
<1>8. ASSUME panel' \in [iterations : Int, bins : Nat \ {0}],
             renderer' = Synced(renderer, panel'.bins)
      PROVE  SameShadow(renderer', renderer)
  BY <1>2, <1>4, <1>5, <1>8
<1>9. ASSUME StartBenchmark
      PROVE  SameShadow(renderer', renderer)
  <2> DEFINE r == Synced(renderer, panel.bins)
             b == [bench |-> bench, comp |-> comp, cameras |-> cameras, device |-> device,
                   renderer |-> r]
  <2>1. IsRenderer(r) /\ SameShadow(r, renderer)
    BY <1>2, <1>3, <1>4, <1>5
  <2>2. PICK s \in {StartSorting(b, IterationCount, viewport),
                    StartComparing(b, IterationCount, viewport)} : renderer' = s.renderer
    BY <1>9 DEF StartBenchmark
  <2> HIDE DEF r
  <2>3. ArePartsOf(b) /\ b.renderer = r
    BY <1>2, <2>1 DEF ArePartsOf
  <2> HIDE DEF b
  <2>4. SameShadow(s.renderer, b.renderer)
    BY <2>2, <2>3, ShadowStays
  <2> QED
    BY <2>1, <2>2, <2>3, <2>4 DEF SameShadow
<1>10. SameShadow(renderer', renderer)
  <2>1. panel' \in [iterations : Int, bins : Nat \ {0}]
    BY <1>1 DEF ViewInv
  <2> QED
    BY <1>6, <1>7, <1>8, <1>9, <2>1 DEF ToolsPanel
<1> QED
  BY <1>1, <1>10, DeviceStays DEF ToolsPanel, DeviceInv

\* The draws of a frame are taken out of the device.
LEMMA DrawsAreTaken ==
    ASSUME NEW d, NEW r, Tidy(d, r)
    PROVE  LET e == [d EXCEPT !.draws = <<>>]
           IN  Tidy(e, r) /\ e.draws = <<>> /\ e.shadowMaps = d.shadowMaps /\ Stays(d, e)
<1> DEFINE none == <<>>
           e == [d EXCEPT !.draws = none]
<1>1. IsList(none)
  BY EmptyListIs
<1> HIDE DEF none
<1>2. /\ IsDevice(e) /\ Stays(d, e) /\ e.pass = d.pass /\ e.binding = d.binding /\ e.gl = d.gl
      /\ e.rasterizer = d.rasterizer /\ e.draws = none
  BY DEF Tidy, Quiet, IsDevice, Stays
<1> HIDE DEF e
<1>3. Quiet(e)
  BY <1>1, <1>2 DEF Tidy, Quiet
<1>4. SameShadow(r, r)
  BY DEF SameShadow
<1>5. Tidy(e, r) /\ e.shadowMaps = d.shadowMaps
  BY <1>2, <1>3, <1>4, TidyStays
<1> QED
  BY <1>2, <1>5 DEF e, none

\* What a frame without a benchmark shows, and what it leaves.
LEMMA PanelShows ==
    ASSUME DeviceInv, NEW size \in Resolutions, ViewportPanel(size), ~bench.active
    PROVE  LET v == viewport'
               camera == cameras'[Selected(v, cameras')]
           IN  /\ Tidy(device', renderer') /\ device'.draws = <<>>
               /\ IsFresh(device', renderer', world)
               /\ AreCameras(cameras') /\ IsProjected(camera, v) /\ v \in Viewports
               /\ renderer'.sorter = renderer.sorter
               /\ v.display.debugDepth /\ renderer'.shadowCamera # Nothing =>
                     Shows(frame', <<>>, RasterizerOf(v.display), device'.shadowMaps, camera)
               /\ ~(v.display.debugDepth /\ renderer'.shadowCamera # Nothing) =>
                     \E q : ShowsScene(frame', q, device'.shadowMaps, renderer', world,
                                       v.display, camera)
<1> DEFINE v == viewport'
           g == PartsIn(v)
           camera == g.cameras[Selected(v, g.cameras)]
           h == Rendered(g, world, v, camera)
           f == NextFrame(g, world, v)
           e == [h.device EXCEPT !.draws = <<>>]
           none == <<>>
<1>1. v \in Viewports /\ Present(f) /\ Redraws(g, f)
  BY PanelDraws DEF DeviceInv
<1>2. /\ ArePartsOf(g) /\ g.bench = bench /\ g.renderer = renderer
      /\ g.device = [device EXCEPT !.draws = <<>>]
      /\ AreCameras(g.cameras)
      /\ IsProjected(camera, v)
  BY <1>1, PartsInAre DEF DeviceInv, BooksAreRight
<1>3. f = h
  BY <1>2 DEF NextFrame
<1>4. Tidy(g.device, g.renderer) /\ g.device.draws = <<>>
  BY <1>2, DrawsAreTaken DEF DeviceInv
<1>5. camera.transform \in Transforms
  BY <1>1, <1>2, SelectedIs
<1>6. world \in Worlds
  BY DEF DeviceInv
<1> HIDE DEF g, camera, f
<1>7. /\ Redraws(g, h) /\ Tidy(h.device, h.renderer) /\ IsFresh(h.device, h.renderer, world)
      /\ v.display.debugDepth /\ h.renderer.shadowCamera # Nothing =>
            Shows(h.device.draws, none, RasterizerOf(v.display), h.device.shadowMaps, camera)
      /\ ~(v.display.debugDepth /\ h.renderer.shadowCamera # Nothing) =>
            \E q : ShowsScene(h.device.draws, q, h.device.shadowMaps, h.renderer, world,
                              v.display, camera)
  BY <1>1, <1>2, <1>4, <1>5, <1>6, RegularFrame
<1>8. h.cameras = g.cameras /\ h.renderer.sorter = g.renderer.sorter
  BY <1>2, <1>7, RedrawnParts
<1> HIDE DEF h
<1>9. /\ cameras' = h.cameras /\ renderer' = h.renderer /\ frame' = h.device.draws
      /\ device' = e
  BY <1>1, <1>3 DEF Present
<1>10. /\ Tidy(e, h.renderer) /\ e.draws = none /\ e.shadowMaps = h.device.shadowMaps
  BY <1>7, DrawsAreTaken
<1> HIDE DEF e
<1>11. IsFresh(e, h.renderer, world)
  BY <1>7, <1>10 DEF IsFresh
<1>12. camera = cameras'[Selected(v, cameras')]
  BY <1>8, <1>9 DEF camera
<1> HIDE DEF v, none
<1>13. /\ Tidy(device', renderer') /\ device'.draws = none /\ IsFresh(device', renderer', world)
       /\ renderer'.sorter = renderer.sorter /\ AreCameras(cameras')
       /\ v.display.debugDepth /\ renderer'.shadowCamera # Nothing =>
             Shows(frame', none, RasterizerOf(v.display), device'.shadowMaps, camera)
       /\ ~(v.display.debugDepth /\ renderer'.shadowCamera # Nothing) =>
            \E q : ShowsScene(frame', q, device'.shadowMaps, renderer', world,
                              v.display, camera)
  BY <1>2, <1>7, <1>8, <1>9, <1>10, <1>11
<1> QED
  BY <1>1, <1>2, <1>12, <1>13 DEF v, none

\* What a frame of a benchmark shows.
LEMMA BenchmarkShows ==
    ASSUME DeviceInv, part # "quit", NEW size \in Resolutions, ViewportPanel(size), bench.active
    PROVE  /\ Tidy(device', renderer') /\ device'.draws = <<>> /\ IsLitBy(device', renderer')
           /\ frame' = <<>> \/
                 \E q, camera :
                    ShowsScene(frame', q, device.shadowMaps, renderer, world,
                               [viewport'.display EXCEPT !.sortMeshes = bench.sorted], camera)
<1> DEFINE v == viewport'
           g == PartsIn(v)
           u == UpdatedBenchmark(g, world, v)
           f == NextFrame(g, world, v)
           e == [u.device EXCEPT !.draws = <<>>]
           none == <<>>
           display == [v.display EXCEPT !.sortMeshes = bench.sorted]
<1>1. v \in Viewports /\ Present(f)
  BY PanelDraws DEF DeviceInv
<1>2. /\ BooksAreRight(g, touched, home) /\ g.bench = bench /\ g.renderer = renderer
      /\ g.device = [device EXCEPT !.draws = <<>>]
  BY <1>1, PartsInAre DEF DeviceInv
<1>3. f = u
  BY <1>2 DEF NextFrame
<1>4. /\ Tidy(g.device, g.renderer) /\ g.device.draws = none
      /\ g.device.shadowMaps = device.shadowMaps
  BY <1>2, DrawsAreTaken DEF DeviceInv
<1>5. world \in Worlds /\ IsLitBy(g.device, g.renderer)
  BY <1>2, <1>4 DEF DeviceInv, IsLitBy
<1> HIDE DEF g, f
<1>6. /\ Tidy(u.device, u.renderer) /\ IsLitBy(u.device, u.renderer)
      /\ IsDone(g) => u.device.draws = none
      /\ ~IsDone(g) =>
            \E q, camera :
               ShowsScene(u.device.draws, q, device.shadowMaps, renderer, world, display, camera)
  BY <1>1, <1>2, <1>4, <1>5, FrameOfBenchmark
<1> HIDE DEF u
<1>7. renderer' = u.renderer /\ frame' = u.device.draws /\ device' = e
  BY <1>1, <1>3 DEF Present
<1>8. Tidy(e, u.renderer) /\ e.draws = none /\ e.shadowMaps = u.device.shadowMaps
  BY <1>6, DrawsAreTaken
<1> HIDE DEF e
<1>9. IsLitBy(e, u.renderer)
  BY <1>6, <1>8 DEF IsLitBy
<1>10. Tidy(device', renderer') /\ device'.draws = none /\ IsLitBy(device', renderer')
  BY <1>7, <1>8, <1>9
<1> HIDE DEF display, v
<1>11. frame' = none \/ \E q, camera :
          ShowsScene(frame', q, device.shadowMaps, renderer, world, display, camera)
  BY <1>6, <1>7
<1> QED
  BY <1>10, <1>11 DEF v, display

\* A frame keeps the invariant of the device, whatever it shows.
LEMMA PanelKeepsDevice ==
    ASSUME DeviceInv, NEW size \in Resolutions, ViewportPanel(size)
    PROVE  DeviceInv'
<1>1. ViewInv'
  BY PanelKeepsView DEF DeviceInv
<1>2. part = "viewport" /\ part' = "menu" /\ world' = world
  BY DEF ViewportPanel
<1>3. Tidy(device', renderer') /\ device'.draws = <<>> /\ IsLitBy(device', renderer')
  <2>1. CASE bench.active
    BY <1>2, <2>1, BenchmarkShows
  <2>2. CASE ~bench.active
    <3>1. /\ Tidy(device', renderer') /\ device'.draws = <<>>
          /\ IsFresh(device', renderer', world)
      BY <2>2, PanelShows
    <3>2. IsLitBy(device', renderer')
      <4>1. world \in Worlds
        BY DEF DeviceInv
      <4>2. renderer'.shadowCamera # Nothing =>
               MapOf(renderer'.shadowCamera, CastersOf(world)) \in ShadowMaps
        BY <3>1, <4>1, LightIs DEF IsFresh
      <4>3. MapOf(renderer'.shadowCamera, CastersOf(world)).from = renderer'.shadowCamera
        BY DEF MapOf
      <4> QED
        BY <3>1, <4>2, <4>3 DEF IsLitBy, IsFresh
    <3> QED
      BY <3>1, <3>2
  <2> QED
    BY <2>1, <2>2
<1> QED
  BY <1>1, <1>2, <1>3 DEF DeviceInv

\* The shadow map is given back at the end.
LEMMA QuitKeepsDevice ==
    ASSUME DeviceInv, Quit
    PROVE  DeviceInv' /\ device'.shadowMaps = << >>
<1>1. ViewInv'
  BY QuitKeepsView DEF DeviceInv
<1> DEFINE handle == renderer.shadowMap
           a == DeleteShadowMap(device, handle)
           none == << >>
           maps == Restrict(device.shadowMaps, DOMAIN device.shadowMaps \ {handle})
           d == [a EXCEPT !.materials = @ \ {"shadow"}]
           e == [d EXCEPT !.meshes = @ \ {"grid", "quad"}, !.materials = @ \ {"depth"}]
           g == [device |-> device, renderer |-> renderer]
<1>2. device' = e /\ renderer' = [renderer EXCEPT !.shadowMap = 0] /\ part' = "quit"
      /\ world' = world
  <2>1. ReleaseShadowMapResources(g).device = d
    BY DEF ReleaseShadowMapResources, WithoutShadowMap
  <2> HIDE DEF d, g
  <2>2. device' = e
    BY <2>1 DEF Quit, g
  <2> QED
    BY <2>2 DEF Quit
<1>3. Tidy(device, renderer) /\ device.draws = <<>>
  BY DEF DeviceInv
<1>4. renderer'.shadowMap = 0
  <2>1. IsRenderer(renderer)
    BY TypesNow DEF DeviceInv
  <2> QED
    BY <1>2, <2>1 DEF IsRenderer
<1>5. /\ IsDevice(a) /\ a.pass = 0 /\ a.binding = 0 /\ a.gl = a.rasterizer
      /\ a.next = device.next /\ a.draws = device.draws /\ a.meshes = device.meshes
      /\ a.shadowMaps = none
  <2>1. CASE handle = 0
    <3>1. a = device
      BY <1>3, <2>1 DEF DeleteShadowMap, HasShadowMap, Tidy, HasOne
    <3> QED
      BY <1>3, <2>1, <3>1 DEF Tidy, Quiet
  <2>2. CASE handle # 0
    <3>1. a = [device EXCEPT !.shadowMaps = maps]
      BY <1>3, <2>2 DEF DeleteShadowMap, HasShadowMap, Tidy, HasOne, Quiet
    <3>2. DOMAIN device.shadowMaps \ {handle} = {}
      BY <1>3 DEF Tidy, HasOne
    <3>3. maps = none
      BY <3>2 DEF Restrict
    <3> HIDE DEF a, maps, none
    <3> QED
      BY <1>3, <3>1, <3>3 DEF Tidy, Quiet, IsDevice
  <2> QED
    BY <2>1, <2>2
<1> HIDE DEF a
<1>6. /\ IsDevice(d) /\ d.pass = 0 /\ d.binding = 0 /\ d.gl = d.rasterizer
      /\ d.next = device.next /\ d.draws = device.draws /\ d.meshes = device.meshes
      /\ d.shadowMaps = none
  BY <1>5 DEF IsDevice
<1> HIDE DEF d
<1>7. /\ IsDevice(e) /\ e.pass = 0 /\ e.binding = 0 /\ e.gl = e.rasterizer
      /\ e.next = device.next /\ e.draws = device.draws
      /\ e.meshes = device.meshes \ {"grid", "quad"} /\ e.shadowMaps = none
  BY <1>6 DEF IsDevice
<1> HIDE DEF e
<1>8. e.meshes = {}
  BY <1>3, <1>7 DEF Tidy
<1>9. Quiet(e)
  BY <1>3, <1>7 DEF Tidy, Quiet
<1>10. HasOne(e, 0)
  BY <1>3, <1>7 DEF Tidy, HasOne, none
<1>11. Tidy(device', renderer') /\ device'.draws = <<>>
  BY <1>2, <1>3, <1>4, <1>7, <1>8, <1>9, <1>10 DEF Tidy, none
<1> QED
  BY <1>1, <1>2, <1>4, <1>7, <1>8, <1>11 DEF DeviceInv, none

\* Every step keeps the invariant of the device.
LEMMA DeviceKept == DeviceInv /\ [RendererNext]_rendererVars => DeviceInv'
<1>1. DeviceInv /\ UNCHANGED rendererVars => DeviceInv'
  BY StutterKeepsView DEF DeviceInv, rendererVars, rendering
<1> QED
  BY <1>1, UpdateKeepsDevice, PanelKeepsDevice, MenuKeepsDevice, ToolsKeepDevice,
     InspectorKeepsDevice, ResetKeepsDevice, QuitKeepsDevice DEF RendererNext, Tick

\* Between frames the device is tidy, with the renderer's shadow map alone.
THEOREM DeviceInvariant == RendererSpec => []DeviceInv
BY DeviceBegins, DeviceKept, PTL DEF RendererSpec

-----------------------------------------------------------------------------
(* What the frames show.                                                    *)

\* A frame is drawn by the viewport panel.
LEMMA FramesAre ==
    ASSUME RendererNext, FrameDrawn
    PROVE  \E size \in Resolutions : ViewportPanel(size)
BY DEF RendererNext, Tick, FrameDrawn, Update, OverlayMenu, ToolsPanel, Inspector, Reset, Quit

\* A draw of a mesh has the renderer's shadow if the mesh receives one.
IsShadowed(d, m, w, r, maps) ==
    LET shadowed == r.shadowCamera # Nothing /\ m \in w.receives /\ r.shadowMap # 0
    IN  /\ shadowed => d.shadow = r.shadowCamera /\ d.sampled = maps[r.shadowMap]
        /\ ~shadowed => d.shadow = Nothing

\* A draw of the scene and the submission it is of.
IsDrawOf(d, s, maps, r, w, display, camera) ==
    /\ s.mesh \in w.visible \cap w.loaded /\ s.mesh \in StaticMeshes
    /\ s.section \in DrawnSections(s.mesh, camera, display)
    /\ s.material = SectionsOf[s.mesh][s.section].material
    /\ s.material \in w.resident
    /\ s.depth = EstimateSortDepth(s.mesh, camera)
    /\ d.what.mesh = s.mesh /\ d.what.section = s.section /\ d.material = s.material
    /\ d.gl = RasterizerOf(display)
    /\ d.view.from = camera.transform /\ d.view.projection = camera.cached
    /\ IsShadowed(d, s.mesh, w, r, maps)

\* Each draw of the scene is that of a submission.
LEMMA ShownIs ==
    ASSUME NEW f, NEW q, NEW maps, NEW r, NEW w \in Worlds, NEW display, NEW camera,
           ShowsScene(f, q, maps, r, w, display, camera), NEW n \in 1 .. Len(q)
    PROVE  IsDrawOf(SceneDraws(f)[n], q[n], maps, r, w, display, camera)
<1> DEFINE M == w.visible \cap w.loaded
           gl == RasterizerOf(display)
           d == SceneDraws(f)[n]
           s == q[n]
<1>1. HoldsSections(q, M, camera, display, w, r) /\ Shows(f, q, gl, maps, camera)
  BY DEF ShowsScene
<1>2. M \subseteq StaticMeshes
  BY DEF Worlds
<1>3. d = DrawOf(s, gl, maps, camera)
  BY <1>1 DEF Shows
<1>4. Submits(s, M, camera, display, w, r) /\ s.material \in w.resident
  BY <1>1 DEF HoldsSections
<1>5. PICK m \in M : \E i \in DrawnSections(m, camera, display) :
                        s = Submission(m, i, camera, display, w, r)
  BY <1>4 DEF Submits
<1>6. /\ s.mesh \in M /\ s.section \in DrawnSections(s.mesh, camera, display)
      /\ s.material = SectionsOf[s.mesh][s.section].material
      /\ s.depth = EstimateSortDepth(s.mesh, camera) /\ s.shadow = ShadowOf(s.mesh, w, r)
  BY <1>5, SubmissionIs
<1> HIDE DEF s, gl, M
<1>7. /\ d.what.mesh = s.mesh /\ d.what.section = s.section /\ d.material = s.material
      /\ d.gl = gl /\ d.view.from = camera.transform /\ d.view.projection = camera.cached
  BY <1>3 DEF DrawOf, ViewOf
<1>8. /\ s.shadow.enabled = (r.shadowCamera # Nothing /\ s.mesh \in w.receives /\ r.shadowMap # 0)
      /\ s.shadow.handle = r.shadowMap /\ s.shadow.from = r.shadowCamera
  BY <1>6 DEF ShadowOf
<1>9. /\ d.shadow = IF s.shadow.enabled THEN s.shadow.from ELSE Nothing
      /\ d.sampled = IF s.shadow.enabled THEN maps[s.shadow.handle] ELSE Nothing
  BY <1>3 DEF DrawOf
<1>10. IsShadowed(d, s.mesh, w, r, maps)
  BY <1>8, <1>9 DEF IsShadowed
<1> QED
  BY <1>2, <1>4, <1>6, <1>7, <1>10 DEF IsDrawOf, s, gl, M

\* The draws of the scene are those of the queue's submissions.
LEMMA DrawsAre ==
    ASSUME NEW f, NEW q, NEW gl, NEW maps, NEW camera, Shows(f, q, gl, maps, camera)
    PROVE  /\ Len(q) \in Nat /\ DOMAIN SceneDraws(f) = 1 .. Len(q) /\ Len(SceneDraws(f)) = Len(q)
           /\ \A d \in Range(SceneDraws(f)) : \E n \in 1 .. Len(q) : d = SceneDraws(f)[n]
           /\ \A n \in 1 .. Len(q) : SceneDraws(f)[n] \in Range(SceneDraws(f))
BY DEF Shows, Range

\* Without a queue nothing of the scene is drawn.
LEMMA NothingIsShown ==
    ASSUME NEW f, NEW gl, NEW maps, NEW camera, Shows(f, <<>>, gl, maps, camera)
    PROVE  Range(SceneDraws(f)) = {} /\ Len(SceneDraws(f)) = 0 /\ DOMAIN SceneDraws(f) = {}
BY DEF Shows, Range

\* A frame without draws shows nothing of the scene.
LEMMA NoFrameShows == Range(SceneDraws(<<>>)) = {} /\ DOMAIN SceneDraws(<<>>) = {}
<1> DEFINE S == {n \in DOMAIN <<>> : <<>>[n].target = 0 /\ <<>>[n].what.mesh \in StaticMeshes}
<1>1. S = {}
  OBVIOUS
<1>2. SceneDraws(<<>>) = Picked(<<>>, {})
  BY <1>1 DEF SceneDraws
<1>3. IsFiniteSet({}) /\ Cardinality({}) = 0
  BY FS_EmptySet
<1>4. PICK e : IsPicked(Picked(<<>>, {}), <<>>, {}, e)
  BY <1>3, PickedIs
<1>5. DOMAIN Picked(<<>>, {}) = 1 .. 0
  BY <1>3, <1>4 DEF IsPicked
<1> QED
  BY <1>2, <1>5 DEF Range

\* The shadows of a frame, regular or of the benchmark.
LEMMA ShadowsAre ==
    ASSUME DeviceInv, NEW size \in Resolutions, ViewportPanel(size),
           NEW d \in Range(SceneDraws(frame'))
    PROVE  /\ d.shadow # Nothing => d.sampled # Nothing /\ d.sampled.from = d.shadow
           /\ ~bench.active =>
                 /\ (d.shadow # Nothing) <=>
                       (CollectShadowCamera(world) # Nothing /\ d.what.mesh \in world.receives)
                 /\ d.shadow # Nothing =>
                       d.sampled = [from |-> CollectShadowCamera(world),
                                    casters |-> world.visible \intersect world.loaded
                                                   \intersect world.casts]
<1> DEFINE light == CollectShadowCamera(world)
           camera == cameras'[Selected(viewport', cameras')]
<1>1. world \in Worlds
  BY DEF DeviceInv
<1>2. CASE bench.active
  <2>1. part # "quit" /\ frame' # <<>>
    BY NoFrameShows DEF ViewportPanel
  <2> DEFINE display == [viewport'.display EXCEPT !.sortMeshes = bench.sorted]
  <2>2. PICK q, eye : ShowsScene(frame', q, device.shadowMaps, renderer, world, display, eye)
    BY <1>2, <2>1, BenchmarkShows
  <2> HIDE DEF display
  <2>3. PICK n \in 1 .. Len(q) : d = SceneDraws(frame')[n]
    BY <2>2, DrawsAre DEF ShowsScene
  <2>4. IsShadowed(d, q[n].mesh, world, renderer, device.shadowMaps)
    <3>1. IsDrawOf(SceneDraws(frame')[n], q[n], device.shadowMaps, renderer, world, display, eye)
      BY <1>1, <2>2, ShownIs
    <3> QED
      BY <2>3, <3>1 DEF IsDrawOf
  <2>5. renderer.shadowCamera # Nothing =>
           /\ device.shadowMaps[renderer.shadowMap].from = renderer.shadowCamera
           /\ device.shadowMaps[renderer.shadowMap] # Nothing
    BY <2>1, NothingIsNoMap DEF DeviceInv, IsLitBy
  <2> QED
    BY <1>2, <2>4, <2>5 DEF IsShadowed
<1>3. CASE ~bench.active
  <2>1. /\ IsFresh(device', renderer', world)
        /\ viewport'.display.debugDepth /\ renderer'.shadowCamera # Nothing =>
             Shows(frame', <<>>, RasterizerOf(viewport'.display), device'.shadowMaps, camera)
        /\ ~(viewport'.display.debugDepth /\ renderer'.shadowCamera # Nothing) =>
             \E q : ShowsScene(frame', q, device'.shadowMaps, renderer', world,
                               viewport'.display, camera)
    BY <1>3, PanelShows
  <2>2. ~(viewport'.display.debugDepth /\ renderer'.shadowCamera # Nothing)
    BY <2>1, NothingIsShown
  <2>3. PICK q, eye : ShowsScene(frame', q, device'.shadowMaps, renderer', world,
                                 viewport'.display, eye)
    BY <2>1, <2>2
  <2>4. PICK n \in 1 .. Len(q) : d = SceneDraws(frame')[n]
    BY <2>3, DrawsAre DEF ShowsScene
  <2>5. /\ IsShadowed(d, q[n].mesh, world, renderer', device'.shadowMaps)
        /\ d.what.mesh = q[n].mesh
    <3>1. IsDrawOf(SceneDraws(frame')[n], q[n], device'.shadowMaps, renderer', world,
                   viewport'.display, eye)
      BY <1>1, <2>3, ShownIs
    <3> QED
      BY <2>4, <3>1 DEF IsDrawOf
  <2>6. /\ renderer'.shadowCamera = light
        /\ light # Nothing =>
              /\ renderer'.shadowMap # 0
              /\ device'.shadowMaps[renderer'.shadowMap] = MapOf(light, CastersOf(world))
    BY <2>1 DEF IsFresh
  <2>7. /\ light # Nothing /\ d.what.mesh \in world.receives =>
              d.shadow = light /\ d.sampled = MapOf(light, CastersOf(world))
        /\ ~(light # Nothing /\ d.what.mesh \in world.receives) => d.shadow = Nothing
    BY <2>5, <2>6 DEF IsShadowed
  <2> DEFINE map == MapOf(light, CastersOf(world))
  <2>8. map.from = light
    BY DEF MapOf
  <2>9. map = [from |-> light, casters |-> world.visible \intersect world.loaded
                                              \intersect world.casts]
    BY DEF MapOf, CastersOf
  <2> HIDE DEF map
  <2>10. d.shadow # Nothing => d.shadow = light /\ d.sampled = map
    BY <2>7 DEF map
  <2>11. d.shadow # Nothing => d.sampled # Nothing /\ d.sampled.from = d.shadow
    <3>1. light # Nothing => map # Nothing
      BY <1>1, NothingIsNoMap, LightIs DEF map
    <3> QED
      BY <2>7, <2>8, <2>10, <3>1
  <2> HIDE DEF light
  <2>12. (d.shadow # Nothing) <=> (light # Nothing /\ d.what.mesh \in world.receives)
    BY <2>7
  <2> QED
    BY <2>9, <2>10, <2>11, <2>12 DEF light
<1> QED
  BY <1>2, <1>3

\* What the invariant says of the types and of the shadow map.
LEMMA DeviceTypes == DeviceInv => RendererTypeOK /\ ShadowMapOwned
<1> SUFFICES ASSUME DeviceInv PROVE RendererTypeOK /\ ShadowMapOwned
  OBVIOUS
<1>1. /\ part \in {"update", "viewport", "menu", "tools", "inspector", "quit"}
      /\ events \in 0 .. MaxEvents /\ viewport \in Viewports
      /\ AreCameras(cameras) /\ IsRenderer(renderer)
  BY NowIs DEF DeviceInv, ViewInv, BooksAreRight
<1>2. viewport.view \in Views /\ viewport.mode \in Modes
  BY <1>1 DEF Viewports
<1>3. Local \in DOMAIN cameras /\ DOMAIN cameras \subseteq SceneCameras \union {Local}
  BY <1>1 DEF AreCameras
<1>4. renderer.sorter.mode \in Range(SortModes)
  <2>1. renderer.sorter.mode \in SorterModes
    BY <1>1 DEF IsRenderer, Sorters
  <2> QED
    BY <2>1, SortModesAre
<1>5. world.visible \subseteq StaticMeshes /\ world.resident \subseteq SceneMaterials
  BY DEF DeviceInv, Worlds
<1>6. RendererTypeOK
  BY <1>1, <1>2, <1>3, <1>4, <1>5 DEF RendererTypeOK
<1>7. /\ device.pass = 0 /\ device.binding = 0 /\ device.gl = device.rasterizer
      /\ DOMAIN device.shadowMaps = {renderer.shadowMap} \ {0}
      /\ renderer.shadowMap = 0 => device.shadowMaps = << >>
      /\ part = "quit" => renderer.shadowMap = 0 /\ device.meshes = {}
  BY DEF DeviceInv, Tidy, Quiet, HasOne
<1> QED
  BY <1>6, <1>7 DEF ShadowMapOwned

\* A draw that samples the shadow map finds there what its matrix was built for,
\* a regular frame samples this frame's, and between frames there is no shadow
\* map but the renderer's (begin_render, render_shadow_map, bind_shadow_map).
THEOREM ShadowsAlwaysRight == RendererSpec => ShadowsAreRight
<1> DEFINE Match ==
              FrameDrawn =>
                 \A d \in Range(SceneDraws(frame')) :
                    /\ d.shadow # Nothing => d.sampled # Nothing /\ d.sampled.from = d.shadow
                    /\ ~bench.active =>
                          /\ (d.shadow # Nothing) <=>
                                (CollectShadowCamera(world) # Nothing
                                    /\ d.what.mesh \in world.receives)
                          /\ d.shadow # Nothing =>
                                d.sampled = [from |-> CollectShadowCamera(world),
                                             casters |-> world.visible \intersect world.loaded
                                                            \intersect world.casts]
<1>1. DeviceInv /\ [RendererNext]_rendererVars => [Match]_rendererVars
  <2> SUFFICES ASSUME DeviceInv, RendererNext, FrameDrawn PROVE Match
    BY DEF rendererVars
  <2>1. PICK size \in Resolutions : ViewportPanel(size)
    BY FramesAre
  <2> QED
    BY <2>1, ShadowsAre
<1> QED
  BY <1>1, DeviceTypes, DeviceInvariant, PTL DEF RendererSpec, ShadowsAreRight, ShadowsMatch

-----------------------------------------------------------------------------
(* The order of a frame.                                                    *)

\* What a division leaves out is less than the divisor.
LEMMA QuotientIs ==
    ASSUME NEW x \in Int, NEW n \in Int, n > 0
    PROVE  /\ x \div n \in Int
           /\ n * (x \div n) <= x /\ x < n * (x \div n) + n
OBVIOUS

\* Multiplication keeps the order.
LEMMA ProductsAre ==
    ASSUME NEW n \in Int, n >= 0, NEW x \in Int, NEW y \in Int, x <= y
    PROVE  /\ n * x \in Int /\ n * y \in Int /\ n * x <= n * y
           /\ n * (x + 1) = n * x + n
<1>1. n * (y - x) >= 0 /\ n * y = n * x + n * (y - x)
  OBVIOUS
<1> QED
  BY <1>1

\* Elements of one bin, or in the order of their bins, are apart by no more
\* than a bin is wide.
LEMMA BinsAreOrdered ==
    ASSUME NEW low \in Int, NEW range \in Int, NEW bins \in Nat \ {0},
           NEW a \in Int, low <= a, a <= low + range,
           NEW b \in Int, low <= b, b <= low + range,
           BinOf(a, low, range, bins) <= BinOf(b, low, range, bins)
    PROVE  (a - b) * bins <= range
<1>1. CASE range = 0
  <2>1. a = b
    BY <1>1
  <2> QED
    BY <1>1, <2>1
<1>2. CASE range > 0
  <2> DEFINE X == (a - low) * bins
             Y == (b - low) * bins
             x == X \div range
             y == Y \div range
  <2>1. X \in Int /\ Y \in Int /\ (a - b) * bins = X - Y
    OBVIOUS
  <2>2. BinOf(a, low, range, bins) = Clamp(0, x, bins - 1)
    BY <1>2 DEF BinOf
  <2>3. BinOf(b, low, range, bins) = Clamp(0, y, bins - 1)
    BY <1>2 DEF BinOf
  <2>4. X >= 0 /\ Y >= 0 /\ X <= range * bins
    <3>1. bins * 0 <= bins * (a - low) /\ bins * 0 <= bins * (b - low)
      BY ProductsAre
    <3>2. bins * (a - low) <= bins * range
      BY ProductsAre
    <3> QED
      BY <3>1, <3>2
  <2> HIDE DEF X, Y
  <2>5. /\ x \in Int /\ range * x <= X /\ X < range * x + range
        /\ y \in Int /\ range * y <= Y /\ Y < range * y + range
    BY <1>2, <2>1, QuotientIs
  <2> HIDE DEF x, y
  <2>6. x >= 0 /\ y >= 0
    <3>1. ASSUME NEW z \in Int, z < 0 PROVE range * z + range <= 0
      <4>1. range * (z + 1) <= range * 0
        BY <1>2, <3>1, ProductsAre
      <4>2. range * (z + 1) = range * z + range
        BY <3>1
      <4> QED
        BY <4>1, <4>2
    <3>2. range * x \in Int /\ range * y \in Int
      BY <2>5
    <3> QED
      BY <2>1, <2>4, <2>5, <3>1, <3>2
  <2>7. CASE x <= y
    <3>1. range * x <= range * y /\ range * x \in Int /\ range * y \in Int
      BY <1>2, <2>5, <2>7, ProductsAre
    <3> QED
      BY <2>1, <2>5, <3>1
  <2>8. CASE x > y
    <3>1. y >= bins - 1
      BY <2>2, <2>3, <2>5, <2>6, <2>8 DEF Clamp, AtLeast
    <3>2. range * (bins - 1) <= range * y /\ range * y \in Int /\ range * bins \in Int
      BY <1>2, <2>5, <3>1, ProductsAre
    <3>3. range * (bins - 1) = range * bins - range
      OBVIOUS
    <3> QED
      BY <2>1, <2>4, <2>5, <3>2, <3>3
  <2> QED
    BY <2>5, <2>7, <2>8
<1> QED
  BY <1>1, <1>2

\* Where a mesh is in the scene.
PlaceInScene(m) == CHOOSE k \in DOMAIN MeshOrder : MeshOrder[k] = m

\* The places of two meshes in the order of the scene.
LEMMA IndexIs ==
    ASSUME NEW s, NEW t, AsInScene(s, t)
    PROVE  /\ PlaceInScene(s.mesh) \in Nat /\ PlaceInScene(t.mesh) \in Nat
           /\ PlaceInScene(s.mesh) <= PlaceInScene(t.mesh)
           /\ s.mesh = t.mesh => s.section < t.section
<1>1. PICK a, b \in DOMAIN MeshOrder :
         /\ MeshOrder[a] = s.mesh /\ MeshOrder[b] = t.mesh
         /\ a < b \/ (a = b /\ s.section < t.section)
  BY DEF AsInScene
<1>2. \A i, j \in DOMAIN MeshOrder : MeshOrder[i] = MeshOrder[j] => i = j
  BY FrameRendererAssumption
<1>3. a \in Nat /\ b \in Nat
  BY OrderIs
<1>4. PlaceInScene(s.mesh) = a /\ PlaceInScene(t.mesh) = b
  BY <1>1, <1>2 DEF PlaceInScene
<1> QED
  BY <1>1, <1>2, <1>3, <1>4

\* The order of a frame: by depth, up to the width of a bin, and as in the scene.
IsOrdered(draws, sorter, sorting) ==
    LET depths == {Distance(d) : d \in Range(draws)}
        Slack == IF sorter.mode = "FullSort" THEN 0 ELSE Greatest(depths) - Least(depths)
    IN  \A i, j \in DOMAIN draws : i < j =>
           /\ sorting => (Distance(draws[i]) - Distance(draws[j]))
                           * (IF sorter.mode = "FullSort" THEN 1 ELSE sorter.bins) <= Slack
           /\ (~sorting \/ Distance(draws[i]) = Distance(draws[j]))
                 => PlaceInScene(draws[i].what.mesh) <= PlaceInScene(draws[j].what.mesh)

\* A draw is as far away as the submission it is of.
LEMMA DistanceIs ==
    ASSUME NEW d, NEW s, NEW maps, NEW r, NEW w, NEW display, NEW camera,
           IsDrawOf(d, s, maps, r, w, display, camera)
    PROVE  Distance(d) = s.depth
BY DEF IsDrawOf, Distance, EstimateSortDepth, DepthOf

\* Two submissions of a sorted queue.
LEMMA SortedPair ==
    ASSUME NEW q, NEW sorter \in Sorters, NEW depths, depths = DepthsOf(q),
           depths \subseteq Int, IsFiniteSet(depths), IsSortedBy(q, sorter, depths),
           NEW i \in 1 .. Len(q), NEW j \in 1 .. Len(q), i < j,
           q[i].depth \in depths, q[j].depth \in depths
    PROVE  /\ sorter.mode = "FullSort" => (q[i].depth - q[j].depth) * 1 <= 0
           /\ sorter.mode # "FullSort" =>
                 (q[i].depth - q[j].depth) * sorter.bins <= Greatest(depths) - Least(depths)
           /\ q[i].depth = q[j].depth => AsInScene(q[i], q[j])
<1> DEFINE Key(s) == SortKey(s, sorter, depths)
           a == q[i].depth
           b == q[j].depth
           low == Least(depths)
           range == Greatest(depths) - low
<1>1. \/ Key(q[i]) < Key(q[j])
      \/ Key(q[i]) = Key(q[j]) /\ AsInScene(q[i], q[j])
  <2>1. \A x, y \in 1 .. Len(q) : x < y =>
           \/ Key(q[x]) < Key(q[y])
           \/ Key(q[x]) = Key(q[y]) /\ AsInScene(q[x], q[y])
    BY DEF IsSortedBy
  <2> HIDE DEF Key
  <2> QED
    BY <2>1
<1>2. /\ low \in Int /\ range \in Int /\ a \in Int /\ b \in Int
      /\ low <= a /\ low <= b /\ a <= low + range /\ b <= low + range
  <2>1. depths # {}
    OBVIOUS
  <2>2. /\ low \in depths /\ Greatest(depths) \in depths
        /\ \A x \in depths : low <= x /\ x <= Greatest(depths)
    BY <2>1, ExtremesAre
  <2> QED
    BY <2>2
<1>3. sorter.bins \in Nat \ {0}
  BY DEF Sorters
<1>4. CASE sorter.mode = "FullSort"
  <2>1. Key(q[i]) = a /\ Key(q[j]) = b
    BY <1>4 DEF SortKey
  <2> QED
    BY <1>1, <1>2, <1>4, <2>1
<1>5. CASE sorter.mode # "FullSort"
  <2>1. /\ Key(q[i]) = BinOf(a, low, range, sorter.bins)
        /\ Key(q[j]) = BinOf(b, low, range, sorter.bins)
    BY <1>5 DEF SortKey
  <2>2. /\ BinOf(a, low, range, sorter.bins) \in 0 .. sorter.bins - 1
        /\ BinOf(b, low, range, sorter.bins) \in 0 .. sorter.bins - 1
    BY <1>2, <1>3, BinIs
  <2>3. Key(q[i]) \in Int /\ Key(q[j]) \in Int
    BY <1>3, <2>1, <2>2
  <2>4. a = b => Key(q[i]) = Key(q[j])
    BY <2>1
  <2>5. a = b => AsInScene(q[i], q[j])
    BY <1>1, <2>3, <2>4
  <2>6. BinOf(a, low, range, sorter.bins) <= BinOf(b, low, range, sorter.bins)
    <3> HIDE DEF Key
    <3> QED
      BY <1>1, <2>1, <2>3
  <2> HIDE DEF a, b, low, range, Key
  <2>7. (a - b) * sorter.bins <= range
    BY <1>2, <1>3, <2>6, BinsAreOrdered
  <2> QED
    BY <1>5, <2>5, <2>7 DEF a, b, range, low
<1> QED
  BY <1>4, <1>5

\* The draws of a queue are in its order.
LEMMA QueueIsShownInOrder ==
    ASSUME NEW f, NEW q, NEW maps, NEW r, r.sorter \in Sorters, NEW w \in Worlds, NEW display,
           NEW camera, ShowsScene(f, q, maps, r, w, display, camera)
    PROVE  IsOrdered(SceneDraws(f), r.sorter, display.sortMeshes)
<1> DEFINE draws == SceneDraws(f)
           M == w.visible \cap w.loaded
           sorter == r.sorter
           depths == {Distance(d) : d \in Range(draws)}
           Slack == IF sorter.mode = "FullSort" THEN 0 ELSE Greatest(depths) - Least(depths)
<1>1. /\ Shows(f, q, RasterizerOf(display), maps, camera)
      /\ HoldsSections(q, M, camera, display, w, r) /\ IsInOrder(q, display, sorter)
      /\ camera.transform \in Transforms /\ M \subseteq StaticMeshes
  BY DEF ShowsScene, Worlds
<1> HIDE DEF M
<1>2. /\ Len(q) \in Nat /\ DOMAIN draws = 1 .. Len(q) /\ DOMAIN q = 1 .. Len(q)
      /\ \A d \in Range(draws) : \E n \in 1 .. Len(q) : d = draws[n]
      /\ \A n \in 1 .. Len(q) : draws[n] \in Range(draws)
  BY <1>1, DrawsAre DEF HoldsSections
<1>3. \A n \in 1 .. Len(q) :
         Distance(draws[n]) = q[n].depth /\ draws[n].what.mesh = q[n].mesh
  <2> TAKE n \in 1 .. Len(q)
  <2>1. IsDrawOf(draws[n], q[n], maps, r, w, display, camera)
    BY ShownIs
  <2>2. draws[n].what.mesh = q[n].mesh
    BY <2>1 DEF IsDrawOf
  <2> HIDE DEF draws
  <2> QED
    BY <2>1, <2>2, DistanceIs
<1> HIDE DEF draws
<1>4. depths = DepthsOf(q)
  <2>1. \A d \in Range(draws) : Distance(d) \in DepthsOf(q)
    <3> TAKE d \in Range(draws)
    <3>1. PICK n \in 1 .. Len(q) : d = draws[n]
      BY <1>2
    <3>2. q[n] \in Range(q)
      BY <1>2 DEF Range
    <3> QED
      BY <1>3, <3>1, <3>2 DEF DepthsOf
  <2>2. \A s \in Range(q) : s.depth \in depths
    <3> TAKE s \in Range(q)
    <3>1. PICK n \in 1 .. Len(q) : s = q[n]
      BY <1>2 DEF Range
    <3> QED
      BY <1>2, <1>3, <3>1
  <2> QED
    BY <2>1, <2>2 DEF DepthsOf
<1>5. /\ \A n \in 1 .. Len(q) : q[n].depth \in Int /\ q[n].depth \in DepthsOf(q)
      /\ DepthsOf(q) \subseteq Int /\ IsFiniteSet(DepthsOf(q))
  BY <1>1, DepthsAre
<1> HIDE DEF depths
<1>6. ASSUME NEW i \in 1 .. Len(q), NEW j \in 1 .. Len(q), i < j
      PROVE  /\ display.sortMeshes =>
                   (Distance(draws[i]) - Distance(draws[j]))
                     * (IF sorter.mode = "FullSort" THEN 1 ELSE sorter.bins) <= Slack
             /\ (~display.sortMeshes \/ Distance(draws[i]) = Distance(draws[j]))
                   => PlaceInScene(draws[i].what.mesh) <= PlaceInScene(draws[j].what.mesh)
  <2> DEFINE sorting == display.sortMeshes
             a == q[i].depth
             b == q[j].depth
  <2>1. /\ Distance(draws[i]) = a /\ draws[i].what.mesh = q[i].mesh
        /\ Distance(draws[j]) = b /\ draws[j].what.mesh = q[j].mesh
    BY <1>3
  <2>2. CASE ~sorting
    <3>1. AsInScene(q[i], q[j])
      BY <1>1, <1>6, <2>2 DEF IsInOrder, IsInScene
    <3> QED
      BY <2>1, <2>2, <3>1, IndexIs
  <2>3. CASE sorting
    <3>1. IsSortedBy(q, sorter, depths)
      BY <1>1, <1>4, <2>3 DEF IsInOrder
    <3> HIDE DEF sorter
    <3>2. sorter \in Sorters
      BY DEF sorter
    <3>3. /\ sorter.mode = "FullSort" => (a - b) * 1 <= 0
          /\ sorter.mode # "FullSort" =>
                (a - b) * sorter.bins <= Greatest(depths) - Least(depths)
          /\ a = b => AsInScene(q[i], q[j])
      BY <1>4, <1>5, <1>6, <3>1, <3>2, SortedPair
    <3>4. (a - b) * (IF sorter.mode = "FullSort" THEN 1 ELSE sorter.bins) <= Slack
      <4>1. CASE sorter.mode = "FullSort"
        BY <3>3, <4>1
      <4>2. CASE sorter.mode # "FullSort"
        BY <3>3, <4>2
      <4> QED
        BY <4>1, <4>2
    <3>5. a = b => PlaceInScene(q[i].mesh) <= PlaceInScene(q[j].mesh)
      BY <3>3, IndexIs
    <3> HIDE DEF a, b, Slack
    <3> QED
      BY <2>1, <2>3, <3>4, <3>5 DEF sorter
  <2> QED
    BY <2>2, <2>3
<1> QED
  BY <1>2, <1>6 DEF IsOrdered, depths, draws

\* A frame without draws is in order.
LEMMA NothingIsOrdered ==
    ASSUME NEW draws, DOMAIN draws = {}, NEW sorter, NEW sorting
    PROVE  IsOrdered(draws, sorter, sorting)
BY DEF IsOrdered

\* Every frame is in order, regular or of the benchmark.
LEMMA FramesAreOrdered ==
    ASSUME DeviceInv, NEW size \in Resolutions, ViewportPanel(size)
    PROVE  IsOrdered(SceneDraws(frame'), renderer.sorter,
                     IF bench.active THEN bench.sorted ELSE viewport'.display.sortMeshes)
<1> DEFINE camera == cameras'[Selected(viewport', cameras')]
<1>1. world \in Worlds /\ renderer.sorter \in Sorters /\ viewport' \in Viewports
  BY NowIs, PanelDraws DEF DeviceInv, ViewInv, BooksAreRight, IsRenderer
<1>2. CASE bench.active
  <2> DEFINE display == [viewport'.display EXCEPT !.sortMeshes = bench.sorted]
  <2>1. part # "quit"
    BY DEF ViewportPanel
  <2>2. \/ frame' = <<>>
        \/ \E q, eye : ShowsScene(frame', q, device.shadowMaps, renderer, world, display, eye)
    BY <1>2, <2>1, BenchmarkShows
  <2>3. display.sortMeshes = bench.sorted
    BY <1>1 DEF Viewports, Displays
  <2> HIDE DEF display
  <2>4. IsOrdered(SceneDraws(frame'), renderer.sorter, display.sortMeshes)
    BY <1>1, <2>2, NoFrameShows, NothingIsOrdered, QueueIsShownInOrder
  <2> QED
    BY <1>2, <2>3, <2>4
<1>3. CASE ~bench.active
  <2>1. /\ renderer'.sorter = renderer.sorter
        /\ viewport'.display.debugDepth /\ renderer'.shadowCamera # Nothing =>
             Shows(frame', <<>>, RasterizerOf(viewport'.display), device'.shadowMaps, camera)
        /\ ~(viewport'.display.debugDepth /\ renderer'.shadowCamera # Nothing) =>
             \E q : ShowsScene(frame', q, device'.shadowMaps, renderer', world,
                               viewport'.display, camera)
    BY <1>3, PanelShows
  <2>2. CASE viewport'.display.debugDepth /\ renderer'.shadowCamera # Nothing
    BY <1>3, <2>1, <2>2, NothingIsShown, NothingIsOrdered
  <2>3. CASE ~(viewport'.display.debugDepth /\ renderer'.shadowCamera # Nothing)
    <3>1. PICK q, eye : ShowsScene(frame', q, device'.shadowMaps, renderer', world,
                                   viewport'.display, eye)
      BY <2>1, <2>3
    <3>2. renderer'.sorter \in Sorters
      BY <1>1, <2>1
    <3>3. IsOrdered(SceneDraws(frame'), renderer'.sorter, viewport'.display.sortMeshes)
      BY <1>1, <3>1, <3>2, QueueIsShownInOrder
    <3> QED
      BY <1>3, <2>1, <3>3
  <2> QED
    BY <2>2, <2>3
<1> QED
  BY <1>2, <1>3

\* With sorting a frame goes from front to back, up to the width of a bin, and
\* sections of the same depth keep the order of the scene, in the viewport as
\* in the benchmark (RenderQueueSorter::sort).
THEOREM FramesAreInOrder == RendererSpec => QueueInOrder
<1> DEFINE Ordered ==
              FrameDrawn =>
                LET draws == SceneDraws(frame')
                    depths == {Distance(d) : d \in Range(draws)}
                    sorting == IF bench.active THEN bench.sorted
                               ELSE viewport'.display.sortMeshes
                    sorter == renderer.sorter
                    Index(d) == CHOOSE k \in DOMAIN MeshOrder : MeshOrder[k] = d.what.mesh
                    Slack == IF sorter.mode = "FullSort" THEN 0
                             ELSE Greatest(depths) - Least(depths)
                IN  \A i, j \in DOMAIN draws : i < j =>
                       /\ sorting => (Distance(draws[i]) - Distance(draws[j]))
                                       * (IF sorter.mode = "FullSort" THEN 1 ELSE sorter.bins)
                                       <= Slack
                       /\ (~sorting \/ Distance(draws[i]) = Distance(draws[j]))
                             => Index(draws[i]) <= Index(draws[j])
<1>1. DeviceInv /\ [RendererNext]_rendererVars => [Ordered]_rendererVars
  <2> SUFFICES ASSUME DeviceInv, RendererNext, FrameDrawn PROVE Ordered
    BY DEF rendererVars
  <2>1. PICK size \in Resolutions : ViewportPanel(size)
    BY FramesAre
  <2>2. IsOrdered(SceneDraws(frame'), renderer.sorter,
                  IF bench.active THEN bench.sorted ELSE viewport'.display.sortMeshes)
    BY <2>1, FramesAreOrdered
  <2> QED
    BY <2>2 DEF IsOrdered, PlaceInScene
<1> QED
  BY <1>1, DeviceInvariant, PTL DEF RendererSpec, QueueInOrder

-----------------------------------------------------------------------------
(* Culling: what can be seen is not dropped.                                *)

\* The product of vectors is linear.
LEMMA DotIsLinear ==
    ASSUME NEW p \in Vectors, NEW u \in Vectors, NEW v \in Vectors, NEW k \in Int
    PROVE  /\ Dot(p, Plus(u, v)) = Dot(p, u) + Dot(p, v)
           /\ Dot(p, Times(k, u)) = k * Dot(p, u)
           /\ Dot(Minus(u, v), p) = Dot(u, p) - Dot(v, p)
<1> DEFINE p1 == p[1]
           p2 == p[2]
           p3 == p[3]
           u1 == u[1]
           u2 == u[2]
           u3 == u[3]
           v1 == v[1]
           v2 == v[2]
           v3 == v[3]
<1>1. /\ p1 \in Int /\ p2 \in Int /\ p3 \in Int /\ u1 \in Int /\ u2 \in Int /\ u3 \in Int
      /\ v1 \in Int /\ v2 \in Int /\ v3 \in Int
  BY DEF Vectors
<1>2. /\ Dot(p, u) = p1 * u1 + p2 * u2 + p3 * u3 /\ Dot(p, v) = p1 * v1 + p2 * v2 + p3 * v3
      /\ Dot(u, p) = u1 * p1 + u2 * p2 + u3 * p3 /\ Dot(v, p) = v1 * p1 + v2 * p2 + v3 * p3
  BY DEF Dot
<1>3. Dot(p, Plus(u, v)) = p1 * (u1 + v1) + p2 * (u2 + v2) + p3 * (u3 + v3)
  BY DEF Dot, Plus
<1>4. Dot(p, Times(k, u)) = p1 * (k * u1) + p2 * (k * u2) + p3 * (k * u3)
  BY DEF Dot, Times
<1>5. Dot(Minus(u, v), p)
         = (u1 + (-1) * v1) * p1 + (u2 + (-1) * v2) * p2 + (u3 + (-1) * v3) * p3
  BY DEF Dot, Minus, Plus, Times
<1> HIDE DEF p1, p2, p3, u1, u2, u3, v1, v2, v3
<1>6. p1 * (u1 + v1) + p2 * (u2 + v2) + p3 * (u3 + v3)
         = (p1 * u1 + p2 * u2 + p3 * u3) + (p1 * v1 + p2 * v2 + p3 * v3)
  BY <1>1
<1>7. p1 * (k * u1) + p2 * (k * u2) + p3 * (k * u3) = k * (p1 * u1 + p2 * u2 + p3 * u3)
  BY <1>1
<1>8. (u1 + (-1) * v1) * p1 + (u2 + (-1) * v2) * p2 + (u3 + (-1) * v3) * p3
         = (u1 * p1 + u2 * p2 + u3 * p3) - (v1 * p1 + v2 * p2 + v3 * p3)
  BY <1>1
<1> QED
  BY <1>2, <1>3, <1>4, <1>5, <1>6, <1>7, <1>8

\* The plane of n through a camera's eye, moved by m.
IsPlaneAt(camera, plane, n, m) ==
    \A p \in Vectors :
        Inside(camera, plane, p) <=> Dot(Minus(p, camera.transform.eye), n) + m >= 0

\* Each of the six planes of the clip volume is a plane, as seen from the eye.
LEMMA PlaneAtEye ==
    ASSUME NEW camera, camera.transform \in Transforms, camera.cached.aspect \in Int,
           camera.cached.height \in Int, NEW plane \in Planes
    PROVE  \E n \in Vectors, m \in Int : IsPlaneAt(camera, plane, n, m)
<1> DEFINE t == camera.transform
           f == t.forward
           u == t.up
           s == Cross(f, u)
           a == camera.cached.aspect
           h == camera.cached.height
           perspective == camera.cached.type = "Perspective"
           Q(p) == Minus(p, t.eye)
           Half(p) == IF perspective THEN Dot(Q(p), f) ELSE h
<1>1. f \in Vectors /\ u \in Vectors /\ s \in Vectors /\ t.eye \in Vectors
  BY VectorsAre DEF Transforms
<1>2. /\ Times(-1, f) \in Vectors /\ Times(-1, u) \in Vectors /\ Times(-1, s) \in Vectors
      /\ Times(a, f) \in Vectors
  BY <1>1, VectorsAre
<1>3. /\ Plus(s, Times(a, f)) \in Vectors /\ Plus(Times(a, f), Times(-1, s)) \in Vectors
      /\ Plus(u, f) \in Vectors /\ Plus(f, Times(-1, u)) \in Vectors
  BY <1>1, <1>2, VectorsAre
<1>4. ASSUME NEW p \in Vectors
      PROVE  LET d == Dot(Q(p), f)
                 x == Dot(Q(p), s)
                 y == Dot(Q(p), u)
             IN  /\ d \in Int /\ x \in Int /\ y \in Int
                 /\ Dot(Q(p), Times(-1, f)) = -d /\ Dot(Q(p), Times(-1, s)) = -x
                 /\ Dot(Q(p), Times(-1, u)) = -y
                 /\ Dot(Q(p), Plus(s, Times(a, f))) = x + a * d
                 /\ Dot(Q(p), Plus(Times(a, f), Times(-1, s))) = a * d - x
                 /\ Dot(Q(p), Plus(u, f)) = y + d
                 /\ Dot(Q(p), Plus(f, Times(-1, u))) = d - y
  <2> DEFINE q == Q(p)
             d == Dot(q, f)
             x == Dot(q, s)
             y == Dot(q, u)
  <2>1. q \in Vectors
    BY <1>1, VectorsAre
  <2> HIDE DEF q, f, u, s, a
  <2>2. d \in Int /\ x \in Int /\ y \in Int
    BY <1>1, <2>1, VectorsAre
  <2>3. /\ Dot(q, Times(-1, f)) = (-1) * d /\ Dot(q, Times(-1, s)) = (-1) * x
        /\ Dot(q, Times(-1, u)) = (-1) * y /\ Dot(q, Times(a, f)) = a * d
    BY <1>1, <2>1, DotIsLinear DEF a
  <2>4. /\ Dot(q, Plus(s, Times(a, f))) = x + Dot(q, Times(a, f))
        /\ Dot(q, Plus(Times(a, f), Times(-1, s)))
              = Dot(q, Times(a, f)) + Dot(q, Times(-1, s))
        /\ Dot(q, Plus(u, f)) = y + d
        /\ Dot(q, Plus(f, Times(-1, u))) = d + Dot(q, Times(-1, u))
    BY <1>1, <1>2, <2>1, DotIsLinear
  <2>5. a * d \in Int
    BY <2>2 DEF a
  <2> HIDE DEF d, x, y
  <2>6. /\ Dot(q, Times(-1, f)) = -d /\ Dot(q, Times(-1, s)) = -x
        /\ Dot(q, Times(-1, u)) = -y
        /\ Dot(q, Plus(s, Times(a, f))) = x + a * d
        /\ Dot(q, Plus(Times(a, f), Times(-1, s))) = a * d - x
        /\ Dot(q, Plus(u, f)) = y + d
        /\ Dot(q, Plus(f, Times(-1, u))) = d - y
    BY <2>2, <2>3, <2>4, <2>5
  <2> QED
    BY <2>2, <2>6 DEF d, x, y, q
<1>5. a \in Int /\ h \in Int /\ h * a \in Int /\ MaxExtent \in Int
  BY ViewportCameraAssumption
<1>6. \A p \in Vectors : Inside(camera, "left", p) <=> Dot(Q(p), s) + Half(p) * a >= 0
  BY DEF Inside
<1>7. \A p \in Vectors : Inside(camera, "right", p) <=> Half(p) * a - Dot(Q(p), s) >= 0
  BY DEF Inside
<1>8. \A p \in Vectors : Inside(camera, "bottom", p) <=> Dot(Q(p), u) + Half(p) >= 0
  BY DEF Inside
<1>9. \A p \in Vectors : Inside(camera, "top", p) <=> Half(p) - Dot(Q(p), u) >= 0
  BY DEF Inside
<1>10. \A p \in Vectors : Inside(camera, "near", p) <=> Dot(Q(p), f) >= 1
  BY DEF Inside
<1>11. \A p \in Vectors : Inside(camera, "far", p) <=> Dot(Q(p), f) <= MaxExtent
  BY DEF Inside
<1> HIDE DEF f, u, s, a, h, perspective
<1>12. CASE plane = "left"
  <2>1. CASE perspective
    <3>1. IsPlaneAt(camera, "left", Plus(s, Times(a, f)), 0)
      BY <1>4, <1>5, <1>6, <2>1 DEF IsPlaneAt
    <3> QED
      BY <1>3, <1>12, <3>1
  <2>2. CASE ~perspective
    <3>1. IsPlaneAt(camera, "left", s, h * a)
      BY <1>4, <1>5, <1>6, <2>2 DEF IsPlaneAt
    <3> QED
      BY <1>1, <1>5, <1>12, <3>1
  <2> QED
    BY <2>1, <2>2
<1>13. CASE plane = "right"
  <2>1. CASE perspective
    <3>1. IsPlaneAt(camera, "right", Plus(Times(a, f), Times(-1, s)), 0)
      BY <1>4, <1>5, <1>7, <2>1 DEF IsPlaneAt
    <3> QED
      BY <1>3, <1>13, <3>1
  <2>2. CASE ~perspective
    <3>1. IsPlaneAt(camera, "right", Times(-1, s), h * a)
      BY <1>4, <1>5, <1>7, <2>2 DEF IsPlaneAt
    <3> QED
      BY <1>2, <1>5, <1>13, <3>1
  <2> QED
    BY <2>1, <2>2
<1>14. CASE plane = "bottom"
  <2>1. CASE perspective
    <3>1. IsPlaneAt(camera, "bottom", Plus(u, f), 0)
      BY <1>4, <1>8, <2>1 DEF IsPlaneAt
    <3> QED
      BY <1>3, <1>14, <3>1
  <2>2. CASE ~perspective
    <3>1. IsPlaneAt(camera, "bottom", u, h)
      BY <1>4, <1>5, <1>8, <2>2 DEF IsPlaneAt
    <3> QED
      BY <1>1, <1>5, <1>14, <3>1
  <2> QED
    BY <2>1, <2>2
<1>15. CASE plane = "top"
  <2>1. CASE perspective
    <3>1. IsPlaneAt(camera, "top", Plus(f, Times(-1, u)), 0)
      BY <1>4, <1>9, <2>1 DEF IsPlaneAt
    <3> QED
      BY <1>3, <1>15, <3>1
  <2>2. CASE ~perspective
    <3>1. IsPlaneAt(camera, "top", Times(-1, u), h)
      BY <1>4, <1>5, <1>9, <2>2 DEF IsPlaneAt
    <3> QED
      BY <1>2, <1>5, <1>15, <3>1
  <2> QED
    BY <2>1, <2>2
<1>16. CASE plane = "near"
  <2>1. IsPlaneAt(camera, "near", f, -1)
    BY <1>4, <1>10 DEF IsPlaneAt
  <2> QED
    BY <1>1, <1>16, <2>1
<1>17. CASE plane = "far"
  <2>1. IsPlaneAt(camera, "far", Times(-1, f), MaxExtent)
    BY <1>4, <1>5, <1>11 DEF IsPlaneAt
  <2> QED
    BY <1>2, <1>5, <1>17, <2>1
<1> QED
  BY <1>12, <1>13, <1>14, <1>15, <1>16, <1>17 DEF Planes

\* A point is inside a plane when it is on the side of it that n points to.
IsPlane(camera, plane, n, k) ==
    \A p \in Vectors : Inside(camera, plane, p) <=> Dot(p, n) + k >= 0

\* Each of the six planes of the clip volume is a plane.
LEMMA PlaneIs ==
    ASSUME NEW camera, camera.transform \in Transforms, camera.cached.aspect \in Int,
           camera.cached.height \in Int, NEW plane \in Planes
    PROVE  \E n \in Vectors, k \in Int : IsPlane(camera, plane, n, k)
<1> DEFINE e == camera.transform.eye
<1>1. PICK n \in Vectors, m \in Int : IsPlaneAt(camera, plane, n, m)
  BY PlaneAtEye
<1>2. e \in Vectors
  BY DEF Transforms
<1>3. m - Dot(e, n) \in Int /\ Dot(e, n) \in Int
  BY <1>2, VectorsAre
<1>4. ASSUME NEW p \in Vectors
      PROVE  Inside(camera, plane, p) <=> Dot(p, n) + (m - Dot(e, n)) >= 0
  <2>1. Inside(camera, plane, p) <=> Dot(Minus(p, e), n) + m >= 0
    BY <1>1 DEF IsPlaneAt
  <2>2. Dot(Minus(p, e), n) = Dot(p, n) - Dot(e, n) /\ Dot(p, n) \in Int
    BY <1>2, DotIsLinear, VectorsAre
  <2> QED
    BY <1>3, <2>1, <2>2
<1>5. IsPlane(camera, plane, n, m - Dot(e, n))
  BY <1>4 DEF IsPlane
<1> QED
  BY <1>3, <1>5

\* Of the points of a box one of the corners is farthest to any side.
LEMMA CornerIs ==
    ASSUME NEW b, b.min \in Vectors, b.max \in Vectors, NEW n \in Vectors, NEW p \in Vectors,
           \A i \in 1 .. 3 : b.min[i] <= p[i] /\ p[i] <= b.max[i]
    PROVE  \E c \in Corners(b) : c \in Vectors /\ Dot(p, n) <= Dot(c, n)
<1> DEFINE X(i) == IF n[i] >= 0 THEN b.max[i] ELSE b.min[i]
           x1 == X(1)
           x2 == X(2)
           x3 == X(3)
           c == <<x1, x2, x3>>
<1>1. /\ n[1] \in Int /\ n[2] \in Int /\ n[3] \in Int /\ p[1] \in Int /\ p[2] \in Int
      /\ p[3] \in Int /\ x1 \in Int /\ x2 \in Int /\ x3 \in Int
  BY DEF Vectors
<1>2. ASSUME NEW i \in 1 .. 3 PROVE p[i] * n[i] <= X(i) * n[i]
  <2>1. b.min[i] \in Int /\ b.max[i] \in Int /\ p[i] \in Int /\ n[i] \in Int
    BY DEF Vectors
  <2>2. b.min[i] <= p[i] /\ p[i] <= b.max[i]
    OBVIOUS
  <2>3. CASE n[i] >= 0
    <3>1. n[i] * p[i] <= n[i] * b.max[i]
      BY <2>1, <2>2, <2>3, ProductsAre
    <3> QED
      BY <2>1, <2>3, <3>1
  <2>4. CASE n[i] < 0
    <3>1. (-n[i]) * b.min[i] <= (-n[i]) * p[i]
      BY <2>1, <2>2, <2>4, ProductsAre
    <3>2. n[i] * p[i] <= n[i] * b.min[i]
      BY <2>1, <3>1
    <3> QED
      BY <2>1, <2>4, <3>2
  <2> QED
    BY <2>1, <2>3, <2>4
<1>3. /\ x1 \in {b.min[1], b.max[1]} /\ x2 \in {b.min[2], b.max[2]}
      /\ x3 \in {b.min[3], b.max[3]}
  OBVIOUS
<1>4. p[1] * n[1] <= x1 * n[1] /\ p[2] * n[2] <= x2 * n[2] /\ p[3] * n[3] <= x3 * n[3]
  BY <1>2
<1> HIDE DEF x1, x2, x3
<1>5. c \in Corners(b)
  BY <1>3 DEF Corners
<1>6. c \in Vectors
  BY <1>1 DEF Vectors
<1>7. Dot(p, n) <= Dot(c, n)
  BY <1>1, <1>4 DEF Dot
<1> QED
  BY <1>5, <1>6, <1>7

\* The corners of a section's box are points of the box of its mesh.
LEMMA CornersAreWithin ==
    ASSUME NEW m \in StaticMeshes, NEW i \in DOMAIN SectionsOf[m],
           SectionsOf[m][i].bounds.valid, NEW p \in Corners(SectionsOf[m][i].bounds)
    PROVE  LET b == BoundsOf[m]
           IN  /\ b.valid = TRUE /\ b.min \in Vectors /\ b.max \in Vectors /\ p \in Vectors
               /\ \A j \in 1 .. 3 : b.min[j] <= p[j] /\ p[j] <= b.max[j]
<1> DEFINE s == SectionsOf[m][i]
           a == s.bounds
           b == BoundsOf[m]
<1>1. s \in KnownOf(m)
  BY DEF KnownOf, Range
<1>2. a \in Boxes
  BY <1>1, SectionsAre
<1>3. /\ b.valid = TRUE /\ b.min \in Vectors /\ b.max \in Vectors
      /\ \A j \in 1 .. 3 : b.min[j] <= a.min[j] /\ a.max[j] <= b.max[j]
  BY <1>1, BoundsAre
<1> HIDE DEF s, b
<1>4. /\ a.min \in Vectors /\ a.max \in Vectors /\ \A j \in 1 .. 3 : a.min[j] <= a.max[j]
  BY <1>2 DEF Boxes
<1>5. /\ p[1] \in {a.min[1], a.max[1]} /\ p[2] \in {a.min[2], a.max[2]}
      /\ p[3] \in {a.min[3], a.max[3]} /\ p = <<p[1], p[2], p[3]>>
  BY DEF Corners, s
<1> HIDE DEF a
<1>6. \A j \in 1 .. 3 : a.min[j] \in Int /\ a.max[j] \in Int
  BY <1>4 DEF Vectors
<1>7. \A j \in 1 .. 3 : p[j] = a.min[j] \/ p[j] = a.max[j]
  BY <1>5
<1>8. p \in Vectors
  BY <1>5, <1>6, <1>7 DEF Vectors
<1>9. ASSUME NEW j \in 1 .. 3 PROVE b.min[j] <= p[j] /\ p[j] <= b.max[j]
  <2>1. b.min[j] \in Int /\ b.max[j] \in Int /\ a.min[j] \in Int /\ a.max[j] \in Int
    BY <1>3, <1>6 DEF Vectors
  <2>2. b.min[j] <= a.min[j] /\ a.max[j] <= b.max[j] /\ a.min[j] <= a.max[j]
    BY <1>3, <1>4
  <2> QED
    BY <1>7, <2>1, <2>2
<1> QED
  BY <1>3, <1>8, <1>9 DEF b

\* What can be seen is not culled, by its own bounds or by those of its mesh.
LEMMA SeenIsDrawn ==
    ASSUME NEW m \in StaticMeshes, NEW i \in DOMAIN SectionsOf[m], NEW camera, NEW display,
           camera.transform \in Transforms, camera.cached.aspect \in Int,
           camera.cached.height \in Int, display.cullFrustum => Seen(m, i, camera)
    PROVE  i \in DrawnSections(m, camera, display)
<1> DEFINE a == SectionsOf[m][i].bounds
           b == BoundsOf[m]
<1>1. CASE ~display.cullFrustum
  BY <1>1 DEF DrawnSections
<1>2. CASE display.cullFrustum
  <2>1. PICK p \in Corners(a) : a.valid /\ \A plane \in Planes : Inside(camera, plane, p)
    BY <1>2 DEF Seen
  <2>2. IntersectsFrustum(a, camera)
    BY <2>1 DEF IntersectsFrustum, AllCornersOutside
  <2>3. /\ b.valid = TRUE /\ b.min \in Vectors /\ b.max \in Vectors /\ p \in Vectors
        /\ \A j \in 1 .. 3 : b.min[j] <= p[j] /\ p[j] <= b.max[j]
    BY <2>1, CornersAreWithin
  <2> HIDE DEF a, b
  <2>4. ASSUME NEW plane \in Planes
        PROVE  \E c \in Corners(b) : Inside(camera, plane, c)
    <3>1. PICK n \in Vectors, k \in Int : IsPlane(camera, plane, n, k)
      BY PlaneIs
    <3>2. Dot(p, n) + k >= 0
      BY <2>1, <2>3, <3>1 DEF IsPlane
    <3>3. PICK c \in Corners(b) : c \in Vectors /\ Dot(p, n) <= Dot(c, n)
      BY <2>3, CornerIs
    <3>4. Dot(p, n) \in Int /\ Dot(c, n) \in Int
      BY <2>3, <3>3, VectorsAre
    <3>5. Dot(c, n) + k >= 0
      BY <3>2, <3>3, <3>4
    <3> QED
      BY <3>1, <3>3, <3>5 DEF IsPlane
  <2>5. IntersectsFrustum(b, camera)
    BY <2>4 DEF IntersectsFrustum, AllCornersOutside
  <2> QED
    BY <1>2, <2>2, <2>5 DEF DrawnSections, a, b
<1> QED
  BY <1>1, <1>2

-----------------------------------------------------------------------------
(* What is drawn.                                                           *)

\* The section a draw is of.
PlaceOf(d) == <<d.what.mesh, d.what.section>>
PlacesDrawn(draws) == {<<d.what.mesh, d.what.section>> : d \in Range(draws)}

\* The sections that can be drawn.
LEMMA DrawableIs ==
    ASSUME NEW w, NEW s
    PROVE  s \in Drawable(w) <=>
              \E m \in w.visible \cap w.loaded : \E i \in DOMAIN SectionsOf[m] :
                 s = <<m, i>> /\ SectionsOf[m][i].material \in w.resident
<1>1. ASSUME s \in Drawable(w)
      PROVE  \E m \in w.visible \cap w.loaded : \E i \in DOMAIN SectionsOf[m] :
                 s = <<m, i>> /\ SectionsOf[m][i].material \in w.resident
  <2>1. PICK m \in w.visible \cap w.loaded : s \in {m} \X DOMAIN SectionsOf[m]
    BY <1>1 DEF Drawable
  <2>2. s[1] = m /\ s[2] \in DOMAIN SectionsOf[m] /\ s = <<m, s[2]>>
    BY <2>1
  <2>3. SectionsOf[s[1]][s[2]].material \in w.resident
    BY <1>1 DEF Drawable
  <2> QED
    BY <2>2, <2>3
<1>2. ASSUME NEW m \in w.visible \cap w.loaded, NEW i \in DOMAIN SectionsOf[m],
             s = <<m, i>>, SectionsOf[m][i].material \in w.resident
      PROVE  s \in Drawable(w)
  <2>1. s \in {m} \X DOMAIN SectionsOf[m] /\ s[1] = m /\ s[2] = i
    BY <1>2
  <2> QED
    BY <1>2, <2>1 DEF Drawable
<1> QED
  BY <1>1, <1>2

\* A section is in a queue once.
LEMMA OnceInQueue ==
    ASSUME NEW q, NEW M, M \subseteq StaticMeshes, NEW camera, camera.transform \in Transforms,
           NEW display, NEW w, NEW r, HoldsSections(q, M, camera, display, w, r),
           NEW sorter \in Sorters, IsInOrder(q, display, sorter),
           NEW i \in 1 .. Len(q), NEW j \in 1 .. Len(q), i < j
    PROVE  ~(q[i].mesh = q[j].mesh /\ q[i].section = q[j].section)
<1> SUFFICES ASSUME q[i].mesh = q[j].mesh, q[i].section = q[j].section PROVE FALSE
  OBVIOUS
<1>1. /\ \A n \in 1 .. Len(q) : q[n].depth \in Int /\ q[n].depth \in DepthsOf(q)
      /\ DepthsOf(q) \subseteq Int /\ IsFiniteSet(DepthsOf(q))
  BY DepthsAre
<1>2. ASSUME NEW n \in 1 .. Len(q)
      PROVE  q[n].depth = EstimateSortDepth(q[n].mesh, camera) /\ q[n].section \in Int
  <2>1. PICK m \in M : \E k \in DrawnSections(m, camera, display) :
                          q[n] = Submission(m, k, camera, display, w, r)
    BY DEF HoldsSections, Submits
  <2>2. PICK k \in DrawnSections(m, camera, display) :
                          q[n] = Submission(m, k, camera, display, w, r)
    BY <2>1
  <2>3. k \in Int
    BY DrawnAre
  <2>4. /\ q[n].mesh = m /\ q[n].section = k /\ q[n].depth = EstimateSortDepth(m, camera)
    BY <2>2, SubmissionIs
  <2> QED
    BY <2>3, <2>4
<1>3. AsInScene(q[i], q[j])
  <2>1. CASE display.sortMeshes
    <3>1. IsSortedBy(q, sorter, DepthsOf(q))
      BY <2>1 DEF IsInOrder
    <3>2. q[i].depth = q[j].depth
      BY <1>2
    <3> QED
      BY <1>1, <3>1, <3>2, SortedPair
  <2>2. CASE ~display.sortMeshes
    BY <2>2 DEF IsInOrder, IsInScene
  <2> QED
    BY <2>1, <2>2
<1>4. q[i].section < q[j].section
  BY <1>3, IndexIs
<1> QED
  BY <1>2, <1>4

\* A queue draws what can be seen, nothing that it may not, and everything once.
LEMMA DrawnIs ==
    ASSUME NEW f, NEW q, NEW maps, NEW r, r.sorter \in Sorters, NEW w \in Worlds, NEW display,
           NEW camera, ShowsScene(f, q, maps, r, w, display, camera),
           camera.cached.aspect \in Int, camera.cached.height \in Int
    PROVE  LET draws == SceneDraws(f)
               drawn == PlacesDrawn(draws)
           IN  /\ {s \in Drawable(w) : display.cullFrustum => Seen(s[1], s[2], camera)}
                     \subseteq drawn
               /\ drawn \subseteq Drawable(w) /\ Len(draws) = Cardinality(drawn)
<1> DEFINE draws == SceneDraws(f)
           drawn == PlacesDrawn(draws)
           M == w.visible \cap w.loaded
           N == Len(q)
<1>1. /\ Shows(f, q, RasterizerOf(display), maps, camera)
      /\ HoldsSections(q, M, camera, display, w, r) /\ IsInOrder(q, display, r.sorter)
      /\ camera.transform \in Transforms /\ M \subseteq StaticMeshes
  BY DEF ShowsScene, Worlds
<1>2. /\ N \in Nat /\ DOMAIN draws = 1 .. N /\ Len(draws) = N
      /\ \A d \in Range(draws) : \E n \in 1 .. N : d = draws[n]
      /\ \A n \in 1 .. N : draws[n] \in Range(draws)
  BY <1>1, DrawsAre
<1>3. ASSUME NEW n \in 1 .. N
      PROVE  /\ PlaceOf(draws[n]) = <<q[n].mesh, q[n].section>>
             /\ q[n].mesh \in M /\ q[n].section \in DOMAIN SectionsOf[q[n].mesh]
             /\ SectionsOf[q[n].mesh][q[n].section].material \in w.resident
  <2>1. IsDrawOf(draws[n], q[n], maps, r, w, display, camera)
    BY ShownIs
  <2>2. q[n].section \in DrawnSections(q[n].mesh, camera, display)
    BY <2>1 DEF IsDrawOf
  <2>3. q[n].section \in DOMAIN SectionsOf[q[n].mesh]
    BY <2>2 DEF DrawnSections
  <2> HIDE DEF draws
  <2> QED
    BY <2>1, <2>3 DEF IsDrawOf, PlaceOf
<1> HIDE DEF draws
<1>4. \A n \in 1 .. N : PlaceOf(draws[n]) \in drawn
  BY <1>2 DEF PlacesDrawn, PlaceOf
<1>5. \A s \in drawn : \E n \in 1 .. N : s = PlaceOf(draws[n])
  <2> TAKE s \in drawn
  <2>1. PICK d \in Range(draws) : s = PlaceOf(d)
    BY DEF PlacesDrawn, PlaceOf
  <2>2. PICK n \in 1 .. N : d = draws[n]
    BY <1>2
  <2> QED
    BY <2>1, <2>2
<1> HIDE DEF drawn
<1>6. drawn \subseteq Drawable(w)
  BY <1>3, <1>5, DrawableIs
<1>7. ASSUME NEW s \in Drawable(w), display.cullFrustum => Seen(s[1], s[2], camera)
      PROVE  s \in drawn
  <2>1. PICK m \in M : \E i \in DOMAIN SectionsOf[m] :
                           s = <<m, i>> /\ SectionsOf[m][i].material \in w.resident
    BY DrawableIs
  <2>2. PICK i \in DOMAIN SectionsOf[m] :
                           s = <<m, i>> /\ SectionsOf[m][i].material \in w.resident
    BY <2>1
  <2>3. display.cullFrustum => Seen(m, i, camera)
    BY <1>7, <2>2
  <2>4. i \in DrawnSections(m, camera, display)
    BY <1>1, <2>3, SeenIsDrawn
  <2>5. PICK n \in 1 .. N : q[n] = Submission(m, i, camera, display, w, r)
    BY <1>1, <2>2, <2>4 DEF HoldsSections
  <2>6. q[n].mesh = m /\ q[n].section = i
    BY <2>5, SubmissionIs
  <2> QED
    BY <1>3, <1>4, <2>2, <2>6
<1>8. N = Cardinality(drawn)
  <2> DEFINE g == [n \in 1 .. N |-> PlaceOf(draws[n])]
  <2>1. g \in Surjection(1 .. N, drawn)
    BY <1>4, <1>5 DEF Surjection
  <2>2. ASSUME NEW i \in 1 .. N, NEW j \in 1 .. N, i < j PROVE g[i] # g[j]
    <3>1. ~(q[i].mesh = q[j].mesh /\ q[i].section = q[j].section)
      BY <1>1, <2>2, OnceInQueue
    <3>2. /\ PlaceOf(draws[i]) = <<q[i].mesh, q[i].section>>
          /\ PlaceOf(draws[j]) = <<q[j].mesh, q[j].section>>
      BY <1>3
    <3> QED
      BY <3>1, <3>2
  <2>3. g \in Injection(1 .. N, drawn)
    <3>1. \A i, j \in 1 .. N : g[i] = g[j] => i = j
      <4> HIDE DEF g
      <4> QED
        BY <1>2, <2>2
    <3>2. g \in [1 .. N -> drawn]
      BY <1>4
    <3> HIDE DEF g
    <3> QED
      BY <3>1, <3>2 DEF Injection, IsInjective
  <2>4. IsFiniteSet(1 .. N) /\ Cardinality(1 .. N) = N
    <3> HIDE DEF N
    <3>1. IsFiniteSet(1 .. N) /\ Cardinality(1 .. N) = IF 1 > N THEN 0 ELSE N - 1 + 1
      BY <1>2, FS_Interval
    <3> QED
      BY <1>2, <3>1
  <2> HIDE DEF g
  <2> QED
    BY <2>1, <2>3, <2>4, FS_Surjection
<1> QED
  BY <1>2, <1>6, <1>7, <1>8 DEF drawn, draws

\* A draw of the scene has what its section asks for.
LEMMA DrawsAreRight ==
    ASSUME NEW f, NEW q, NEW maps, NEW r, NEW w \in Worlds, NEW display,
           NEW camera, ShowsScene(f, q, maps, r, w, display, camera),
           NEW d \in Range(SceneDraws(f))
    PROVE  /\ d.material = SectionOf(d).material /\ d.gl = RasterizerOf(display)
           /\ d.view.from = camera.transform /\ d.view.projection = camera.cached
<1>1. PICK n \in 1 .. Len(q) : d = SceneDraws(f)[n]
  BY DrawsAre DEF ShowsScene
<1>2. IsDrawOf(SceneDraws(f)[n], q[n], maps, r, w, display, camera)
  BY ShownIs
<1> QED
  BY <1>1, <1>2 DEF IsDrawOf, SectionOf

\* The frame of the viewport shows what it has to.
IsRight(f, v, r, camera, w) ==
    LET draws == SceneDraws(f)
        drawn == PlacesDrawn(draws)
        culled == v.display.cullFrustum
    IN  /\ \/ v.display.debugDepth /\ r.shadowCamera # Nothing
           \/ {s \in Drawable(w) : culled => Seen(s[1], s[2], camera)} \subseteq drawn
        /\ drawn \subseteq Drawable(w) /\ Len(draws) = Cardinality(drawn)
        /\ \A d \in Range(draws) :
              /\ d.material = SectionOf(d).material
              /\ d.gl = [wireframe |-> v.display.wireframe, cullFace |-> v.display.cullFace]
              /\ d.view.from = camera.transform
              /\ d.view.projection = [aspect |-> AspectRatio(v), type |-> camera.type,
                                      height |-> camera.height]

\* A frame without a benchmark shows what it has to.
LEMMA RegularIsRight ==
    ASSUME DeviceInv, NEW size \in Resolutions, ViewportPanel(size), ~bench.active
    PROVE  IsRight(frame', viewport', renderer', cameras'[Selected(viewport', cameras')], world)
<1> DEFINE camera == cameras'[Selected(viewport', cameras')]
<1>1. world \in Worlds /\ renderer.sorter \in Sorters
  BY NowIs DEF DeviceInv, ViewInv, BooksAreRight, IsRenderer
<1>2. /\ AreCameras(cameras') /\ IsProjected(camera, viewport') /\ viewport' \in Viewports
      /\ renderer'.sorter = renderer.sorter
      /\ viewport'.display.debugDepth /\ renderer'.shadowCamera # Nothing =>
           Shows(frame', <<>>, RasterizerOf(viewport'.display), device'.shadowMaps, camera)
      /\ ~(viewport'.display.debugDepth /\ renderer'.shadowCamera # Nothing) =>
           \E q : ShowsScene(frame', q, device'.shadowMaps, renderer', world,
                             viewport'.display, camera)
  BY PanelShows
<1>3. camera \in CameraRecords
  BY <1>2, SelectedIs
<1>4. camera.cached.aspect \in Int /\ camera.cached.height \in Int
  BY <1>3 DEF CameraRecords
<1>5. CASE viewport'.display.debugDepth /\ renderer'.shadowCamera # Nothing
  <2>1. Range(SceneDraws(frame')) = {} /\ Len(SceneDraws(frame')) = 0
    BY <1>2, <1>5, NothingIsShown
  <2>2. PlacesDrawn(SceneDraws(frame')) = {}
    BY <2>1 DEF PlacesDrawn
  <2>3. Cardinality({}) = 0
    BY FS_EmptySet
  <2> QED
    BY <1>5, <2>1, <2>2, <2>3 DEF IsRight
<1>6. CASE ~(viewport'.display.debugDepth /\ renderer'.shadowCamera # Nothing)
  <2>1. PICK q, eye : /\ eye = camera
                      /\ ShowsScene(frame', q, device'.shadowMaps, renderer', world,
                                    viewport'.display, eye)
    BY <1>2, <1>6
  <2>2. renderer'.sorter \in Sorters
    BY <1>1, <1>2
  <2>3. eye.cached.aspect \in Int /\ eye.cached.height \in Int /\ IsProjected(eye, viewport')
    BY <1>2, <1>4, <2>1
  <2>4. /\ {s \in Drawable(world) : viewport'.display.cullFrustum => Seen(s[1], s[2], eye)}
              \subseteq PlacesDrawn(SceneDraws(frame'))
        /\ PlacesDrawn(SceneDraws(frame')) \subseteq Drawable(world)
        /\ Len(SceneDraws(frame')) = Cardinality(PlacesDrawn(SceneDraws(frame')))
    BY <1>1, <2>1, <2>2, <2>3, DrawnIs
  <2>5. ASSUME NEW d \in Range(SceneDraws(frame'))
        PROVE  /\ d.material = SectionOf(d).material /\ d.gl = RasterizerOf(viewport'.display)
               /\ d.view.from = eye.transform /\ d.view.projection = eye.cached
    BY <1>1, <2>1, DrawsAreRight
  <2>6. eye.cached = [aspect |-> AspectRatio(viewport'), type |-> eye.type,
                      height |-> eye.height]
    BY <2>3 DEF IsProjected
  <2>7. IsRight(frame', viewport', renderer', eye, world)
    BY <2>4, <2>5, <2>6 DEF IsRight, RasterizerOf
  <2> QED
    BY <2>1, <2>7
<1> QED
  BY <1>5, <1>6

\* Every section that can be seen, of the meshes that are visible and loaded, is
\* drawn once and as it should be, and nothing else is (Renderer::render).
THEOREM FramesAreRight == RendererSpec => FrameIsRight
<1> DEFINE Right ==
              Regular =>
                LET camera == cameras'[Selected(viewport', cameras')]
                    draws == SceneDraws(frame')
                    drawn == {<<d.what.mesh, d.what.section>> : d \in Range(draws)}
                    culled == viewport'.display.cullFrustum
                IN  /\ \/ viewport'.display.debugDepth /\ renderer'.shadowCamera # Nothing
                       \/ {s \in Drawable(world) : culled => Seen(s[1], s[2], camera)}
                             \subseteq drawn
                    /\ drawn \subseteq Drawable(world) /\ Len(draws) = Cardinality(drawn)
                    /\ \A d \in Range(draws) :
                          /\ d.material = SectionOf(d).material
                          /\ d.gl = [wireframe |-> viewport'.display.wireframe,
                                     cullFace |-> viewport'.display.cullFace]
                          /\ d.view.from = camera.transform
                          /\ d.view.projection = [aspect |-> AspectRatio(viewport'),
                                                  type |-> camera.type,
                                                  height |-> camera.height]
<1>1. DeviceInv /\ [RendererNext]_rendererVars => [Right]_rendererVars
  <2> SUFFICES ASSUME DeviceInv, RendererNext, Regular PROVE Right
    BY DEF rendererVars
  <2>1. FrameDrawn /\ ~bench.active
    BY DEF Regular
  <2>2. PICK size \in Resolutions : ViewportPanel(size)
    BY <2>1, FramesAre
  <2>3. IsRight(frame', viewport', renderer', cameras'[Selected(viewport', cameras')], world)
    BY <2>1, <2>2, RegularIsRight
  <2> QED
    BY <2>3 DEF IsRight, PlacesDrawn
<1> QED
  BY <1>1, DeviceInvariant, PTL DEF RendererSpec, FrameIsRight
=============================================================================
