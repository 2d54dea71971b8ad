# TLA+ specifications of the software rasterizer playground

This directory holds TLA+ models of the concurrent and stateful core of the
playground (`src/src`), the TLC configurations that check them, and proofs that
TLAPS checks.  It is meant to be read beside the code: every module says at its
head which part of the program it models, its variables carry the names of the
members they stand for, and its actions the names of the functions.

## 1. The system

The program is an ImGui application with a software-rendered viewport.  One
main thread runs a frame loop; a pool of threads runs tasks that load scenes,
meshes and materials; one more thread writes the log file.

| Component | State | Operations | Meets |
|---|---|---|---|
| Task scheduler (`tasks/scheduler.cpp`, `state.cpp`) | ready list, indegrees, finished list, running counter, first error; snapshot of every task | run a graph, dispatch, worker, progress, cancel | pool threads, handle holders |
| Task DAG (`tasks/dag.cpp`) | none | order, indegrees, dependents, rejects cycles and indices out of range | scheduler |
| Task system (`tasks/task_system.cpp`) | list of active submissions, accepting and shutting-down flags | submit callable or graph, handle wait / cancel, `cancel_all_and_wait`, destructor | every component that loads |
| Resource tracker (`resource_tracker.cpp`) | a state per ticket | track, completed / failed / cancelled, clear, counts | load tasks, startup loop |
| Material and mesh managers (`renderer/*_manager.cpp`) | cache of weak references, queue of pending uploads | load, process_pending, prune, clear | tracker, tasks, render device, scene task |
| Application (`application.cpp`, `main_loop.cpp`, `main.cpp`) | scene, scene-load handle and future, startup | startup loop, frame, load / reload / clear scene, shutdown | all of the above |
| Logging (`logging.cpp`) | global device, bounded queue, dropped count, session flag, stop flag | set, write, three overflow policies, writer thread, destructor | every thread |
| Render device and caches (`renderer/render_device.cpp`, `texture_cache.cpp`, `shader_cache.cpp`) | meshes, materials, shaders, textures, shadow maps; deletion queue | create / update / delete, deferred deletion, bindings | managers, renderer |
| Renderer (`renderer/renderer.cpp`) | shadow map, overlays, render queue, sort mode, benchmark | render, benchmarks, sort modes | device, scene, viewport |
| Scene and objects (`scene/`) | objects, index by id, name counters, dirty meshes, clock | add, create, remove, clear, move, tick, save | application, JSON loader, viewport |
| JSON scene files and archives (`serialization/`) | none / a stream position | load, save | scene, reflection |
| Reflection (`reflection/`) | registered classes, pending registrations, class storages | add, process a batch, unregister, construct, find, cast | scene, serialization, inspectors |
| Meshes and simplification (`meshes/`) | queue of edges, union of vertices, adjacency, triangle keys | collapse, write out, choose the source of a level | mesh manager |
| Memory (`memory/`) | counters; bump pointer; arena pages | allocate, deallocate, reset, stats | every thread |
| Viewport (`viewport.cpp`, `viewport.h`) | view, controller (eye, target, angles), navigation mode, capture, size, display settings | presets, orbit and FPS update, use scene or local camera | menus, scene, renderer |
| UI (`ui/`) | selected object and class, rows of the class table, inputs of the tools panel | edit and reset properties, menus, tools | scene, viewport, application |
| Shaders, file manager, platform | none | | |

### What is hard here, and what correctness means

* **Scheduler.**  Workers finish in any order, while the scheduler dispatches,
  a client cancels, and tasks or start conditions throw.  A circle of tasks would
  wait for ever.  Correct: exactly the circles are refused, no task runs
  before its dependencies, each is released once, the running counter is right,
  the future is settled once and truthfully, everything ends.
* **Task system.**  Registration races with `cancel_all_and_wait`, waiting on a
  flag races with its notification, graph schedulers occupy the threads their
  own workers need.  Correct: no submission is forgotten, waiters are released,
  the destructor outlives nothing.
* **Asset loading.**  Loads outlive the scene they were made for; the main
  thread changes scenes while pool threads resolve, cancel and finish; readiness
  is computed from sources that change meanwhile.  Correct: what a scene holds
  becomes resolvable, device meshes are released once, startup and shutdown end.
* **Log file.**  A bounded queue with three policies, one condition variable for
  two kinds of waiters, a destructor that must flush.  Correct: every record is
  written, counted as dropped or refused, in order, and nobody blocks for ever.
* **Render resources.**  References are dropped on any thread, deletion happens
  on the main thread a frame later, uploads fail half-way.  Correct: nothing in
  use is deleted, nothing leaks, one texture per image.
* **Scene and files.**  A staged scene is built on one thread and moved into the
  active one; flags, a list and an index of the same meshes must agree while panels
  edit them and imports end; ids outlive scenes in other components.
* **Memory.**  Lock-free counters and a compare-and-swap loop against a reset.
* **Reflection.**  A batch of registrations that fails in the middle, super classes
  that are looked up while half of them are there, libraries that come and go while
  a panel keeps a pointer.  Correct: what is published is linked, unique and whole.
* **Scene files.**  A writer whose commas and keys depend on a stack; a file edited
  by hand.  Correct: saving and loading is the identity, a bad value is clamped or
  refused, a bad entry fails the load as a whole.
* **Renderer.**  Device state, shadow map, sort mode and camera are kept from frame to
  frame while panels change the scene, and a benchmark borrows all of them for many
  frames.  Correct: a frame shows what is visible, in order, in the right light, and
  the benchmark gives back what it borrowed.
* **Simplifier.**  Books that are updated collapse by collapse and never recomputed;
  candidates that are stale when taken.  Correct: the books are the mesh's.

`PROJECT.json` lists these hazards with the line where each one bites and the
properties that would catch it.

## 2. Modules

```
TaskGraph  <--implements--  TaskScheduler  <--extends--  TaskSchedulerProofs
TaskDag         <-- TaskScheduler
TaskSystem      <-- TaskSystemProofs
AssetPipeline, MeshSimplifier  <-- AssetProofs
RenderResources <-- RenderResourcesProofs
Allocators      <-- AllocatorsProofs
ClassRegistry   <-- ClassRegistryProofs
JsonText        <-- ReflectedProperties <-- SceneFile
FileLog, SceneFile  <-- FileProofs
ViewportCamera  <-- FrameRenderer
SceneObjects, FrameRenderer    <-- SceneAndFrameProofs
```

`A <-- B` reads "B extends A".  Each module but TaskDag, TaskGraph, JsonText,
ReflectedProperties, ViewportCamera and those about proofs has an `MC` module and a
`.cfg` of its name; TaskScheduler has two.  A module
that is proved about ends in the inductive invariant of its proofs (ClassRegistry's are in
ClassRegistryProofs and FrameRenderer's in SceneAndFrameProofs), so that TLC can check it;
the proofs are in a module of their own.
AssetProofs is about both ways a mesh changes before it is drawn, its load and its
simplification, which share no variable; SceneAndFrameProofs about a scene and, of other
variables, the frames that show one; FileProofs about the two files the program writes, its
log and its scenes, which have nothing else in common.

### TaskGraph: what a submission promises

The abstract specification: each task is waiting, running, settled or failed;
it starts only after its dependencies have settled; the future is pending until
it holds a value (all settled), an exception, or is abandoned.  It is the reading
of `tasks/README.md` against which the scheduler is checked by refinement.

### TaskDag: which graphs are accepted, and in which order they run

`dag.cpp` as functions of the stated dependencies, which may name any index: `Unordered`,
`PlaceNext` and `Ordering` are `build_task_execution_order`'s loop, a pass of it at a
time, `Accepted` the graphs that none of its exceptions answers, and `ExecutionRank`
what `build_task_scheduling_data` freezes of the order.  Dependencies are a set: an
index that is listed twice is counted and released twice, which comes to the same.

### TaskScheduler: `run_task_specs_scheduler` and its workers

One graph submission.  `pc` is the position of the scheduler closure and `at[t]`
that of the worker of task `t`; `ready`, `indegree`, `completed`, `finishedQ`,
`running`, `firstError`, `cancelled`, `state`, `progress`, `result` and `finished`
are the variables of the same name.  A step is one critical section, one access to
an atomic or one call of user code.  `DispatchClaim`, `DispatchMark` and
`DispatchPush` are three steps because the code takes the shared mutex, the
snapshot mutex and the pool's queue one after the other; `WorkerFail` and
`WorkerRecord` are two because the state of the task becomes visible before its
exception is recorded.  A behaviour begins with any graph that TaskDag accepts, `deps`,
and its `rank`.  The ready list is always sorted before it is read, so it
is a set and `NextReady` its element of least rank.  Times, names, status texts
and phases are left out.

### TaskSystem: submissions, handles and the pool

`states`, `accepting`, `shuttingDown` are the members; `job[s]` is the closure of
submission `s` and `worker[s]` the one task its scheduler has out.  Waiting is
modelled down to the mutex and the condition variable (`Lock`, `Test`, `Sleep`,
`Store`, `LockUnlock`, `Notify`), because `submit` and `submit_task_specs` end
differently.  The inside of a graph is TaskScheduler's business; here it is a
closure that keeps a pool thread while it waits for a worker.

### AssetPipeline: from a scene file to uploaded meshes

A load is a number: its task (`task`), ticket (`ticket`), path, and the material a
mesh refers to.  `Live` derives from the references which entries exist.  The main
thread's `pc` walks through startup (`StartupReady` reads the scene future, then
the tracker, one step each), through the parts of
`Application::tick` in their order (drain and finalize meshes, then materials,
then the scene task), through menu commands (`load_scene` in its four steps,
`new_scene`), and through the destructors at the end of `main()`.  The scene task
resolves the objects of a file one at a time, and each load's `publishing` keeps
the submission of a task apart from the entry's arrival in cache and queue.

### FileLog: the log file and the global device

`pending`, `dropped`, `session`, `stop`, `policy` are the members of
`FileLogDevice`; `sleeping` is the wait set of its one condition variable, so
that `notify_one` may wake a producer instead of the writer.  `written` and
`offered` record what reached the file and what was handed in.

### RenderResources: who owns what the device holds

Entries, assets and device resources, and the references between them.  Dropping
the last reference runs a destructor on the thread that dropped it: `program` is what a
thread still has to defer and drop, in the order C++ destroys members, one step each.
Destructors only queue handles; the main thread's frame deletes them, a frame after
they were queued, and handles are used again afterwards, so that a late deletion
could hit somebody else's resource.  An upload fails half-way when the device
refuses an image.  An image stands for its hash: `compute_hash` looks at pixels
only.  Shaders, bindings and imported meshes are left out.

### Allocators: the heap's counters and the memory of a frame

`TrackingAllocator` counts with relaxed atomics before or after the memory changes
hands, the peak with a compare-and-swap loop; `BumpAllocator` moves a pointer the
same way; `ArenaAllocator`, on the main thread, takes pages from the heap, which
may be out of memory.  One step is one access to an atomic.  Each property looks
at one atomic at a time, so that interleaving the accesses covers what relaxed
ordering allows.  Counters wrap around at `Limit`.  Histograms, `stats()` and the
statistics of frames are left out.  In `src/` only the main thread uses the bump
allocator; the model lets every thread, as its header promises.

### SceneObjects: the objects of a scene, from the file to the frame

`objects`, `objects_by_id` and `dirty_meshes` are the members of `Scene`, `camera`
that of `Viewport`; `task` is the load task and its staged scene, `pc` the main
thread in its frame.  The load task constructs the objects, resolves one at a time
and marks meshes dirty and takes snapshots in one last step, since nobody sees the
staged scene before; any of it may throw.  The frame finalizes imports, gives dirty
meshes their sections and takes over a staged scene.  Between frames the panels
edit and reset objects, set materials, choose a camera and open or clear scenes.
An object's `shape` stands for all that its sections are generated from, `ref` for
`material_ref`, `held` for `mesh_ref`.  Whether a mesh entry is alive derives from
who holds it.  A static mesh without a path, which is never shown, is left out.  Where
AssetPipeline asks whether loads are released and resolved,
this module asks whether what is shown is what was last asked for.

### MeshSimplifier: from a mesh to its levels of detail

`active_triangles`, `vertex_triangles`, `active_triangle_keys` and `edge_queue` are the
members of the simplifier of (nearly) the same name, `root` is where the union of merged
vertices leads, and `lod_meshes`, `source` are those of `build_static_mesh_lods`.  One step is
one edge taken from the queue.  The topology is exact: link condition, duplicate
triangles, rims, compaction of the output.  The geometry is not modelled: the order of
the queue and the test for a flipped normal are free choices, so that what holds here
holds for every quadric.  Normals and the generators of `mesh.cpp` are left out.
A level can be coarser than its target by more than the two triangles of an edge: where
collapses have pinched a tube, the last edge may have four (twelve triangles, a target of
nine, six left).  `OneEdgeAtATime` therefore speaks of the faces of one edge.

### ClassRegistry: reflection's classes

Storage of a class, its place in the registry, the queue of pending entries and the
class inspector's rows and selection.  `ProcessPending` takes the batch;
`RegisterNext` and `ResolveNext` handle one entry each, `RegisterThrows` and
`ResolveThrows` leave in the middle.  Libraries load in any order and may be unloaded; objects are
constructed by name or by type.  `RegistryConsistent` puts together that names are unique,
that no class vanishes and that properties stay in declaration order.  Casts and compile-time templates are left out.

### JsonText, ReflectedProperties, SceneFile: scenes as JSON

`JsonText` holds the writer, call by call with its stack of contexts, and the parser
of its tokens.  `ReflectedProperties` holds what each kind of property accepts from a
file (narrowing to `Width`, clamping, refusal) and from a widget: a text (`SetText`) is cut
to the length its property takes, a path (`SetPath`) is stored whole, and so are the
elements of a list, since the one list property, the materials of a mesh, is of paths.
`SceneFile` composes them: `Saved` drives the writer over a scene, `SceneFrom` reads a
parsed file into a staged one (`Each` is the loop over a list's elements); its actions
construct objects, add spin animations, tick, edit and reset in the inspector, save and
load, where the file may have been edited by hand.  What an edit can do is the constant
`Edits`: in the run any value, field or entry is replaced, dropped or repeated
(`MCEdits`); the theorems hold for every `Edits`, that is whatever a file says.
A document is the sequence of its tokens.  A string in memory is one of the constant
`ByteStrings`, of which only the length in bytes and what is left when it is cut are known
(`LengthOf`, `Cut`); those that are UTF-8 are `Texts`.  A cut counts bytes, so that the cut
of a text need not be one; the writer puts out whatever bytes there are.  Digits and
escapes are not modelled.  `IsValue` is what the parser can return: values nested no deeper
than its limit, `MaxDepth`, whose strings are all `Texts`; one string that is not makes it
refuse the document as a whole (`RootOf`).  Every operation runs on one thread between frames, so each is a step.

### ViewportCamera and FrameRenderer: frames

`ViewportCamera` is the viewport with its controller; angles are quarter turns and
space is the integer lattice, so that directions are exact.  `FrameRenderer` adds the
scene, the renderer and the device.  A frame is the steps `update` (the camera),
`viewport` (the passes: shadow map, begin of the frame, draws, overlays, or an
iteration of the benchmark), `menu`, `tools` and `inspector` (the panels).  The device keeps what is bound,
the rasterizer state it believes in and the one in force, shadow maps and the open
pass; `frame` records every draw with the state it was made with, which is what the
properties judge.  Culling by boxes, levels of detail by their size on the screen, both
sorters and the comparison of sort modes are modelled; light uniforms and shaders are not.

## 3. Runs

| Run | Asks | Instance |
|---|---|---|
| `scheduler` | what is refused and how the rest is ordered; type, dependencies, counter and end of a submission; progress never falls back; refinement of TaskGraph; termination | all graphs of 3 tasks, circles and an index out of range included, the 25 acyclic ones run; 2 workers beside the scheduler, cancel, skip and throw anywhere |
| `first_failure` | the first failure is what the future reports | the same without a client that cancels (violated) |
| `task_system` | nothing is forgotten or outlives the destructor; waiters of callables are released; graphs end | a callable, a graph, 2 clients, 2 threads |
| `assets` | a new scene finds nothing of the old one; startup has seen everything; loads are finalized | a material, a mesh whose file is broken, a scene of one object, 3 loads |
| `resources` | one owner per handle, one texture per image; textures outlive materials; everything is reclaimed | two materials that share an image, one with an image the device refuses, a gear |
| `memory` | counters add up; the peak is the highest level; no byte in two hands | main thread and 2 workers, 3 calls of sizes 1 and 3, alignments 1 and 4 |
| `scene` | ids, index, list and camera agree; what is shown is current; every edit is shown | a gear, a floor and a camera; two objects of one imported mesh; a file with an id used twice |
| `file_log` | the file is complete and in order; no call blocks for ever | 2 producers, a queue of 2, batch of 2, 6 records, 3 policies |
| `simplify` | the books are the mesh's and rims stay; one edge is lost at a time, and levels are meshes that show what is left; it ends | six meshes of up to four triangles, targets in falling and rising order, every order of the queue |
| `reflection` | what is published is unique and linked; objects are whole; the inspector is current | seven classes of a program, a plug-in and the tests, with a name used twice, a circle and an entry without storage |
| `scene_file` | save and load is the identity, or the file is refused if a text was cut inside a character; values stay in range; a load is all or nothing | meshes, lights and gears with a property of every kind, 2 objects, one edit by hand anywhere in the file, a text whose last character has two bytes of which the cut keeps one |
| `frames` | each frame, its order and its shadows; benchmarks are fair and end; the eye stays | three meshes, two lights, a scene camera, 3 user events between frames |

A property of a run is often a conjunction whose parts are named in the module
(`FileIsComplete` is `TypeOK`, `RecordsAccounted`, `FileInOrder` and
`DestroyedMeansFlushed`); the parts say what each is about.

**Bounds.**  Three tasks give every shape that matters to the release of
dependents: chains, forks, joins and independent tasks; two workers beside the
scheduler let reports arrive in both orders and in one batch.  Two clients are
what a race of `cancel_all_and_wait` with a submission, or with itself, needs,
and two threads are the fewest on which a graph can run and the point where the
pool can be exhausted.  Three loads allow a scene (two loads) and the reload of one
of them.  A log queue of two records with two producers can be full with both
producers blocked while a batch is being written; six records fill it three times.
Two materials that share one image and differ in another are the fewest on which
a shared texture can go while one user stays, and a refused image makes an upload
fail after its first texture.  Three threads let one thread's compare-and-swap fail
against another's while a third reads; a bump memory of 8 is exhausted by three
aligned pieces of 3, and arena pages of 6 are both shared and too small.
Two objects of one mesh share its entry and import, with different materials; the
ids of the three files overlap, so that an id kept from one scene would name another
object of the next; nothing in `scene` needs a bound.
Tetrahedron, strip, fan, two sheets and three triangles on one edge are the smallest
meshes with, in this order, no rim, a degenerate triangle, an inner vertex, two
components whose collapse makes triangles coincide, and an edge that is not manifold;
two sequences of targets make a level from the source and from another level.
Three levels of classes and a circle are what the resolution of super classes, which
walks from class to class, can meet; one live object (`MaxObjects`) is enough for an
object whose class goes.  An int of `Width` 4 has values outside both the limits and
the width; texts take two bytes (`MaxLength`), so that a letter followed by a character
of two bytes is cut inside it, while a path holds it whole; two objects are what an id used twice takes; two damages of one file are not
combined (`MaxEdits` = 1).  In `frames` the meshes lie before, behind and around the
camera, two sections share a material and one has no bounds; the benchmark visits two
positions; `CountValues` 4 makes the count -2, converted to unsigned, a count of 2,
which stands for one near 2^64 that TLC could not finish; `MaxEvents` = 3 events,
`MaxDistance` and `MaxExtent` bound the user, the zoom and the coordinates.
`MaxLoads`, `MaxRecords` and `MaxCalls` bound how often loads, records and allocations
are made, `MaxAssets`, `MaxEntries` and `MaxHandles` how many assets, entries and
handles there are, in the guards of the actions that make them.  Nothing else is
bounded.

**Deadlock** is checked in `assets`, `file_log`, `resources`, `scene`, `reflection` and
`scene_file`, which end in an explicit stuttering step or go on for ever.  A finished
submission, a system nobody calls any more, threads that have used up `MaxCalls`, a
simplifier that is done and a program that has quit simply stop, so the two scheduler
configurations and those of `task_system`, `memory`, `simplify` and `frames` switch it off.

**Fairness.**  Threads keep running: weak fairness of each thread's next step.
A task body returns or throws in the end, `flush_interval` passes, and the pool
gives a free thread to a pushed closure.  TaskSystem needs strong fairness for its
threads because a mutex they contend for is released again and again.  No
fairness makes a client call, cancel or submit, a user choose a menu command, a
start condition throw, or a thread wake without a notification.  `SubmissionsFinish`
is conditional on a pool that is not exhausted: K graphs on K threads do starve
(`task_system.cpp:418`).  `StartupEnds` excludes broken files; see below.
Without that exclusion `StartupEnds` fails: a load that throws leaves its ticket open.
The simplifier is a sequential function: weak fairness of its steps.  Frames go on, which
`FrameRenderer` states as weak fairness of leaving the current step of the frame
(`WF_part(GoesOn)`): the program draws the next frame whatever the user does.
`MeshesAreShown` needs that frames go on and imports end, and speaks of meshes whose
material was resolved and whose import is intact and in the cache.  `Reclaimed` needs
that frames go on and that threads finish what they are destroying.

## 4. What the checks found

One disagreement has a run of its own: `first_failure` (`scheduler.cpp:348`), a failure
recorded between two passes of the scheduler's loop is reported as a cancellation that
nobody requested.

Three more are stated as properties in the modules and left out of the configurations;
adding them to the `.cfg` shows the violation:

* `WaitersReleased` of TaskSystem (`scheduler.cpp:424`), under PROPERTIES of `MCTaskSystem.cfg`: a graph
  submission stores `finished` and notifies without the waiters' mutex, so a waiter can
  sleep for ever.  `SimpleWaitersReleased`, about callables, holds.
* `MaterialsResolvable` of AssetPipeline (`application.cpp:1851`), as an invariant with
  `Broken = {}`: `load_scene` clears the tracker while material tasks of the previous
  scene run; their entries are reused and never resolve.
* `FactoryOutlivesLoads` of AssetPipeline (`main.cpp:136`), as an invariant with
  `Broken = {}` and `MaxLoads = 2`: tasks outlive what they use.

Found while modelling, without a property:

* The load of a cleared scene replaces the empty one (`application.cpp:1831`), and its
  meshes stay dirty for ever (`mesh_manager.cpp:741`).
* A start condition that throws leaves dependents open (`scheduler.cpp:414`).
* An import that throws leaves its ticket pending and startup waits for ever
  (`mesh_manager.cpp:413`).
* `logging::shutdown` calls a destroyed device (`main.cpp:93`).
* `delete_shader` reads an entry it has just erased (`shader_cache.cpp:37`).
* The profiler's 'Active' column can wrap below zero (`memory_profiler.cpp:113`).
* A material path set in the inspector is never resolved (`application.cpp:1495`).
* `create_object` after loading a file collides with the file's ids (`scene.h:460`).
* A float that is not finite is saved as text that is not JSON (`writer.h:271`).
* A text is cut by bytes when it is loaded or edited (`builtin_properties.cpp:373`,
  `scene_inspector.cpp:365`).  Inside a character, what is left is not UTF-8; it is saved
  as it is and the parser refuses the file, so the saved scene is lost.  `RoundTrip`
  says exactly when: scenes with such a text are reached in `scene_file`.
* Classes are queued while automatic queuing is off (`class_registry.cpp:181`).
* With two spotlights the map of one darkens the light of the other (`renderer.cpp:257`);
  the grid's material and shader are never deleted (`renderer.cpp:735`); the count of
  culled sections stays 0 (`renderer.h:38`).
* A negative iteration count starts a benchmark that does not end (`tools.cpp:434`); a
  change of the sort mode, or of the view, during a benchmark ends up in its results
  (`renderer.cpp:1202`) or in the wrong camera (`renderer.cpp:1178`).  `BenchmarkIsFair`
  excludes both and says what holds otherwise.

`PROJECT.json` quotes the documentation each of them contradicts.

## 5. What is proved

`TaskSchedulerProofs` proves for every finite set of tasks, whatever is stated of their
dependencies, every weight, every pool size, with or without a cancelling client, skipped
tasks and throwing conditions:

* `CirclesAreRefused`: submission refuses exactly the graphs with an index out of range or
  a circle, `RefusesCircles`;
* `SubmissionsAreOrdered`: `SubmissionIsOrdered`, that and that the ranks of a submission
  put each task after its dependencies;
* `TypeCorrect`: `TypeOK`;
* `DependenciesComeFirst`: no task is dispatched before its dependencies settle;
* `RunningIsCounted`: `running_tasks` is the number of workers out;
* `GraphIsResolved`: the error "could not be resolved" is never thrown;
* `ValueIsEarned`: a value means every task settled;
* `SettledForEver`: a task that is over for its dependents stays so.

That the graphs are acyclic is no assumption of the scheduler's proofs: the first two say
what `dag.cpp` makes of a graph, and the others use them.  They are by the invariant `Kahn`
of its loop: after `k` passes the order has `k` tasks, or nothing is left to place; no task
is there twice or before one it depends on; and `indegree` and `ready` are what the tasks
placed so far say they must be (`OneMorePlaced`).  If tasks are left at the end, each waits
for another one of them (`CycleIsFound`); and among the tasks of a circle the one placed
first would have one of them placed before it, so that an order with all tasks has no circle.

The properties are not inductive by themselves.  That no task starts early rests
on `indegree`, and that rests on the exact set of tasks whose end the scheduler has
entered in its books.  `Accounted` is that set, and the invariant `SchedulerInv`
consists of

* `Bookkeeping`: `indegree[t]` is the number of dependencies of `t` not accounted
  for, `completed` the size of `Accounted`, and a task has been taken exactly when
  all its dependencies are accounted for;
* `CurrentIdle`: the task between claim and push is in nobody else's hands;
* `WorkersConsistent`: what a worker has thrown and recorded, by where it is;
* `EndsComplete`: the loop is left, and a value set, only when all is accounted for;

together with `TypeOK`, `DependenciesFirst`, `RunningCounted` and
`AlwaysResolvable`.  `GraphIsResolved` uses `LeastRank`: if tasks are left, the one
of least rank has no open dependency, so it is ready or out.  One lemma per part
(`TypeStep`, `BookkeepingStep`, `RunningStep`, ...) has one step per action.

It goes on from there, under the same assumptions, with

* `ProgressNeverLost`: `GroupProgressGrows`, which also needs `NotBegun`, that a task the
  scheduler may still set to nothing has made no progress;
* `SubmissionEndExplained`: `EndIsExplained`, by the invariant `EndInv`, which adds to
  `SchedulerInv` the part `Ending`, what the exception in flight and the promise say, and
  since when, and `Shown`, what the snapshot shows of tasks that never ran or threw;
* `SchedulerImplementsTaskGraph`: the refinement, `Spec => ImplementsTaskGraph`.  Each
  action of the scheduler, its workers and its client maps to one of TaskGraph's or to a
  stutter under the mapping of TaskScheduler.  That a start finds all dependencies
  settled is `DependenciesFirst`, that none begins behind a settled future is
  `RunningCounted` together with `EndInv`.

`TaskSystemProofs` proves `DestructorWaitsForAll` (`NothingOutlivesSystem`) for every
set of submissions and clients and every pool.  The race is between a sweep that takes
the list of active submissions and one that registers.  The invariant `SystemInv` adds
to the property's parts `ClientsConsistent`, what a client has still to wait for by where
it is, and `DestructorAlone`: the caller of the destructor is alone, nobody can
submit, and it waits only for what its sweep took.

`FileProofs` proves `LogIsComplete` (`FileIsComplete`) for every set of producers,
every queue and batch size and all three policies.  `LogInv` strengthens the order of
the file to `Ordered`, which compares file, batch and queue with the number of the last
record, so that a swap of the whole queue keeps it; `WriterConsistent` says that the
writer leaves only when nothing is left to take, and `DestructorAlone` that nobody adds
to the queue after that.

It also proves `SceneStaysSane` (`SceneIsSane`) and `LoadsAreAllOrNothing`
(`LoadIsAllOrNothing`), for any classes, properties, widths and systems, and for every
document that a file can be turned into.  The invariant `SceneFileInv` is `IsScene`, which
gives every part of a scene its type and every value and snapshot a place in the range or
shape of its property, a text the length it takes (`ValuesOf`), and `IdsAreKnown`, that ids are distinct and
the index holds exactly them.  Reading a value, whatever the file has in its place, leaves
one that fits (`ReadFits`, one lemma per kind of property), and so does a widget
(`EditsFit`).  The loader's loops are recursive functions of the number of elements; that
each keeps the invariant, and takes as many entries as it has made objects unless something
was thrown (`LoadsTo`), is shown by least counterexample (`UpTo`, `Recursion`), without
an induction rule.  `SceneFileAssumption` says what classes are like: a constructor leaves
values that fit their properties, names are distinct within a class, every class has an id
that cannot be edited, and what is called `transform` is a matrix.

`SavedIsLoaded` (`RoundTrip`) says of every scene these steps can lead to, with any number
of objects, animations and systems, that what is written has the form of JSON, and that it
is read back as it was written if all strings of the scene are UTF-8 and refused as a whole
otherwise.  Nothing is assumed of a cut but its length.  A document is
stated for each scene, `DocumentOf`, and the writer and the loader each meet it:

- `Writes(w, u, v)` relates a call of the writer to the parser that will read its tokens.
  If the parser has read what `w` has put out, with the same contexts open and room for a
  value, then after `u` it has accepted `v`, and the writer's own stack is what it was.
  There is one lemma per call (`PutComma`, `PutKey`, `PutOpen`, `PutClose`,
  `ScalarWritten`), then one per loop (`ElementsWritten`, `RowsWritten`, `ObjectsWritten`,
  ...) and `SceneIsSaved` for the whole: no assertion fails, the stack is empty, and the
  parser's only entry is the document.  That holds after any prefix of any text, which is
  why every list is shown to be written up to its first k elements (`AllWritten`).
- `ReadSame` shows, kind by kind, that what fits a property is stored just as it is, casts
  and clamps included; here the ranges of `SceneIsSane` are needed.  `LoadObjectSame`,
  `LoadSpinSame` and `LoadSystemSame` then give one entry each, `ObjectsLoaded`,
  `SpinsLoaded` and `SystemsLoaded` the sections, and `SceneIsLoaded` the scene.  No id is
  refused because those of a whole scene are distinct.
- `DocumentIsValue` shows that the parser returns the document if all strings are UTF-8
  (`IsUtf8`), and `ReturnedIsUtf8` the converse: a document that it returns has each value
  of each object in it, so none of them is cut inside a character.

It needs `DocumentAssumption`: the parser takes five levels, the keys and the names of
classes and systems are texts, and no property has the name `class`, which the writer gives
to the first field of an object.  All are so in the code: simdjson takes 1024 levels, and no
class reflects a property of that name.

`AllocatorsProofs` is about any number of threads, sizes, alignments, tags and widths.
`PeakIsNeverLost` (`PeakIsHighest`) rests on `PeakInv`, which says what a thread carries
through the compare-and-swap loop: a level that was reached and, if it is about to swap,
one above the peak it has seen; so a swap that succeeds only raises the peak, and a thread
gives up only when the peak is at least its level.  `CountersAlwaysRight`
(`CountersRight`) and `BlocksStayApart` (`BlocksApart`) rest on `MemoryInv`.  Its
`Counted` says which blocks each counter has seen, by where their threads are in the
call; bytes are counted one by one, as the pairs of a block and an offset, so that a sum
is the size of a set and no induction over blocks is needed.  That no counter wraps needs
`MemoryAssumption`: all that is ever asked for fits in a `size_t`.  Its `ScratchInv` and
`ArenaInv` say that pieces end where the memory is used up to, and that what a thread is
about to swap, or to place on a new page, was computed from the pointer it compares with.

`SceneAndFrameProofs` proves `IdsAlwaysAgree` (`IdsAgree`) and `ShownAlwaysCurrent`
(`ShownIsCurrent`) for any scene files of any length, any ids, shapes, paths and
materials.  Neither is inductive, because a scene becomes the active one as a whole:
`SceneInv` adds `StagedMatch`, that the staged scene has its own books, as far as the
load task has come, and shows nothing yet, and `OneScene`, that nothing is active
while a scene is loaded or about to be.  Handing over then carries the books
along, and a chosen camera is never one of a scene that is gone.  One lemma per action
(`EditStep`, `DirtyStep`, `ReplaceStep`, `PostLoadStep`, ...) rests on one lemma per way
an object changes (`ResolveObject`, `MarkedObject`, `ShowObject`, ...).

It also proves every safety and action property of the frames, for any scene, sections,
boxes, lights, cameras, inputs, resolutions, levels of detail, bins and iteration counts:

* `EyeIsStill` (`EyeStays`): the controller's form of the view for one mode of navigation
  and that for the other are inverse to each other (`ThereAndBack`, `EyeIsKept`).
* `BenchmarkMeasures` (`BenchmarkIsFair`) rests on `ViewInv`, whose `BooksAreRight` relates
  what a running benchmark has saved, counted and timed to what was asked for.  One that
  the user disturbs is right up to what he touched: the history variable `touched` is
  part of it.
* `ShadowsAlwaysRight` (`ShadowsAreRight`), with `DeviceInv`: between the passes no pass is
  open, what the device believes of the rasterizer is in force, the renderer's shadow map
  is the only one, and what is bound exists (`Tidy`); in a frame the map is drawn before
  anything samples it, by a run of draws that adds one caster each (`CastersDraw`).
* `FramesAreInOrder` (`QueueInOrder`).  Sorting is stated once, as the list of the pairs of
  key and index in their order (`SortedBy`); that this is a permutation that keeps equal
  keys in their order follows from counting the pairs before each (`RanksAre`), by
  well-founded descent instead of an induction.  Of the bins one fact about integer
  division is needed: entries in the order of their bins are out of order by no more than a
  bin is wide, also when the range of depths is zero (`BinsAreOrdered`).
* `FramesAreRight` (`FrameIsRight`).  A draw is that of the submission at its place
  (`ShownIs`), whatever was bound before.  Culling drops a section when a plane has all
  corners of its box, or of its mesh's box, outside.  Each of the planes is an affine
  function (`PlaneIs`), so that a box is never inside at a point and outside at all its
  corners (`CornerIs`), and the box of a mesh contains those of its sections
  (`CornersAreWithin`): a section with a corner inside is never dropped (`SeenIsDrawn`).

`ClassRegistryProofs` is about any classes, libraries and hierarchies, of any depth:

* `RegistryIsConsistent` (`RegistryConsistent`).  That no class vanishes speaks of the
  time between calls; `RegistryInv` says what holds inside one: the links of the
  classes of the batch may be missing (`NothingLost`), and what the resolver has visited
  is linked (`VisitedLinked`), so that a batch that ends well has linked all its classes
  and one that throws has its classes, and no others, among the spoilt.
* `ObjectsStayWhole` (`ObjectsAreWhole`).  `StorageInv` says that a storage is filled at
  once and with what the class declared, and that a link is the one the resolver returned
  and leads to a filled storage.  The test of the links, which climbs them, therefore
  succeeds only if it climbs to the root by the very chain that `construct` collects its
  properties from, and two chains that agree in every step are equal.
* `InspectorStaysCurrent` (`InspectorIsCurrent`), with `InspectorInv`: no class of a batch
  is in the chain of the class whose rows are shown, so no step of the resolver changes
  what the rows were read from.

Chains are recursive functions of the number of steps, and what they reach is shown by
least counterexample (`UpTo`, `Recursion`): the set of steps at which a statement fails
has, if any, a least element.  `ClassesAssumption` says that a resolver returns a class
that has a storage.

`RenderResourcesProofs` proves `NothingIsTwice` (`NothingTwice`) and `TexturesOutlive`
(`TexturesOutliveMaterials`) for any materials, images and meshes, any number of entries
and handles, and wherever an upload fails.  `ResourceInv` tells in whose hands everything
is: nothing refers to an entry that is gone (`References`); a device object exists
exactly if one entry, one destructor's next step or one request in the queue has it
(`Owned`), and destructors defer before they drop (`DefersFirst`), so that only the next
step matters; the texture cache knows every texture entry, by the image that the device has
(`TexturesCached`); a material that was uploaded is bound to what its entry says, and
nobody else is about to upload it (`MaterialsUploaded`); and what a material is bound
with is there, because a destructor that is about to defer the material still refers to its
textures (`TexturesHeld`).  Since handles are used again, that last part is needed in every
step that makes or deletes one.

`AssetProofs` proves `ScenesStayApart` (`ScenesApart`) and, of every step,
`StartupLeavesNothing` (`StartupSeesEverything`), for any materials, meshes, files of any
length and number of loads.  `AssetInv` accounts for what the two rest on.  For
the first: a mesh whose task is not over is in the queue, in the batch or being published,
and one that was cancelled has been waited for (`MeshesAccounted`); the commands that
submit a scene have waited for the scene task and emptied scene and queue
(`OldSceneGone`), by where they were given (`StepsConsistent`).  For the second: before
the first frame no ticket is cleared, so that a ticket tells where its task is
(`TicketsTell`), and the tracker is asked only after the one task that makes loads has
ended (`StartupInOrder`).

It also proves `MeshStaysKnown` (`MeshIsKnown`) and `LevelsStayMade` (`LevelsAreMade`), for
meshes of any size and any levels.  What the simplifier knows is nearly inductive as it
stands: `TopologyInv` adds that roots lead to themselves, that the queue holds vertices of
the mesh, and that guarded vertices are merged with none (`RimsStay`).  The work is in the
collapse (`CollapseBooks`): a key loses a vertex exactly if it has both that are merged, so
what goes are the faces of that edge; and no two keys become equal, because the test
compares each new key with the other new ones and, through `active_triangle_keys`, with
those of the triangles that are not affected.  That set also holds stale keys, which is why
the invariant speaks only of those made of roots.  `LevelsInv` says that no level has more
triangles, or a degenerate one, that the source has not.  `NumbersAre` shows that counting
the vertices seen so far numbers them without a gap, by the least place of each.

Assumed are the named assumptions on the constants (`DagAssumption`, `TaskAssumption`, ...), which
TLC evaluates in every run, and the theorems of the prover's library on finite sets and sequences.

Only model-checked are the liveness properties: fairness and `ENABLED` are out of the
prover's reach.  Every safety invariant that a run checks is a theorem.

## 6. Not modelled, and the plan

Rasterization, shaders, gear and primitive generation and the simplifier's error metric
compute with reals and are out of TLC's reach; importers, path resolution, the start-up
of SDL and what panels draw are I/O and layout; containers and property templates have
no behaviour of their own.  `PROJECT.json` lists every component with its reason.

What is left, in this order:

1. **MeshManager**'s rollback of an upload that fails between two sections.
2. Archives: that what is written is read back.
