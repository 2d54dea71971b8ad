---------------------------- MODULE AssetPipeline ----------------------------
(***************************************************************************)
(* AssetPipeline: how a scene gets its materials and meshes.               *)
(*                                                                         *)
(* Three kinds of threads share the pipeline: the main thread (startup     *)
(* loop, frame loop, menu commands, destruction at the end of main()), the *)
(* pool thread that runs the scene-load task, and the pool threads that    *)
(* run one task per material or mesh.  They meet in the ResourceTracker,   *)
(* in the two pending_upload queues, in the caches of weak references and  *)
(* in the futures of the tasks.                                            *)
(*                                                                         *)
(* A load is one entry (MaterialEntry or MeshEntry) with its ticket and    *)
(* its task; its number is only a name.                                    *)
(* Entries are reference counted: Live derives who is still held.          *)
(***************************************************************************)
EXTENDS Naturals, FiniteSets, Sequences

CONSTANTS
    Materials, Meshes,  \* asset paths
    Files,              \* scene files
    Contents,           \* the objects of each file: [material, mesh] records
    Broken,             \* asset files whose import or parser throws
    MaxLoads,           \* bound: loads made in one run of the program
    None                \* "no load"

Loads == 0 .. MaxLoads - 1
Paths == Materials \cup Meshes
Objects == [material : Materials, mesh : Meshes]

ASSUME AssetAssumption ==
    /\ Materials \cap Meshes = {}
    /\ Broken \subseteq Paths
    /\ MaxLoads \in Nat
    /\ None \notin Loads \cup Paths
    /\ Contents \in [Files -> Seq(Objects)]

VARIABLES
    \* one load: its task, its ticket, its entry
    task,            \* the task and its future
    ticket,          \* ResourceTracker::resources
    cancelRequested, \* loads whose handle was cancelled
    path,            \* key in the cache
    material,        \* MeshEntry::material
    consumed,        \* loads whose future was emptied by get()
    resolved,        \* loads that were uploaded to the device
    \* the managers
    cache,           \* material_cache, mesh_cache
    queue,           \* pending_upload of each manager
    publishing,      \* the load that was submitted and is not yet published
    \* the scene-load task
    sceneTask,       \* its state and its future
    sceneCancel,     \* its handle was cancelled
    todo,            \* objects it still has to resolve
    materialRef,     \* the material of the object it is resolving
    staged,          \* what the staged scene refers to
    \* the main thread
    pc,
    home,            \* where load_scene and clear return to
    batch,           \* what process_pending or clear drained
    joining,         \* the load clear waits for
    scene,           \* what the active scene refers to
    alive            \* the parts of main() not yet destroyed

loadVars  == <<task, ticket, cancelRequested, path, material, consumed, resolved>>
taskVars  == <<sceneTask, sceneCancel, todo, materialRef, staged>>
cacheVars == <<cache, queue, publishing>>
mainVars  == <<pc, home, batch, joining, scene, alive>>
vars == <<loadVars, cacheVars, taskVars, mainVars>>

Active(l) == task[l] \in {"queued", "loading", "loaded", "returning"}
Ready(l)  == task[l] \in {"value", "error", "invalid"}

\* A shared_ptr to the entry exists.  A mesh holds its material.
Held == scene \cup staged \cup batch \cup queue["material"] \cup queue["mesh"]
          \cup {publishing}
Live == (Held \cup {material[l] : l \in Held \ {None}}) \ {None}

Unused == {l \in Loads : task[l] = "none"}

-----------------------------------------------------------------------------
(* Faulty variants: each stands for a plausible slip in the code.           *)

\* A pending entry is not put back.
NotPending(l) == FALSE

\* The tracker is asked before the scene future.
Swapped(step) == IF step = "first" THEN \A l \in Loads : ticket[l] # "pending"
                                   ELSE sceneTask \notin {"queued", "resolving"}

\* The cancelled scene task is not waited for.
NotWaited == TRUE

-----------------------------------------------------------------------------
Managers == {"material", "mesh"}
Manager(p) == IF p \in Materials THEN "material" ELSE "mesh"
Parts == {"app", "meshes", "materials", "factory", "tracker"}

-----------------------------------------------------------------------------
(* ResourceTracker. *)

\* ResourceTicket::completed, failed, cancelled: clear() makes them throw.
SetState(l, s) == IF ticket[l] = "cleared" THEN "cleared" ELSE s

TrackerClear ==
    ticket' = [l \in Loads |-> IF ticket[l] = "none" THEN "none" ELSE "cleared"]

IsFinished == \A l \in Loads : ticket[l] # "pending"
HasFailed  == \E l \in Loads : ticket[l] = "failed"

-----------------------------------------------------------------------------
(* MaterialManager::load, MeshManager::load.                                *)

Found(p) == cache[p] # None /\ cache[p] \in Live

\* Not in the cache: the ticket is taken and the task submitted.
BeginLoad(p, m) ==
    LET l == CHOOSE k \in Unused : TRUE
    IN  /\ task' = [task EXCEPT ![l] = "queued"]
        /\ ticket' = [ticket EXCEPT ![l] = "pending"]
        /\ path' = [path EXCEPT ![l] = p]
        /\ material' = [material EXCEPT ![l] = m]
        /\ cache' = [cache EXCEPT ![p] = None]
        /\ publishing' = l
        /\ UNCHANGED <<cancelRequested, consumed, resolved, queue>>

\* emplace() inserts nothing where the key exists.
EndLoad ==
    LET l == publishing
        p == path[l]
    IN  /\ cache' = [cache EXCEPT ![p] = IF @ = None THEN l ELSE @]
        /\ queue' = [queue EXCEPT ![Manager(p)] = @ \cup {l}]
        /\ publishing' = None

-----------------------------------------------------------------------------
(* The task of one load. *)

\* The ticket is set to s, and the task goes on unless that throws.
Settle(l, s, next) ==
    /\ ticket' = [ticket EXCEPT ![l] = SetState(l, s)]
    /\ task' = [task EXCEPT ![l] = IF ticket[l] = "cleared" THEN "invalid" ELSE next]

Task(l, from) ==
    /\ task[l] = from
    /\ UNCHANGED <<cancelRequested, path, material, consumed, resolved,
                   cacheVars, taskVars, mainVars>>

LoadStart(l) ==
    /\ Task(l, "queued")
    /\ IF l \in cancelRequested
         THEN Settle(l, "cancelled", "error")
         ELSE task' = [task EXCEPT ![l] = "loading"] /\ UNCHANGED ticket

\* load_material, load_texture, import_static_mesh throw.
LoadThrows(l) ==
    /\ Task(l, "loading")
    /\ path[l] \in Broken
    /\ task' = [task EXCEPT ![l] = "error"]
    /\ UNCHANGED ticket

\* failed() and then TaskCancelledError, or what failed() throws.
NoShader(l) == SetState(l, "failed")

LoadNoShader(l) ==
    /\ Task(l, "loading")
    /\ path[l] \in Materials
    /\ task' = [task EXCEPT ![l] = "error"]
    /\ ticket' = [ticket EXCEPT ![l] = NoShader(l)]

\* The checks between the steps.  A material without textures skips them.
LoadCheck(l) ==
    /\ Task(l, "loading")
    /\ \/ /\ l \in cancelRequested
          /\ Settle(l, "cancelled", "error")
       \/ /\ l \notin cancelRequested \/ path[l] \in Materials
          /\ task' = [task EXCEPT ![l] = "loaded"]
          /\ UNCHANGED ticket

LoadCompletes(l) ==
    /\ Task(l, "loaded")
    /\ Settle(l, "completed", "returning")

\* TaskSystem::submit stores the result in the promise.
LoadReturns(l) ==
    /\ Task(l, "returning")
    /\ task' = [task EXCEPT ![l] = "value"]
    /\ UNCHANGED ticket

LoadStep(l) ==
    \/ LoadStart(l) \/ LoadThrows(l) \/ LoadNoShader(l) \/ LoadCheck(l)
    \/ LoadCompletes(l) \/ LoadReturns(l)

-----------------------------------------------------------------------------
(* The scene-load task: JsonSceneLoader::load, then StaticMesh::resolve for  *)
(* every object, with RuntimeAssetResolver.                                  *)

SceneActive == sceneTask \in {"queued", "resolving"}
SceneReady  == sceneTask \in {"value", "error"}

\* The staged scene dies with the task.
SceneFails ==
    /\ sceneTask' = "error"
    /\ staged' = {}
    /\ todo' = <<>>
    /\ materialRef' = None

SceneStart ==
    /\ sceneTask = "queued"
    /\ IF sceneCancel
         THEN SceneFails
         ELSE sceneTask' = "resolving" /\ UNCHANGED <<todo, materialRef, staged>>
    /\ UNCHANGED <<loadVars, cacheVars, sceneCancel, mainVars>>

\* The JSON text or an asset file cannot be read.  Beyond MaxLoads this is all
\* that can happen.
SceneThrows ==
    /\ sceneTask = "resolving"
    /\ todo # <<>>
    /\ publishing = None
    /\ SceneFails
    /\ UNCHANGED <<loadVars, cacheVars, sceneCancel, mainVars>>

\* The material of an object first, then its mesh.
Wanted == IF materialRef = None THEN Head(todo).material ELSE Head(todo).mesh

SceneGets(l) ==
    /\ staged' = staged \cup {l}
    /\ IF materialRef = None
         THEN materialRef' = l /\ UNCHANGED todo
         ELSE materialRef' = None /\ todo' = Tail(todo)

\* cancel_all_and_wait makes submit() throw.
Accepting == pc # "wait_all"

SceneResolve ==
    /\ sceneTask = "resolving"
    /\ todo # <<>>
    /\ publishing = None
    /\ \/ /\ Found(Wanted)
          /\ SceneGets(cache[Wanted])
          /\ UNCHANGED <<loadVars, cacheVars, sceneTask>>
       \/ /\ ~Found(Wanted) /\ Accepting /\ Unused # {}
          /\ BeginLoad(Wanted, materialRef)
          /\ UNCHANGED <<todo, materialRef, staged, sceneTask>>
       \/ /\ ~Found(Wanted) /\ ~Accepting
          /\ SceneFails
          /\ UNCHANGED <<loadVars, cacheVars>>
    /\ UNCHANGED <<sceneCancel, mainVars>>

ScenePublish ==
    /\ publishing # None
    /\ SceneGets(publishing)
    /\ EndLoad
    /\ UNCHANGED <<loadVars, sceneTask, sceneCancel, mainVars>>

SceneEnd ==
    /\ sceneTask = "resolving"
    /\ todo = <<>>
    /\ IF sceneCancel
         THEN SceneFails
         ELSE sceneTask' = "value" /\ UNCHANGED <<todo, materialRef, staged>>
    /\ UNCHANGED <<loadVars, cacheVars, sceneCancel, mainVars>>

SceneStep ==
    SceneStart \/ SceneThrows \/ SceneResolve \/ ScenePublish \/ SceneEnd

-----------------------------------------------------------------------------
(* The main thread: Application::load_scene, new_scene, MeshManager::clear. *)

Goto(step) == pc' = step

\* A scene-load task in flight is cancelled first.
LoadScene ==
    /\ pc = "load"
    /\ IF sceneTask = "none"
         THEN Goto("clear") /\ UNCHANGED sceneCancel
         ELSE Goto("wait") /\ sceneCancel' = TRUE
    /\ UNCHANGED <<loadVars, cacheVars, sceneTask, todo, materialRef, staged,
                   home, batch, joining, scene, alive>>

WaitOver == SceneReady

\* The future is dropped, and with it the staged scene.
LoadSceneWait ==
    /\ pc = "wait"
    /\ WaitOver
    /\ sceneTask' = "none"
    /\ sceneCancel' = FALSE
    /\ staged' = {}
    /\ todo' = <<>>
    /\ materialRef' = None
    /\ Goto("clear")
    /\ UNCHANGED <<loadVars, cacheVars, home, batch, joining, scene, alive>>

LoadSceneClear ==
    /\ pc = "clear"
    /\ TrackerClear
    /\ Goto("destroy")
    /\ UNCHANGED <<task, cancelRequested, path, material, consumed, resolved,
                   cacheVars, taskVars, home, batch, joining, scene, alive>>

\* scene.clear(), material_manager.prune(), then mesh_manager.clear() drains.
DestroyScene ==
    /\ pc = "destroy"
    /\ scene' = {}
    /\ batch' = queue["mesh"]
    /\ queue' = [queue EXCEPT !["mesh"] = {}]
    /\ Goto("join")
    /\ UNCHANGED <<loadVars, publishing, taskVars, home, joining, alive>>
    /\ cache' = [p \in Paths |-> IF p \in Materials /\ cache[p] \notin Live'
                                   THEN None ELSE cache[p]]

\* cancel_and_wait() of one drained entry.
CancelMesh(l) ==
    /\ pc = "join"
    /\ joining = None
    /\ l \in batch \ cancelRequested
    /\ cancelRequested' = cancelRequested \cup {l}
    /\ joining' = l
    /\ UNCHANGED <<task, ticket, path, material, consumed, resolved, cacheVars,
                   taskVars, pc, home, batch, scene, alive>>

JoinMesh ==
    /\ pc = "join"
    /\ joining # None
    /\ ~Active(joining)
    /\ joining' = None
    /\ UNCHANGED <<loadVars, cacheVars, taskVars, pc, home, batch, scene, alive>>

ClearMeshCache ==
    /\ pc = "join"
    /\ joining = None
    /\ batch \subseteq cancelRequested
    /\ batch' = {}
    /\ cache' = [p \in Paths |-> IF p \in Meshes THEN None ELSE cache[p]]
    /\ Goto(CASE home = "down"   -> "meshes_gone"
              [] home = "reset"  -> "mesh_pending"
              [] home = "reload" -> "load"
              [] OTHER           -> "submit")
    /\ home' = IF home \in {"reset", "reload"} THEN "mesh_pending" ELSE home
    /\ UNCHANGED <<loadVars, queue, publishing, taskVars, joining, scene, alive>>

\* The file is read and the scene-load task submitted, or reading fails.
SubmitScene(f) ==
    /\ pc = "submit"
    /\ Unused # {}
    /\ sceneTask' = "queued"
    /\ todo' = Contents[f]
    /\ Goto(home)
    /\ UNCHANGED <<loadVars, cacheVars, sceneCancel, materialRef, staged, home,
                   batch, joining, scene, alive>>

SubmitFails ==
    /\ pc = "submit"
    /\ Goto(home)
    /\ UNCHANGED <<loadVars, cacheVars, taskVars, home, batch, joining, scene, alive>>

-----------------------------------------------------------------------------
(* MainLoop::run_startup: is_startup_ready, finish_startup_if_ready.         *)

\* The two tests of is_startup_ready, in their order: no scene future, or one
\* that is ready; then ResourceTracker::is_finished.
ReadyTest(step) == IF step = "first" THEN ~SceneActive ELSE IsFinished

StartupReady ==
    /\ pc \in {"first", "second"}
    /\ Goto(IF ~ReadyTest(pc) THEN "first"
            ELSE IF pc = "first" THEN "second" ELSE "finish")
    /\ UNCHANGED <<loadVars, cacheVars, taskVars, home, batch, joining, scene, alive>>

\* A failed load, or a failed scene, ends the program with an exception.
StartupFails ==
    /\ pc = "finish"
    /\ HasFailed \/ sceneTask = "error"
    /\ IF HasFailed THEN UNCHANGED ticket ELSE TrackerClear
    /\ Goto("quit")
    /\ UNCHANGED <<task, cancelRequested, path, material, consumed, resolved,
                   cacheVars, taskVars, home, batch, joining, scene, alive>>

\* Scene::replace: the staged scene becomes the active one.
Replace ==
    /\ sceneTask' = "none"
    /\ scene' = staged
    /\ staged' = {}

StartupFinishes ==
    /\ pc = "finish"
    /\ ~HasFailed
    /\ sceneTask # "error"
    /\ TrackerClear
    /\ IF sceneTask = "value" THEN Replace ELSE UNCHANGED <<sceneTask, scene, staged>>
    /\ Goto("mesh_pending")
    /\ home' = "mesh_pending"
    /\ UNCHANGED <<task, cancelRequested, path, material, consumed, resolved,
                   cacheVars, sceneCancel, todo, materialRef, batch, joining, alive>>

\* The window is closed while the splash screen shows.
StartupAborted ==
    /\ pc = "first"
    /\ Goto("quit")
    /\ UNCHANGED <<loadVars, cacheVars, taskVars, home, batch, joining, scene, alive>>

-----------------------------------------------------------------------------
(* Application::tick and the menu commands of a frame.                      *)

\* process_pending: drain, then look at every entry.
AfterBatch(m) ==
    CASE m = "mesh"    -> "material_pending"
      [] home = "down" -> "materials_gone"
      [] OTHER         -> "update"

PendingStep == [mesh |-> "mesh_pending", material |-> "material_pending"]
BatchStep   == [mesh |-> "mesh_batch", material |-> "material_batch"]

Drain(m) ==
    /\ pc = PendingStep[m]
    /\ batch' = queue[m]
    /\ queue' = [queue EXCEPT ![m] = {}]
    /\ Goto(IF queue[m] = {} THEN AfterBatch(m) ELSE BatchStep[m])
    /\ UNCHANGED <<loadVars, cache, publishing, taskVars, home, joining, scene, alive>>

\* The next entry of the batch.
Look(m, l) ==
    /\ pc = BatchStep[m]
    /\ l \in batch
    /\ batch' = batch \ {l}
    /\ Goto(IF batch = {l} THEN AfterBatch(m) ELSE pc)
    /\ UNCHANGED <<task, ticket, cancelRequested, path, material, cache, publishing,
                   taskVars, home, joining, scene, alive>>

\* The future is not ready yet.
StillPending(l) == l \notin resolved \cup consumed /\ Active(l)

Requeue(m, l) ==
    /\ Look(m, l)
    /\ Active(l)
    /\ queue' = [queue EXCEPT ![m] = IF StillPending(l) THEN @ \cup {l} ELSE @]
    /\ UNCHANGED <<consumed, resolved>>

\* finalize() empties the future; it throws what the task threw, or when the
\* upload fails, and then the load is not tried again.
Finalize(m, l) ==
    /\ Look(m, l)
    /\ Ready(l)
    /\ consumed' = consumed \cup {l}
    /\ \/ task[l] = "value" /\ resolved' = resolved \cup {l}
       \/ UNCHANGED resolved
    /\ UNCHANGED queue

\* update_scene_load_task.
UpdateSceneLoad ==
    /\ pc = "update"
    /\ CASE sceneTask = "value" -> Replace
         [] sceneTask = "error" -> sceneTask' = "none" /\ UNCHANGED <<scene, staged>>
         [] OTHER               -> UNCHANGED <<sceneTask, scene, staged>>
    /\ Goto("menu")
    /\ UNCHANGED <<loadVars, cacheVars, sceneCancel, todo, materialRef, home,
                   batch, joining, alive>>

\* A frame without a command; "Load ... Scene", which is reset() and then
\* load_scene(); "Clear Scene", which is reset() alone; "Quit".
Menu(step, return) ==
    /\ pc = "menu"
    /\ Goto(step)
    /\ home' = return
    /\ UNCHANGED <<loadVars, cacheVars, taskVars, batch, joining, scene, alive>>

MenuNothing == Menu("mesh_pending", home)
MenuLoad    == Menu("destroy", "reload")
MenuClear   == Menu("destroy", "reset")
MenuQuit    == Menu("quit", home)

-----------------------------------------------------------------------------
(* The end of main(): what it constructed is destroyed in reverse order.     *)

\* ~Application, ~Scene, then ~MeshManager calls clear().
AppGone ==
    /\ pc = "quit"
    /\ alive' = alive \ {"app"}
    /\ scene' = {}
    /\ batch' = queue["mesh"]
    /\ queue' = [queue EXCEPT !["mesh"] = {}]
    /\ home' = "down"
    /\ Goto("join")
    /\ UNCHANGED <<loadVars, cache, publishing, taskVars, joining>>

MeshesGone ==
    /\ pc = "meshes_gone"
    /\ alive' = alive \ {"meshes"}
    /\ Goto("material_pending")
    /\ UNCHANGED <<loadVars, cacheVars, taskVars, home, batch, joining, scene>>

\* ~MaterialManager has called process_pending once and empties the cache.
MaterialsGone ==
    /\ pc = "materials_gone"
    /\ alive' = alive \ {"materials"}
    /\ cache' = [p \in Paths |-> IF p \in Materials THEN None ELSE cache[p]]
    /\ queue' = [queue EXCEPT !["material"] = {}]
    /\ Goto("renderer_gone")
    /\ UNCHANGED <<loadVars, publishing, taskVars, home, batch, joining, scene>>

\* ~Renderer, which owns the ShaderFactory, ~ResourceTracker, and at last
\* TaskSystem::cancel_all_and_wait.
RendererGone ==
    /\ pc = "renderer_gone"
    /\ alive' = alive \ {"factory", "tracker"}
    /\ cancelRequested' = Loads \ Unused
    /\ sceneCancel' = TRUE
    /\ Goto("wait_all")
    /\ UNCHANGED <<task, ticket, path, material, consumed, resolved, cacheVars,
                   sceneTask, todo, materialRef, staged, home, batch, joining, scene>>

WaitAll ==
    /\ pc = "wait_all"
    /\ ~SceneActive
    /\ \A l \in Loads : ~Active(l)
    /\ Goto("exit")
    /\ UNCHANGED <<loadVars, cacheVars, taskVars, home, batch, joining, scene, alive>>

Teardown == AppGone \/ MeshesGone \/ MaterialsGone \/ RendererGone \/ WaitAll

-----------------------------------------------------------------------------
Init ==
    /\ task = [l \in Loads |-> "none"]
    /\ ticket = [l \in Loads |-> "none"]
    /\ cancelRequested = {}
    /\ path = [l \in Loads |-> None]
    /\ material = [l \in Loads |-> None]
    /\ consumed = {}
    /\ resolved = {}
    /\ cache = [p \in Paths |-> None]
    /\ queue = [m \in Managers |-> {}]
    /\ publishing = None
    /\ sceneTask = "none"
    /\ sceneCancel = FALSE
    /\ todo = <<>>
    /\ materialRef = None
    /\ staged = {}
    /\ pc = "load"
    /\ home = "first"
    /\ batch = {}
    /\ joining = None
    /\ scene = {}
    /\ alive = Parts

\* What load_scene, new_scene and clear do on the main thread.
SceneCommand ==
    \/ LoadScene \/ LoadSceneWait \/ LoadSceneClear \/ DestroyScene
    \/ \E l \in Loads : CancelMesh(l)
    \/ JoinMesh \/ ClearMeshCache
    \/ \E f \in Files : SubmitScene(f)
    \/ SubmitFails

\* One turn of the startup loop or of the frame loop, without a command.
Frame ==
    \/ StartupReady \/ StartupFails \/ StartupFinishes
    \/ \E m \in Managers :
         \/ Drain(m)
         \/ \E l \in Loads : Requeue(m, l) \/ Finalize(m, l)
    \/ UpdateSceneLoad \/ MenuNothing

Command == StartupAborted \/ MenuLoad \/ MenuClear \/ MenuQuit

Main == SceneCommand \/ Frame \/ Teardown

\* The program has ended.
Stopped == pc = "exit" /\ UNCHANGED vars

Next ==
    \/ Main \/ Command \/ Stopped
    \/ SceneStep
    \/ \E l \in Loads : LoadStep(l)

Spec == Init /\ [][Next]_vars

\* The main thread runs, and the pool has a thread for every task: a load
\* never waits, and the scene task waits for no other task.
FairSpec ==
    /\ Spec
    /\ WF_vars(Main)
    /\ WF_vars(SceneStep)
    /\ \A l \in Loads : WF_vars(LoadStep(l))

-----------------------------------------------------------------------------
(* Properties. *)

TaskStates == {"none", "queued", "loading", "loaded", "returning", "value",
               "error", "invalid"}

\* Every variable keeps its type; an entry waits in its own manager's queue,
\* and exactly the entries of meshes hold a material.
TypeOK ==
    /\ task \in [Loads -> TaskStates]
    /\ ticket \in [Loads -> {"none", "pending", "completed", "failed",
                             "cancelled", "cleared"}]
    /\ path \in [Loads -> Paths \cup {None}]
    /\ material \in [Loads -> Loads \cup {None}]
    /\ \A l \in Loads : material[l] # None <=> path[l] \in Meshes
    /\ cache \in [Paths -> Loads \cup {None}]
    /\ resolved \subseteq consumed /\ consumed \cup cancelRequested \subseteq Loads
    /\ \A l \in queue["material"] : l \in Loads /\ path[l] \in Materials
    /\ \A l \in queue["mesh"] : l \in Loads /\ path[l] \in Meshes
    /\ {publishing, materialRef, joining} \subseteq Loads \cup {None}
    /\ scene \cup staged \cup batch \subseteq Loads
    /\ sceneTask \in {"none", "queued", "resolving", "value", "error"}
    /\ alive \subseteq Parts

\* finish_startup_if_ready clears the tracker where "All resources are loaded":
\* no task will still want its ticket, and everything the first scene refers
\* to has loaded.  The scene task makes loads until it ends, so this rests on
\* the order of the tests in is_startup_ready.
StartupSeesEverything ==
    [][pc = "finish" /\ pc' = "mesh_pending" =>
         /\ \A l \in Loads : task[l] \notin {"queued", "loading", "loaded"}
         /\ \A l \in scene' : task[l] \in {"returning", "value"}]_vars

\* When load_scene submits a new scene nothing of the meshes of the old one is
\* left, neither a reference nor a running task, wherever the commands found
\* the previous scene task.
MeshesReleased ==
    pc = "submit" =>
      \A l \in Loads : path[l] \in Meshes => l \notin Live /\ ~Active(l)

\* The books of the managers and the tracker are well formed, and nothing of an old
\* scene is left where a new one is submitted (Application::load_scene).
ScenesApart == TypeOK /\ MeshesReleased

\* Once the frame loop runs, a load that has succeeded gets its one attempt at
\* an upload, unless it was cancelled, nobody wants it any more or the program
\* ends.
LoadsAreFinalized ==
    \A l \in Loads :
      task[l] = "value" /\ home # "first"
        ~> l \in consumed \cup cancelRequested \/ l \notin Live \/ alive # Parts

\* Startup ends, also when a shader is missing or the scene task fails, unless
\* a load has thrown and left its ticket pending.
StartupEnds ==
    <>(\/ pc \in {"mesh_pending", "quit"}
       \/ \E l \in Loads : task[l] = "error" /\ ticket[l] = "pending")

\* Loading goes on: startup ends, and what has loaded afterwards is finalized
\* (is_startup_ready, process_pending).
LoadingGoesOn == StartupEnds /\ LoadsAreFinalized

-----------------------------------------------------------------------------
(* What the documentation says and the code breaks (README, section 4):     *)
(* TLC shows both with Broken = {}.                                         *)

\* material_manager.h: load "Returns a resolvable material".  What the active
\* scene refers to has not lost its load to the ResourceTracker.
MaterialsResolvable ==
    \A l \in scene : path[l] \in Materials => task[l] # "invalid"

\* material_manager.h: "The underlying `ShaderFactory` needs to stay alive
\* while the material is asynchronously resolved."
FactoryOutlivesLoads ==
    \A l \in Loads : path[l] \in Materials /\ task[l] = "loading" => "factory" \in alive

-----------------------------------------------------------------------------
(* Why ScenesApart and StartupSeesEverything are kept.                      *)

Starting == home = "first" /\ pc # "quit"

\* The main thread: what comes after a command depends on where it was given.
StepsConsistent ==
    /\ pc \in {"load", "wait", "clear", "destroy", "join", "submit", "first", "second",
               "finish", "mesh_pending", "mesh_batch", "material_pending", "material_batch",
               "update", "menu", "quit", "meshes_gone", "materials_gone", "renderer_gone",
               "wait_all", "exit"}
    /\ home \in {"first", "mesh_pending", "reset", "reload", "down"}
    /\ pc \in {"load", "wait", "clear", "submit"} => home \in {"first", "mesh_pending"}
    /\ pc \in {"first", "second", "finish"} => home = "first"
    /\ pc = "destroy" => home # "down"
    /\ home = "first" => pc \in {"load", "wait", "clear", "destroy", "join", "submit",
                                 "first", "second", "finish", "quit"}

\* Whoever refers to a load, refers to one that was made.
Made(l) == task[l] # "none"

LoadsAreMade ==
    /\ \A l \in Loads : Made(l) <=> path[l] # None
    /\ queue \in [Managers -> SUBSET Loads]
    /\ \A l \in scene \cup staged \cup batch \cup cancelRequested \cup ({publishing} \ {None}) :
         Made(l)
    /\ \A p \in Paths : cache[p] # None => Made(cache[p])
    /\ \A l \in consumed : Ready(l)

\* The scene task: it publishes and resolves for an object it still has, and nothing
\* is staged where there is no task.
SceneConsistent ==
    /\ todo \in Seq(Objects)
    /\ publishing # None => sceneTask = "resolving"
    /\ publishing # None \/ materialRef # None => todo # <<>>
    /\ sceneTask # "resolving" => materialRef = None
    /\ sceneTask \in {"none", "error"} => staged = {}

\* process_pending and clear: no batch is forgotten, and each is of one manager.
BatchConsistent ==
    /\ pc \notin {"join", "mesh_batch", "material_batch"} => batch = {}
    /\ pc = "material_batch" => \A l \in batch : path[l] \in Materials
    /\ pc \in {"join", "mesh_batch"} => \A l \in batch : path[l] \in Meshes

\* A mesh whose task is not over is in somebody's hands, and one that was cancelled
\* has been waited for.
MeshesAccounted ==
    /\ \A l \in Loads : path[l] \in Meshes /\ Active(l) =>
         l \in queue["mesh"] \cup batch \cup {publishing}
    /\ pc \notin {"wait_all", "exit"} =>
         \A l \in cancelRequested : Active(l) => l = joining

\* Once the scene task was waited for, the old scene goes and no load is made.
OldSceneGone ==
    LET leaving == pc \in {"destroy", "join"} /\ home \in {"first", "mesh_pending"}
    IN  /\ (leaving \/ pc \in {"clear", "submit"}) => sceneTask = "none"
        /\ (pc = "submit" \/ (leaving /\ pc = "join")) => scene = {} /\ queue["mesh"] = {}

\* Before the first frame no ticket is cleared, so that each says where its task is.
TicketsTell ==
    Starting =>
      /\ scene = {} /\ cancelRequested = {}
      /\ \A l \in Loads :
           /\ task[l] # "invalid"
           /\ task[l] = "none" => ticket[l] = "none"
           /\ task[l] \in {"queued", "loading", "loaded"} => ticket[l] = "pending"
           /\ task[l] \in {"returning", "value"} => ticket[l] = "completed"
           /\ task[l] = "error" => ticket[l] \in {"pending", "failed"}

\* Startup asks the tracker after the scene task, the only one to make loads, has ended.
StartupInOrder ==
    Starting =>
      /\ pc \notin {"first", "second", "finish"} =>
           pc # "wait" /\ sceneTask = "none" /\ \A l \in Loads : task[l] = "none"
      /\ pc \in {"second", "finish"} => ~SceneActive
      /\ pc = "finish" => IsFinished

AssetInv ==
    /\ TypeOK
    /\ StepsConsistent /\ LoadsAreMade /\ SceneConsistent /\ BatchConsistent
    /\ MeshesAccounted /\ OldSceneGone /\ TicketsTell /\ StartupInOrder
=============================================================================
