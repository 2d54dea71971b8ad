----------------------------- MODULE AssetProofs -----------------------------
(***************************************************************************)
(* Proofs about how assets get into a scene, AssetPipeline and             *)
(* MeshSimplifier, each for every value of its constants.                  *)
(*                                                                         *)
(* AssetPipeline, for any materials, meshes, scene files and number of     *)
(* loads: nothing of an old scene is left where a new one is submitted,    *)
(* and startup ends only after everything has loaded.                      *)
(*                                                                         *)
(* MeshSimplifier, for meshes of any size and any levels: what it knows of *)
(* a mesh is the mesh, rims stay, and every level is a mesh that shows the *)
(* triangles that are left.                                                *)
(***************************************************************************)
EXTENDS AssetPipeline, MeshSimplifier, TLAPS, FiniteSetTheorems

\* The program starts with an empty cache, no task and the first scene to load.
LEMMA InitAssets == ASSUME Init PROVE AssetInv
<1> USE AssetAssumption DEF Init
<1>1. TypeOK
  BY DEF TypeOK, TaskStates, Parts, Paths, Managers
<1>2. StepsConsistent /\ LoadsAreMade /\ SceneConsistent /\ BatchConsistent
  BY DEF StepsConsistent, LoadsAreMade, SceneConsistent, BatchConsistent, Made
<1>3. MeshesAccounted /\ OldSceneGone /\ TicketsTell /\ StartupInOrder
  BY DEF MeshesAccounted, OldSceneGone, TicketsTell, StartupInOrder, Starting, Active
<1> QED
  BY <1>1, <1>2, <1>3 DEF AssetInv

-----------------------------------------------------------------------------
(* What steps have in common.                                               *)

\* A new load gets a number that was not used, and is in nobody's hands yet.
LEMMA NewLoad ==
    ASSUME TypeOK, Unused # {}, NEW p, NEW m, BeginLoad(p, m)
    PROVE  \E l \in Loads :
             /\ task[l] = "none"
             /\ task' = [task EXCEPT ![l] = "queued"]
             /\ ticket' = [ticket EXCEPT ![l] = "pending"]
             /\ path' = [path EXCEPT ![l] = p]
             /\ material' = [material EXCEPT ![l] = m]
             /\ cache' = [cache EXCEPT ![p] = None]
             /\ publishing' = l
             /\ UNCHANGED <<cancelRequested, consumed, resolved, queue>>
BY DEF BeginLoad, Unused

\* A step of a load's task changes that task and its ticket, which stays a ticket; it
\* does not bring a task back that is over, and only a cleared tracker invalidates it.
LEMMA TaskStep ==
    ASSUME TypeOK, NEW l \in Loads, LoadStep(l)
    PROVE  /\ UNCHANGED <<cancelRequested, path, material, consumed, resolved,
                          cacheVars, taskVars, mainVars>>
           /\ Active(l)
           /\ \E next \in TaskStates \ {"none", "queued"} :
                task' = [task EXCEPT ![l] = next]
           /\ \E s \in {"completed", "failed", "cancelled", "cleared"} :
                ticket' = [ticket EXCEPT ![l] = s] \/ UNCHANGED ticket
<1> USE DEF Task, Settle, SetState, Active, TypeOK, TaskStates
<1>1. CASE LoadStart(l)
  BY <1>1 DEF LoadStart
<1>2. CASE LoadThrows(l)
  BY <1>2 DEF LoadThrows
<1>3. CASE LoadNoShader(l)
  BY <1>3 DEF LoadNoShader, NoShader
<1>4. CASE LoadCheck(l)
  BY <1>4 DEF LoadCheck
<1>5. CASE LoadCompletes(l)
  BY <1>5 DEF LoadCompletes
<1>6. CASE LoadReturns(l)
  BY <1>6 DEF LoadReturns
<1> QED
  BY <1>1, <1>2, <1>3, <1>4, <1>5, <1>6 DEF LoadStep

\* The first of the objects that are left, and the others.
LEMMA NextObject ==
    ASSUME SceneConsistent, todo # <<>>
    PROVE  Head(todo) \in Objects /\ Tail(todo) \in Seq(Objects)
<1>1. todo \in Seq(Objects)
  BY DEF SceneConsistent
<1> QED
  BY <1>1

\* A file describes objects.
LEMMA ContentsTyped == ASSUME NEW f \in Files PROVE Contents[f] \in Seq(Objects)
BY AssetAssumption

-----------------------------------------------------------------------------
(* The main thread.                                                         *)

\* load_scene, new_scene and MeshManager::clear.
LEMMA SceneCommandKeeps ==
    ASSUME AssetInv, SceneCommand
    PROVE  AssetInv'
<1> USE AssetAssumption DEF AssetInv, loadVars, taskVars, cacheVars, mainVars, Goto
<1>1. CASE LoadScene
  <2>1. TypeOK'
    BY <1>1 DEF LoadScene, TypeOK
  <2>2. LoadsAreMade' /\ BatchConsistent' /\ MeshesAccounted'
    BY <1>1
    DEF LoadScene, LoadsAreMade, BatchConsistent, MeshesAccounted, Made, Active, Ready
  <2>3. SceneConsistent'
    BY <1>1 DEF LoadScene, SceneConsistent
  <2>4. StepsConsistent' /\ OldSceneGone'
    BY <1>1 DEF LoadScene, StepsConsistent, OldSceneGone
  <2>5. TicketsTell' /\ StartupInOrder'
    BY <1>1 DEF LoadScene, TicketsTell, StartupInOrder, Starting
  <2> QED
    BY <2>1, <2>2, <2>3, <2>4, <2>5
<1>2. CASE LoadSceneWait
  <2>1. TypeOK'
    BY <1>2 DEF LoadSceneWait, TypeOK
  <2>2. LoadsAreMade' /\ BatchConsistent' /\ MeshesAccounted'
    BY <1>2
    DEF LoadSceneWait, LoadsAreMade, BatchConsistent, MeshesAccounted, Made, Active, Ready
  <2>3. SceneConsistent'
    BY <1>2 DEF LoadSceneWait, WaitOver, SceneReady, SceneConsistent
  <2>4. StepsConsistent' /\ OldSceneGone'
    BY <1>2 DEF LoadSceneWait, StepsConsistent, OldSceneGone
  <2>5. TicketsTell' /\ StartupInOrder'
    BY <1>2 DEF LoadSceneWait, TicketsTell, StartupInOrder, Starting
  <2> QED
    BY <2>1, <2>2, <2>3, <2>4, <2>5
<1>3. CASE LoadSceneClear
  <2>1. TypeOK'
    BY <1>3 DEF LoadSceneClear, TrackerClear, TypeOK
  <2>2. LoadsAreMade' /\ BatchConsistent' /\ MeshesAccounted'
    BY <1>3
    DEF LoadSceneClear, LoadsAreMade, BatchConsistent, MeshesAccounted, Made, Active,
        Ready
  <2>3. SceneConsistent'
    BY <1>3 DEF LoadSceneClear, SceneConsistent
  <2>4. StepsConsistent' /\ OldSceneGone'
    BY <1>3 DEF LoadSceneClear, StepsConsistent, OldSceneGone
  <2>5. TicketsTell' /\ StartupInOrder'
    BY <1>3 DEF LoadSceneClear, TrackerClear, TicketsTell, StartupInOrder, Starting
  <2> QED
    BY <2>1, <2>2, <2>3, <2>4, <2>5
<1>4. CASE DestroyScene
  <2>1. TypeOK'
    BY <1>4 DEF DestroyScene, TypeOK
  <2>2. LoadsAreMade' /\ BatchConsistent' /\ MeshesAccounted'
    BY <1>4
    DEF DestroyScene, TypeOK, LoadsAreMade, BatchConsistent, MeshesAccounted, Made, Active,
        Ready, Managers, Paths
  <2>3. SceneConsistent'
    BY <1>4 DEF DestroyScene, SceneConsistent
  <2>4. StepsConsistent' /\ OldSceneGone'
    BY <1>4 DEF DestroyScene, StepsConsistent, OldSceneGone, LoadsAreMade, Managers
  <2>5. TicketsTell' /\ StartupInOrder'
    BY <1>4 DEF DestroyScene, TicketsTell, StartupInOrder, Starting
  <2> QED
    BY <2>1, <2>2, <2>3, <2>4, <2>5
<1>5. CASE \E l \in Loads : CancelMesh(l)
  <2>1. TypeOK'
    BY <1>5 DEF CancelMesh, TypeOK
  <2>2. LoadsAreMade' /\ BatchConsistent' /\ MeshesAccounted'
    BY <1>5
    DEF CancelMesh, TypeOK, LoadsAreMade, BatchConsistent, MeshesAccounted, Made, Active,
        Ready
  <2>3. SceneConsistent'
    BY <1>5 DEF CancelMesh, SceneConsistent
  <2>4. StepsConsistent' /\ OldSceneGone'
    BY <1>5 DEF CancelMesh, StepsConsistent, OldSceneGone
  <2>5. TicketsTell' /\ StartupInOrder'
    BY <1>5 DEF CancelMesh, TicketsTell, StartupInOrder, Starting, LoadsAreMade, Made
  <2> QED
    BY <2>1, <2>2, <2>3, <2>4, <2>5
<1>6. CASE JoinMesh
  <2>1. TypeOK'
    BY <1>6 DEF JoinMesh, TypeOK
  <2>2. LoadsAreMade' /\ BatchConsistent' /\ MeshesAccounted'
    BY <1>6
    DEF JoinMesh, LoadsAreMade, BatchConsistent, MeshesAccounted, Made, Active, Ready
  <2>3. SceneConsistent'
    BY <1>6 DEF JoinMesh, SceneConsistent
  <2>4. StepsConsistent' /\ OldSceneGone'
    BY <1>6 DEF JoinMesh, StepsConsistent, OldSceneGone
  <2>5. TicketsTell' /\ StartupInOrder'
    BY <1>6 DEF JoinMesh, TicketsTell, StartupInOrder, Starting
  <2> QED
    BY <2>1, <2>2, <2>3, <2>4, <2>5
<1>7. CASE ClearMeshCache
  <2>1. TypeOK'
    BY <1>7 DEF ClearMeshCache, TypeOK
  <2>2. LoadsAreMade' /\ BatchConsistent' /\ MeshesAccounted'
    BY <1>7
    DEF ClearMeshCache, LoadsAreMade, BatchConsistent, MeshesAccounted, Made, Active,
        Ready
  <2>3. SceneConsistent'
    BY <1>7 DEF ClearMeshCache, SceneConsistent
  <2>4. StepsConsistent' /\ OldSceneGone'
    BY <1>7 DEF ClearMeshCache, StepsConsistent, OldSceneGone
  <2>5. TicketsTell' /\ StartupInOrder'
    BY <1>7 DEF ClearMeshCache, TicketsTell, StartupInOrder, Starting
  <2> QED
    BY <2>1, <2>2, <2>3, <2>4, <2>5
<1>8. CASE \E f \in Files : SubmitScene(f)
  <2>1. TypeOK'
    BY <1>8 DEF SubmitScene, TypeOK
  <2>2. LoadsAreMade' /\ BatchConsistent' /\ MeshesAccounted'
    BY <1>8
    DEF SubmitScene, LoadsAreMade, BatchConsistent, MeshesAccounted, Made, Active, Ready
  <2>3. SceneConsistent'
    BY <1>8, ContentsTyped DEF SubmitScene, SceneConsistent, OldSceneGone
  <2>4. StepsConsistent' /\ OldSceneGone'
    BY <1>8 DEF SubmitScene, StepsConsistent, OldSceneGone
  <2>5. TicketsTell' /\ StartupInOrder'
    BY <1>8 DEF SubmitScene, TicketsTell, StartupInOrder, Starting
  <2> QED
    BY <2>1, <2>2, <2>3, <2>4, <2>5
<1>9. CASE SubmitFails
  <2>1. TypeOK'
    BY <1>9 DEF SubmitFails, TypeOK
  <2>2. LoadsAreMade' /\ BatchConsistent' /\ MeshesAccounted'
    BY <1>9
    DEF SubmitFails, LoadsAreMade, BatchConsistent, MeshesAccounted, Made, Active, Ready
  <2>3. SceneConsistent'
    BY <1>9 DEF SubmitFails, SceneConsistent
  <2>4. StepsConsistent' /\ OldSceneGone'
    BY <1>9 DEF SubmitFails, StepsConsistent, OldSceneGone
  <2>5. TicketsTell' /\ StartupInOrder'
    BY <1>9 DEF SubmitFails, TicketsTell, StartupInOrder, Starting
  <2> QED
    BY <2>1, <2>2, <2>3, <2>4, <2>5
<1> QED
  BY <1>1, <1>2, <1>3, <1>4, <1>5, <1>6, <1>7, <1>8, <1>9 DEF SceneCommand

\* The startup loop.
LEMMA StartupKeeps ==
    ASSUME AssetInv,
           StartupReady \/ StartupFails \/ StartupFinishes \/ StartupAborted
    PROVE  AssetInv'
<1> USE AssetAssumption DEF AssetInv, loadVars, taskVars, cacheVars, mainVars, Goto
<1>1. CASE StartupReady
  <2>1. TypeOK'
    BY <1>1 DEF StartupReady, TypeOK
  <2>2. LoadsAreMade' /\ BatchConsistent' /\ MeshesAccounted'
    BY <1>1
    DEF StartupReady, LoadsAreMade, BatchConsistent, MeshesAccounted, Made, Active, Ready
  <2>3. SceneConsistent'
    BY <1>1 DEF StartupReady, SceneConsistent
  <2>4. StepsConsistent' /\ OldSceneGone'
    BY <1>1 DEF StartupReady, StepsConsistent, OldSceneGone
  <2>5. TicketsTell' /\ StartupInOrder'
    BY <1>1
    DEF StartupReady, ReadyTest, TicketsTell, StartupInOrder, Starting, SceneActive,
        IsFinished
  <2> QED
    BY <2>1, <2>2, <2>3, <2>4, <2>5
<1>2. CASE StartupFails
  <2>1. TypeOK'
    BY <1>2 DEF StartupFails, TrackerClear, TypeOK
  <2>2. LoadsAreMade' /\ BatchConsistent' /\ MeshesAccounted'
    BY <1>2
    DEF StartupFails, LoadsAreMade, BatchConsistent, MeshesAccounted, Made, Active, Ready
  <2>3. SceneConsistent'
    BY <1>2 DEF StartupFails, SceneConsistent
  <2>4. StepsConsistent' /\ OldSceneGone'
    BY <1>2 DEF StartupFails, StepsConsistent, OldSceneGone
  <2>5. TicketsTell' /\ StartupInOrder'
    BY <1>2 DEF StartupFails, TicketsTell, StartupInOrder, Starting
  <2> QED
    BY <2>1, <2>2, <2>3, <2>4, <2>5
<1>3. CASE StartupFinishes
  <2>1. TypeOK'
    BY <1>3 DEF StartupFinishes, TrackerClear, Replace, TypeOK
  <2>2. LoadsAreMade' /\ BatchConsistent' /\ MeshesAccounted'
    BY <1>3
    DEF StartupFinishes, Replace, LoadsAreMade, BatchConsistent, MeshesAccounted, Made,
        Active, Ready
  <2>3. SceneConsistent'
    BY <1>3 DEF StartupFinishes, Replace, SceneConsistent
  <2>4. StepsConsistent' /\ OldSceneGone'
    BY <1>3 DEF StartupFinishes, StepsConsistent, OldSceneGone
  <2>5. TicketsTell' /\ StartupInOrder'
    BY <1>3 DEF StartupFinishes, TicketsTell, StartupInOrder, Starting
  <2> QED
    BY <2>1, <2>2, <2>3, <2>4, <2>5
<1>4. CASE StartupAborted
  <2>1. TypeOK'
    BY <1>4 DEF StartupAborted, TypeOK
  <2>2. LoadsAreMade' /\ BatchConsistent' /\ MeshesAccounted'
    BY <1>4
    DEF StartupAborted, LoadsAreMade, BatchConsistent, MeshesAccounted, Made, Active,
        Ready
  <2>3. SceneConsistent'
    BY <1>4 DEF StartupAborted, SceneConsistent
  <2>4. StepsConsistent' /\ OldSceneGone'
    BY <1>4 DEF StartupAborted, StepsConsistent, OldSceneGone
  <2>5. TicketsTell' /\ StartupInOrder'
    BY <1>4 DEF StartupAborted, TicketsTell, StartupInOrder, Starting
  <2> QED
    BY <2>1, <2>2, <2>3, <2>4, <2>5
<1> QED
  BY <1>1, <1>2, <1>3, <1>4

\* A frame, and the menu.
LEMMA FrameKeeps ==
    ASSUME AssetInv,
           \/ \E m \in Managers : Drain(m)
           \/ \E m \in Managers : \E l \in Loads : Requeue(m, l)
           \/ \E m \in Managers : \E l \in Loads : Finalize(m, l)
           \/ UpdateSceneLoad
           \/ MenuNothing \/ MenuLoad \/ MenuClear \/ MenuQuit
    PROVE  AssetInv'
<1> USE AssetAssumption DEF AssetInv, loadVars, taskVars, cacheVars, mainVars, Goto
<1>1. CASE \E m \in Managers : Drain(m)
  <2>1. TypeOK'
    BY <1>1 DEF Drain, TypeOK, LoadsAreMade
  <2>2. LoadsAreMade' /\ BatchConsistent' /\ MeshesAccounted'
    BY <1>1
    DEF Drain, BatchStep, PendingStep, TypeOK, LoadsAreMade, BatchConsistent,
        MeshesAccounted, Made, Active, Ready, Managers, Paths
  <2>3. SceneConsistent'
    BY <1>1 DEF Drain, SceneConsistent
  <2>4. StepsConsistent' /\ OldSceneGone'
    BY <1>1
    DEF Drain, AfterBatch, BatchStep, PendingStep, StepsConsistent, OldSceneGone, Managers
  <2>5. TicketsTell' /\ StartupInOrder'
    BY <1>1
    DEF Drain, AfterBatch, BatchStep, PendingStep, TicketsTell, StartupInOrder, Starting,
        Managers
  <2> QED
    BY <2>1, <2>2, <2>3, <2>4, <2>5
<1>2. CASE \E m \in Managers : \E l \in Loads : Requeue(m, l)
  <2>1. TypeOK'
    BY <1>2 DEF Requeue, Look, BatchStep, TypeOK, BatchConsistent
  <2>2. LoadsAreMade' /\ BatchConsistent' /\ MeshesAccounted'
    BY <1>2
    DEF Requeue, Look, BatchStep, StillPending, TypeOK, LoadsAreMade, BatchConsistent,
        MeshesAccounted, Made, Active, Ready, Managers
  <2>3. SceneConsistent'
    BY <1>2 DEF Requeue, Look, SceneConsistent
  <2>4. StepsConsistent' /\ OldSceneGone'
    BY <1>2
    DEF Requeue, Look, AfterBatch, BatchStep, StepsConsistent, OldSceneGone, Managers
  <2>5. TicketsTell' /\ StartupInOrder'
    BY <1>2
    DEF Requeue, Look, AfterBatch, TicketsTell, StartupInOrder, Starting, BatchConsistent
  <2> QED
    BY <2>1, <2>2, <2>3, <2>4, <2>5
<1>3. CASE \E m \in Managers : \E l \in Loads : Finalize(m, l)
  <2>1. TypeOK'
    BY <1>3 DEF Finalize, Look, TypeOK
  <2>2. LoadsAreMade' /\ BatchConsistent' /\ MeshesAccounted'
    BY <1>3
    DEF Finalize, Look, LoadsAreMade, BatchConsistent, MeshesAccounted, Made, Active,
        Ready
  <2>3. SceneConsistent'
    BY <1>3 DEF Finalize, Look, SceneConsistent
  <2>4. StepsConsistent' /\ OldSceneGone'
    BY <1>3
    DEF Finalize, Look, AfterBatch, BatchStep, StepsConsistent, OldSceneGone, Managers
  <2>5. TicketsTell' /\ StartupInOrder'
    BY <1>3
    DEF Finalize, Look, AfterBatch, TicketsTell, StartupInOrder, Starting, BatchConsistent
  <2> QED
    BY <2>1, <2>2, <2>3, <2>4, <2>5
<1>4. CASE UpdateSceneLoad
  <2>1. TypeOK'
    BY <1>4 DEF UpdateSceneLoad, Replace, TypeOK
  <2>2. LoadsAreMade' /\ BatchConsistent' /\ MeshesAccounted'
    BY <1>4
    DEF UpdateSceneLoad, Replace, LoadsAreMade, BatchConsistent, MeshesAccounted, Made,
        Active, Ready
  <2>3. SceneConsistent'
    BY <1>4 DEF UpdateSceneLoad, Replace, SceneConsistent
  <2>4. StepsConsistent' /\ OldSceneGone'
    BY <1>4 DEF UpdateSceneLoad, StepsConsistent, OldSceneGone
  <2>5. TicketsTell' /\ StartupInOrder'
    BY <1>4 DEF UpdateSceneLoad, TicketsTell, StartupInOrder, Starting
  <2> QED
    BY <2>1, <2>2, <2>3, <2>4, <2>5
<1>5. CASE MenuNothing
  <2>1. TypeOK'
    BY <1>5 DEF MenuNothing, Menu, TypeOK
  <2>2. LoadsAreMade' /\ BatchConsistent' /\ MeshesAccounted'
    BY <1>5
    DEF MenuNothing, Menu, LoadsAreMade, BatchConsistent, MeshesAccounted, Made, Active,
        Ready
  <2>3. SceneConsistent'
    BY <1>5 DEF MenuNothing, Menu, SceneConsistent
  <2>4. StepsConsistent' /\ OldSceneGone'
    BY <1>5 DEF MenuNothing, Menu, StepsConsistent, OldSceneGone
  <2>5. TicketsTell' /\ StartupInOrder'
    BY <1>5 DEF MenuNothing, Menu, TicketsTell, StartupInOrder, Starting
  <2> QED
    BY <2>1, <2>2, <2>3, <2>4, <2>5
<1>6. CASE MenuLoad
  <2>1. TypeOK'
    BY <1>6 DEF MenuLoad, Menu, TypeOK
  <2>2. LoadsAreMade' /\ BatchConsistent' /\ MeshesAccounted'
    BY <1>6
    DEF MenuLoad, Menu, LoadsAreMade, BatchConsistent, MeshesAccounted, Made, Active,
        Ready
  <2>3. SceneConsistent'
    BY <1>6 DEF MenuLoad, Menu, SceneConsistent
  <2>4. StepsConsistent' /\ OldSceneGone'
    BY <1>6 DEF MenuLoad, Menu, StepsConsistent, OldSceneGone
  <2>5. TicketsTell' /\ StartupInOrder'
    BY <1>6 DEF MenuLoad, Menu, TicketsTell, StartupInOrder, Starting
  <2> QED
    BY <2>1, <2>2, <2>3, <2>4, <2>5
<1>7. CASE MenuClear
  <2>1. TypeOK'
    BY <1>7 DEF MenuClear, Menu, TypeOK
  <2>2. LoadsAreMade' /\ BatchConsistent' /\ MeshesAccounted'
    BY <1>7
    DEF MenuClear, Menu, LoadsAreMade, BatchConsistent, MeshesAccounted, Made, Active,
        Ready
  <2>3. SceneConsistent'
    BY <1>7 DEF MenuClear, Menu, SceneConsistent
  <2>4. StepsConsistent' /\ OldSceneGone'
    BY <1>7 DEF MenuClear, Menu, StepsConsistent, OldSceneGone
  <2>5. TicketsTell' /\ StartupInOrder'
    BY <1>7 DEF MenuClear, Menu, TicketsTell, StartupInOrder, Starting
  <2> QED
    BY <2>1, <2>2, <2>3, <2>4, <2>5
<1>8. CASE MenuQuit
  <2>1. TypeOK'
    BY <1>8 DEF MenuQuit, Menu, TypeOK
  <2>2. LoadsAreMade' /\ BatchConsistent' /\ MeshesAccounted'
    BY <1>8
    DEF MenuQuit, Menu, LoadsAreMade, BatchConsistent, MeshesAccounted, Made, Active,
        Ready
  <2>3. SceneConsistent'
    BY <1>8 DEF MenuQuit, Menu, SceneConsistent
  <2>4. StepsConsistent' /\ OldSceneGone'
    BY <1>8 DEF MenuQuit, Menu, StepsConsistent, OldSceneGone
  <2>5. TicketsTell' /\ StartupInOrder'
    BY <1>8 DEF MenuQuit, Menu, TicketsTell, StartupInOrder, Starting
  <2> QED
    BY <2>1, <2>2, <2>3, <2>4, <2>5
<1> QED
  BY <1>1, <1>2, <1>3, <1>4, <1>5, <1>6, <1>7, <1>8

\* The end of main().
LEMMA TeardownKeeps ==
    ASSUME AssetInv, Teardown
    PROVE  AssetInv'
<1> USE AssetAssumption DEF AssetInv, loadVars, taskVars, cacheVars, mainVars, Goto
<1>1. CASE AppGone
  <2>1. TypeOK'
    BY <1>1 DEF AppGone, TypeOK
  <2>2. LoadsAreMade' /\ BatchConsistent' /\ MeshesAccounted'
    BY <1>1
    DEF AppGone, TypeOK, LoadsAreMade, BatchConsistent, MeshesAccounted, Made, Active,
        Ready, Managers, Paths
  <2>3. SceneConsistent'
    BY <1>1 DEF AppGone, SceneConsistent
  <2>4. StepsConsistent' /\ OldSceneGone'
    BY <1>1 DEF AppGone, StepsConsistent, OldSceneGone
  <2>5. TicketsTell' /\ StartupInOrder'
    BY <1>1 DEF AppGone, TicketsTell, StartupInOrder, Starting
  <2> QED
    BY <2>1, <2>2, <2>3, <2>4, <2>5
<1>2. CASE MeshesGone
  <2>1. TypeOK'
    BY <1>2 DEF MeshesGone, TypeOK
  <2>2. LoadsAreMade' /\ BatchConsistent' /\ MeshesAccounted'
    BY <1>2
    DEF MeshesGone, LoadsAreMade, BatchConsistent, MeshesAccounted, Made, Active, Ready
  <2>3. SceneConsistent'
    BY <1>2 DEF MeshesGone, SceneConsistent
  <2>4. StepsConsistent' /\ OldSceneGone'
    BY <1>2 DEF MeshesGone, StepsConsistent, OldSceneGone
  <2>5. TicketsTell' /\ StartupInOrder'
    BY <1>2 DEF MeshesGone, TicketsTell, StartupInOrder, Starting
  <2> QED
    BY <2>1, <2>2, <2>3, <2>4, <2>5
<1>3. CASE MaterialsGone
  <2>1. TypeOK'
    BY <1>3 DEF MaterialsGone, TypeOK
  <2>2. LoadsAreMade' /\ BatchConsistent' /\ MeshesAccounted'
    BY <1>3
    DEF MaterialsGone, LoadsAreMade, BatchConsistent, MeshesAccounted, Made, Active, Ready,
        Managers
  <2>3. SceneConsistent'
    BY <1>3 DEF MaterialsGone, SceneConsistent
  <2>4. StepsConsistent' /\ OldSceneGone'
    BY <1>3 DEF MaterialsGone, StepsConsistent, OldSceneGone
  <2>5. TicketsTell' /\ StartupInOrder'
    BY <1>3 DEF MaterialsGone, TicketsTell, StartupInOrder, Starting
  <2> QED
    BY <2>1, <2>2, <2>3, <2>4, <2>5
<1>4. CASE RendererGone
  <2>1. TypeOK'
    BY <1>4 DEF RendererGone, TypeOK
  <2>2. LoadsAreMade' /\ BatchConsistent' /\ MeshesAccounted'
    BY <1>4
    DEF RendererGone, Unused, LoadsAreMade, BatchConsistent, MeshesAccounted, Made, Active,
        Ready
  <2>3. SceneConsistent'
    BY <1>4 DEF RendererGone, SceneConsistent
  <2>4. StepsConsistent' /\ OldSceneGone'
    BY <1>4 DEF RendererGone, StepsConsistent, OldSceneGone
  <2>5. TicketsTell' /\ StartupInOrder'
    BY <1>4 DEF RendererGone, Unused, TicketsTell, StartupInOrder, Starting
  <2> QED
    BY <2>1, <2>2, <2>3, <2>4, <2>5
<1>5. CASE WaitAll
  <2>1. TypeOK'
    BY <1>5 DEF WaitAll, TypeOK
  <2>2. LoadsAreMade' /\ BatchConsistent' /\ MeshesAccounted'
    BY <1>5 DEF WaitAll, LoadsAreMade, BatchConsistent, MeshesAccounted, Made, Active, Ready
  <2>3. SceneConsistent'
    BY <1>5 DEF WaitAll, SceneConsistent
  <2>4. StepsConsistent' /\ OldSceneGone'
    BY <1>5 DEF WaitAll, StepsConsistent, OldSceneGone
  <2>5. TicketsTell' /\ StartupInOrder'
    BY <1>5 DEF WaitAll, TicketsTell, StartupInOrder, Starting
  <2> QED
    BY <2>1, <2>2, <2>3, <2>4, <2>5
<1> QED
  BY <1>1, <1>2, <1>3, <1>4, <1>5 DEF Teardown

-----------------------------------------------------------------------------
(* The tasks.                                                               *)

\* The task of a load.
LEMMA LoadKeeps ==
    ASSUME AssetInv, NEW l \in Loads, LoadStep(l)
    PROVE  AssetInv'
<1> USE AssetAssumption DEF AssetInv, loadVars, taskVars, cacheVars, mainVars
<1>1. TypeOK'
  <2>1. task' \in [Loads -> TaskStates]
    BY TaskStep DEF TypeOK
  <2>2. ticket' \in [Loads -> {"none", "pending", "completed", "failed", "cancelled",
                            "cleared"}]
    BY TaskStep DEF TypeOK
  <2> QED
    BY TaskStep, <2>1, <2>2 DEF TypeOK
<1>2. SceneConsistent' /\ BatchConsistent' /\ StepsConsistent' /\ OldSceneGone'
  BY TaskStep DEF SceneConsistent, BatchConsistent, StepsConsistent, OldSceneGone
<1>3. LoadsAreMade' /\ MeshesAccounted'
  BY TaskStep DEF TypeOK, LoadsAreMade, MeshesAccounted, Made, Ready, Active
<1>4. TicketsTell'
  <2> SUFFICES ASSUME Starting PROVE TicketsTell'
    BY TaskStep DEF TicketsTell, Starting
  <2> USE DEF Task, Settle, SetState, TypeOK, TaskStates, TicketsTell, Starting
  <2>1. CASE LoadStart(l)
    BY <2>1 DEF LoadStart
  <2>2. CASE LoadThrows(l)
    BY <2>2 DEF LoadThrows
  <2>3. CASE LoadNoShader(l)
    BY <2>3 DEF LoadNoShader, NoShader
  <2>4. CASE LoadCheck(l)
    BY <2>4 DEF LoadCheck
  <2>5. CASE LoadCompletes(l)
    BY <2>5 DEF LoadCompletes
  <2>6. CASE LoadReturns(l)
    BY <2>6 DEF LoadReturns
  <2> QED
    BY <2>1, <2>2, <2>3, <2>4, <2>5, <2>6 DEF LoadStep
<1>5. StartupInOrder'
  BY TaskStep, <1>4 DEF StartupInOrder, Starting, SceneActive, IsFinished, Active, TypeOK
<1> QED
  BY <1>1, <1>2, <1>3, <1>4, <1>5

\* The scene task.
LEMMA SceneKeeps ==
    ASSUME AssetInv, SceneStep
    PROVE  AssetInv'
<1> USE AssetAssumption DEF AssetInv, loadVars, taskVars, cacheVars, mainVars
<1>1. CASE SceneStart
  <2>1. TypeOK'
    BY <1>1 DEF SceneStart, SceneFails, TypeOK
  <2>2. LoadsAreMade' /\ BatchConsistent' /\ MeshesAccounted'
    BY <1>1
    DEF SceneStart, SceneFails, LoadsAreMade, BatchConsistent, MeshesAccounted, Made,
        Active, Ready
  <2>3. SceneConsistent'
    <3>1. CASE sceneCancel
      BY <1>1, <3>1 DEF SceneStart, SceneFails, SceneConsistent
    <3>2. CASE ~sceneCancel
      BY <1>1, <3>2 DEF SceneStart, SceneConsistent
    <3> QED
      BY <3>1, <3>2
  <2>4. StepsConsistent' /\ OldSceneGone'
    BY <1>1 DEF SceneStart, StepsConsistent, OldSceneGone
  <2>5. TicketsTell' /\ StartupInOrder'
    BY <1>1 DEF SceneStart, TicketsTell, StartupInOrder, Starting, SceneActive
  <2> QED
    BY <2>1, <2>2, <2>3, <2>4, <2>5
<1>2. CASE SceneThrows
  <2>1. TypeOK'
    BY <1>2 DEF SceneThrows, SceneFails, TypeOK
  <2>2. LoadsAreMade' /\ BatchConsistent' /\ MeshesAccounted'
    BY <1>2
    DEF SceneThrows, SceneFails, LoadsAreMade, BatchConsistent, MeshesAccounted, Made,
        Active, Ready
  <2>3. SceneConsistent'
    BY <1>2 DEF SceneThrows, SceneFails, SceneConsistent
  <2>4. StepsConsistent' /\ OldSceneGone'
    BY <1>2 DEF SceneThrows, StepsConsistent, OldSceneGone
  <2>5. TicketsTell' /\ StartupInOrder'
    BY <1>2 DEF SceneThrows, TicketsTell, StartupInOrder, Starting, SceneActive
  <2> QED
    BY <2>1, <2>2, <2>3, <2>4, <2>5
<1>3. CASE SceneResolve
  <2> USE DEF SceneResolve
  <2>1. Wanted \in IF materialRef = None THEN Materials ELSE Meshes
    BY <1>3, NextObject DEF Wanted, Objects
  <2>2. CASE /\ Found(Wanted) /\ SceneGets(cache[Wanted])
             /\ UNCHANGED <<loadVars, cacheVars, sceneTask>>
    <3>1. TypeOK'
      BY <1>3, <2>1, <2>2, NextObject DEF SceneGets, Found, TypeOK, Paths
    <3>2. LoadsAreMade' /\ BatchConsistent' /\ MeshesAccounted'
      BY <1>3, <2>1, <2>2, NextObject
      DEF SceneGets, Found, LoadsAreMade, BatchConsistent, MeshesAccounted, Made, Active,
          Ready, Paths
    <3>3. SceneConsistent'
      BY <1>3, <2>1, <2>2, NextObject DEF SceneGets, SceneConsistent
    <3>4. StepsConsistent' /\ OldSceneGone'
      BY <1>3, <2>1, <2>2, NextObject DEF StepsConsistent, OldSceneGone
    <3>5. TicketsTell' /\ StartupInOrder'
      BY <1>3, <2>1, <2>2, NextObject DEF TicketsTell, StartupInOrder, Starting, SceneActive
    <3> QED
      BY <3>1, <3>2, <3>3, <3>4, <3>5
  <2>3. CASE /\ Unused # {} /\ BeginLoad(Wanted, materialRef)
             /\ UNCHANGED <<todo, materialRef, staged, sceneTask>>
    <3> PICK l \in Loads :
             /\ task[l] = "none"
             /\ task' = [task EXCEPT ![l] = "queued"]
             /\ ticket' = [ticket EXCEPT ![l] = "pending"]
             /\ path' = [path EXCEPT ![l] = Wanted]
             /\ material' = [material EXCEPT ![l] = materialRef]
             /\ cache' = [cache EXCEPT ![Wanted] = None]
             /\ publishing' = l
             /\ UNCHANGED <<cancelRequested, consumed, resolved, queue>>
      BY <2>3, NewLoad
    <3>1. TypeOK'
      BY <1>3, <2>1, <2>3 DEF TaskStates, TypeOK, LoadsAreMade, Paths, Made
    <3>2. LoadsAreMade' /\ BatchConsistent' /\ MeshesAccounted'
      BY <1>3, <2>1, <2>3
      DEF TypeOK, LoadsAreMade, BatchConsistent, MeshesAccounted, Made, Active, Ready,
          Paths
    <3>3. SceneConsistent'
      BY <1>3, <2>1, <2>3 DEF SceneConsistent
    <3>4. StepsConsistent' /\ OldSceneGone'
      BY <1>3, <2>1, <2>3 DEF StepsConsistent, OldSceneGone
    <3>5. TicketsTell' /\ StartupInOrder'
      BY <1>3, <2>1, <2>3 DEF TicketsTell, StartupInOrder, Starting, SceneActive, TypeOK
    <3> QED
      BY <3>1, <3>2, <3>3, <3>4, <3>5
  <2>4. CASE SceneFails /\ UNCHANGED <<loadVars, cacheVars>>
    <3>1. TypeOK'
      BY <1>3, <2>4 DEF SceneFails, TypeOK
    <3>2. LoadsAreMade' /\ BatchConsistent' /\ MeshesAccounted'
      BY <1>3, <2>4
      DEF SceneFails, LoadsAreMade, BatchConsistent, MeshesAccounted, Made, Active, Ready
    <3>3. SceneConsistent'
      BY <1>3, <2>4 DEF SceneFails, SceneConsistent
    <3>4. StepsConsistent' /\ OldSceneGone'
      BY <1>3, <2>4 DEF StepsConsistent, OldSceneGone
    <3>5. TicketsTell' /\ StartupInOrder'
      BY <1>3, <2>4 DEF TicketsTell, StartupInOrder, Starting, SceneActive
    <3> QED
      BY <3>1, <3>2, <3>3, <3>4, <3>5
  <2> QED
    BY <1>3, <2>2, <2>3, <2>4
<1>4. CASE ScenePublish
  <2>1. TypeOK'
    BY <1>4, NextObject
    DEF ScenePublish, EndLoad, SceneGets, TypeOK, LoadsAreMade, Paths, Manager
  <2>2. LoadsAreMade' /\ BatchConsistent' /\ MeshesAccounted'
    BY <1>4, NextObject
    DEF ScenePublish, EndLoad, SceneGets, TypeOK, LoadsAreMade, BatchConsistent,
        MeshesAccounted, Made, Active, Ready, Managers, Manager
  <2>3. SceneConsistent'
    BY <1>4, NextObject DEF ScenePublish, EndLoad, SceneGets, SceneConsistent
  <2>4. StepsConsistent' /\ OldSceneGone'
    BY <1>4, NextObject DEF ScenePublish, StepsConsistent, OldSceneGone, SceneConsistent
  <2>5. TicketsTell' /\ StartupInOrder'
    BY <1>4, NextObject
    DEF ScenePublish, TicketsTell, StartupInOrder, Starting, SceneActive, IsFinished
  <2> QED
    BY <2>1, <2>2, <2>3, <2>4, <2>5
<1>5. CASE SceneEnd
  <2>1. TypeOK'
    BY <1>5 DEF SceneEnd, SceneFails, TypeOK
  <2>2. LoadsAreMade' /\ BatchConsistent' /\ MeshesAccounted'
    BY <1>5
    DEF SceneEnd, SceneFails, LoadsAreMade, BatchConsistent, MeshesAccounted, Made, Active,
        Ready
  <2>3. SceneConsistent'
    BY <1>5 DEF SceneEnd, SceneFails, SceneConsistent
  <2>4. StepsConsistent' /\ OldSceneGone'
    BY <1>5 DEF SceneEnd, StepsConsistent, OldSceneGone
  <2>5. TicketsTell' /\ StartupInOrder'
    BY <1>5 DEF SceneEnd, TicketsTell, StartupInOrder, Starting, SceneActive
  <2> QED
    BY <2>1, <2>2, <2>3, <2>4, <2>5
<1> QED
  BY <1>1, <1>2, <1>3, <1>4, <1>5 DEF SceneStep

-----------------------------------------------------------------------------
(* The theorems.                                                            *)

\* Startup, frames, commands, tasks and the end of the program keep the books.
THEOREM AssetInvariant == Spec => []AssetInv
<1>1. AssetInv /\ [Next]_vars => AssetInv'
  <2> SUFFICES ASSUME AssetInv, [Next]_vars PROVE AssetInv'
    OBVIOUS
  <2>1. CASE UNCHANGED vars
    BY <2>1 DEF vars, loadVars, taskVars, cacheVars, mainVars, AssetInv, TypeOK,
                StepsConsistent, LoadsAreMade, SceneConsistent, BatchConsistent,
                MeshesAccounted, OldSceneGone, TicketsTell, StartupInOrder, Made, Active,
                Ready, Starting, SceneActive, IsFinished
  <2>2. CASE Main
    BY <2>2, SceneCommandKeeps, StartupKeeps, FrameKeeps, TeardownKeeps DEF Main, Frame
  <2>3. CASE Command
    BY <2>3, StartupKeeps, FrameKeeps DEF Command
  <2>4. CASE SceneStep
    BY <2>4, SceneKeeps
  <2>5. CASE \E l \in Loads : LoadStep(l)
    BY <2>5, LoadKeeps
  <2> QED
    BY <2>1, <2>2, <2>3, <2>4, <2>5 DEF Next, Stopped
<1> QED
  BY <1>1, InitAssets, PTL DEF Spec

\* Nothing of the meshes of an old scene is left where a new one is submitted: no
\* reference, no running task, wherever the commands found the scene task.
THEOREM ScenesStayApart == Spec => []ScenesApart
<1>1. AssetInv => ScenesApart
  <2> SUFFICES ASSUME AssetInv, pc = "submit", NEW l \in Loads, path[l] \in Meshes
               PROVE  l \notin Live /\ ~Active(l)
    BY DEF AssetInv, ScenesApart, MeshesReleased
  <2>1. /\ scene = {} /\ staged = {} /\ batch = {} /\ queue["mesh"] = {}
        /\ publishing = None
    BY DEF AssetInv, OldSceneGone, SceneConsistent, BatchConsistent
  <2>2. ~Active(l)
    BY <2>1, AssetAssumption DEF AssetInv, MeshesAccounted
  <2>3. \A k \in queue["material"] : path[k] \in Materials /\ material[k] = None
    BY AssetAssumption DEF AssetInv, TypeOK
  <2> QED
    BY <2>1, <2>2, <2>3, AssetAssumption DEF Live, Held
<1> QED
  BY <1>1, AssetInvariant, PTL

\* When startup ends, no task still wants the ticket that is cleared, and what the
\* first scene refers to has loaded.
THEOREM StartupLeavesNothing == Spec => StartupSeesEverything
<1>1. AssetInv /\ [Next]_vars =>
        [pc = "finish" /\ pc' = "mesh_pending" =>
           /\ \A l \in Loads : task[l] \notin {"queued", "loading", "loaded"}
           /\ \A l \in scene' : task[l] \in {"returning", "value"}]_vars
  <2> SUFFICES ASSUME AssetInv, Next, pc = "finish", pc' = "mesh_pending"
               PROVE  /\ \A l \in Loads : task[l] \notin {"queued", "loading", "loaded"}
                      /\ \A l \in scene' : task[l] \in {"returning", "value"}
    OBVIOUS
  <2>1. Starting /\ ~SceneActive /\ IsFinished
    BY DEF AssetInv, StepsConsistent, StartupInOrder, Starting
  <2>2. StartupFinishes
    <3>1. ~\E l \in Loads : LoadStep(l)
      BY TaskStep DEF AssetInv, mainVars
    <3>2. ~SceneStep /\ ~Stopped /\ ~Command
      BY <2>1 DEF SceneStep, SceneStart, SceneThrows, SceneResolve, ScenePublish, SceneEnd,
                  SceneActive, mainVars, Stopped, Command, StartupAborted, MenuLoad, MenuClear,
                  MenuQuit, Menu, vars
    <3>3. ~SceneCommand /\ ~Teardown
      BY DEF SceneCommand, LoadScene, LoadSceneWait, LoadSceneClear, DestroyScene, CancelMesh,
             JoinMesh, ClearMeshCache, SubmitScene, SubmitFails, Teardown, AppGone, MeshesGone,
             MaterialsGone, RendererGone, WaitAll
    <3>4. ~StartupReady /\ ~StartupFails /\ ~UpdateSceneLoad /\ ~MenuNothing
      BY DEF StartupReady, StartupFails, UpdateSceneLoad, MenuNothing, Menu, Goto
    <3>5. ~\E m \in Managers : Drain(m) \/ \E l \in Loads : Requeue(m, l) \/ Finalize(m, l)
      BY DEF Managers, Drain, PendingStep, Requeue, Finalize, Look, BatchStep
    <3> QED
      BY <3>1, <3>2, <3>3, <3>4, <3>5 DEF Next, Main, Frame
  <2>3. scene' \subseteq staged
    BY <2>1, <2>2 DEF StartupFinishes, Replace, AssetInv, TicketsTell
  <2>4. \A l \in Loads : task[l] \notin {"queued", "loading", "loaded"}
    BY <2>1 DEF AssetInv, TicketsTell, IsFinished
  <2>5. \A l \in staged : task[l] \in {"returning", "value"}
    BY <2>1, <2>2, <2>4 DEF StartupFinishes, HasFailed, AssetInv, TicketsTell, IsFinished,
       TypeOK, TaskStates, LoadsAreMade, Made
  <2> QED
    BY <2>3, <2>4, <2>5
<1> QED
  BY <1>1, AssetInvariant, PTL DEF Spec, StartupSeesEverything

-----------------------------------------------------------------------------
(* MeshSimplifier: finite sets, sequences and triangles.                    *)

\* A triangle is its three corners.
LEMMA TriangleIs ==
    ASSUME NEW t \in TriangleOf
    PROVE  /\ t[1] \in Nat /\ t[2] \in Nat /\ t[3] \in Nat
           /\ Range(t) = {t[1], t[2], t[3]}
           /\ t = <<t[1], t[2], t[3]>>
<1>1. t = <<t[1], t[2], t[3]>> /\ t[1] \in Nat /\ t[2] \in Nat /\ t[3] \in Nat
  BY DEF TriangleOf
<1>2. \A a, b, c : DOMAIN <<a, b, c>> = {1, 2, 3}
  OBVIOUS
<1>3. DOMAIN t = {1, 2, 3}
  BY <1>1, <1>2
<1> QED
  BY <1>1, <1>3 DEF Range

\* A finite set of a, b and c.
Threesome(S, a, b, c) ==
    IsFiniteSet(S) /\ (Cardinality(S) = 3 <=> a # b /\ b # c /\ a # c)

\* Three values are a set of three if no two are the same.
LEMMA ThreeAre == ASSUME NEW a, NEW b, NEW c PROVE Threesome({a, b, c}, a, b, c)
<1>1. IsFiniteSet({}) /\ Cardinality({}) = 0
  BY FS_EmptySet
<1>2. IsFiniteSet({a}) /\ Cardinality({a}) = 1
  BY FS_Singleton
<1>3. IsFiniteSet({a} \cup {b}) /\ Cardinality({a} \cup {b}) = IF b \in {a} THEN 1 ELSE 2
  BY <1>2, FS_AddElement
<1>4. /\ IsFiniteSet(({a} \cup {b}) \cup {c})
      /\ Cardinality(({a} \cup {b}) \cup {c}) =
           IF c \in {a} \cup {b} THEN Cardinality({a} \cup {b}) ELSE Cardinality({a} \cup {b}) + 1
  BY <1>3, FS_AddElement
<1>5. {a, b, c} = ({a} \cup {b}) \cup {c}
  OBVIOUS
<1> QED
  BY <1>3, <1>4, <1>5 DEF Threesome

\* A set of two is a pair.
LEMMA TwoAre ==
    ASSUME NEW e, IsFiniteSet(e), Cardinality(e) = 2
    PROVE  \E a, b : a # b /\ e = {a, b}
<1>1. PICK a \in e : TRUE
  BY FS_EmptySet
<1>2. IsFiniteSet(e \ {a}) /\ Cardinality(e \ {a}) = 1
  BY <1>1, FS_RemoveElement
<1>3. PICK b : e \ {a} = {b}
  BY <1>2, FS_Singleton
<1> QED
  BY <1>1, <1>3

\* A pair is a set of two.
LEMMA PairIs ==
    ASSUME NEW a, NEW b, a # b PROVE IsFiniteSet({a, b}) /\ Cardinality({a, b}) = 2
<1>1. IsFiniteSet({a}) /\ Cardinality({a}) = 1
  BY FS_Singleton
<1>2. {a, b} = {a} \cup {b}
  OBVIOUS
<1> QED
  BY <1>1, <1>2, FS_AddElement

\* The edges of a set of vertices are the pairs of two of them.
LEMMA PairsOf ==
    ASSUME NEW K, IsFiniteSet(K), NEW e
    PROVE  e \in kSubset(2, K) <=> \E x, y \in K : x # y /\ e = {x, y}
<1>1. kSubset(2, K) = {s \in SUBSET K : Cardinality(s) = 2}
  BY DEF kSubset
<1>2. ASSUME e \in kSubset(2, K) PROVE \E x, y \in K : x # y /\ e = {x, y}
  <2>1. e \subseteq K /\ Cardinality(e) = 2
    BY <1>1, <1>2
  <2>2. IsFiniteSet(e)
    BY <2>1, FS_Subset
  <2> QED
    BY <2>1, <2>2, TwoAre
<1>3. ASSUME NEW x \in K, NEW y \in K, x # y, e = {x, y} PROVE e \in kSubset(2, K)
  BY <1>1, <1>3, PairIs
<1> QED
  BY <1>2, <1>3

-----------------------------------------------------------------------------
(* MeshSimplifier: lists and index buffers.                                 *)

\* Each place in S gets a number of its own, and each number a place.
LEMMA PlacesAre ==
    ASSUME NEW S \in SUBSET Nat, IsFiniteSet(S)
    PROVE  /\ Cardinality(S) \in Nat
           /\ \A i \in S : Place(i, S) \in 1 .. Cardinality(S)
           /\ \A i, j \in S : i < j => Place(i, S) < Place(j, S)
           /\ \A n \in 1 .. Cardinality(S) : \E i \in S : Place(i, S) = n
<1> DEFINE Upto(i) == {j \in S : j <= i}
           N == Cardinality(S)
           f == [i \in S |-> Place(i, S)]
<1>1. N \in Nat
  BY FS_CardinalityType
<1>2. \A i \in S : IsFiniteSet(Upto(i)) /\ Cardinality(Upto(i)) \in 1 .. N
  <2> SUFFICES ASSUME NEW i \in S PROVE IsFiniteSet(Upto(i)) /\ Cardinality(Upto(i)) \in 1 .. N
    OBVIOUS
  <2>1. Upto(i) \in SUBSET S /\ Upto(i) # {}
    OBVIOUS
  <2> HIDE DEF Upto
  <2>2. IsFiniteSet(Upto(i)) /\ Cardinality(Upto(i)) <= N
    BY <2>1, FS_Subset
  <2>3. Cardinality(Upto(i)) \in Nat /\ Cardinality(Upto(i)) # 0
    BY <2>1, <2>2, FS_CardinalityType, FS_EmptySet
  <2> HIDE DEF N
  <2> QED
    BY <1>1, <2>2, <2>3
<1>3. \A i \in S : Place(i, S) = Cardinality(Upto(i))
  BY DEF Place
<1>8. \A i \in S : Place(i, S) \in 1 .. N
  <2> HIDE DEF N, Upto
  <2> QED
    BY <1>2, <1>3
<1>9. \A i, j \in S : i < j => Place(i, S) < Place(j, S)
  <2> SUFFICES ASSUME NEW i \in S, NEW j \in S, i < j PROVE Place(i, S) < Place(j, S)
    OBVIOUS
  <2>1. j \in Upto(j) /\ j \notin Upto(i) /\ \A k \in Upto(i) : k \in Upto(j)
    OBVIOUS
  <2>2. Upto(i) \in SUBSET Upto(j) /\ Upto(i) # Upto(j)
    BY <2>1
  <2> HIDE DEF N, Upto
  <2>3. Cardinality(Upto(i)) <= Cardinality(Upto(j)) /\ Cardinality(Upto(i)) # Cardinality(Upto(j))
    BY <1>2, <2>2, FS_Subset
  <2>4. Place(i, S) \in Nat /\ Place(j, S) \in Nat
    BY <1>8
  <2>5. Place(i, S) <= Place(j, S) /\ Place(i, S) # Place(j, S)
    BY <1>3, <2>3
  <2> QED
    BY <2>4, <2>5
<1>4. f \in Injection(S, 1 .. N)
  <2>1. \A i \in S : Place(i, S) \in 1 .. N
    BY <1>8
  <2>2. \A i, j \in S : Place(i, S) = Place(j, S) => i = j
    <3> SUFFICES ASSUME NEW i \in S, NEW j \in S, Place(i, S) = Place(j, S) PROVE i = j
      OBVIOUS
    <3>1. ~(i < j) /\ ~(j < i)
      <4> HIDE DEF N
      <4>1. Place(i, S) \in Nat
        BY <1>8
      <4>2. Place(i, S) = Place(j, S)
        OBVIOUS
      <4> QED
        BY <1>9, <4>1, <4>2
    <3> QED
      BY <3>1
  <2> QED
    BY <2>1, <2>2, Zenon DEF Injection, IsInjective
<1>5. IsFiniteSet(1 .. N) /\ Cardinality(1 .. N) = N
  BY <1>1, FS_Interval
<1>6. f \in Surjection(S, 1 .. N)
  BY <1>4, <1>5, FS_Injection
<1>7. \A n \in 1 .. N : \E i \in S : Place(i, S) = n
  BY <1>6 DEF Surjection
<1> QED
  BY <1>1, <1>8, <1>9, <1>7

\* There are n numbers from 1 to n.
LEMMA IntervalIs ==
    ASSUME NEW n \in Nat PROVE IsFiniteSet(1 .. n) /\ Cardinality(1 .. n) = n
BY FS_Interval

\* What is kept are the elements at the places in S, one for each.
LEMMA KeptIs ==
    ASSUME NEW V, NEW list \in Seq(V), NEW S \in SUBSET DOMAIN list
    PROVE  /\ IsFiniteSet(S) /\ Cardinality(S) \in Nat
           /\ Kept(list, S) \in Seq(V) /\ Len(Kept(list, S)) = Cardinality(S)
           /\ Cardinality(S) <= Len(list)
           /\ Cardinality(S) = Len(list) => S = DOMAIN list
           /\ \A n \in DOMAIN Kept(list, S) : \E i \in S : Place(i, S) = n /\ Kept(list, S)[n] = list[i]
           /\ \A i \in S : Place(i, S) \in DOMAIN Kept(list, S) /\ Kept(list, S)[Place(i, S)] = list[i]
<1> DEFINE N == Cardinality(S)
           At(n) == CHOOSE i \in S : Place(i, S) = n
           k == [n \in 1 .. N |-> list[At(n)]]
<1>1. Len(list) \in Nat /\ DOMAIN list = 1 .. Len(list) /\ \A i \in DOMAIN list : list[i] \in V
  OBVIOUS
<1>2. IsFiniteSet(DOMAIN list) /\ Cardinality(DOMAIN list) = Len(list)
  <2>1. IsFiniteSet(1 .. Len(list)) /\ Cardinality(1 .. Len(list)) = Len(list)
    BY <1>1, IntervalIs
  <2> QED
    BY <1>1, <2>1
<1>3. IsFiniteSet(S) /\ N <= Len(list) /\ (N = Len(list) => S = DOMAIN list)
  BY <1>2, FS_Subset
<1>4. S \in SUBSET Nat
  BY <1>1
<1>5. /\ N \in Nat
      /\ \A i \in S : Place(i, S) \in 1 .. N
      /\ \A i, j \in S : i < j => Place(i, S) < Place(j, S)
      /\ \A n \in 1 .. N : \E i \in S : Place(i, S) = n
  BY <1>3, <1>4, PlacesAre
<1>6. Kept(list, S) = k
  BY DEF Kept
<1> HIDE DEF N
<1>7. \A n \in 1 .. N : At(n) \in S /\ Place(At(n), S) = n
  BY <1>5
<1>8. \A i \in S : At(Place(i, S)) = i
  <2> SUFFICES ASSUME NEW i \in S PROVE At(Place(i, S)) = i
    OBVIOUS
  <2>1. Place(i, S) \in 1 .. N
    BY <1>5
  <2>2. At(Place(i, S)) \in S /\ Place(At(Place(i, S)), S) = Place(i, S)
    BY <1>7, <2>1
  <2> DEFINE j == At(Place(i, S))
  <2> HIDE DEF At
  <2>3. ~(i < j) /\ ~(j < i) /\ i \in Nat /\ j \in Nat
    BY <1>4, <1>5, <2>1, <2>2
  <2> QED
    BY <2>3
<1> HIDE DEF At
<1>9. k \in [1 .. N -> V]
  BY <1>1, <1>7
<1>10. k \in Seq(V) /\ Len(k) = N /\ DOMAIN k = 1 .. N
  BY <1>5, <1>9
<1>11. \A n \in DOMAIN k : At(n) \in S /\ Place(At(n), S) = n /\ k[n] = list[At(n)]
  BY <1>7, <1>10
<1>12. \A i \in S : Place(i, S) \in DOMAIN k /\ k[Place(i, S)] = list[i]
  BY <1>5, <1>8, <1>10
<1> HIDE DEF k
<1> QED
  BY <1>3, <1>5, <1>6, <1>10, <1>11, <1>12 DEF N

\* The triangles of an index buffer that have three different vertices.
LEMMA ValidAre ==
    ASSUME NEW mesh \in IndexBuffers
    PROVE  /\ ValidTriangles(mesh) \in IndexBuffers
           /\ Len(ValidTriangles(mesh)) <= Len(mesh)
           /\ Len(ValidTriangles(mesh)) = Len(mesh)
                <=> \A i \in DOMAIN mesh : Cardinality(Range(mesh[i])) = 3
           /\ \A t \in DOMAIN ValidTriangles(mesh) :
                /\ Cardinality(Range(ValidTriangles(mesh)[t])) = 3
                /\ Range(ValidTriangles(mesh)[t]) \subseteq VerticesOf(mesh)
<1> DEFINE S == {i \in DOMAIN mesh : Cardinality(Range(mesh[i])) = 3}
<1>1. ValidTriangles(mesh) = Kept(mesh, S)
  BY DEF ValidTriangles
<1>2. mesh \in Seq(TriangleOf) /\ S \in SUBSET DOMAIN mesh
  BY DEF IndexBuffers
<1>3. \A i \in S : Cardinality(Range(mesh[i])) = 3 /\ Range(mesh[i]) \subseteq VerticesOf(mesh)
  BY DEF VerticesOf
<1>4. S = DOMAIN mesh <=> \A i \in DOMAIN mesh : Cardinality(Range(mesh[i])) = 3
  OBVIOUS
<1> HIDE DEF S
<1>5. /\ Kept(mesh, S) \in Seq(TriangleOf) /\ Len(Kept(mesh, S)) = Cardinality(S)
      /\ Cardinality(S) <= Len(mesh) /\ (Cardinality(S) = Len(mesh) => S = DOMAIN mesh)
      /\ \A n \in DOMAIN Kept(mesh, S) : \E i \in S : Kept(mesh, S)[n] = mesh[i]
  BY <1>2, KeptIs
<1>6. S = DOMAIN mesh => Cardinality(S) = Len(mesh)
  <2>1. DOMAIN mesh = 1 .. Len(mesh) /\ Len(mesh) \in Nat
    BY <1>2
  <2>2. Cardinality(1 .. Len(mesh)) = Len(mesh)
    BY <2>1, IntervalIs
  <2> QED
    BY <2>1, <2>2
<1> QED
  BY <1>1, <1>3, <1>4, <1>5, <1>6 DEF IndexBuffers

-----------------------------------------------------------------------------
(* MeshSimplifier: keys, collapses and rims.                                *)

\* The key of a triangle, corner by corner.
LEMMA CornersAre ==
    ASSUME MeshesTyped, NEW t \in DOMAIN triangles
    PROVE  /\ triangles[t] \in TriangleOf
           /\ Cardinality(Range(triangles[t])) = 3 /\ Range(triangles[t]) \subseteq Vertices
           /\ IsFiniteSet(Range(triangles[t])) /\ Range(triangles[t]) \subseteq Nat
<1>1. source_mesh \in IndexBuffers /\ triangles = ValidTriangles(source_mesh)
  BY DEF MeshesTyped
<1>2. triangles[t] \in TriangleOf
  BY <1>1, ValidAre DEF IndexBuffers
<1> DEFINE x == triangles[t]
<1> HIDE DEF x
<1>3. x \in TriangleOf
  BY <1>2 DEF x
<1>4. Range(x) = {x[1], x[2], x[3]} /\ Range(x) \subseteq Nat
  BY <1>3, TriangleIs
<1>5. IsFiniteSet({x[1], x[2], x[3]})
  BY ThreeAre DEF Threesome
<1> QED
  BY <1>1, <1>3, <1>4, <1>5, ValidAre DEF Vertices, x

\* A key is the roots of a triangle's vertices, three if the triangle is valid.
LEMMA KeyIs ==
    ASSUME MeshesTyped, root \in [Vertices -> Vertices], NEW t \in DOMAIN triangles
    PROVE  /\ Key(t) = {root[v] : v \in Range(triangles[t])}
           /\ Key(t) \subseteq Vertices
           /\ IsFiniteSet(Key(t))
           /\ \E a, b, c \in Vertices :
                /\ Key(t) = {a, b, c}
                /\ IsValid(t) <=> a # b /\ b # c /\ a # c
<1> DEFINE x == triangles[t]
<1>1. x \in TriangleOf /\ Range(x) \subseteq Vertices
  BY CornersAre
<1>2. Range(x) = {x[1], x[2], x[3]}
  BY <1>1, TriangleIs
<1> DEFINE a == root[x[1]]
           b == root[x[2]]
           c == root[x[3]]
<1>3. Key(t) = {a, b, c}
  BY DEF Key, Roots, Range
<1> HIDE DEF x
<1>4. a \in Vertices /\ b \in Vertices /\ c \in Vertices
  BY <1>1, <1>2
<1>6. Key(t) = {root[v] : v \in Range(x)}
  BY <1>2, <1>3
<1> HIDE DEF a, b, c
<1>5. IsFiniteSet({a, b, c}) /\ (Cardinality({a, b, c}) = 3 <=> a # b /\ b # c /\ a # c)
  <2>1. Threesome({a, b, c}, a, b, c)
    BY ThreeAre
  <2> QED
    BY <2>1 DEF Threesome
<1>7. \E u, v, w \in Vertices : /\ Key(t) = {u, v, w}
                                /\ IsValid(t) <=> u # v /\ v # w /\ u # w
  BY <1>3, <1>4, <1>5 DEF IsValid
<1> QED
  BY <1>3, <1>4, <1>5, <1>6, <1>7 DEF x

\* Keys in which kept takes the place of removed.
Merged(K, kept, removed) == {IF v = removed THEN kept ELSE v : v \in K}

IsTriple(K) == \E a, b, c : a # b /\ b # c /\ a # c /\ K = {a, b, c}

\* M is such a key of K: it has three vertices left unless K has both.
Merges(K, M, kept, removed) ==
    /\ Cardinality(M) = 3 <=> ~(kept \in K /\ removed \in K)
    /\ \A v : v \in M <=> IF v = kept THEN kept \in K \/ removed \in K ELSE v \in K /\ v # removed
    /\ removed \notin K => M = K

\* A triangle keeps three vertices unless it has both that are merged.
LEMMA MergedIs ==
    ASSUME NEW K, IsTriple(K), NEW kept, NEW removed, kept # removed
    PROVE  Merges(K, Merged(K, kept, removed), kept, removed)
<1>0. PICK a, b, c : a # b /\ b # c /\ a # c /\ K = {a, b, c}
  BY DEF IsTriple
<1> DEFINE f(v) == IF v = removed THEN kept ELSE v
<1>1. Merged(K, kept, removed) = {f(a), f(b), f(c)}
  BY <1>0 DEF Merged
<1>2. Cardinality(Merged(K, kept, removed)) = 3 <=> f(a) # f(b) /\ f(b) # f(c) /\ f(a) # f(c)
  <2> DEFINE x == f(a)
             y == f(b)
             z == f(c)
  <2> HIDE DEF x, y, z
  <2>1. Threesome({x, y, z}, x, y, z)
    BY ThreeAre
  <2>2. Merged(K, kept, removed) = {x, y, z}
    BY <1>1 DEF x, y, z
  <2>3. Cardinality(Merged(K, kept, removed)) = 3 <=> x # y /\ y # z /\ x # z
    BY <2>1, <2>2 DEF Threesome
  <2> QED
    BY <2>3 DEF x, y, z
<1> QED
  BY <1>0, <1>1, <1>2 DEF Merges

\* Merging a root into another is a map of roots and of keys.
LEMMA CollapseMerges ==
    ASSUME TopologyInv, NEW kept \in Vertices, NEW removed \in Vertices, kept # removed,
           stage = "loop", root[kept] = kept, root[removed] = removed,
           CollapseEdge(kept, removed), UNCHANGED base
    PROVE  /\ root' \in [Vertices -> Vertices] /\ \A v \in Vertices : root'[root'[v]] = root'[v]
           /\ Vertices' = Vertices /\ RootVertices' = RootVertices \ {removed}
           /\ \A t \in DOMAIN triangles : Key(t)' = Merged(Key(t), kept, removed)
<1>1. root \in [Vertices -> Vertices] /\ \A v \in Vertices : root[root[v]] = root[v]
  BY DEF TopologyInv, TopologyTyped, Working
<1>2. root' = [v \in Vertices |-> IF root[v] = removed THEN kept ELSE root[v]]
  BY DEF CollapseEdge
<1>3. root' \in [Vertices -> Vertices] /\ \A v \in Vertices : root'[root'[v]] = root'[v]
  BY <1>1, <1>2
<1>4. Vertices' = Vertices /\ triangles' = triangles
  BY DEF Vertices, base
<1>5. RootVertices' = RootVertices \ {removed}
  BY <1>1, <1>2, <1>4 DEF RootVertices
<1>6. ASSUME NEW t \in DOMAIN triangles PROVE Key(t)' = Merged(Key(t), kept, removed)
  <2> DEFINE x == triangles[t]
  <2>1. x \in TriangleOf /\ Range(x) \subseteq Vertices
    BY CornersAre DEF TopologyInv
  <2>2. Range(x) = {x[1], x[2], x[3]}
    BY <2>1, TriangleIs
  <2>3. Key(t) = {root[x[1]], root[x[2]], root[x[3]]}
    BY DEF Key, Roots, Range
  <2>4. Key(t)' = {root'[x[1]], root'[x[2]], root'[x[3]]}
    BY <1>4 DEF Key, Roots, Range
  <2> HIDE DEF x
  <2>5. x[1] \in Vertices /\ x[2] \in Vertices /\ x[3] \in Vertices
    BY <2>1, <2>2
  <2> QED
    BY <1>2, <2>3, <2>4, <2>5 DEF Merged
<1> QED
  BY <1>3, <1>4, <1>5, <1>6

\* What a collapse does to the triangles: those with both vertices go.
LEMMA CollapseFaces ==
    ASSUME TopologyInv, NEW kept \in Vertices, NEW removed \in Vertices, kept # removed,
           stage = "loop", root[kept] = kept, root[removed] = removed
    PROVE  /\ Affected(kept, removed) = {t \in active_triangles : kept \in Key(t) \/ removed \in Key(t)}
           /\ \A t \in active_triangles :
                /\ t \in DOMAIN triangles
                /\ Collapsed(t, kept, removed) = Merged(Key(t), kept, removed)
                /\ Merges(Key(t), Merged(Key(t), kept, removed), kept, removed)
                /\ Key(t) \subseteq RootVertices /\ IsTriple(Key(t))
<1>1. /\ root \in [Vertices -> Vertices] /\ \A v \in Vertices : root[root[v]] = root[v]
      /\ active_triangles \subseteq DOMAIN triangles /\ MeshesTyped /\ BooksAreTheMesh
  BY DEF TopologyInv, TopologyTyped, Working
<1>2. kept \in RootVertices /\ removed \in RootVertices
  BY DEF RootVertices
<1>3. Affected(kept, removed) = {t \in active_triangles : kept \in Key(t) \/ removed \in Key(t)}
  BY <1>1, <1>2 DEF Affected, BooksAreTheMesh
<1>4. ASSUME NEW t \in active_triangles
      PROVE  /\ t \in DOMAIN triangles
             /\ Collapsed(t, kept, removed) = Merged(Key(t), kept, removed)
             /\ Merges(Key(t), Merged(Key(t), kept, removed), kept, removed)
             /\ Key(t) \subseteq RootVertices /\ IsTriple(Key(t))
  <2>1. t \in DOMAIN triangles /\ IsValid(t)
    BY <1>1 DEF BooksAreTheMesh
  <2>2. PICK a, b, c \in Vertices : Key(t) = {a, b, c} /\ a # b /\ b # c /\ a # c
    BY <1>1, <2>1, KeyIs
  <2>3. Collapsed(t, kept, removed) = Merged(Key(t), kept, removed)
    BY DEF Collapsed, Merged
  <2>4. Key(t) = {root[v] : v \in Range(triangles[t])} /\ Range(triangles[t]) \subseteq Vertices
    BY <1>1, <2>1, KeyIs, CornersAre
  <2>5. Key(t) \subseteq RootVertices
    BY <1>1, <2>4 DEF RootVertices
  <2>6. IsTriple(Key(t))
    BY <2>2, Zenon DEF IsTriple
  <2> QED
    BY <2>1, <2>3, <2>5, <2>6, MergedIs
<1> QED
  BY <1>3, <1>4

\* The books after a collapse that lets no triangle come to lie on another.
LEMMA CollapseBooks ==
    ASSUME TopologyInv, NEW kept \in Vertices, NEW removed \in Vertices, kept # removed,
           stage = "loop", root[kept] = kept, root[removed] = removed,
           NoOverlap(kept, removed), CollapseEdge(kept, removed), UNCHANGED base
    PROVE  /\ BooksAreTheMesh'
           /\ active_triangles' = active_triangles \ {t \in active_triangles : {kept, removed} \subseteq Key(t)}
<1> DEFINE Aff  == {t \in active_triangles : kept \in Key(t) \/ removed \in Key(t)}
           Gone == {t \in active_triangles : kept \in Key(t) /\ removed \in Key(t)}
           M(t) == Merged(Key(t), kept, removed)
           Stay == Aff \ Gone
<1>1. BooksAreTheMesh /\ active_triangles \subseteq DOMAIN triangles /\ kept \in RootVertices
  BY DEF TopologyInv, TopologyTyped, Working, RootVertices
<1>2. /\ root' \in [Vertices -> Vertices]
      /\ Vertices' = Vertices /\ RootVertices' = RootVertices \ {removed}
      /\ \A t \in DOMAIN triangles : Key(t)' = M(t)
      /\ triangles' = triangles
  BY CollapseMerges DEF base
<1>3. /\ Affected(kept, removed) = Aff
      /\ \A t \in active_triangles :
           /\ t \in DOMAIN triangles /\ Collapsed(t, kept, removed) = M(t)
           /\ Merges(Key(t), M(t), kept, removed)
           /\ Key(t) \subseteq RootVertices /\ IsTriple(Key(t))
  BY CollapseFaces
<1>4. {t \in Aff : Cardinality(Collapsed(t, kept, removed)) = 3} = Stay
  BY <1>3 DEF Merges
<1>5. /\ active_triangles' = active_triangles \ (Aff \ Stay)
      /\ active_triangle_keys' = active_triangle_keys \cup {M(t) : t \in Stay}
      /\ vertex_triangles' = [v \in Vertices |->
             (vertex_triangles[v] \ {t \in Aff : v \in M(t)}) \cup {t \in Stay : v \in M(t)}]
      /\ active_triangle_count' = active_triangle_count - Cardinality(Aff \ Stay)
  <2> DEFINE C(t) == Collapsed(t, kept, removed)
  <2>1. /\ active_triangles' = active_triangles \ (Aff \ Stay)
        /\ active_triangle_keys' = active_triangle_keys \cup {C(t) : t \in Stay}
        /\ vertex_triangles' = [v \in Vertices |->
               (vertex_triangles[v] \ {t \in Aff : v \in C(t)}) \cup {t \in Stay : v \in C(t)}]
        /\ active_triangle_count' = active_triangle_count - Cardinality(Aff \ Stay)
    BY <1>3, <1>4, Zenon DEF CollapseEdge, WithKeys
  <2>2. \A t \in Aff : C(t) = M(t)
    BY <1>3
  <2> HIDE DEF M, C
  <2>3. {C(t) : t \in Stay} = {M(t) : t \in Stay}
    BY <2>2
  <2>4. \A v : {t \in Aff : v \in C(t)} = {t \in Aff : v \in M(t)}
    BY <2>2
  <2>5. \A v : {t \in Stay : v \in C(t)} = {t \in Stay : v \in M(t)}
    BY <2>2
  <2> QED
    BY <2>1, <2>3, <2>4, <2>5
<1>6. /\ \A t \in Stay : M(t) \notin active_triangle_keys \ {Key(s) : s \in Aff}
      /\ \A s, t \in Stay : s # t => M(s) # M(t)
  BY <1>3, <1>4 DEF NoOverlap
<1>7. active_triangles' = active_triangles \ Gone
  BY <1>5
<1>8. \A t \in active_triangles' : t \in active_triangles /\ Key(t)' = M(t) /\ t \notin Gone
  BY <1>2, <1>3, <1>7
<1>9. \A t \in active_triangles \ Aff : M(t) = Key(t) /\ t \in active_triangles'
  BY <1>3, <1>7 DEF Merges
<1>10. active_triangle_count' = Cardinality(active_triangles')
  <2>1. IsFiniteSet(active_triangles)
    <3>1. triangles \in Seq(TriangleOf)
      BY ValidAre DEF TopologyInv, MeshesTyped, IndexBuffers
    <3>2. DOMAIN triangles = 1 .. Len(triangles) /\ Len(triangles) \in Nat
      BY <3>1
    <3> QED
      BY <1>1, <3>2, IntervalIs, FS_Subset
  <2>2. Aff \ Stay = Gone /\ active_triangles \cap Gone = Gone
    OBVIOUS
  <2> HIDE DEF Gone, Aff
  <2>3. Cardinality(active_triangles \ Gone)
          = Cardinality(active_triangles) - Cardinality(active_triangles \cap Gone)
    BY <2>1, FS_Difference
  <2> QED
    BY <1>1, <1>5, <1>7, <2>2, <2>3 DEF BooksAreTheMesh
<1>11. \A t \in active_triangles' : IsValid(t)'
  <2> SUFFICES ASSUME NEW t \in active_triangles' PROVE IsValid(t)'
    OBVIOUS
  <2>1. Key(t)' = M(t) /\ Cardinality(M(t)) = 3
    BY <1>3, <1>8 DEF Merges
  <2> QED
    BY <2>1 DEF IsValid
<1>12. ASSUME NEW s \in active_triangles', NEW t \in active_triangles', Key(s)' = Key(t)'
       PROVE  Range(triangles[s])' = Range(triangles[t])'
  <2>1. /\ s \in active_triangles /\ t \in active_triangles /\ s \notin Gone /\ t \notin Gone
        /\ M(s) = M(t)
    BY <1>8, <1>12
  <2>2. CASE s \in Aff /\ t \in Aff
    BY <1>2, <1>6, <2>1, <2>2
  <2>3. CASE s \notin Aff /\ t \notin Aff
    BY <1>1, <1>2, <1>9, <2>1, <2>3 DEF BooksAreTheMesh
  <2>4. ASSUME NEW x \in Stay, NEW y \in active_triangles \ Aff, M(x) = M(y) PROVE FALSE
    <3>1. Key(y) \in active_triangle_keys /\ M(x) = Key(y)
      BY <1>1, <1>9, <2>4 DEF BooksAreTheMesh
    <3>2. PICK z \in Aff : Key(z) = Key(y)
      BY <1>6, <3>1
    <3> QED
      BY <3>2
  <2> QED
    BY <2>1, <2>2, <2>3, <2>4
<1>13. ASSUME NEW v \in RootVertices'
       PROVE  vertex_triangles'[v] = {t \in active_triangles' : v \in Key(t)'}
  <2>1. v \in Vertices /\ v \in RootVertices /\ v # removed
    BY <1>2, <1>13 DEF RootVertices
  <2>2. vertex_triangles[v] = {t \in active_triangles : v \in Key(t)}
    BY <1>1, <2>1 DEF BooksAreTheMesh
  <2>3. vertex_triangles'[v] =
          (vertex_triangles[v] \ {t \in Aff : v \in M(t)}) \cup {t \in Stay : v \in M(t)}
    BY <1>5, <2>1
  <2>4. \A t \in active_triangles :
          v \in M(t) <=> IF v = kept THEN t \in Aff ELSE v \in Key(t)
    BY <1>3, <2>1 DEF Merges
  <2>5. \A t : t \in vertex_triangles'[v] <=> t \in active_triangles \ Gone /\ v \in M(t)
    <3> HIDE DEF M
    <3> QED
      BY <2>2, <2>3, <2>4
  <2> QED
    BY <1>7, <1>8, <2>5
<1>14. ASSUME NEW k
       PROVE  k \in active_triangle_keys' /\ k \subseteq RootVertices'
                <=> \E t \in active_triangles' : k = Key(t)'
  <2>1. ASSUME NEW t \in active_triangles', k = Key(t)'
        PROVE  k \in active_triangle_keys' /\ k \subseteq RootVertices'
    <3>1. t \in active_triangles /\ t \notin Gone /\ k = M(t)
      BY <1>8, <2>1
    <3>2. k \subseteq RootVertices \ {removed}
      BY <1>1, <1>3, <3>1 DEF Merges
    <3>3. CASE t \in Aff
      BY <1>2, <1>5, <3>1, <3>2, <3>3
    <3>4. CASE t \notin Aff
      BY <1>1, <1>2, <1>5, <1>9, <3>1, <3>2, <3>4 DEF BooksAreTheMesh
    <3> QED
      BY <3>3, <3>4
  <2>2. ASSUME k \in active_triangle_keys', k \subseteq RootVertices'
        PROVE  \E t \in active_triangles' : k = Key(t)'
    <3>1. CASE \E t \in Stay : k = M(t)
      <4>1. PICK t \in Stay : k = M(t)
        BY <3>1
      <4>2. t \in active_triangles'
        BY <1>7, <4>1
      <4> QED
        BY <1>8, <4>1, <4>2
    <3>2. CASE k \in active_triangle_keys
      <4>1. PICK t \in active_triangles : k = Key(t)
        BY <1>1, <1>2, <2>2, <3>2 DEF BooksAreTheMesh
      <4>2. removed \notin Key(t)
        BY <1>2, <2>2, <4>1
      <4>3. M(t) = Key(t) /\ t \in active_triangles'
        BY <1>3, <1>7, <4>1, <4>2 DEF Merges
      <4> QED
        BY <1>8, <4>1, <4>3
    <3> QED
      BY <1>5, <2>2, <3>1, <3>2
  <2> QED
    BY <2>1, <2>2
<1>15. {k \in active_triangle_keys' : k \subseteq RootVertices'} = {Key(t)' : t \in active_triangles'}
  BY <1>14
<1> QED
  BY <1>7, <1>10, <1>11, <1>12, <1>13, <1>15 DEF BooksAreTheMesh

\* A rim is an edge between two boundary vertices.
LEMMA RimsAre ==
    ASSUME MeshesTyped, NEW e \in Rims
    PROVE  e \subseteq OnBoundary(triangles) /\ \E x, y \in Vertices : x # y /\ e = {x, y}
<1> DEFINE edges == UNION {kSubset(2, Range(triangles[t])) : t \in DOMAIN triangles}
           Faces(d) == {t \in DOMAIN triangles : d \subseteq Range(triangles[t])}
<1>1. e \in edges /\ Cardinality(Faces(e)) # 2
  BY DEF Rims, FirstEdges, FirstFaces
<1>2. OnBoundary(triangles) = UNION {d \in edges : Cardinality(Faces(d)) # 2}
  BY DEF OnBoundary
<1>3. e \subseteq OnBoundary(triangles)
  BY <1>1, <1>2
<1>4. PICK t \in DOMAIN triangles : e \in kSubset(2, Range(triangles[t]))
  BY <1>1
<1>5. IsFiniteSet(Range(triangles[t])) /\ Range(triangles[t]) \subseteq Vertices
  BY CornersAre
<1>7. \E a, b \in Range(triangles[t]) : a # b /\ e = {a, b}
  BY <1>4, <1>5, PairsOf
<1> QED
  BY <1>3, <1>5, <1>7

\* A collapse that guards the boundary keeps the triangles on its edges.
LEMMA CollapseRims ==
    ASSUME TopologyInv, NEW kept \in Vertices, NEW removed \in Vertices, kept # removed,
           stage = "loop", root[kept] = kept, root[removed] = removed,
           NoOverlap(kept, removed), CollapseEdge(kept, removed), UNCHANGED <<base, settings>>,
           RimsStay, kept \notin boundary_vertices, removed \notin boundary_vertices
    PROVE  RimsStay'
<1>1. boundary_vertices' = boundary_vertices
  BY DEF CollapseEdge
<1>2. triangles' = triangles /\ Vertices' = Vertices
  BY DEF base, Vertices
<1>3. /\ OnBoundary(triangles)' = OnBoundary(triangles) /\ Rims' = Rims
      /\ \A e \in Rims : FirstFaces(e)' = FirstFaces(e)
  BY <1>2 DEF OnBoundary, Rims, FirstEdges, FirstFaces
<1>4. /\ root \in [Vertices -> Vertices]
      /\ root' = [v \in Vertices |-> IF root[v] = removed THEN kept ELSE root[v]]
  BY DEF CollapseEdge, TopologyInv, TopologyTyped, Working
<1>5. \A b \in boundary_vertices' : \A v \in Vertices' : root'[v] = b <=> v = b
  BY <1>1, <1>2, <1>4 DEF RimsStay
<1>6. ASSUME NEW e \in Rims, NEW t \in FirstFaces(e) PROVE t \in active_triangles'
  <2>1. t \in active_triangles /\ t \in DOMAIN triangles /\ e \subseteq Range(triangles[t])
    BY <1>6 DEF RimsStay, FirstFaces
  <2>2. PICK x, y \in Vertices : x # y /\ e = {x, y}
    BY RimsAre DEF TopologyInv
  <2>3. x \in boundary_vertices /\ y \in boundary_vertices
    BY <2>2, RimsAre DEF TopologyInv, RimsStay
  <2>4. root[x] = x /\ root[y] = y /\ x \notin {kept, removed} /\ y \notin {kept, removed}
    BY <2>2, <2>3 DEF RimsStay
  <2>5. Key(t) = {root[v] : v \in Range(triangles[t])}
    BY <1>4, <2>1, KeyIs DEF TopologyInv
  <2>6. x \in Key(t) /\ y \in Key(t)
    <3>1. x \in Range(triangles[t]) /\ y \in Range(triangles[t])
      BY <2>1, <2>2
    <3> QED
      BY <2>4, <2>5, <3>1
  <2>7. IsTriple(Key(t))
    BY <2>1, CollapseFaces
  <2>8. ~(kept \in Key(t) /\ removed \in Key(t))
    BY <2>2, <2>4, <2>6, <2>7 DEF IsTriple
  <2>9. active_triangles' =
          active_triangles \ {u \in active_triangles : {kept, removed} \subseteq Key(u)}
    BY CollapseBooks
  <2> QED
    BY <2>1, <2>8, <2>9
<1>7. \A e \in Rims' : FirstFaces(e)' \subseteq active_triangles'
  BY <1>3, <1>6
<1> QED
  BY <1>1, <1>3, <1>5, <1>7 DEF RimsStay

-----------------------------------------------------------------------------
(* MeshSimplifier: the queue, and the steps that change the topology.       *)

\* What is in a queue after edges are taken or added.
LEMMA BagsAre ==
    /\ \A B, C : BagToSet(B (+) C) = BagToSet(B) \cup BagToSet(C)
    /\ \A B, C : BagToSet(B (-) C) \subseteq BagToSet(B)
    /\ \A S : BagToSet(SetToBag(S)) = S
BY DEF BagToSet, SetToBag, (+), (-)

\* An edge of the mesh, ordered, is two of its vertices.
LEMMA QueuedEdges ==
    ASSUME MeshesTyped, TopologyTyped
    PROVE  EdgesQueued \subseteq Vertices \X Vertices
<1> SUFFICES ASSUME NEW e \in EdgesOf(active_triangles) PROVE Ordered(e) \in Vertices \X Vertices
  BY DEF EdgesQueued
<1>1. PICK t \in active_triangles : e \in kSubset(2, Key(t))
  BY DEF EdgesOf
<1>2. t \in DOMAIN triangles /\ root \in [Vertices -> Vertices]
  BY DEF TopologyTyped
<1>3. IsFiniteSet(Key(t)) /\ Key(t) \subseteq Vertices
  BY <1>2, KeyIs
<1>4. Vertices \subseteq Nat
  <2>1. source_mesh \in Seq(TriangleOf)
    BY DEF MeshesTyped, IndexBuffers
  <2>2. \A i \in DOMAIN source_mesh : source_mesh[i] \in TriangleOf
    BY <2>1
  <2>3. \A i \in DOMAIN source_mesh : Range(source_mesh[i]) \subseteq Nat
    BY <2>2, TriangleIs
  <2> QED
    BY <2>3 DEF Vertices, VerticesOf
<1>5. PICK x, y \in Key(t) : x # y /\ e = {x, y}
  BY <1>1, <1>3, PairsOf
<1>6. x \in Nat /\ y \in Nat /\ e \subseteq Vertices
  BY <1>3, <1>4, <1>5
<1>7. \E p \in e \X e : p[1] < p[2]
  <2>1. CASE x < y
    BY <1>5, <2>1, <<x, y>> \in e \X e
  <2>2. CASE y < x
    BY <1>5, <2>2, <<y, x>> \in e \X e
  <2> QED
    BY <1>5, <1>6, <2>1, <2>2
<1>8. Ordered(e) \in e \X e
  BY <1>7 DEF Ordered
<1> QED
  BY <1>6, <1>8

\* Reset makes the books of a mesh that has lost nothing.
LEMMA ResetStep == ASSUME TopologyInv, Reset PROVE TopologyInv'
<1>1. MeshesTyped /\ MeshesTyped'
  BY DEF TopologyInv, MeshesTyped, Reset, settings, base
<1>2. triangles' = triangles /\ Vertices' = Vertices /\ stage' = "queue"
  BY DEF Reset, base, Vertices
<1>3. /\ root' = [v \in Vertices |-> v]
      /\ active_triangles' = DOMAIN triangles
      /\ active_triangle_keys' = {Range(triangles[t]) : t \in DOMAIN triangles}
      /\ vertex_triangles' = [v \in Vertices |-> {t \in DOMAIN triangles : v \in Range(triangles[t])}]
      /\ boundary_vertices' = OnBoundary(triangles)
      /\ active_triangle_count' = Len(triangles)
  BY DEF Reset
<1>4. TopologyTyped'
  BY <1>2, <1>3 DEF TopologyTyped
<1>5. \A t \in DOMAIN triangles : /\ Key(t)' = Range(triangles[t])
                                  /\ Cardinality(Range(triangles[t])) = 3
                                  /\ Range(triangles[t]) \subseteq Vertices
  <2> SUFFICES ASSUME NEW t \in DOMAIN triangles
               PROVE  /\ Key(t)' = Range(triangles[t])
                      /\ Cardinality(Range(triangles[t])) = 3
                      /\ Range(triangles[t]) \subseteq Vertices
    OBVIOUS
  <2> DEFINE x == triangles[t]
  <2>1. Cardinality(Range(x)) = 3 /\ Range(x) \subseteq Vertices /\ x \in TriangleOf
    BY <1>1, CornersAre
  <2>2. Range(x) = {x[1], x[2], x[3]}
    BY <2>1, TriangleIs
  <2>3. Key(t)' = {root'[x[1]], root'[x[2]], root'[x[3]]}
    BY <1>2 DEF Key, Roots, Range
  <2> HIDE DEF x
  <2>4. Key(t)' = Range(x)
    BY <1>3, <2>1, <2>2, <2>3
  <2> QED
    BY <2>1, <2>4 DEF x
<1>6. RootVertices' = Vertices
  BY <1>2, <1>3 DEF RootVertices
<1>7. BooksAreTheMesh'
  <2>1. Len(triangles) = Cardinality(DOMAIN triangles)
    <3>1. triangles \in Seq(TriangleOf)
      BY <1>1, ValidAre DEF MeshesTyped, IndexBuffers
    <3>2. DOMAIN triangles = 1 .. Len(triangles) /\ Len(triangles) \in Nat
      BY <3>1
    <3> QED
      BY <3>2, IntervalIs
  <2>2. \A t \in active_triangles' : IsValid(t)'
    BY <1>3, <1>5 DEF IsValid
  <2>3. \A s, t \in active_triangles' : Key(s)' = Key(t)' => Range(triangles[s])' = Range(triangles[t])'
    BY <1>2, <1>3, <1>5
  <2>4. \A v \in RootVertices' : vertex_triangles'[v] = {t \in active_triangles' : v \in Key(t)'}
    BY <1>3, <1>5, <1>6
  <2>5. {k \in active_triangle_keys' : k \subseteq RootVertices'} = {Key(t)' : t \in active_triangles'}
    BY <1>3, <1>5, <1>6
  <2> QED
    BY <1>3, <2>1, <2>2, <2>3, <2>4, <2>5 DEF BooksAreTheMesh
<1>8. RimsStay'
  <2>1. OnBoundary(triangles)' = OnBoundary(triangles)
    BY <1>2 DEF OnBoundary
  <2>2. \A b \in boundary_vertices' : \A v \in Vertices' : root'[v] = b <=> v = b
    BY <1>2, <1>3
  <2>3. \A e \in Rims' : FirstFaces(e)' \subseteq active_triangles'
    BY <1>2, <1>3 DEF FirstFaces
  <2> QED
    BY <1>3, <2>1, <2>2, <2>3 DEF RimsStay
<1> QED
  BY <1>1, <1>4, <1>7, <1>8 DEF TopologyInv

\* Steps that only change the queue.
LEMMA QueueStep ==
    ASSUME TopologyInv, Working, Working', UNCHANGED <<settings, lod_meshes, base, topology>>,
           stage' = "loop" => BagToSet(edge_queue') \subseteq Vertices \X Vertices
    PROVE  TopologyInv'
<1>1. MeshesTyped'
  BY DEF TopologyInv, MeshesTyped, Working, settings, base
<1>2. Vertices' = Vertices
  BY DEF Vertices, base
<1>3. TopologyTyped'
  BY <1>2 DEF TopologyInv, TopologyTyped, topology, base
<1>4. BooksAreTheMesh'
  <2>1. BooksAreTheMesh /\ UNCHANGED <<root, active_triangles, active_triangle_keys, vertex_triangles,
                                       active_triangle_count, triangles, source_mesh>>
    BY DEF TopologyInv, topology, base
  <2>2. \A t : Key(t)' = Key(t) /\ IsValid(t)' = IsValid(t)
    BY <2>1 DEF IsValid, Key, Roots
  <2>3. RootVertices' = RootVertices
    BY <2>1 DEF RootVertices, Vertices
  <2> QED
    BY <2>1, <2>2, <2>3 DEF BooksAreTheMesh
<1>5. preserve_boundaries' => RimsStay'
  <2>1. triangles' = triangles
    BY DEF base
  <2>2. /\ OnBoundary(triangles)' = OnBoundary(triangles) /\ Rims' = Rims
        /\ \A e \in Rims : FirstFaces(e)' = FirstFaces(e)
    BY <2>1 DEF OnBoundary, Rims, FirstEdges, FirstFaces
  <2>3. UNCHANGED <<boundary_vertices, root, active_triangles, preserve_boundaries>>
    BY DEF topology, settings
  <2>4. preserve_boundaries => RimsStay
    BY DEF TopologyInv
  <2> QED
    BY <1>2, <2>2, <2>3, <2>4 DEF RimsStay
<1> QED
  BY <1>1, <1>3, <1>4, <1>5 DEF TopologyInv

\* What is in the queue is two vertices.
LEMMA EdgeIsTwo ==
    ASSUME TopologyInv, NEW edge \in BagToSet(edge_queue), stage = "loop"
    PROVE  edge[1] \in Vertices /\ edge[2] \in Vertices /\ edge = <<edge[1], edge[2]>>
BY DEF TopologyInv, TopologyTyped, Working

\* A collapse keeps the books.
LEMMA CollapseStep ==
    ASSUME TopologyInv, NEW edge \in BagToSet(edge_queue), Collapse(edge)
    PROVE  TopologyInv'
<1> DEFINE kept == edge[1]
           removed == edge[2]
<1>1. /\ stage = "loop" /\ stage' = "loop" /\ kept # removed
      /\ root[kept] = kept /\ root[removed] = removed
      /\ Queued({kept, removed}) /\ NoOverlap(kept, removed)
      /\ CollapseEdge(kept, removed) /\ PushVertexEdges(kept, removed, Popped(edge))
      /\ UNCHANGED <<settings, lod_meshes, base>>
  BY DEF Collapse, Due, Top, CanCollapse
<1>2. kept \in Vertices /\ removed \in Vertices
  BY <1>1, EdgeIsTwo
<1> HIDE DEF kept, removed
<1>3. MeshesTyped'
  BY <1>1 DEF TopologyInv, MeshesTyped, settings, base
<1>4. BooksAreTheMesh' /\ active_triangles' \subseteq active_triangles
  BY <1>1, <1>2, CollapseBooks
<1>5. /\ root' \in [Vertices -> Vertices] /\ \A v \in Vertices : root'[root'[v]] = root'[v]
      /\ Vertices' = Vertices /\ triangles' = triangles
  BY <1>1, <1>2, CollapseMerges DEF base
<1>6. DOMAIN vertex_triangles' = Vertices
  BY <1>1 DEF CollapseEdge
<1>7. BagToSet(edge_queue') \subseteq Vertices \X Vertices
  <2> DEFINE faces == vertex_triangles'[kept] \cap active_triangles'
             near  == UNION {Collapsed(t, kept, removed) : t \in faces} \ {kept}
             open  == {n \in near : ~(preserve_boundaries /\ {n, kept} \cap boundary_vertices' # {})}
  <2>1. edge_queue' = Popped(edge) (+) SetToBag({<<kept, v>> : v \in open})
    BY <1>1, Zenon DEF PushVertexEdges
  <2>2. \A t \in active_triangles : Collapsed(t, kept, removed) \subseteq Vertices
    BY <1>1, <1>2, CollapseFaces DEF Merges, RootVertices
  <2>3. open \subseteq Vertices
    BY <1>4, <2>2
  <2> HIDE DEF open
  <2>4. BagToSet(edge_queue') = BagToSet(Popped(edge)) \cup {<<kept, v>> : v \in open}
    BY <2>1, BagsAre
  <2>5. BagToSet(Popped(edge)) \subseteq Vertices \X Vertices
    <3>1. BagToSet(edge_queue) \subseteq Vertices \X Vertices
      BY <1>1 DEF TopologyInv, TopologyTyped, Working
    <3>2. BagToSet(Popped(edge)) \subseteq BagToSet(edge_queue)
      BY BagsAre DEF Popped
    <3> QED
      BY <3>1, <3>2
  <2> QED
    BY <1>2, <2>3, <2>4, <2>5
<1>8. TopologyTyped'
  <2>1. active_triangles \subseteq DOMAIN triangles
    BY <1>1 DEF TopologyInv, TopologyTyped, Working
  <2> QED
    BY <1>4, <1>5, <1>6, <1>7, <2>1 DEF TopologyTyped
<1>9. ASSUME preserve_boundaries' PROVE RimsStay'
  <2>1. preserve_boundaries /\ RimsStay
    BY <1>1, <1>9 DEF TopologyInv, Working, settings
  <2>2. kept \notin boundary_vertices /\ removed \notin boundary_vertices
    BY <1>1, <2>1 DEF Queued, Guarded
  <2> QED
    BY <1>1, <1>2, <2>1, <2>2, CollapseRims
<1> QED
  BY <1>1, <1>3, <1>4, <1>8, <1>9 DEF TopologyInv

\* Whatever is done with the edge on top of the queue keeps the books.
LEMMA EdgeStep ==
    ASSUME TopologyInv, NEW edge \in BagToSet(edge_queue), Step(edge)
    PROVE  TopologyInv'
<1>1. CASE Collapse(edge)
  BY <1>1, CollapseStep
<1>2. CASE SkipMerged(edge) \/ PushRoots(edge) \/ Reject(edge)
  <2>1. /\ stage = "loop" /\ stage' = "loop" /\ Working /\ Working'
        /\ UNCHANGED <<settings, lod_meshes, base, topology>>
    BY <1>2 DEF SkipMerged, PushRoots, Reject, Due, Top, Working
  <2>2. edge_queue' = Popped(edge) \/ edge_queue' = Popped(edge) (+) SetToBag({<<root[edge[1]], root[edge[2]]>>})
    BY <1>2 DEF SkipMerged, PushRoots, Reject
  <2>3. BagToSet(edge_queue') \subseteq BagToSet(edge_queue) \cup {<<root[edge[1]], root[edge[2]]>>}
    BY <2>2, BagsAre DEF Popped
  <2>4. /\ BagToSet(edge_queue) \subseteq Vertices \X Vertices /\ root \in [Vertices -> Vertices]
        /\ edge[1] \in Vertices /\ edge[2] \in Vertices
    BY <2>1, EdgeIsTwo DEF TopologyInv, TopologyTyped
  <2>5. BagToSet(edge_queue') \subseteq Vertices \X Vertices
    BY <2>3, <2>4
  <2> QED
    BY <2>1, <2>5, QueueStep
<1> QED
  BY <1>1, <1>2 DEF Step

\* The queue is built of vertices of the mesh.
LEMMA BuildEdgeQueueStep == ASSUME TopologyInv, BuildEdgeQueue PROVE TopologyInv'
<1>1. /\ stage = "queue" /\ stage' = "loop" /\ Working /\ Working'
      /\ UNCHANGED <<settings, lod_meshes, base, topology>>
      /\ edge_queue' = SetToBag(EdgesQueued)
  BY DEF BuildEdgeQueue, Working
<1>2. EdgesQueued \subseteq Vertices \X Vertices
  BY <1>1, QueuedEdges DEF TopologyInv
<1>3. BagToSet(edge_queue') \subseteq Vertices \X Vertices
  BY <1>1, <1>2, BagsAre
<1> QED
  BY <1>1, <1>3, QueueStep

-----------------------------------------------------------------------------
(* MeshSimplifier: what is written out.                                     *)

\* The image of a finite set.
LEMMA ImageIsFinite ==
    ASSUME NEW S, IsFiniteSet(S), NEW f
    PROVE  IsFiniteSet({f[x] : x \in S})
<1> DEFINE T == {f[x] : x \in S}
           g == [x \in S |-> f[x]]
<1>1. g \in Surjection(S, T)
  BY DEF Surjection
<1> QED
  BY <1>1, FS_Surjection

\* A nonempty finite set of numbers has a least one.
LEMMA LeastPlace ==
    ASSUME NEW S \in SUBSET Nat, IsFiniteSet(S), S # {}
    PROVE  \E c \in S : \A d \in S : c <= d
<1>1. 1 \in 1 .. Cardinality(S)
  BY FS_CardinalityType, FS_EmptySet
<1>2. PICK c \in S : Place(c, S) = 1
  BY <1>1, PlacesAre
<1>3. \A d \in S : d < c => Place(d, S) \in 1 .. Cardinality(S) /\ Place(d, S) < 1
  BY <1>2, PlacesAre
<1>4. \A d \in S : ~(d < c)
  BY <1>3
<1> QED
  BY <1>4

\* The vertices on a list, and that numbers tell them apart without a gap.
Listed(corners) == {corners[c] : c \in DOMAIN corners}

NumberedWell(corners, W) ==
    /\ IsFiniteSet(W) /\ Cardinality(W) \in Nat
    /\ \A v \in W : Numbered(corners, v) \in 0 .. Cardinality(W) - 1
    /\ \A u, v \in W : Numbered(corners, u) = Numbered(corners, v) => u = v
    /\ \A n \in 0 .. Cardinality(W) - 1 : \E v \in W : Numbered(corners, v) = n

\* A number for each vertex that is somewhere on the list, without a gap.
LEMMA NumbersAre ==
    ASSUME NEW N \in Nat, NEW corners, DOMAIN corners = 1 .. N
    PROVE  NumberedWell(corners, Listed(corners))
<1> DEFINE W == Listed(corners)
<1>0. W = {corners[c] : c \in DOMAIN corners}
  BY DEF Listed
<1> HIDE DEF W
<1> DEFINE Seen(v) == {corners[c] : c \in Before(corners, v)}
           M == Cardinality(W)
<1>1. IsFiniteSet(1 .. N) /\ IsFiniteSet(W) /\ M \in Nat
  <2>1. IsFiniteSet(1 .. N)
    BY IntervalIs
  <2>2. IsFiniteSet(W)
    BY <1>0, <2>1, ImageIsFinite
  <2> QED
    BY <2>1, <2>2, FS_CardinalityType
<1>2. ASSUME NEW v \in W
      PROVE  \E c \in 1 .. N : corners[c] = v /\ Before(corners, v) = 1 .. c - 1
  <2> DEFINE Q == {c \in 1 .. N : corners[c] = v}
  <2>1. Q \in SUBSET Nat /\ Q \in SUBSET (1 .. N) /\ Q # {}
    BY <1>0
  <2>2. IsFiniteSet(Q)
    BY <1>1, <2>1, FS_Subset
  <2> HIDE DEF Q
  <2>3. PICK c \in Q : \A d \in Q : c <= d
    BY <2>1, <2>2, LeastPlace
  <2>4. c \in 1 .. N /\ corners[c] = v /\ \A d \in 1 .. N : corners[d] = v => c <= d
    BY <2>3 DEF Q
  <2>5. Before(corners, v) = 1 .. c - 1
    BY <2>4 DEF Before
  <2> QED
    BY <2>4, <2>5
<1>3. ASSUME NEW v \in W
      PROVE  /\ v \notin Seen(v) /\ Seen(v) \in SUBSET W /\ IsFiniteSet(Seen(v))
             /\ Numbered(corners, v) = Cardinality(Seen(v))
  <2>1. v \notin Seen(v)
    BY DEF Before
  <2>2. Seen(v) \in SUBSET W
    BY <1>0 DEF Before
  <2>3. Numbered(corners, v) = Cardinality(Seen(v))
    BY DEF Numbered
  <2> QED
    BY <1>1, <2>1, <2>2, <2>3, FS_Subset
<1>4. ASSUME NEW u \in W, NEW v \in W, NEW c \in 1 .. N, NEW d \in 1 .. N, c < d,
             corners[c] = u, Before(corners, u) = 1 .. c - 1, Before(corners, v) = 1 .. d - 1
      PROVE  Numbered(corners, u) # Numbered(corners, v)
  <2>1. \A b \in Before(corners, u) : b \in Before(corners, v)
    BY <1>4
  <2>2. c \in Before(corners, v)
    BY <1>4
  <2>3. Seen(u) \in SUBSET Seen(v) /\ u \in Seen(v)
    BY <1>4, <2>1, <2>2
  <2>4. u \notin Seen(u) /\ IsFiniteSet(Seen(v))
    BY <1>3
  <2>5. Seen(u) # Seen(v)
    BY <2>3, <2>4
  <2> HIDE DEF Seen
  <2>6. Cardinality(Seen(u)) # Cardinality(Seen(v))
    BY <2>3, <2>4, <2>5, FS_Subset
  <2> QED
    BY <1>3, <2>6
<1>5. ASSUME NEW u \in W, NEW v \in W, u # v PROVE Numbered(corners, u) # Numbered(corners, v)
  <2>1. PICK c \in 1 .. N : corners[c] = u /\ Before(corners, u) = 1 .. c - 1
    BY <1>2
  <2>2. PICK d \in 1 .. N : corners[d] = v /\ Before(corners, v) = 1 .. d - 1
    BY <1>2
  <2>3. c < d \/ d < c
    BY <1>5, <2>1, <2>2
  <2> HIDE DEF Seen, M
  <2> QED
    BY <1>4, <2>1, <2>2, <2>3
<1>6. ASSUME NEW v \in W PROVE Numbered(corners, v) \in 0 .. M - 1
  <2>1. Seen(v) # W
    BY <1>3
  <2>2. Seen(v) \in SUBSET W /\ IsFiniteSet(Seen(v)) /\ Numbered(corners, v) = Cardinality(Seen(v))
    BY <1>3
  <2> HIDE DEF Seen, M
  <2>3. Cardinality(Seen(v)) <= Cardinality(W) /\ Cardinality(Seen(v)) # Cardinality(W)
    BY <1>1, <2>1, <2>2, FS_Subset
  <2>4. Cardinality(Seen(v)) \in Nat
    BY <2>2, FS_CardinalityType
  <2> QED
    BY <1>1, <2>2, <2>3, <2>4 DEF M
<1>7. \A n \in 0 .. M - 1 : \E v \in W : Numbered(corners, v) = n
  <2> DEFINE f == [v \in W |-> Numbered(corners, v)]
  <2>1. f \in Injection(W, 0 .. M - 1)
    <3> HIDE DEF M
    <3>1. \A v \in W : Numbered(corners, v) \in 0 .. M - 1
      BY <1>6
    <3>2. \A u, v \in W : Numbered(corners, u) = Numbered(corners, v) => u = v
      BY <1>5
    <3> QED
      BY <3>1, <3>2, Zenon DEF Injection, IsInjective
  <2>2. IsFiniteSet(0 .. M - 1) /\ Cardinality(0 .. M - 1) = M
    <3> HIDE DEF M
    <3>1. /\ IsFiniteSet(0 .. M - 1)
          /\ Cardinality(0 .. M - 1) = IF 0 > M - 1 THEN 0 ELSE (M - 1) - 0 + 1
      BY <1>1, FS_Interval
    <3> QED
      BY <1>1, <3>1
  <2>3. f \in Surjection(W, 0 .. M - 1)
    BY <1>1, <2>1, <2>2, FS_Injection
  <2> QED
    BY <2>3 DEF Surjection
<1> QED
  BY <1>1, <1>5, <1>6, <1>7 DEF NumberedWell, W

\* The corners of a list of triangles are the vertices of their keys.
LEMMA CornersOf ==
    ASSUME NEW D, NEW list \in Seq(D)
    PROVE  /\ DOMAIN Corners(list) = 1 .. 3 * Len(list) /\ 3 * Len(list) \in Nat
           /\ Listed(Corners(list)) = UNION {Key(list[i]) : i \in DOMAIN list}
<1> DEFINE L == Len(list)
           K == Corners(list)
<1>1. L \in Nat /\ DOMAIN list = 1 .. L
  OBVIOUS
<1>2. K = [c \in 1 .. 3 * L |-> Roots(list[((c - 1) \div 3) + 1])[((c - 1) % 3) + 1]]
  BY DEF Corners
<1>3. \A t : DOMAIN Roots(t) = 1 .. 3 /\ Key(t) = {Roots(t)[k] : k \in 1 .. 3}
  BY DEF Roots, Key, Range
<1> HIDE DEF L, K
<1>4. ASSUME NEW c \in 1 .. 3 * L
      PROVE  ((c - 1) \div 3) + 1 \in 1 .. L /\ ((c - 1) % 3) + 1 \in 1 .. 3
  BY <1>1
<1>5. ASSUME NEW i \in 1 .. L, NEW k \in 1 .. 3
      PROVE  /\ 3 * (i - 1) + k \in 1 .. 3 * L
             /\ K[3 * (i - 1) + k] = Roots(list[i])[k]
  <2> DEFINE c == 3 * (i - 1) + k
  <2>1. c \in 1 .. 3 * L /\ (c - 1) \div 3 = i - 1 /\ (c - 1) % 3 = k - 1
    BY <1>1
  <2>2. K[c] = Roots(list[((c - 1) \div 3) + 1])[((c - 1) % 3) + 1]
    BY <1>2, <2>1
  <2>3. (i - 1) + 1 = i /\ (k - 1) + 1 = k
    BY <1>1
  <2> QED
    BY <2>1, <2>2, <2>3
<1>6. DOMAIN K = 1 .. 3 * L /\ 3 * L \in Nat
  BY <1>1, <1>2
<1>7. \A v : (\E c \in 1 .. 3 * L : K[c] = v) <=> \E i \in 1 .. L : v \in Key(list[i])
  <2> SUFFICES ASSUME NEW v
               PROVE  (\E c \in 1 .. 3 * L : K[c] = v) <=> \E i \in 1 .. L : v \in Key(list[i])
    OBVIOUS
  <2>1. ASSUME NEW c \in 1 .. 3 * L, K[c] = v PROVE \E i \in 1 .. L : v \in Key(list[i])
    BY <1>2, <1>3, <1>4, <2>1
  <2>2. ASSUME NEW i \in 1 .. L, v \in Key(list[i]) PROVE \E c \in 1 .. 3 * L : K[c] = v
    <3>1. PICK k \in 1 .. 3 : v = Roots(list[i])[k]
      BY <1>3, <2>2
    <3> QED
      BY <1>5, <3>1
  <2> QED
    BY <2>1, <2>2
<1> QED
  BY <1>1, <1>6, <1>7 DEF L, K, Listed

\* The numbers of the vertices that are left.
LeftVertices == UNION {Key(t) : t \in active_triangles}
LeftList     == Kept([t \in DOMAIN triangles |-> t], active_triangles)
Number(v)    == Numbered(Corners(LeftList), v)

\* They are numbered without a gap, and no two alike.
LEMMA LeftAre ==
    ASSUME TopologyInv, stage = "loop"
    PROVE  /\ LeftList \in Seq(active_triangles) /\ Len(LeftList) = active_triangle_count
           /\ \A t \in active_triangles : \E i \in DOMAIN LeftList : LeftList[i] = t
           /\ active_triangle_count <= Len(triangles)
           /\ IsFiniteSet(LeftVertices) /\ Cardinality(LeftVertices) \in Nat
           /\ \A v \in LeftVertices : Number(v) \in 0 .. Cardinality(LeftVertices) - 1
           /\ \A u, v \in LeftVertices : Number(u) = Number(v) => u = v
           /\ \A n \in 0 .. Cardinality(LeftVertices) - 1 : \E v \in LeftVertices : Number(v) = n
           /\ OutputMesh = [i \in 1 .. Len(LeftList) |->
                              <<Number(Roots(LeftList[i])[1]), Number(Roots(LeftList[i])[2]),
                                Number(Roots(LeftList[i])[3])>>]
<1> DEFINE D == DOMAIN triangles
           all == [t \in D |-> t]
<1>1. /\ active_triangles \in SUBSET D /\ BooksAreTheMesh /\ triangles \in Seq(TriangleOf)
  BY ValidAre DEF TopologyInv, TopologyTyped, Working, MeshesTyped, IndexBuffers
<1>2. all \in Seq(D) /\ DOMAIN all = D /\ Len(all) = Len(triangles) /\ Len(triangles) \in Nat
  <2>1. D = 1 .. Len(triangles) /\ Len(triangles) \in Nat
    BY <1>1
  <2> HIDE DEF D
  <2>2. all \in [1 .. Len(triangles) -> D]
    BY <2>1
  <2> QED
    BY <2>1, <2>2
<1> HIDE DEF all
<1>3. /\ LeftList \in Seq(D) /\ Len(LeftList) = Cardinality(active_triangles)
      /\ Cardinality(active_triangles) <= Len(all)
      /\ \A n \in DOMAIN LeftList : \E i \in active_triangles : LeftList[n] = all[i]
      /\ \A i \in active_triangles : \E n \in DOMAIN LeftList : LeftList[n] = all[i]
  <2>1. LeftList = Kept(all, active_triangles)
    BY DEF LeftList, all
  <2> HIDE DEF D
  <2> QED
    BY <1>1, <1>2, <2>1, KeptIs
<1>4. \A i \in active_triangles : all[i] = i
  BY <1>1 DEF all
<1>5. /\ DOMAIN LeftList = 1 .. Len(LeftList) /\ Len(LeftList) \in Nat
      /\ \A n \in DOMAIN LeftList : LeftList[n] \in active_triangles
      /\ \A t \in active_triangles : \E n \in DOMAIN LeftList : LeftList[n] = t
  BY <1>3, <1>4
<1>6. LeftList \in Seq(active_triangles)
  <2>1. LeftList \in [1 .. Len(LeftList) -> active_triangles]
    BY <1>3, <1>5
  <2> QED
    BY <1>5, <2>1
<1> DEFINE K == Corners(LeftList)
           N == 3 * Len(LeftList)
<1>7. DOMAIN K = 1 .. N /\ N \in Nat /\ Listed(K) = LeftVertices
  <2>1. /\ DOMAIN K = 1 .. N /\ N \in Nat
        /\ Listed(K) = UNION {Key(LeftList[i]) : i \in DOMAIN LeftList}
    BY <1>6, CornersOf
  <2>2. UNION {Key(LeftList[i]) : i \in DOMAIN LeftList} = LeftVertices
    BY <1>5 DEF LeftVertices
  <2> QED
    BY <2>1, <2>2
<1>8. /\ IsFiniteSet(LeftVertices) /\ Cardinality(LeftVertices) \in Nat
      /\ \A v \in LeftVertices : Number(v) \in 0 .. Cardinality(LeftVertices) - 1
      /\ \A u, v \in LeftVertices : Number(u) = Number(v) => u = v
      /\ \A n \in 0 .. Cardinality(LeftVertices) - 1 : \E v \in LeftVertices : Number(v) = n
  <2> HIDE DEF K, N
  <2>1. \A v : Number(v) = Numbered(K, v)
    BY DEF Number, K
  <2>2. NumberedWell(K, LeftVertices)
    BY <1>7, NumbersAre
  <2> QED
    BY <2>1, <2>2 DEF NumberedWell
<1>9. OutputMesh = [i \in 1 .. Len(LeftList) |->
                      <<Number(Roots(LeftList[i])[1]), Number(Roots(LeftList[i])[2]),
                        Number(Roots(LeftList[i])[3])>>]
  <2>1. {t \in active_triangles : IsValid(t)} = active_triangles
    BY <1>1 DEF BooksAreTheMesh
  <2>2. Kept([t \in DOMAIN triangles |-> t], {t \in active_triangles : IsValid(t)}) = LeftList
    BY <2>1 DEF LeftList
  <2> QED
    BY <1>5, <2>2 DEF OutputMesh, Number
<1> QED
  BY <1>1, <1>2, <1>3, <1>5, <1>6, <1>8, <1>9 DEF BooksAreTheMesh

\* What is written out: the triangles that are left, under the numbers of their vertices.
LEMMA OutputIs ==
    ASSUME TopologyInv, stage = "loop"
    PROVE  /\ OutputMesh \in IndexBuffers
           /\ Len(OutputMesh) = active_triangle_count /\ active_triangle_count <= Len(triangles)
           /\ VerticesOf(OutputMesh) = 0 .. Cardinality(LeftVertices) - 1
           /\ \A i \in DOMAIN OutputMesh :
                /\ LeftList[i] \in active_triangles
                /\ Range(OutputMesh[i]) = {Number(v) : v \in Key(LeftList[i])}
           /\ \A t \in active_triangles : \E i \in DOMAIN OutputMesh : LeftList[i] = t
<1> DEFINE M == OutputMesh
           L == Len(LeftList)
           R(i) == Roots(LeftList[i])
<1>1. /\ LeftList \in Seq(active_triangles) /\ L = active_triangle_count
      /\ active_triangle_count <= Len(triangles)
      /\ \A t \in active_triangles : \E i \in DOMAIN LeftList : LeftList[i] = t
      /\ M = [i \in 1 .. L |-> <<Number(R(i)[1]), Number(R(i)[2]), Number(R(i)[3])>>]
  BY LeftAre
<1>2. /\ Cardinality(LeftVertices) \in Nat
      /\ \A v \in LeftVertices : Number(v) \in 0 .. Cardinality(LeftVertices) - 1
      /\ \A n \in 0 .. Cardinality(LeftVertices) - 1 : \E v \in LeftVertices : Number(v) = n
  BY LeftAre
<1>3. \A t : Key(t) = {Roots(t)[1], Roots(t)[2], Roots(t)[3]}
  BY DEF Key, Roots, Range
<1>4. \A t \in active_triangles : Key(t) \subseteq LeftVertices
  BY DEF LeftVertices
<1> HIDE DEF R, L, M
<1>5. ASSUME NEW i \in 1 .. L
      PROVE  /\ LeftList[i] \in active_triangles
             /\ M[i] \in TriangleOf
             /\ Range(M[i]) = {Number(v) : v \in Key(LeftList[i])}
  <2>1. LeftList[i] \in active_triangles
    BY <1>1 DEF L
  <2>2. Key(LeftList[i]) = {R(i)[1], R(i)[2], R(i)[3]}
    BY <1>3 DEF R
  <2>3. R(i)[1] \in LeftVertices /\ R(i)[2] \in LeftVertices /\ R(i)[3] \in LeftVertices
    BY <1>4, <2>1, <2>2
  <2>4. Number(R(i)[1]) \in Nat /\ Number(R(i)[2]) \in Nat /\ Number(R(i)[3]) \in Nat
    BY <1>2, <2>3
  <2>5. M[i] = <<Number(R(i)[1]), Number(R(i)[2]), Number(R(i)[3])>>
    BY <1>1
  <2>6. M[i] \in TriangleOf
    BY <2>4, <2>5 DEF TriangleOf
  <2>7. Range(M[i]) = {Number(R(i)[1]), Number(R(i)[2]), Number(R(i)[3])}
    <3>1. Range(M[i]) = {M[i][1], M[i][2], M[i][3]}
      BY <2>6, TriangleIs
    <3>2. M[i][1] = Number(R(i)[1]) /\ M[i][2] = Number(R(i)[2]) /\ M[i][3] = Number(R(i)[3])
      BY <2>5
    <3> QED
      BY <3>1, <3>2
  <2> QED
    BY <2>1, <2>2, <2>6, <2>7
<1>6. DOMAIN M = 1 .. L /\ L \in Nat /\ DOMAIN LeftList = 1 .. L
  BY <1>1 DEF L
<1>7. M \in Seq(TriangleOf) /\ Len(M) = L
  <2>1. M \in [1 .. L -> TriangleOf]
    BY <1>1, <1>5
  <2> QED
    BY <1>6, <2>1
<1>8. VerticesOf(M) = 0 .. Cardinality(LeftVertices) - 1
  <2>1. \A i \in 1 .. L : Range(M[i]) \subseteq 0 .. Cardinality(LeftVertices) - 1
    BY <1>2, <1>4, <1>5
  <2>2. ASSUME NEW n \in 0 .. Cardinality(LeftVertices) - 1 PROVE \E i \in 1 .. L : n \in Range(M[i])
    <3>1. PICK v \in LeftVertices : Number(v) = n
      BY <1>2
    <3>2. PICK t \in active_triangles : v \in Key(t)
      BY DEF LeftVertices
    <3>3. PICK i \in 1 .. L : LeftList[i] = t
      BY <1>1, <1>6, <3>2
    <3> QED
      BY <1>5, <3>1, <3>2, <3>3
  <2> QED
    BY <1>6, <2>1, <2>2 DEF VerticesOf
<1> QED
  BY <1>1, <1>5, <1>6, <1>7, <1>8 DEF M, IndexBuffers

-----------------------------------------------------------------------------
(* MeshSimplifier: levels, and the theorems.                                *)

\* A product by one of its factors.
LEMMA QuotientIs ==
    ASSUME NEW t \in Nat, NEW b \in Nat, b > 0 PROVE (b * t) \div b = t
OBVIOUS

\* A fraction of the triangles, rounded.
LEMMA ScaledIs ==
    ASSUME NEW count \in Nat, NEW target \in Nat, NEW total \in Nat, NEW n \in Scaled(count, target, total)
    PROVE  n \in Int /\ (total > 0 /\ count = total => n >= target - 1)
<1> DEFINE share == count * target
<1>1. share \in Nat
  OBVIOUS
<1>2. CASE total = 0
  BY <1>2 DEF Scaled
<1>3. CASE total > 0
  <2>1. n = share \div total \/ n = share \div total - 1
    BY <1>3 DEF Scaled
  <2>2. share \div total \in Int
    <3> HIDE DEF share
    <3> QED
      BY <1>1, <1>3
  <2>3. (total * target) \div total = target
    BY <1>3, QuotientIs
  <2>4. count = total => share \div total = target
    <3>1. count = total => share = total * target
      OBVIOUS
    <3> HIDE DEF share
    <3> QED
      BY <2>3, <3>1
  <2> HIDE DEF share
  <2> QED
    BY <2>1, <2>2, <2>4
<1> QED
  BY <1>2, <1>3

\* A level starts from a mesh that is made of the source.
LEMMA BaseIs ==
    ASSUME MeshesTyped, LevelsInv,
           NEW target \in Nat, Len(source) > 0
    PROVE  /\ BaseMesh(target) \in IndexBuffers /\ MadeOf(BaseMesh(target), source)
           /\ Len(BaseMesh(target)) > 0
<1>1. CASE BaseMesh(target) = source
  BY <1>1 DEF MeshesTyped, MadeOf, IndexBuffers
<1>2. CASE /\ lod_meshes # <<>> /\ Len(Last(lod_meshes)) > target
           /\ BaseMesh(target) = Last(lod_meshes)
  <2>1. lod_meshes \in Seq(IndexBuffers) /\ Len(lod_meshes) \in DOMAIN lod_meshes
    BY <1>2 DEF MeshesTyped
  <2>2. Last(lod_meshes) = lod_meshes[Len(lod_meshes)]
    BY DEF Last
  <2>3. Last(lod_meshes) \in IndexBuffers /\ MadeOf(Last(lod_meshes), source)
    BY <2>1, <2>2 DEF LevelsInv
  <2>4. Len(Last(lod_meshes)) \in Nat
    BY <2>3 DEF IndexBuffers
  <2> QED
    BY <1>2, <2>3, <2>4
<1> QED
  BY <1>1, <1>2 DEF BaseMesh

\* The books of the mesh and those of the levels.
MeshInv == TopologyInv /\ LevelsInv

\* A level is made of the source, or of an earlier level.
LEMMA NextLevelStep == ASSUME MeshInv, NextLevel PROVE MeshInv'
<1> DEFINE k      == Len(lod_meshes) + 1
           wanted == targets[k]
           target == IF wanted = 0 THEN 1 ELSE wanted
           mesh   == BaseMesh(target)
<1>1. MeshesTyped /\ LevelsInv /\ stage = "level" /\ Len(lod_meshes) < Len(targets)
  BY DEF MeshInv, TopologyInv, NextLevel
<1>2. /\ source \in IndexBuffers /\ lod_meshes \in Seq(IndexBuffers) /\ targets \in Seq(Nat)
      /\ Len(lod_meshes) \in Nat /\ Len(source) \in Nat /\ UNCHANGED settings
  BY <1>1 DEF MeshesTyped, NextLevel, IndexBuffers
<1>3. wanted \in Nat /\ target \in Nat /\ target >= wanted
  BY <1>1, <1>2
<1>4. CASE wanted >= Len(source)
  <2>1. /\ lod_meshes' = Append(lod_meshes, source) /\ stage' = "level"
        /\ UNCHANGED <<base, settings>>
    BY <1>1, <1>4 DEF NextLevel
  <2>2. lod_meshes' \in Seq(IndexBuffers)
    BY <1>2, <2>1
  <2>3. \A i \in DOMAIN lod_meshes' : lod_meshes'[i] = source \/ (i \in DOMAIN lod_meshes /\ lod_meshes'[i] = lod_meshes[i])
    BY <1>2, <2>1
  <2>4. MadeOf(source, source)
    BY <1>2 DEF MadeOf
  <2>5. LevelsInv'
    BY <1>1, <2>1, <2>3, <2>4 DEF LevelsInv, MadeOf, Whole, settings, Attempting
  <2>6. TopologyInv'
    BY <1>1, <2>1, <2>2 DEF TopologyInv, MeshesTyped, Working, base, settings
  <2> QED
    BY <2>5, <2>6 DEF MeshInv
<1>5. CASE wanted < Len(source)
  <2>1. /\ source_mesh' = mesh /\ triangles' = ValidTriangles(mesh)
        /\ \E n \in Scaled(Len(triangles'), target, Len(mesh)) :
             target_triangles' = IF n < MinTriangles THEN MinTriangles ELSE n
        /\ stage' = "reset" /\ UNCHANGED <<lod_meshes, settings>>
    BY <1>2, <1>3, <1>5 DEF NextLevel
  <2>2. Len(source) > 0
    BY <1>2, <1>3, <1>5
  <2> HIDE DEF mesh, target, wanted, k
  <2>3. mesh \in IndexBuffers /\ MadeOf(mesh, source) /\ Len(mesh) > 0
    BY <1>1, <1>3, <2>2, BaseIs DEF mesh
  <2>4. /\ ValidTriangles(mesh) \in IndexBuffers /\ Len(mesh) \in Nat
        /\ Len(ValidTriangles(mesh)) \in Nat
    BY <2>3, ValidAre DEF IndexBuffers
  <2>5. PICK n \in Scaled(Len(ValidTriangles(mesh)), target, Len(mesh)) :
               target_triangles' = IF n < MinTriangles THEN MinTriangles ELSE n
    BY <2>1
  <2>6. n \in Int /\ (Whole(mesh) => n >= target - 1)
    BY <1>3, <2>3, <2>4, <2>5, ScaledIs DEF Whole
  <2>7. target_triangles' \in Nat /\ (Whole(mesh) => target_triangles' >= wanted - 1)
    BY <1>3, <2>5, <2>6, LevelAssumption
  <2>8. TopologyInv'
    BY <1>1, <2>1, <2>3, <2>7 DEF TopologyInv, MeshesTyped, Working, settings
  <2>9. LevelsInv'
    <3>1. /\ Len(lod_meshes') < Len(targets') /\ MadeOf(source_mesh', source')
          /\ \A i \in DOMAIN lod_meshes' : MadeOf(lod_meshes'[i], source')
      BY <1>1, <2>1, <2>3 DEF LevelsInv, settings
    <3>2. Whole(source') => target_triangles' >= targets'[Len(lod_meshes') + 1] - 1
      BY <2>1, <2>3, <2>7 DEF settings, MadeOf, wanted, k
    <3> QED
      BY <3>1, <3>2 DEF LevelsInv
  <2> QED
    BY <2>8, <2>9 DEF MeshInv
<1> QED
  BY <1>2, <1>3, <1>4, <1>5

\* A mesh is added to the levels.
LEMMA LevelAdded ==
    ASSUME MeshInv, NEW mesh \in IndexBuffers, MadeOf(mesh, source_mesh), Attempting,
           lod_meshes' = Append(lod_meshes, mesh), stage' = "level", UNCHANGED <<settings, base>>
    PROVE  MeshInv'
<1>1. /\ source' = source /\ targets' = targets /\ UNCHANGED base
      /\ MeshesTyped /\ LevelsInv /\ lod_meshes \in Seq(IndexBuffers)
      /\ source \in IndexBuffers /\ source_mesh \in IndexBuffers
  BY DEF MeshInv, TopologyInv, MeshesTyped, settings
<1>2. MadeOf(mesh, source)
  <2>1. Len(mesh) \in Nat /\ Len(source_mesh) \in Nat /\ Len(source) \in Nat
    BY <1>1 DEF IndexBuffers
  <2> QED
    BY <1>1, <2>1 DEF LevelsInv, MadeOf
<1>3. lod_meshes' \in Seq(IndexBuffers)
  BY <1>1
<1>4. \A i \in DOMAIN lod_meshes' : lod_meshes'[i] = mesh \/ (i \in DOMAIN lod_meshes /\ lod_meshes'[i] = lod_meshes[i])
  BY <1>1
<1>5. LevelsInv'
  <2>1. \A i \in DOMAIN lod_meshes' : MadeOf(lod_meshes'[i], source)
    BY <1>1, <1>2, <1>4 DEF LevelsInv
  <2> QED
    BY <1>1, <2>1 DEF LevelsInv, Attempting
<1>6. TopologyInv'
  BY <1>1, <1>3 DEF TopologyInv, MeshesTyped, Working, base, settings
<1> QED
  BY <1>5, <1>6 DEF MeshInv

\* A mesh that is small enough is a level as it is.
LEMMA ReturnMeshStep == ASSUME MeshInv, ReturnMesh PROVE MeshInv'
<1>1. /\ lod_meshes' = Append(lod_meshes, source_mesh) /\ stage' = "level"
      /\ UNCHANGED <<settings, base>> /\ Attempting
  BY DEF ReturnMesh, Attempting
<1>2. source_mesh \in IndexBuffers /\ MadeOf(source_mesh, source_mesh)
  BY DEF MeshInv, TopologyInv, MeshesTyped, MadeOf, IndexBuffers
<1> QED
  BY <1>1, <1>2, LevelAdded

\* The mesh that is written out has no degenerate triangle.
LEMMA OutputIsMade ==
    ASSUME TopologyInv, stage = "loop"
    PROVE  MadeOf(OutputMesh, source_mesh)
<1>1. /\ OutputMesh \in IndexBuffers
      /\ Len(OutputMesh) = active_triangle_count /\ active_triangle_count <= Len(triangles)
      /\ \A i \in DOMAIN OutputMesh :
           /\ LeftList[i] \in active_triangles
           /\ Range(OutputMesh[i]) = {Number(v) : v \in Key(LeftList[i])}
  BY OutputIs
<1>2. \A u, v \in LeftVertices : Number(u) = Number(v) => u = v
  BY LeftAre
<1>3. ASSUME NEW i \in DOMAIN OutputMesh PROVE Cardinality(Range(OutputMesh[i])) = 3
  <2> DEFINE t == LeftList[i]
  <2>1. t \in active_triangles /\ t \in DOMAIN triangles /\ IsValid(t)
    BY <1>1 DEF TopologyInv, TopologyTyped, Working, BooksAreTheMesh
  <2>2. PICK a, b, c \in Vertices : Key(t) = {a, b, c} /\ a # b /\ b # c /\ a # c
    BY <2>1, KeyIs DEF TopologyInv, TopologyTyped, Working
  <2>3. Range(OutputMesh[i]) = {Number(a), Number(b), Number(c)}
    BY <1>1, <2>2
  <2>4. a \in LeftVertices /\ b \in LeftVertices /\ c \in LeftVertices
    BY <2>1, <2>2 DEF LeftVertices
  <2>5. Number(a) # Number(b) /\ Number(b) # Number(c) /\ Number(a) # Number(c)
    BY <1>2, <2>2, <2>4
  <2>6. Threesome({Number(a), Number(b), Number(c)}, Number(a), Number(b), Number(c))
    BY ThreeAre
  <2> QED
    BY <2>3, <2>5, <2>6 DEF Threesome
<1>4. Len(ValidTriangles(OutputMesh)) = Len(OutputMesh)
  BY <1>1, <1>3, ValidAre
<1>5. Len(OutputMesh) <= Len(source_mesh)
  <2>1. source_mesh \in IndexBuffers /\ triangles = ValidTriangles(source_mesh)
    BY DEF TopologyInv, MeshesTyped
  <2>2. Len(triangles) <= Len(source_mesh) /\ Len(triangles) \in Nat /\ Len(source_mesh) \in Nat
    BY <2>1, ValidAre DEF IndexBuffers
  <2>3. Len(OutputMesh) \in Nat
    BY <1>1 DEF IndexBuffers
  <2> QED
    BY <1>1, <2>2, <2>3
<1> QED
  BY <1>4, <1>5 DEF MadeOf, Whole

\* What build_output_mesh returns is a level.
LEMMA BuildOutputStep == ASSUME MeshInv, BuildOutputMesh PROVE MeshInv'
<1> DEFINE mesh == IF \A v \in Vertices : root[v] = v THEN source_mesh ELSE OutputMesh
<1>1. /\ lod_meshes' = Append(lod_meshes, mesh) /\ stage = "loop" /\ stage' = "level"
      /\ UNCHANGED <<settings, base>> /\ Attempting
  BY DEF BuildOutputMesh, Attempting
<1>2. source_mesh \in IndexBuffers /\ MadeOf(source_mesh, source_mesh)
  BY DEF MeshInv, TopologyInv, MeshesTyped, MadeOf, IndexBuffers
<1>3. OutputMesh \in IndexBuffers /\ MadeOf(OutputMesh, source_mesh)
  BY <1>1, OutputIs, OutputIsMade DEF MeshInv
<1>4. mesh \in IndexBuffers /\ MadeOf(mesh, source_mesh)
  BY <1>2, <1>3
<1> HIDE DEF mesh
<1> QED
  BY <1>1, <1>4, LevelAdded

\* Steps that leave the levels and what they are made of as they are.
LEMMA LevelsKept ==
    ASSUME LevelsInv, UNCHANGED <<settings, lod_meshes, base>>, Attempting' => Attempting
    PROVE  LevelsInv'
BY DEF LevelsInv, settings, base, MadeOf, Whole

\* At every step of the simplifier its counter, adjacency and keys describe the triangles
\* that are left, guarded rims have the triangles they had, and no level is finer than the
\* source or has a degenerate triangle that the source has not.
THEOREM MeshInvariant == SimplifierSpec => []MeshInv
<1>1. SimplifierInit => MeshInv
  <2> SUFFICES ASSUME SimplifierInit PROVE MeshInv
    OBVIOUS
  <2>1. ValidTriangles(<<>>) = <<>>
    <3>1. <<>> \in IndexBuffers /\ Len(<<>>) = 0
      BY DEF IndexBuffers
    <3>2. ValidTriangles(<<>>) \in Seq(TriangleOf) /\ Len(ValidTriangles(<<>>)) <= 0
      BY <3>1, ValidAre DEF IndexBuffers
    <3> QED
      BY <3>2
  <2>2. MeshesTyped
    BY <2>1, LevelAssumption DEF SimplifierInit, MeshesTyped, IndexBuffers
  <2>3. LevelsInv
    BY DEF SimplifierInit, LevelsInv, Attempting
  <2> QED
    BY <2>2, <2>3 DEF MeshInv, TopologyInv, SimplifierInit, Working
<1>2. MeshInv /\ [SimplifierNext]_meshVars => MeshInv'
  <2> SUFFICES ASSUME MeshInv, [SimplifierNext]_meshVars PROVE MeshInv'
    OBVIOUS
  <2>1. CASE NextLevel
    BY <2>1, NextLevelStep
  <2>2. CASE Reset
    <3>1. TopologyInv'
      BY <2>2, ResetStep DEF MeshInv
    <3>2. LevelsInv'
      BY <2>2, LevelsKept DEF MeshInv, Reset, Attempting
    <3> QED
      BY <3>1, <3>2 DEF MeshInv
  <2>3. CASE ReturnMesh
    BY <2>3, ReturnMeshStep
  <2>4. CASE BuildEdgeQueue
    <3>1. TopologyInv'
      BY <2>4, BuildEdgeQueueStep DEF MeshInv
    <3>2. LevelsInv'
      BY <2>4, LevelsKept DEF MeshInv, BuildEdgeQueue, Attempting
    <3> QED
      BY <3>1, <3>2 DEF MeshInv
  <2>5. CASE BuildOutputMesh
    BY <2>5, BuildOutputStep
  <2>6. CASE Finish
    <3>1. /\ stage' = "done" /\ UNCHANGED <<settings, lod_meshes, base>>
      BY <2>6 DEF Finish
    <3>2. TopologyInv'
      BY <3>1 DEF MeshInv, TopologyInv, MeshesTyped, Working, settings, base
    <3>3. LevelsInv'
      BY <3>1, LevelsKept DEF MeshInv, Attempting
    <3> QED
      BY <3>2, <3>3 DEF MeshInv
  <2>7. ASSUME NEW edge \in BagToSet(edge_queue), Step(edge) PROVE MeshInv'
    <3>1. TopologyInv'
      BY <2>7, EdgeStep DEF MeshInv
    <3>2. UNCHANGED <<settings, lod_meshes, base>> /\ stage = "loop" /\ stage' = "loop"
      BY <2>7 DEF Step, SkipMerged, PushRoots, Collapse, Reject, Due, Top
    <3>3. LevelsInv'
      BY <3>2, LevelsKept DEF MeshInv, Attempting
    <3> QED
      BY <3>1, <3>3 DEF MeshInv
  <2>8. CASE UNCHANGED meshVars
    <3>1. UNCHANGED <<settings, lod_meshes, base, topology, edge_queue, stage>>
      BY <2>8 DEF meshVars
    <3>2. LevelsInv'
      BY <3>1, LevelsKept DEF MeshInv, Attempting
    <3>3. CASE Working
      <4>1. TopologyInv /\ (stage' = "loop" => BagToSet(edge_queue') \subseteq Vertices \X Vertices)
        BY <3>1, <3>3 DEF MeshInv, TopologyInv, TopologyTyped
      <4>2. UNCHANGED <<settings, lod_meshes, base, topology>> /\ Working'
        BY <3>1, <3>3 DEF Working
      <4>3. TopologyInv'
        BY <3>3, <4>1, <4>2, QueueStep
      <4> QED
        BY <3>2, <4>3 DEF MeshInv
    <3>4. CASE ~Working
      <4>1. TopologyInv'
        BY <3>1, <3>4 DEF MeshInv, TopologyInv, MeshesTyped, Working, settings, base
      <4> QED
        BY <3>2, <4>1 DEF MeshInv
    <3> QED
      BY <3>3, <3>4
  <2> QED
    BY <2>1, <2>2, <2>3, <2>4, <2>5, <2>6, <2>7, <2>8 DEF SimplifierNext
<1> QED
  BY <1>1, <1>2, PTL DEF SimplifierSpec

\* A rim's triangles are all there, and no other triangle has come to lie at it.
LEMMA RimsKept ==
    ASSUME TopologyInv, Simplifying, preserve_boundaries
    PROVE  \A e \in Rims : FacesOf(e, active_triangles) = FirstFaces(e)
<1>1. RimsStay /\ TopologyTyped /\ MeshesTyped
  BY DEF TopologyInv, Working, Simplifying
<1> SUFFICES ASSUME NEW e \in Rims PROVE FacesOf(e, active_triangles) = FirstFaces(e)
  OBVIOUS
<1>2. PICK x, y \in Vertices : x # y /\ e = {x, y}
  BY <1>1, RimsAre
<1>3. x \in boundary_vertices /\ y \in boundary_vertices
  BY <1>1, <1>2, RimsAre DEF RimsStay
<1>4. ASSUME NEW t \in DOMAIN triangles PROVE e \subseteq Key(t) <=> e \subseteq Range(triangles[t])
  <2>1. Key(t) = {root[v] : v \in Range(triangles[t])} /\ Range(triangles[t]) \subseteq Vertices
    BY <1>1, KeyIs, CornersAre DEF TopologyTyped
  <2>2. \A b \in boundary_vertices : b \in Key(t) <=> b \in Range(triangles[t])
    <3> SUFFICES ASSUME NEW b \in boundary_vertices PROVE b \in Key(t) <=> b \in Range(triangles[t])
      OBVIOUS
    <3>1. \A v \in Range(triangles[t]) : root[v] = b <=> v = b
      BY <1>1, <2>1 DEF RimsStay
    <3> QED
      BY <2>1, <3>1
  <2> QED
    BY <1>2, <1>3, <2>2
<1>5. FirstFaces(e) \subseteq active_triangles /\ active_triangles \subseteq DOMAIN triangles
  BY <1>1 DEF RimsStay, TopologyTyped
<1> QED
  BY <1>4, <1>5 DEF FacesOf, FirstFaces

\* For meshes of any size, and any order of the queue: what the simplifier updates collapse
\* by collapse is always what it would compute anew from the triangles that are left, no
\* triangle has come to lie on another, and guarded rims stay.
THEOREM MeshStaysKnown == SimplifierSpec => []MeshIsKnown
<1>1. MeshInv => MeshIsKnown
  <2> SUFFICES ASSUME MeshInv PROVE MeshIsKnown
    OBVIOUS
  <2>1. BooksMatch
    BY DEF MeshInv, TopologyInv, BooksMatch, Simplifying, Working
  <2>2. BoundaryKept
    BY RimsKept DEF MeshInv, BoundaryKept
  <2> QED
    BY <2>1, <2>2 DEF MeshIsKnown
<1> QED
  BY <1>1, MeshInvariant, PTL

\* A collapse takes the triangles on the edge it merges.
LEMMA EdgeIsLost ==
    ASSUME MeshInv, [SimplifierNext]_meshVars, stage' = "loop", active_triangles' # active_triangles
    PROVE  /\ active_triangle_count > target_triangles
           /\ \E e \in EdgesOf(active_triangles) :
                active_triangles' = active_triangles \ FacesOf(e, active_triangles)
<1>1. \E edge \in BagToSet(edge_queue) : Collapse(edge)
  <2>1. ~NextLevel
    BY DEF NextLevel
  <2>2. ~Reset /\ ~ReturnMesh /\ ~BuildEdgeQueue /\ ~BuildOutputMesh /\ ~Finish /\ ~UNCHANGED meshVars
    BY DEF Reset, ReturnMesh, BuildEdgeQueue, BuildOutputMesh, Finish, meshVars, topology
  <2>3. \A edge : ~SkipMerged(edge) /\ ~PushRoots(edge) /\ ~Reject(edge)
    BY DEF SkipMerged, PushRoots, Reject, topology
  <2> QED
    BY <2>1, <2>2, <2>3 DEF SimplifierNext, Step
<1>2. PICK edge \in BagToSet(edge_queue) : Collapse(edge)
  BY <1>1
<1> DEFINE kept == edge[1]
           removed == edge[2]
           e == {kept, removed}
<1>3. /\ stage = "loop" /\ active_triangle_count > target_triangles /\ kept # removed
      /\ root[kept] = kept /\ root[removed] = removed
      /\ NoOverlap(kept, removed) /\ CollapseEdge(kept, removed) /\ UNCHANGED base /\ TopologyInv
  BY <1>2 DEF Collapse, Due, Top, CanCollapse, MeshInv
<1>4. kept \in Vertices /\ removed \in Vertices
  BY <1>3, EdgeIsTwo
<1>5. active_triangles' = active_triangles \ {t \in active_triangles : e \subseteq Key(t)}
  <2> HIDE DEF kept, removed
  <2> QED
    BY <1>3, <1>4, CollapseBooks
<1>6. PICK t \in active_triangles : e \subseteq Key(t)
  BY <1>5
<1>7. e \in kSubset(2, Key(t))
  <2>1. t \in DOMAIN triangles /\ IsFiniteSet(Key(t))
    BY <1>3, <1>6, KeyIs DEF TopologyInv, TopologyTyped, Working
  <2> HIDE DEF kept, removed
  <2> QED
    BY <1>3, <1>6, <2>1, PairsOf
<1>8. e \in EdgesOf(active_triangles)
  BY <1>6, <1>7 DEF EdgesOf
<1> QED
  BY <1>3, <1>5, <1>8 DEF FacesOf

\* The mesh that is written out names the vertices that are left.
LEMMA OutputNames ==
    ASSUME TopologyInv, stage = "loop"
    PROVE  Shows(OutputMesh, {Key(t) : t \in active_triangles})
<1> DEFINE C == Cardinality(LeftVertices)
           V == VerticesOf(OutputMesh)
           name == [n \in V |-> CHOOSE v \in LeftVertices : Number(v) = n]
<1>1. /\ V = 0 .. C - 1
      /\ \A i \in DOMAIN OutputMesh :
           /\ LeftList[i] \in active_triangles
           /\ Range(OutputMesh[i]) = {Number(v) : v \in Key(LeftList[i])}
      /\ \A t \in active_triangles : \E i \in DOMAIN OutputMesh : LeftList[i] = t
  BY OutputIs
<1>2. /\ C \in Nat
      /\ \A v \in LeftVertices : Number(v) \in 0 .. C - 1
      /\ \A u, v \in LeftVertices : Number(u) = Number(v) => u = v
      /\ \A n \in 0 .. C - 1 : \E v \in LeftVertices : Number(v) = n
  BY LeftAre
<1> HIDE DEF C, V
<1>3. Cardinality(V) = C
  <2>1. Cardinality(0 .. C - 1) = IF 0 > C - 1 THEN 0 ELSE (C - 1) - 0 + 1
    BY <1>2, FS_Interval
  <2> QED
    BY <1>1, <1>2, <2>1
<1>4. \A n \in V : name[n] \in LeftVertices /\ Number(name[n]) = n
  BY <1>1, <1>2
<1>5. \A v \in LeftVertices : Number(v) \in V /\ name[Number(v)] = v
  BY <1>1, <1>2
<1>6. name \in [V -> LeftVertices]
  BY <1>4
<1> HIDE DEF name
<1>7. name \in Bijection(V, LeftVertices)
  <2>1. \A m, n \in V : name[m] = name[n] => m = n
    BY <1>4
  <2>2. \A v \in LeftVertices : \E n \in V : name[n] = v
    BY <1>5
  <2>3. name \in Injection(V, LeftVertices)
    BY <1>6, <2>1, Zenon DEF Injection, IsInjective
  <2>4. name \in Surjection(V, LeftVertices)
    BY <1>6, <2>2 DEF Surjection
  <2> QED
    BY <2>3, <2>4 DEF Bijection
<1>8. \A i \in DOMAIN OutputMesh : {name[n] : n \in Range(OutputMesh[i])} = Key(LeftList[i])
  <2> SUFFICES ASSUME NEW i \in DOMAIN OutputMesh
               PROVE  {name[n] : n \in Range(OutputMesh[i])} = Key(LeftList[i])
    OBVIOUS
  <2>1. Key(LeftList[i]) \subseteq LeftVertices
    BY <1>1 DEF LeftVertices
  <2>2. Range(OutputMesh[i]) = {Number(v) : v \in Key(LeftList[i])}
    BY <1>1
  <2> QED
    BY <1>5, <2>1, <2>2
<1>9. {{name[v] : v \in Range(OutputMesh[i])} : i \in DOMAIN OutputMesh} = {Key(t) : t \in active_triangles}
  BY <1>1, <1>8
<1> QED
  BY <1>1, <1>3, <1>7, <1>9 DEF V, Shows, LeftVertices

\* The loop ends with build_output_mesh.
LEMMA OutputIsLeft ==
    ASSUME MeshInv, [SimplifierNext]_meshVars,
           stage = "loop", stage' = "level", \E v \in Vertices : root[v] # v
    PROVE  Last(lod_meshes') = OutputMesh
<1>1. BuildOutputMesh
  <2>1. ~NextLevel /\ ~Reset /\ ~ReturnMesh /\ ~BuildEdgeQueue /\ ~Finish /\ ~UNCHANGED meshVars
    BY DEF NextLevel, Reset, ReturnMesh, BuildEdgeQueue, Finish, meshVars
  <2>2. \A edge : ~Step(edge)
    BY DEF Step, SkipMerged, PushRoots, Collapse, Reject
  <2> QED
    BY <2>1, <2>2 DEF SimplifierNext
<1>2. lod_meshes' = Append(lod_meshes, OutputMesh)
  BY <1>1 DEF BuildOutputMesh
<1>3. lod_meshes \in Seq(IndexBuffers) /\ OutputMesh \in IndexBuffers
  BY OutputIs DEF MeshInv, TopologyInv, MeshesTyped
<1> QED
  BY <1>2, <1>3 DEF Last

\* For meshes of any size and any levels: a mesh loses the triangles on one edge at a time
\* and only while it has too many, the simplifier is not asked for less than the level by
\* more than a rounding, and what is written out shows exactly the triangles that are left,
\* with their vertices numbered without a gap.
THEOREM LevelsStayMade == SimplifierSpec => LevelsAreMade
<1>1. MeshInv => LevelsFit
  <2> SUFFICES ASSUME MeshInv PROVE LevelsFit
    OBVIOUS
  <2> QED
    BY DEF MeshInv, LevelsInv, LevelsFit, MadeOf, Whole, Simplifying, Attempting
<1>2. MeshInv /\ [SimplifierNext]_meshVars =>
        (stage' = "loop" /\ active_triangles' # active_triangles =>
           /\ active_triangle_count > target_triangles
           /\ \E e \in EdgesOf(active_triangles) :
                active_triangles' = active_triangles \ FacesOf(e, active_triangles))
  BY EdgeIsLost
<1>3. MeshInv /\ [SimplifierNext]_meshVars =>
        (stage = "loop" /\ stage' = "level" /\ (\E v \in Vertices : root[v] # v) =>
           /\ Len(Last(lod_meshes')) = active_triangle_count
           /\ Shows(Last(lod_meshes'), {Key(t) : t \in active_triangles}))
  <2> SUFFICES ASSUME MeshInv, [SimplifierNext]_meshVars, stage = "loop", stage' = "level",
                      \E v \in Vertices : root[v] # v
               PROVE  /\ Len(Last(lod_meshes')) = active_triangle_count
                      /\ Shows(Last(lod_meshes'), {Key(t) : t \in active_triangles})
    OBVIOUS
  <2>1. Last(lod_meshes') = OutputMesh
    BY OutputIsLeft
  <2>2. Len(OutputMesh) = active_triangle_count
    BY OutputIs DEF MeshInv
  <2> QED
    BY <2>1, <2>2, OutputNames DEF MeshInv
<1>4. SimplifierSpec => []LevelsFit
  BY <1>1, MeshInvariant, PTL
<1>5. SimplifierSpec => OneEdgeAtATime
  BY <1>2, MeshInvariant, PTL DEF SimplifierSpec, OneEdgeAtATime
<1>6. SimplifierSpec => OutputMatches
  BY <1>3, MeshInvariant, PTL DEF SimplifierSpec, OutputMatches
<1> QED
  BY <1>4, <1>5, <1>6 DEF LevelsAreMade

=============================================================================
