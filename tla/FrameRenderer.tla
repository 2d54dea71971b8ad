---------------------------- MODULE FrameRenderer ----------------------------
(***************************************************************************)
(* One frame after another: the viewport's camera is updated, the renderer *)
(* draws the shadow map and the scene through the render device, or one    *)
(* iteration of the sorting benchmark, and the panels drawn afterwards may *)
(* change what the next frame shows, the benchmark in progress included.   *)
(*   src/src/renderer/{renderer,render_device,mesh_section}.{h,cpp},       *)
(*   src/src/application.cpp, src/src/ui/{tools,scene_inspector}.cpp       *)
(* "frame" is what a viewer sees: the draws of the last frame, each with   *)
(* the device state it was made with.                                      *)
(***************************************************************************)
EXTENDS ViewportCamera, SequencesExt, FiniteSets

CONSTANTS
    Nothing,            \* no material, no light, no transform
    MeshOrder,          \* the static meshes of the scene, in its order
    SectionsOf,         \* SectionsOf[m]: its sections, with bounds, material, LODs
    LightOrder,         \* the spotlights of the scene, in its order
    MenuViews,          \* the views that are chosen in the camera menu
    Iterations,         \* the iteration counts typed into the Tools panel
    BinCounts,          \* the depth bins typed into the Tools panel
    DefaultIterations, DefaultBins,
    CountValues,        \* the number of values an iteration count can have
    PixelScale,         \* pixels of a unit at depth one
    PixelsPerTriangle,  \* target_pixels_per_triangle
    BenchmarkPositions, \* camera_positions of the benchmark
    Changes,            \* what changes in the scene: a field of world and one of its members
    Elsewhere,          \* a transform the inspector gives a camera
    MaxEvents           \* bound of the model: what the user does

StaticMeshes == Range(MeshOrder)
Lights == Range(LightOrder)
MaterialsOf(m) == {SectionsOf[m][i].material : i \in DOMAIN SectionsOf[m]}
SceneMaterials == UNION {MaterialsOf(m) : m \in StaticMeshes}

\* The bounding box of a section, if it has vertices.
Boxes == {b \in [valid : {TRUE}, min : Vectors, max : Vectors] :
            \A i \in 1 .. 3 : b.min[i] <= b.max[i]}
Bounds == Boxes \cup {[valid |-> FALSE]}

\* What a spotlight sees the scene from, and what is drawn from there.
Sights == [light : Lights, at : Int]
ShadowMaps == [from : Sights, casters : SUBSET StaticMeshes]

ASSUME FrameRendererAssumption ==
    /\ MeshOrder \in Seq(StaticMeshes) /\ {"grid", "quad"} \cap StaticMeshes = {}
    /\ \A i, j \in DOMAIN MeshOrder : MeshOrder[i] = MeshOrder[j] => i = j
    /\ SectionsOf \in
          [StaticMeshes -> Seq([bounds : Bounds, material : SceneMaterials, lods : Seq(Nat)])]
    /\ LightOrder \in Seq(Lights)
    /\ Nothing \notin Sights \cup ShadowMaps \cup {"identity"}
    /\ MenuViews \subseteq Views /\ Elsewhere \in Transforms
    /\ Iterations \cup {DefaultIterations} \subseteq Int
    /\ BinCounts \cup {DefaultBins, CountValues} \subseteq Nat \ {0}
    /\ MaxEvents \in Nat
    /\ Changes \subseteq [field : {"visible", "casts", "receives", "loaded"}, of : StaticMeshes]
          \cup [field : {"resident"}, of : SceneMaterials]
          \cup [field : {"enabled", "casting", "at"}, of : Lights]
    /\ BenchmarkPositions \in Seq([eye : Vectors, forward : Vectors])
    /\ BenchmarkPositions # <<>>

VARIABLES
    part,         \* which part of Application::tick comes next
    world,      \* the objects of the scene, as far as they are drawn
    device,     \* RenderDevice: what exists and what is bound
    renderer,   \* Renderer: sorter, shadow resources, statistics
    bench,      \* SortingBenchmarkState
    comp,       \* ComparativeBenchmarkState
    panel,      \* the numbers typed into the Tools panel
    frame,      \* the draws of the frame
    home,       \* history: the selected camera's transform when a benchmark was asked for
    touched,    \* history: what the user changed since: "view", "mode"
    events      \* how many things the user did

rendering == <<device, renderer, frame>>
benchmark == <<bench, comp, home>>
rendererVars == <<part, world, rendering, benchmark, panel, touched, events, viewport, cameras>>

SortModes == <<"FullSort", "BinSort">>

-----------------------------------------------------------------------------
(* Culling and level of detail. *)

Corners(b) == {b.min[1], b.max[1]} \X {b.min[2], b.max[2]} \X {b.min[3], b.max[3]}

\* The planes of the clip volume of a camera, with the projection it has cached:
\* a point is inside the plane when the value is not negative.
Inside(camera, plane, p) ==
    LET t == camera.transform
        q == Minus(p, t.eye)
        depth == Dot(q, t.forward)
        half == IF camera.cached.type = "Perspective" THEN depth ELSE camera.cached.height
        side == Dot(q, Cross(t.forward, t.up))
    IN  CASE plane = "left" -> side + half * camera.cached.aspect >= 0
          [] plane = "right" -> half * camera.cached.aspect - side >= 0
          [] plane = "bottom" -> Dot(q, t.up) + half >= 0
          [] plane = "top" -> half - Dot(q, t.up) >= 0
          [] plane = "near" -> depth >= 1
          [] plane = "far" -> depth <= MaxExtent

Planes == {"left", "right", "bottom", "top", "near", "far"}

AllCornersOutside(b, camera, plane) == \A p \in Corners(b) : ~Inside(camera, plane, p)

IntersectsFrustum(b, camera) ==
    b.valid => \A plane \in Planes : ~AllCornersOutside(b, camera, plane)

Least(S) == CHOOSE x \in S : \A y \in S : x <= y
Greatest(S) == CHOOSE x \in S : \A y \in S : x >= y

\* StaticMesh::set_sections: the union of the bounds that are valid.
BoundsOf ==
    [m \in StaticMeshes |->
        LET known == {s \in Range(SectionsOf[m]) : s.bounds.valid}
        IN  IF known = {} THEN [valid |-> FALSE]
            ELSE [valid |-> TRUE,
                  min |-> [i \in 1 .. 3 |-> Least({s.bounds.min[i] : s \in known})],
                  max |-> [i \in 1 .. 3 |-> Greatest({s.bounds.max[i] : s \in known})]]]

Center(b) == IF b.valid THEN [i \in 1 .. 3 |-> (b.min[i] + b.max[i]) \div 2] ELSE <<0, 0, 0>>

\* The distance from the centre to a corner, rounded up to the sum of its parts.
Radius(b) == LET d == Minus(b.max, Center(b)) IN d[1] + d[2] + d[3]

DepthOf(camera, p) == Dot(Minus(p, camera.transform.eye), camera.transform.forward)

\* MUTANT of EstimateSortDepth: the depth along the world's axis.
WorldDepth(m, camera) == -Center(BoundsOf[m])[3]

EstimateSortDepth(m, camera) == DepthOf(camera, Center(BoundsOf[m]))

\* MeshSection::select_lod: the first level whose triangles are large enough,
\* else the last one that has any.
SelectLod(lods, area) ==
    LET renderable == {i \in DOMAIN lods : lods[i] > 0}
        enough == {i \in renderable : area >= PixelsPerTriangle * lods[i]}
    IN  IF enough # {} THEN Least(enough)
        ELSE IF renderable # {} THEN Greatest(renderable) ELSE 1

\* The level of a section that is drawn: the base level without bounds, without
\* dynamic LOD and next to the camera.
LodOf(section, camera, display) ==
    LET closest == DepthOf(camera, Center(section.bounds)) - Radius(section.bounds)
        pixels == IF camera.type = "Perspective"
                  THEN (Radius(section.bounds) * PixelScale) \div closest
                  ELSE Radius(section.bounds) * PixelScale
    IN  IF \/ ~display.dynamicLod \/ ~section.bounds.valid
           \/ camera.type = "Perspective" /\ closest <= 0
        THEN 1
        ELSE SelectLod(section.lods, pixels * pixels)

-----------------------------------------------------------------------------
(* Selecting from lists and sorting them. *)

Precedes(p, q) == p[1] < q[1] \/ (p[1] = q[1] /\ p[2] < q[2])

\* The pairs of P, from the smallest to the largest.
InOrder(P) ==
    [n \in 1 .. Cardinality(P) |->
        CHOOSE p \in P : Cardinality({q \in P : Precedes(q, p)}) = n - 1]

\* The elements of a list whose indices are in S.
Picked(list, S) ==
    LET order == InOrder({0} \X S) IN [n \in DOMAIN order |-> list[order[n][2]]]

\* A list sorted by key[i], elements with the same key in the order they have:
\* std::stable_sort.
SortedBy(list, key) ==
    LET order == InOrder({<<key[i], i>> : i \in DOMAIN list})
    IN  [n \in DOMAIN order |-> list[order[n][2]]]

-----------------------------------------------------------------------------
(* The render queue. *)

DrawnSections(m, camera, display) ==
    IF display.cullFrustum
    THEN {i \in DOMAIN SectionsOf[m] : /\ IntersectsFrustum(BoundsOf[m], camera)
                                       /\ IntersectsFrustum(SectionsOf[m][i].bounds, camera)}
    ELSE DOMAIN SectionsOf[m]

\* The static meshes of a set, in the order of the scene.
InScene(S) == Picked(MeshOrder, {k \in DOMAIN MeshOrder : MeshOrder[k] \in S})

VisibleMeshes(w) == InScene(w.visible \intersect w.loaded)

Submission(m, i, camera, display, w, r) ==
    LET section == SectionsOf[m][i]
    IN  [mesh |-> m, section |-> i, lod |-> LodOf(section, camera, display),
         material |-> section.material, depth |-> EstimateSortDepth(m, camera),
         shadow |-> [handle |-> r.shadowMap, from |-> r.shadowCamera,
                     enabled |-> r.shadowCamera # Nothing /\ m \in w.receives /\ r.shadowMap # 0]]

\* A section without its material is counted and not drawn.
BuildRenderQueue(w, camera, display, r) ==
    LET meshes == VisibleMeshes(w)
        places == InOrder(UNION {{k} \X DrawnSections(meshes[k], camera, display) :
                                     k \in DOMAIN meshes})
    IN  [n \in DOMAIN places |->
            Submission(meshes[places[n][1]], places[n][2], camera, display, w, r)]

Resident(w, submissions) ==
    Picked(submissions, {n \in DOMAIN submissions : submissions[n].material \in w.resident})

TrianglesOf(s) == SectionsOf[s.mesh][s.section].lods[s.lod]

StatsOf(w, submissions) ==
    LET queue == Resident(w, submissions)
    IN  [static_meshes |-> Len(InScene(w.visible)),
         mesh_sections_drawn |-> Len(submissions),
         triangles_submitted |-> MapThenSumSet(LAMBDA n : TrianglesOf(queue[n]), DOMAIN queue)]

\* FullRenderQueueSorter: std::stable_sort by depth.
FullSort(queue) == SortedBy(queue, [i \in DOMAIN queue |-> queue[i].depth])

BinOf(depth, nearest, range, bins) ==
    Clamp(0, IF range > 0 THEN ((depth - nearest) * bins) \div range ELSE 0, bins - 1)

\* BinRenderQueueSorter::sort: the bins one after the other, each in the order
\* of the queue.
BinSort(queue, bins) ==
    LET depths == {s.depth : s \in Range(queue)}
        nearest == Least(depths)
        range == Greatest(depths) - nearest
    IN  SortedBy(queue, [i \in DOMAIN queue |->
                            BinOf(queue[i].depth, nearest, range, bins)])

SortRenderQueue(queue, display, sorter) ==
    IF ~display.sortMeshes THEN queue
    ELSE IF sorter.mode = "FullSort" THEN FullSort(queue) ELSE BinSort(queue, sorter.bins)

\* RenderQueueSortFactory::create, Renderer::set_sort_mode: a new sorter has
\* the default number of bins.
SetSortMode(r, mode) ==
    IF r.sorter.mode = mode THEN r
    ELSE [r EXCEPT !.sorter = [mode |-> mode, bins |-> DefaultBins]]

SetDepthBinCount(r, n) ==
    IF r.sorter.mode = "BinSort" THEN [r EXCEPT !.sorter.bins = n] ELSE r

-----------------------------------------------------------------------------
(* The device: a state d and the draws so far.  GL is what was last applied *)
(* to the rasterizer, "rasterizer" what the device believes it applied.     *)

Fill == [wireframe |-> FALSE, cullFace |-> TRUE]
Unculled == [wireframe |-> FALSE, cullFace |-> FALSE]

\* The constructors of RenderDevice and Renderer: the grid and the quad of the
\* depth view are made at once, the shadow map with the first light.
NewDevice ==
    [meshes |-> {"grid", "quad"}, materials |-> {"grid", "depth"}, shadowMaps |-> << >>,
     next |-> 1, pass |-> 0, binding |-> 0, rasterizer |-> Fill, gl |-> Fill,
     material |-> Nothing, sampler |-> 0, uniform |-> Nothing, draws |-> <<>>]

BindRasterizerState(d, state) ==
    IF d.rasterizer = state THEN d ELSE [d EXCEPT !.rasterizer = state, !.gl = state]

HasShadowMap(d, handle) == handle \in DOMAIN d.shadowMaps

\* A material the device does not have leaves everything bound as it was.
BindMaterial(d, material, w) ==
    IF material \notin d.materials \union w.resident THEN d
    ELSE [d EXCEPT !.material = material,
                   !.sampler = IF HasShadowMap(d, d.binding) THEN d.binding ELSE @]

BindShadowMap(d, shadow) ==
    [d EXCEPT !.binding =
        IF shadow.enabled /\ HasShadowMap(d, shadow.handle) THEN shadow.handle ELSE 0]

ClearShadowMap(d) == [d EXCEPT !.binding = 0]

BindShadowUniforms(d, shadow) ==
    [d EXCEPT !.uniform = IF shadow.enabled THEN shadow.from ELSE Nothing]

\* MUTANT of BeginShadowMapPass: the depth buffer of the last frame is kept.
KeepDepth(d, handle, light) ==
    IF ~HasShadowMap(d, handle) THEN d
    ELSE [d EXCEPT !.pass = handle, !.gl = Fill, !.shadowMaps[handle].from = light]

BeginShadowMapPass(d, handle, light) ==
    IF ~HasShadowMap(d, handle) THEN d
    ELSE [d EXCEPT !.pass = handle, !.gl = Fill,
                   !.shadowMaps[handle] = [from |-> light, casters |-> {}]]

\* MUTANT of EndShadowMapPass: the scene inherits the rasterizer of the pass.
ForgetRasterizer(d) == [d EXCEPT !.pass = 0]

EndShadowMapPass(d) ==
    IF d.pass = 0 THEN d ELSE [d EXCEPT !.pass = 0, !.gl = d.rasterizer]

\* bind_camera_uniforms, with the projection matrix the camera has cached.
ViewOf(camera) == [from |-> camera.transform, projection |-> camera.cached]

\* What the shader samples is whatever is bound, if the uniform asks for it.
DrawMesh(d, what, view) ==
    LET draw == [what |-> what, target |-> d.pass, material |-> d.material, gl |-> d.gl,
                 view |-> view, shadow |-> d.uniform,
                 sampled |-> IF d.uniform # Nothing /\ HasShadowMap(d, d.sampler)
                             THEN d.shadowMaps[d.sampler] ELSE Nothing]
        drawn == [d EXCEPT !.draws = Append(@, draw)]
    IN  IF d.pass = 0 THEN drawn
        ELSE [drawn EXCEPT !.shadowMaps[d.pass].casters = @ \union {what.mesh}]

CreateShadowMap(d) ==
    [d EXCEPT !.shadowMaps = [h \in DOMAIN @ \union {d.next} |->
                                 IF h = d.next THEN [from |-> Nothing, casters |-> {}] ELSE @[h]],
              !.next = @ + 1, !.materials = @ \union {"shadow"}]

DeleteShadowMap(d, handle) ==
    IF ~HasShadowMap(d, handle) THEN d
    ELSE LET ended == IF d.pass = handle THEN EndShadowMapPass(d) ELSE d
             unbound == IF ended.binding = handle THEN ClearShadowMap(ended) ELSE ended
         IN  [unbound EXCEPT !.shadowMaps = Restrict(@, DOMAIN @ \ {handle})]

-----------------------------------------------------------------------------
(* Rendering: the functions of Renderer on a pair of device and renderer. *)

\* The first spotlight that is on and casts shadows.
CollectShadowCamera(w) ==
    LET casting == {i \in DOMAIN LightOrder : LightOrder[i] \in w.enabled \intersect w.casting}
        light == LightOrder[Least(casting)]
    IN  IF casting = {} THEN Nothing ELSE [light |-> light, at |-> w.at[light]]

WithoutShadowMap(d, handle) ==
    [DeleteShadowMap(d, handle) EXCEPT !.materials = @ \ {"shadow"}]

ReleaseShadowMapResources(g) ==
    [g EXCEPT !.device = WithoutShadowMap(@, g.renderer.shadowMap), !.renderer.shadowMap = 0]

EnsureShadowMap(g) ==
    IF g.renderer.shadowMap # 0 THEN g
    ELSE LET clean == ReleaseShadowMapResources(g)
         IN  [clean EXCEPT !.device = CreateShadowMap(@),
                           !.renderer.shadowMap = clean.device.next]

DrawCasters(d, meshes, light) ==
    LET after[n \in 0 .. Len(meshes)] ==
            IF n = 0 THEN d
            ELSE DrawMesh(after[n - 1], [mesh |-> meshes[n], section |-> 0, lod |-> 1], light)
    IN  after[Len(meshes)]

\* The queue has every section of a caster at its base level: one draw stands
\* for those of a mesh.
RenderShadowMap(g, w) ==
    LET ready == EnsureShadowMap(g)
        light == ready.renderer.shadowCamera
        begun == BindShadowUniforms(
                     BindMaterial(BeginShadowMapPass(ready.device, ready.renderer.shadowMap, light),
                                  "shadow", w),
                     [enabled |-> FALSE])
        casters == InScene(w.visible \intersect w.loaded \intersect w.casts)
    IN  IF g.renderer.shadowCamera = Nothing THEN g
        ELSE [ready EXCEPT !.device = EndShadowMapPass(DrawCasters(begun, casters, light))]

\* One submission: its shadow map and material are bound, and it is drawn.
DrawSubmission(d, s, camera, w) ==
    DrawMesh(BindShadowUniforms(BindMaterial(BindShadowMap(d, s.shadow), s.material, w), s.shadow),
             [mesh |-> s.mesh, section |-> s.section, lod |-> s.lod], ViewOf(camera))

ExecuteRenderQueue(d, queue, camera, w) ==
    LET after[n \in 0 .. Len(queue)] ==
            IF n = 0 THEN d ELSE DrawSubmission(after[n - 1], queue[n], camera, w)
    IN  after[Len(queue)]

RenderSubmissions(g, submissions, w, camera, display) ==
    LET queue == SortRenderQueue(Resident(w, submissions), display, g.renderer.sorter)
        begun == BindRasterizerState(g.device, [wireframe |-> display.wireframe,
                                                cullFace |-> display.cullFace])
    IN  [g EXCEPT !.device = ClearShadowMap(ExecuteRenderQueue(begun, queue, camera, w)),
                  !.renderer.stats = StatsOf(w, submissions)]

RenderScene(g, w, camera, display) ==
    RenderSubmissions(g, BuildRenderQueue(w, camera, display, g.renderer), w, camera, display)

Overlay(d, mesh, material, camera, shadow, w) ==
    DrawMesh(BindShadowUniforms(BindMaterial(BindRasterizerState(d, Unculled), material, w), shadow),
             [mesh |-> mesh, section |-> 0, lod |-> 1], ViewOf(camera))

RenderGrid(g, camera, w) ==
    [g EXCEPT !.device = Overlay(@, "grid", "grid", camera, [enabled |-> FALSE], w)]

RenderSpotlightDepth(g, camera, w) ==
    LET shadow == [enabled |-> TRUE, handle |-> g.renderer.shadowMap, from |-> "identity"]
        bound == BindShadowMap(g.device, shadow)
    IN  IF g.renderer.shadowMap = 0 THEN g
        ELSE [g EXCEPT !.device =
                 ClearShadowMap(Overlay(bound, "quad", "depth", camera, shadow, w))]

\* The grid comes last, if at all.
ShowGrid(g, shown, camera, w) == IF shown THEN RenderGrid(g, camera, w) ELSE g

\* The scene, or the shadow map as a picture.
ShowScene(lit, w, camera, display) ==
    IF display.debugDepth /\ lit.renderer.shadowCamera # Nothing
    THEN RenderSpotlightDepth(lit, camera, w)
    ELSE RenderScene(lit, w, camera, display)

NoStats == [static_meshes |-> 0, mesh_sections_drawn |-> 0, triangles_submitted |-> 0]

\* Renderer::render: begin_render clears the statistics and looks for the light.
Rendered(g, w, v, camera) ==
    LET begun == [g EXCEPT !.renderer.stats = NoStats,
                           !.renderer.shadowCamera = CollectShadowCamera(w)]
    IN  ShowGrid(ShowScene(RenderShadowMap(begun, w), w, camera, v.display),
                 ~v.display.debugDepth /\ v.showGrid, camera, w)

\* One iteration of the benchmark: the scene alone, with the shadow map and the
\* light of the last frame that was rendered; the statistics stay.
BenchmarkRendered(g, w, v, camera, sorted) ==
    [ShowGrid(RenderScene(g, w, camera, [v.display EXCEPT !.sortMeshes = sorted]),
              v.showGrid, camera, w)
        EXCEPT !.renderer.stats = g.renderer.stats]

-----------------------------------------------------------------------------
(* The benchmark, on a record of its two states, the cameras, device, renderer: *)
(* the timings of the real one are the frames they are the sums of.          *)

NoTimes == [count |-> 0, modes |-> {}]
Timed(times, mode) == [count |-> times.count + 1, modes |-> times.modes \union {mode}]
NoResult == [sorted |-> NoTimes, unsorted |-> NoTimes, iterations |-> 0]

IdleBenchmark ==
    [active |-> FALSE, sorted |-> TRUE, target |-> 0, current |-> 0,
     timesSorted |-> NoTimes, timesUnsorted |-> NoTimes, saved |-> Nothing, result |-> NoResult]

IdleComparison ==
    [active |-> FALSE, index |-> 1, results |-> <<>>, savedMode |-> "FullSort", iterations |-> 0]

StartSorting(b, iterations, v) ==
    IF b.bench.active THEN b
    ELSE [b EXCEPT !.bench = [IdleBenchmark EXCEPT
                                 !.active = TRUE, !.target = iterations,
                                 !.saved = b.cameras[Selected(v, b.cameras)].transform,
                                 !.result = b.bench.result]]

StartComparing(b, iterations, v) ==
    IF b.comp.active THEN b
    ELSE StartSorting(
            [b EXCEPT !.comp = [active |-> TRUE, index |-> 1,
                                results |-> [i \in DOMAIN SortModes |-> NoResult],
                                savedMode |-> b.renderer.sorter.mode, iterations |-> iterations],
                      !.renderer = SetSortMode(@, SortModes[1])],
            iterations, v)

\* The camera the viewport looks through is put somewhere else.
MoveSelected(cams, transform, v) ==
    [cams EXCEPT ![Selected(v, cams)] =
        UpdateProjection([@ EXCEPT !.transform = transform], AspectRatio(v))]

RestoreCamera(b, v) == [b EXCEPT !.cameras = MoveSelected(@, b.bench.saved, v)]

\* MUTANT of NextMode: the comparison stays at the mode it has just recorded.
SameMode(b, v) ==
    LET recorded == [b EXCEPT !.comp.results[b.comp.index] = b.bench.result]
    IN  IF ~b.comp.active THEN b
        ELSE StartSorting(
                [recorded EXCEPT !.renderer = SetSortMode(@, SortModes[recorded.comp.index])],
                recorded.comp.iterations, v)

\* The next mode of a comparison, or its end.
NextMode(b, v) ==
    LET recorded == [b EXCEPT !.comp.results[b.comp.index] = b.bench.result,
                              !.comp.index = @ + 1]
    IN  IF ~b.comp.active THEN b
        ELSE IF recorded.comp.index \in DOMAIN SortModes
        THEN StartSorting(
                [recorded EXCEPT !.renderer = SetSortMode(@, SortModes[recorded.comp.index])],
                recorded.comp.iterations, v)
        ELSE [recorded EXCEPT !.comp.active = FALSE,
                              !.renderer = SetSortMode(@, recorded.comp.savedMode)]

Published(b) ==
    [b EXCEPT !.bench.active = FALSE,
              !.bench.result = [sorted |-> b.bench.timesSorted,
                                unsorted |-> b.bench.timesUnsorted,
                                iterations |-> b.bench.target]]

\* MUTANT of FinishBenchmark: the next mode starts before the camera is back.
RestoreLast(b, v) == RestoreCamera(NextMode(Published(b), v), v)

FinishBenchmark(b, v) == NextMode(Published(RestoreCamera(b, v)), v)

EndPhase(bb) == [bb EXCEPT !.sorted = FALSE, !.current = 0]

\* The camera of an iteration: on the circle, looking at the origin.
PlaceCamera(b, v) ==
    LET position == BenchmarkPositions[(b.bench.current % Len(BenchmarkPositions)) + 1]
    IN  [b EXCEPT !.cameras =
            MoveSelected(@, LookAt(position.eye, position.forward, <<0, 1, 0>>), v)]

Iterated(bb, mode) ==
    IF bb.sorted THEN [bb EXCEPT !.current = @ + 1, !.timesSorted = Timed(@, mode)]
    ELSE [bb EXCEPT !.current = @ + 1, !.timesUnsorted = Timed(@, mode)]

Iteration(b, w, v) ==
    [BenchmarkRendered(b, w, v, b.cameras[Selected(v, b.cameras)], b.bench.sorted)
        EXCEPT !.bench = Iterated(@, b.renderer.sorter.mode)]

IsDone(b) == b.bench.current >= b.bench.target

FinishIfDone(b, v) == IF IsDone(b) /\ ~b.bench.sorted THEN FinishBenchmark(b, v) ELSE b

\* Renderer::update_sorting_benchmark: the frame of a phase's end is not drawn.
UpdatedBenchmark(b, w, v) ==
    IF IsDone(b)
    THEN IF b.bench.sorted THEN [b EXCEPT !.bench = EndPhase(@)] ELSE FinishBenchmark(b, v)
    ELSE FinishIfDone(Iteration(PlaceCamera(b, v), w, v), v)

-----------------------------------------------------------------------------
(* Application::tick. *)

RendererTypeOK ==
    /\ part \in {"update", "viewport", "menu", "tools", "inspector", "quit"}
    /\ viewport.view \in Views /\ viewport.mode \in Modes
    /\ Local \in DOMAIN cameras /\ DOMAIN cameras \subseteq SceneCameras \union {Local}
    /\ world.visible \subseteq StaticMeshes /\ world.resident \subseteq SceneMaterials
    /\ renderer.sorter.mode \in Range(SortModes) /\ events \in 0 .. MaxEvents

FullWorld ==
    [visible |-> StaticMeshes, loaded |-> StaticMeshes, resident |-> SceneMaterials,
     casts |-> StaticMeshes, receives |-> StaticMeshes,
     enabled |-> Lights, casting |-> Lights, at |-> [l \in Lights |-> 0]]

\* Scene::clear.
EmptyWorld == [FullWorld EXCEPT !.visible = {}, !.loaded = {}, !.enabled = {}, !.casting = {}]

RendererInit ==
    /\ part = "update"
    /\ world = FullWorld
    /\ device = NewDevice
    /\ renderer = [sorter |-> [mode |-> "FullSort", bins |-> DefaultBins], shadowMap |-> 0,
                   shadowCamera |-> Nothing, stats |-> NoStats]
    /\ bench = IdleBenchmark /\ comp = IdleComparison
    /\ panel = [iterations |-> DefaultIterations, bins |-> DefaultBins]
    /\ frame = <<>> /\ home = Nothing /\ touched = {} /\ events = 0
    /\ viewport = NewViewport /\ cameras = InitialCameras

Does == events < MaxEvents /\ events' = events + 1

\* The mouse is the panels' only while the viewport has not captured it.
Clicks == ~viewport.captured /\ Does

Touch(what) == touched' = touched \union {what}

\* The frame is shown and the next one begins.
Update ==
    /\ part = "update" /\ part' = "viewport"
    /\ frame' = <<>>
    /\ \/ UpdateEditorCamera("released", NoInput) /\ UNCHANGED <<events, touched>>
       \/ \E input \in Inputs :
              UpdateEditorCamera("inside", input) /\ Does /\ Touch("view")
    /\ UNCHANGED <<world, device, renderer, benchmark, panel>>

NextFrame(b, w, v) ==
    IF b.bench.active THEN UpdatedBenchmark(b, w, v)
    ELSE Rendered(b, w, v, b.cameras[Selected(v, b.cameras)])

Present(b) ==
    /\ bench' = b.bench /\ comp' = b.comp /\ cameras' = b.cameras
    /\ device' = [b.device EXCEPT !.draws = <<>>] /\ renderer' = b.renderer
    /\ frame' = b.device.draws

\* imgui_draw_viewport_panel: a resize, then a frame or an iteration.
ViewportPanel(size) ==
    LET v == [viewport EXCEPT !.resolution = size]
    IN  /\ part = "viewport" /\ part' = "menu"
        /\ IF size = viewport.resolution THEN UNCHANGED events ELSE Does
        /\ viewport' = v
        /\ Present(NextFrame([bench |-> bench, comp |-> comp,
                           cameras |-> UpdateActiveProjection(v, cameras),
                           device |-> [device EXCEPT !.draws = <<>>], renderer |-> renderer],
                          world, v))
        /\ UNCHANGED <<world, panel, home, touched>>

OverlayMenu ==
    /\ part = "menu" /\ part' = "tools"
    /\ \/ UNCHANGED <<viewport, cameras, touched, events>>
       \/ /\ Clicks
          /\ \/ \E view \in MenuViews : ChooseLocalCamera(view) /\ Touch("view")
             \/ \E id \in SceneCameras : ChooseSceneCamera(id) /\ Touch("view")
             \/ ResetCameras /\ Touch("view")
             \/ ToggleSpotlightDepth /\ UNCHANGED touched
    /\ UNCHANGED <<world, rendering, benchmark, panel>>

\* The iteration count of the panel as a size: Application::set_benchmark_iterations.
IterationCount == AtLeast(1, panel.iterations % CountValues)

DepthBinCount(r) == IF r.sorter.mode = "BinSort" THEN r.sorter.bins ELSE 0

\* Drawn in every frame without a benchmark: the sorter takes over the panel's
\* bin count.
Synced(r, bins) ==
    IF bench.active \/ bins = DepthBinCount(r) THEN r ELSE SetDepthBinCount(r, bins)

\* The buttons: the request of the plain benchmark is taken up in the same frame.
StartBenchmark ==
    LET b == [bench |-> bench, comp |-> comp, cameras |-> cameras,
              device |-> device, renderer |-> Synced(renderer, panel.bins)]
    IN  /\ ~bench.active
        /\ \E started \in {StartSorting(b, IterationCount, viewport),
                           StartComparing(b, IterationCount, viewport)} :
               /\ bench' = started.bench /\ comp' = started.comp
               /\ renderer' = started.renderer
        /\ home' = cameras[Selected(viewport, cameras)].transform
        /\ touched' = {}
        /\ UNCHANGED <<viewport, panel>>

ToolsPanel ==
    /\ part = "tools" /\ part' = "inspector"
    /\ \/ /\ renderer' = Synced(renderer, panel.bins)
          /\ \/ UNCHANGED <<viewport, events>>
             \/ Clicks /\ (SetNavigationMode \/ ToggleGrid)
             \/ Clicks /\ \E setting \in DOMAIN DefaultDisplay \ {"debugDepth"} :
                              ToggleDisplay(setting)
          /\ UNCHANGED <<benchmark, panel, touched>>
       \/ /\ Clicks /\ viewport.display.sortMeshes
          /\ \E mode \in Range(SortModes) \ {renderer.sorter.mode} :
                 renderer' = Synced(SetSortMode(renderer, mode), panel.bins)
          /\ Touch("mode")
          /\ UNCHANGED <<viewport, benchmark, panel>>
       \/ /\ Clicks /\ ~bench.active
          /\ \/ \E n \in Iterations : panel' = [panel EXCEPT !.iterations = n]
             \/ \E n \in BinCounts : panel' = [panel EXCEPT !.bins = n]
          /\ renderer' = Synced(renderer, panel'.bins)
          /\ UNCHANGED <<viewport, benchmark, touched>>
       \/ Clicks /\ StartBenchmark
    /\ UNCHANGED <<world, device, frame, cameras>>

\* What else changes the scene between two frames: the inspector, the systems,
\* meshes and materials that are being loaded.
Flip(S, x) == IF x \in S THEN S \ {x} ELSE S \union {x}

ChangeWorld ==
    \E change \in Changes :
        world' = IF change.field = "at" THEN [world EXCEPT !.at[change.of] = 1 - @]
                 ELSE [world EXCEPT ![change.field] = Flip(@, change.of)]

MoveCamera(id) ==
    /\ id \in DOMAIN cameras \ {Local}
    /\ cameras' = [cameras EXCEPT ![id].transform = Elsewhere]
    /\ Touch("view")

Inspector ==
    /\ part = "inspector" /\ part' = "update"
    /\ \/ UNCHANGED <<world, cameras, touched, events>>
       \/ /\ Does /\ world # EmptyWorld
          /\ \/ ChangeWorld /\ UNCHANGED <<cameras, touched>>
             \/ \E id \in SceneCameras : MoveCamera(id) /\ UNCHANGED world
    /\ UNCHANGED <<rendering, benchmark, panel, viewport>>

\* Application::reset, from the main menu.
Reset ==
    /\ part = "viewport" /\ Clicks
    /\ world' = EmptyWorld
    /\ ResetViewport
    /\ Touch("view")
    /\ UNCHANGED <<part, rendering, benchmark, panel>>

\* Renderer::~Renderer: the grid's material is not among what it remembers.
Quit ==
    /\ part = "update" /\ part' = "quit"
    /\ device' = [ReleaseShadowMapResources([device |-> device, renderer |-> renderer]).device
                     EXCEPT !.meshes = @ \ {"grid", "quad"}, !.materials = @ \ {"depth"}]
    /\ renderer' = [renderer EXCEPT !.shadowMap = 0]
    /\ frame' = <<>>
    /\ UNCHANGED <<world, benchmark, panel, touched, events, viewport, cameras>>

Tick ==
    \/ Update
    \/ \E size \in Resolutions : ViewportPanel(size)
    \/ OverlayMenu
    \/ ToolsPanel
    \/ Inspector

RendererNext == Tick \/ Reset \/ Quit

\* The main loop goes from one part of a tick to the next until the program is
\* told to quit: Tick can always be taken before that.
GoesOn == part # "quit" /\ part' \in {"update", "viewport", "menu", "tools", "inspector"} \ {part}

RendererSpec == RendererInit /\ [][RendererNext]_rendererVars /\ WF_part(GoesOn)

-----------------------------------------------------------------------------
(* Properties *)

FrameDrawn == part = "viewport" /\ part' = "menu"
Regular == FrameDrawn /\ ~bench.active

SceneDraws(f) ==
    Picked(f, {n \in DOMAIN f : f[n].target = 0 /\ f[n].what.mesh \in StaticMeshes})

SectionOf(draw) == SectionsOf[draw.what.mesh][draw.what.section]

\* A section can be seen when one of its corners is in the clip volume; one
\* without bounds has no vertices.
Seen(m, i, camera) ==
    /\ SectionsOf[m][i].bounds.valid
    /\ \E p \in Corners(SectionsOf[m][i].bounds) :
            \A plane \in Planes : Inside(camera, plane, p)

Drawable(w) ==
    {s \in UNION {{m} \X DOMAIN SectionsOf[m] : m \in w.visible \intersect w.loaded} :
        SectionsOf[s[1]][s[2]].material \in w.resident}

\* Of the meshes that are visible and loaded every section whose material is
\* there and that culling may not drop is drawn, once; nothing else is; and each
\* is drawn with its own material, the viewport's rasterizer settings and a
\* projection for the viewport's size and the camera's kind, whatever passes
\* and overlays bound before (Renderer::render, RenderDevice::bind_*).
FrameIsRight ==
    [][Regular =>
        LET camera == cameras'[Selected(viewport', cameras')]
            draws == SceneDraws(frame')
            drawn == {<<d.what.mesh, d.what.section>> : d \in Range(draws)}
            culled == viewport'.display.cullFrustum
        IN  /\ \/ viewport'.display.debugDepth /\ renderer'.shadowCamera # Nothing
               \/ {s \in Drawable(world) : culled => Seen(s[1], s[2], camera)} \subseteq drawn
            /\ drawn \subseteq Drawable(world) /\ Len(draws) = Cardinality(drawn)
            /\ \A d \in Range(draws) :
                  /\ d.material = SectionOf(d).material
                  /\ d.gl = [wireframe |-> viewport'.display.wireframe,
                             cullFace |-> viewport'.display.cullFace]
                  /\ d.view.from = camera.transform
                  /\ d.view.projection = [aspect |-> AspectRatio(viewport'),
                                          type |-> camera.type, height |-> camera.height]
      ]_rendererVars

\* The depth of a draw, by the camera it was made with.
Distance(d) == Dot(Minus(Center(BoundsOf[d.what.mesh]), d.view.from.eye), d.view.from.forward)

\* With sorting the frame goes from front to back: exactly under FullSort, up to
\* the width of a bin under BinSort; sections of the same depth keep the order
\* of the scene (RenderQueueSorter::sort, also within the benchmark).
QueueInOrder ==
    [][FrameDrawn =>
        LET draws == SceneDraws(frame')
            depths == {Distance(d) : d \in Range(draws)}
            sorting == IF bench.active THEN bench.sorted ELSE viewport'.display.sortMeshes
            sorter == renderer.sorter
            Index(d) == CHOOSE k \in DOMAIN MeshOrder : MeshOrder[k] = d.what.mesh
            Slack == IF sorter.mode = "FullSort" THEN 0 ELSE Greatest(depths) - Least(depths)
        IN  \A i, j \in DOMAIN draws : i < j =>
                /\ sorting => (Distance(draws[i]) - Distance(draws[j]))
                                * (IF sorter.mode = "FullSort" THEN 1 ELSE sorter.bins) <= Slack
                /\ (~sorting \/ Distance(draws[i]) = Distance(draws[j]))
                      => Index(draws[i]) <= Index(draws[j])
      ]_rendererVars

\* A draw that samples the shadow map finds there what its matrix was built for:
\* a map that exists, drawn from the same light at the same place, which in a
\* regular frame is the scene's light with all its casters; and in a regular
\* frame with a light every receiver samples it (begin_render,
\* render_shadow_map, bind_shadow_map, bind_material).
ShadowsMatch ==
    [][FrameDrawn =>
        \A d \in Range(SceneDraws(frame')) :
            /\ d.shadow # Nothing => d.sampled # Nothing /\ d.sampled.from = d.shadow
            /\ ~bench.active =>
                  /\ (d.shadow # Nothing) <=>
                        (CollectShadowCamera(world) # Nothing /\ d.what.mesh \in world.receives)
                  /\ d.shadow # Nothing =>
                        d.sampled = [from |-> CollectShadowCamera(world),
                                     casters |-> world.visible \intersect world.loaded
                                                    \intersect world.casts]
      ]_rendererVars

\* Between frames no shadow pass is open and no shadow map is bound, and there is
\* no shadow map but the renderer's; none is left at the end.
ShadowMapOwned ==
    /\ device.pass = 0 /\ device.binding = 0 /\ device.gl = device.rasterizer
    /\ DOMAIN device.shadowMaps = {renderer.shadowMap} \ {0}
    /\ part = "quit" =>
          device.shadowMaps = << >> /\ device.meshes = {}

\* What a frame's shadows are made of is there, current and owned, also while scenes,
\* lights and benchmarks come and go.
ShadowsAreRight == [](RendererTypeOK /\ ShadowMapOwned) /\ ShadowsMatch

\* A benchmark, or a comparison of several, leaves the camera it found where it
\* was, unless the view was changed meanwhile.
CameraComesBack ==
    [][(bench.active \/ comp.active) /\ ~bench'.active /\ ~comp'.active
          /\ "view" \notin touched' =>
        cameras'[Selected(viewport', cameras')].transform = home]_rendererVars

\* What a benchmark publishes has as many frames with sorting as without, the
\* number asked for; the results of a comparison are those of the modes they are
\* shown for, and the sort mode is then what it was before, unless the user
\* chose another one meanwhile.
ResultsAreTheirs ==
    [][/\ bench'.result # bench.result =>
             {bench'.result.sorted.count, bench'.result.unsorted.count} = {bench'.result.iterations}
       /\ (comp.active /\ ~comp'.active /\ "mode" \notin touched) =>
             /\ renderer'.sorter.mode = comp.savedMode
             /\ \A i \in DOMAIN SortModes :
                   LET times == [count |-> comp.iterations, modes |-> {SortModes[i]}]
                   IN  comp'.results[i] = [sorted |-> times, unsorted |-> times,
                                           iterations |-> comp.iterations]
      ]_rendererVars

\* A benchmark measures what it says and changes nothing else
\* (start_sorting_benchmark, update_sorting_benchmark).
BenchmarkIsFair == CameraComesBack /\ ResultsAreTheirs

\* Without input the viewport's own camera stays where it is, also when the
\* navigation mode was changed or a benchmark moved the camera meanwhile: each
\* mode takes the eye over from the one before
\* (synchronize_controller_to_navigation_mode, sync_local_camera).
EyeStays ==
    [][part = "update" /\ part' = "viewport" /\ events' = events =>
        cameras'[Local].transform = MakeView(viewport.controller, viewport.lastMode)]_rendererVars

\* A benchmark ends, and so does a comparison, unless the program does.
BenchmarkEnds ==
    (bench.active \/ comp.active) ~> ((~bench.active /\ ~comp.active) \/ part = "quit")
=============================================================================
