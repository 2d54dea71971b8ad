--------------------------- MODULE ViewportCamera ---------------------------
(***************************************************************************)
(* The viewport: which camera it looks through, and the controller that    *)
(* moves its own one.  The controller keeps an eye for FPS navigation and a*)
(* target for orbiting; only the one of the current mode is kept up to     *)
(* date, and the next update after a change of mode derives the other.     *)
(*   src/src/viewport.{h,cpp}, src/src/scene/camera.{h,cpp},               *)
(*   src/src/application.cpp (mouse capture, camera menu)                  *)
(* Space is the integer lattice and angles are quarter turns, so that every*)
(* direction is exact; the slanted start of the perspective presets is the *)
(* direction Start.  One zoom step and one move are a unit.                *)
(***************************************************************************)
EXTENDS Integers, Sequences

CONSTANTS
    SceneCameras,       \* the object ids of the cameras a scene has
    HomeOf,             \* HomeOf[id]: the transform the scene gives camera id
    Start,              \* [pitch, yaw] of the perspective and orthographic presets
    DefaultDistance,    \* editor_camera_default_orbit_distance, ..._orthographic_height
    Inputs,             \* the inputs of one frame with the mouse captured
    Resolutions,        \* the sizes the viewport panel can have
    MaxDistance, MaxExtent    \* bounds of the model: of a zoom, of a coordinate

Local == "local"        \* the viewport's own camera

Views == {"Perspective", "Top", "Left", "Front", "Orthographic"}
Modes == {"Fps", "Orbit"}

\* Where a camera is and which way it looks.
Vectors == [1 .. 3 -> Int]
Transforms == [eye : Vectors, forward : Vectors, up : Vectors]

ASSUME ViewportCameraAssumption ==
    /\ Local \notin SceneCameras
    /\ HomeOf \in [SceneCameras -> Transforms]
    /\ Start \in [pitch : Int, yaw : Int]
    /\ Inputs \subseteq [forward : Int, right : Int, rise : Int, yaw : Int, pitch : Int,
                          zoom : Int, fast : BOOLEAN, active : BOOLEAN]
    /\ Resolutions \subseteq (Nat \ {0}) \X (Nat \ {0})
    /\ {MaxDistance, MaxExtent} \subseteq Nat /\ DefaultDistance \in 1 .. MaxDistance

VARIABLES
    viewport,   \* the Viewport, without the cameras
    cameras     \* the viewport's camera and those of the scene

-----------------------------------------------------------------------------
(* Vectors and directions. *)

Plus(u, v) == [i \in 1 .. 3 |-> u[i] + v[i]]
Times(k, v) == [i \in 1 .. 3 |-> k * v[i]]
Minus(u, v) == Plus(u, Times(-1, v))
Dot(u, v) == u[1] * v[1] + u[2] * v[2] + u[3] * v[3]
Cross(u, v) == <<u[2] * v[3] - u[3] * v[2], u[3] * v[1] - u[1] * v[3],
                 u[1] * v[2] - u[2] * v[1]>>

Cos(a) == <<1, 0, -1, 0>>[(a % 4) + 1]
Sin(a) == <<0, 1, 0, -1>>[(a % 4) + 1]

ForwardDirection(pitch, yaw) == <<Sin(yaw) * Cos(pitch), -Sin(pitch), -Cos(yaw) * Cos(pitch)>>
RightDirection(yaw) == <<Cos(yaw), 0, Sin(yaw)>>
UpDirection(pitch, yaw) == Cross(RightDirection(yaw), ForwardDirection(pitch, yaw))

\* ml::matrices::look_at, as the frame it looks from.
LookAt(eye, forward, up) == [eye |-> eye, forward |-> forward, up |-> up]

-----------------------------------------------------------------------------
(* The controller of the editor camera. *)

Facing(c) == ForwardDirection(c.pitch, c.yaw)

AlignPosition(c) == [c EXCEPT !.position = Minus(c.target, Times(c.distance, Facing(c)))]
AlignTarget(c) == [c EXCEPT !.target = Plus(c.position, Times(c.distance, Facing(c)))]

AngleOf(view) ==
    CASE view = "Top" -> [pitch |-> 1, yaw |-> 0]
      [] view = "Left" -> [pitch |-> 0, yaw |-> 1]
      [] view = "Front" -> [pitch |-> 0, yaw |-> 0]
      [] OTHER -> Start

ResetController(view) ==
    AlignPosition([position |-> <<0, 0, 0>>, target |-> <<0, 0, 0>>,
                   distance |-> DefaultDistance, height |-> DefaultDistance,
                   pitch |-> AngleOf(view).pitch, yaw |-> AngleOf(view).yaw])

\* MUTANT of Synchronize: the mode is remembered, the controller left as it is.
LeaveAsIs(c, mode) == c

\* synchronize_controller_to_navigation_mode: the mode that is being left had
\* the other half of the controller in its care.
Synchronize(c, mode) ==
    IF mode = "Orbit" THEN AlignTarget(c) ELSE AlignPosition(c)

ProjectionOf(view) == IF view = "Perspective" THEN "Perspective" ELSE "Orthographic"

MakeView(c, mode) ==
    LET eye == IF mode = "Orbit" THEN AlignPosition(c).position ELSE c.position
    IN  LookAt(eye, Facing(c), UpDirection(c.pitch, c.yaw))

AtLeast(low, x) == IF x < low THEN low ELSE x
Clamp(low, x, high) == IF x > high THEN high ELSE AtLeast(low, x)

Look(c, input) ==
    [c EXCEPT !.yaw = (@ + input.yaw) % 4, !.pitch = Clamp(-1, @ + input.pitch, 1)]

\* The wheel changes the height of an orthographic view in either mode and the
\* orbit distance of a perspective one.
Zoom(c, view, mode, input) ==
    IF ProjectionOf(view) = "Orthographic"
    THEN [c EXCEPT !.height = AtLeast(1, @ - input.zoom)]
    ELSE IF mode = "Orbit" THEN [c EXCEPT !.distance = AtLeast(1, @ - input.zoom)] ELSE c

Move(c, input) ==
    LET step == IF input.fast THEN 2 ELSE 1
        way == Plus(Plus(Times(input.forward, Facing(c)),
                         Times(input.right, RightDirection(c.yaw))),
                    <<0, input.rise, 0>>)
    IN  AlignTarget([c EXCEPT !.position = Plus(@, Times(step, way))])

\* gather_viewport_camera_input: without capture there is none.
NoInput == [forward |-> 0, right |-> 0, rise |-> 0, yaw |-> 0, pitch |-> 0, zoom |-> 0,
            fast |-> FALSE, active |-> FALSE]

Controlled(v, input) ==
    LET synced == IF v.mode # v.lastMode THEN Synchronize(v.controller, v.mode)
                  ELSE v.controller
        turned == Zoom(Look(synced, input), v.view, v.mode, input)
    IN  [v EXCEPT !.lastMode = v.mode,
                  !.controller =
                      IF ~input.active THEN synced
                      ELSE IF v.mode = "Orbit" THEN turned ELSE Move(turned, input)]

-----------------------------------------------------------------------------
(* Cameras. *)

NewCamera(transform) ==
    [transform |-> transform, type |-> "Perspective", height |-> DefaultDistance,
     cached |-> [aspect |-> 1, type |-> "Perspective", height |-> DefaultDistance]]

\* Camera::update_projection_matrix.
UpdateProjection(camera, aspect) ==
    [camera EXCEPT !.cached =
        [aspect |-> aspect, type |-> camera.type, height |-> camera.height]]

SyncLocalCamera(cams, v) ==
    [cams EXCEPT ![Local] = [@ EXCEPT !.type = ProjectionOf(v.view),
                                      !.height = v.controller.height,
                                      !.transform = MakeView(v.controller, v.mode)]]

\* Viewport::try_get_scene_camera, get_camera: a camera the scene does not
\* have is the local one.
Selected(v, cams) ==
    IF v.selection \in DOMAIN cams THEN v.selection ELSE Local

LocalCameraActive(v, cams) == Selected(v, cams) = Local

AspectRatio(v) == v.resolution[1] \div v.resolution[2]

UpdateActiveProjection(v, cams) ==
    [cams EXCEPT ![Selected(v, cams)] = UpdateProjection(@, AspectRatio(v))]

-----------------------------------------------------------------------------

DefaultDisplay ==
    [wireframe |-> FALSE, cullFace |-> TRUE, cullFrustum |-> TRUE, dynamicLod |-> TRUE,
     sortMeshes |-> TRUE, debugDepth |-> FALSE]

NewViewport ==
    [selection |-> Local, view |-> "Perspective", mode |-> "Orbit", lastMode |-> "Orbit",
     controller |-> ResetController("Perspective"), display |-> DefaultDisplay,
     showGrid |-> FALSE, resolution |-> <<1, 1>>, captured |-> FALSE]

InitialCameras ==
    LET made == [id \in SceneCameras \union {Local} |->
                    NewCamera(IF id = Local THEN LookAt(<<0, 0, 0>>, <<0, 0, -1>>, <<0, 1, 0>>)
                              ELSE HomeOf[id])]
    IN  SyncLocalCamera(made, NewViewport)

\* Viewport::reset_editor_camera, set_editor_camera_view.
WithView(v, view) == [v EXCEPT !.view = view, !.controller = ResetController(view)]

\* Application::update_viewport_mouse_capture: the right button over the
\* viewport, while it looks through its own camera.
CaptureMouse(v, cams, mouse) ==
    /\ LocalCameraActive(v, cams)
    /\ IF v.captured THEN mouse # "released" ELSE mouse = "inside"

\* The part of Application::tick before the panels are drawn.
UpdateEditorCamera(mouse, input) ==
    LET captured == CaptureMouse(viewport, cameras, mouse)
        updated == Controlled([viewport EXCEPT !.captured = captured], input)
        Within(x) == x \in -MaxExtent .. MaxExtent
    IN  /\ input = NoInput \/ (captured /\ input \in Inputs)
        /\ \A i \in 1 .. 3 : Within(updated.controller.position[i])
        /\ {updated.controller.distance, updated.controller.height} \subseteq 1 .. MaxDistance
        /\ viewport' = updated
        /\ cameras' = SyncLocalCamera(cameras, updated)

\* The overlay menu of the viewport panel.
ChooseLocalCamera(view) ==
    /\ viewport' = [WithView(viewport, view) EXCEPT !.selection = Local,
                                                    !.display.debugDepth = FALSE]
    /\ cameras' = SyncLocalCamera(cameras, viewport')

ChooseSceneCamera(id) ==
    /\ id \in DOMAIN cameras \ {Local}
    /\ viewport' = [viewport EXCEPT !.selection = id, !.display.debugDepth = FALSE]
    /\ UNCHANGED cameras

ResetCameras ==
    /\ LocalCameraActive(viewport, cameras)
    /\ viewport' = [WithView(viewport, viewport.view) EXCEPT !.display.debugDepth = FALSE]
    /\ cameras' = SyncLocalCamera(cameras, viewport')

ToggleSpotlightDepth ==
    /\ viewport' = [viewport EXCEPT !.display.debugDepth = ~@]
    /\ UNCHANGED cameras

\* What the Tools panel sets.
SetNavigationMode ==
    \E mode \in Modes \ {viewport.mode} : viewport' = [viewport EXCEPT !.mode = mode]

ToggleDisplay(setting) == viewport' = [viewport EXCEPT !.display[setting] = ~@]

ToggleGrid == viewport' = [viewport EXCEPT !.showGrid = ~@]

\* Application::reset, the viewport's part; the scene's cameras go with it.
ResetViewport ==
    /\ viewport' = [WithView(viewport, "Perspective") EXCEPT
                       !.selection = Local, !.display = DefaultDisplay, !.showGrid = FALSE]
    /\ cameras' = SyncLocalCamera([id \in {Local} |-> cameras[id]], viewport')
=============================================================================
