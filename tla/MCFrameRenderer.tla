--------------------------- MODULE MCFrameRenderer --------------------------
(* A box ahead, one behind it, a floor under both and a lamp's post beside the *)
(* way; two spotlights, one camera of the scene.                               *)
EXTENDS FrameRenderer

CONSTANTS cam, front, back, wide, key, fill

Box(min, max) == [valid |-> TRUE, min |-> min, max |-> max]
Section(bounds, material, lods) == [bounds |-> bounds, material |-> material, lods |-> lods]

MCMeshOrder == <<wide, back, front>>
MCSectionsOf == [m \in {front, back, wide} |->
    CASE m = front -> <<Section(Box(<<-1, -1, -1>>, <<1, 1, 1>>), "steel", <<4, 2>>)>>
      [] m = back -> <<Section(Box(<<3, -1, -5>>, <<5, 1, -3>>), "steel", <<4, 0>>),
                       Section([valid |-> FALSE], "wood", <<1>>)>>
      [] OTHER -> <<Section(Box(<<-6, -2, -6>>, <<6, -2, 6>>), "wood", <<2>>)>>]
MCLightOrder == <<key, fill>>

MCHomeOf == [id \in {cam} |-> LookAt(<<0, 0, 6>>, <<0, 0, -1>>, <<0, 1, 0>>)]
MCElsewhere == LookAt(<<4, 0, 3>>, <<0, 0, -1>>, <<0, 1, 0>>)
MCPositions == <<[eye |-> <<4, 0, 0>>, forward |-> <<-1, 0, 0>>],
                 [eye |-> <<0, 0, 4>>, forward |-> <<0, 0, -1>>]>>
MCStart == [pitch |-> 0, yaw |-> 2]
MCInputs == {[NoInput EXCEPT !.active = TRUE, !.yaw = 1, !.zoom = 1, !.forward = 1],
             [NoInput EXCEPT !.active = TRUE, !.pitch = 1, !.zoom = -1, !.fast = TRUE, !.right = 1]}
MCResolutions == {<<1, 1>>, <<2, 1>>}
MCIterations == {-2}
MCChanges == {[field |-> "visible", of |-> front], [field |-> "casts", of |-> front],
              [field |-> "receives", of |-> wide], [field |-> "loaded", of |-> back],
              [field |-> "resident", of |-> "wood"], [field |-> "enabled", of |-> key],
              [field |-> "casting", of |-> key], [field |-> "at", of |-> key]}
=============================================================================
