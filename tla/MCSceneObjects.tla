----------------------------- MODULE MCSceneObjects -----------------------------
(***************************************************************************)
(* MCSceneObjects: a scene with a gear, a floor and a camera, one with two  *)
(* objects of the same imported mesh, and one that uses an id twice.       *)
(***************************************************************************)
EXTENDS SceneObjects

CONSTANTS gears, twins, twice, round, square, car, red, blue

Gear(id)   == [id |-> id, class |-> "Gear", shape |-> round, material |-> red]
Floor(id)  == [id |-> id, class |-> "Floor", shape |-> round, material |-> blue]
Camera(id) == [id |-> id, class |-> "Camera", shape |-> None, material |-> None]
Car(id, material) == [id |-> id, class |-> "StaticMesh", shape |-> car, material |-> material]

MCContent == (gears :> <<Gear(1), Floor(2), Camera(3)>>)
          @@ (twins :> <<Car(1, red), Car(2, blue)>>)
          @@ (twice :> <<Camera(1), Gear(1)>>)

=============================================================================
