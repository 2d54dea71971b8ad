-------------------------- MODULE MCRenderResources --------------------------
(***************************************************************************)
(* MCRenderResources: two materials that share an image, one of which      *)
(* also has an image that the device refuses, and a gear.                  *)
(***************************************************************************)
EXTENDS RenderResources

CONSTANTS stone, glass, gear, gray, bumpy, odd

MCBaseOf   == [m \in MaterialPaths |-> gray]
MCNormalOf == [m \in MaterialPaths |-> IF m = stone THEN bumpy ELSE odd]

=============================================================================
