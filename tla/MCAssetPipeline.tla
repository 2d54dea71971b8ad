-------------------------- MODULE MCAssetPipeline --------------------------
(* Instances of AssetPipeline for TLC. *)
EXTENDS AssetPipeline

CONSTANTS wood, gear, level

OneObject == [f \in {level} |-> <<[material |-> wood, mesh |-> gear]>>]
=============================================================================
