------------------------------ MODULE MCGateRun ------------------------------
(* Instance of GateRun for TLC: an operator leaf, a connected layer that     *)
(* runs the leaf tool again, the discovery of the board and the board        *)
(* simulation, which runs the tool of the layer again.  The first of the two *)
(* levels ends with the layer, the second with the simulation; the tool of   *)
(* the layer may pass without a report of its own.                           *)
EXTENDS GateRun, TLC

CONSTANTS leaf, layer, discovery, simulation

MCRank == leaf :> 1 @@ layer :> 2 @@ discovery :> 3 @@ simulation :> 4
MCDeps == leaf :> {} @@ layer :> {leaf} @@ discovery :> {layer} @@ simulation :> {layer, discovery}
MCHelpers == leaf :> {} @@ layer :> {leaf} @@ discovery :> {} @@ simulation :> {layer}
MCStop == 1 :> layer @@ 2 :> simulation
MCRequired == 1 :> {layer} @@ 2 :> {discovery, simulation}
=============================================================================
