-------------------------- MODULE MCGatewaySockets --------------------------
(***************************************************************************)
(* Instances of GatewaySockets for TLC.                                    *)
(***************************************************************************)
EXTENDS GatewaySockets

CONSTANTS anna, ben, x1

=============================================================================
