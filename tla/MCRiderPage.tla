----------------------------- MODULE MCRiderPage -----------------------------
(***************************************************************************)
(* Instances of RiderPage for TLC.                                         *)
(***************************************************************************)
EXTENDS RiderPage

=============================================================================
