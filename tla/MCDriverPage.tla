----------------------------- MODULE MCDriverPage -----------------------------
(***************************************************************************)
(* Instances of DriverPage for TLC.                                        *)
(***************************************************************************)
EXTENDS DriverPage

=============================================================================
