------------------------------ MODULE MCNodes -------------------------------
(***************************************************************************)
(* Instances of NodeHealth for TLC.                                        *)
(***************************************************************************)
EXTENDS NodeHealth
=============================================================================
