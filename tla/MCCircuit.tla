----------------------------- MODULE MCCircuit -----------------------------
(***************************************************************************)
(* Instances of Circuit for TLC.                                           *)
(***************************************************************************)
EXTENDS Circuit
=============================================================================
