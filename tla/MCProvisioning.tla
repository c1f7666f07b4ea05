--------------------------- MODULE MCProvisioning ---------------------------
(***************************************************************************)
(* The instance of Provisioning for TLC: that of Server and no more.       *)
(***************************************************************************)
EXTENDS Provisioning, MCServer
=============================================================================
