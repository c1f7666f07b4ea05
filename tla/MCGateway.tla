----------------------------- MODULE MCGateway -----------------------------
(***************************************************************************)
(* Instances of Gateway for TLC.                                           *)
(***************************************************************************)
EXTENDS Gateway

MCSwitches == {<<"provider", "openai">>}
MCNoSwitches == {}
=============================================================================
