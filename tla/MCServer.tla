------------------------------ MODULE MCServer ------------------------------
(***************************************************************************)
(* The instance of Server for TLC.                                         *)
(***************************************************************************)
EXTENDS Server, TLC

\* One switch is enough for two operators to meet on it.
MCSwitches == {<<"global", "">>}
\* The demo key's scopes, and a key from before scopes existed.
MCGrants == {DemoScopes, {}}
\* Connections are served by the same code and are interchangeable.
MCSymmetry == Permutations(Callers)
=============================================================================
