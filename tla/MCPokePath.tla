------------------------------ MODULE MCPokePath ------------------------------
(***************************************************************************)
(* PokePath for TLC: two connections, so that a new one can be up while    *)
(* the relay still takes the old one for alive.                            *)
(***************************************************************************)
EXTENDS PokePath

TheTriggers == {"startup", "schedule", "webhook"}
=============================================================================
