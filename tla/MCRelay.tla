------------------------------- MODULE MCRelay -------------------------------
(***************************************************************************)
(* Instances of Relay for TLC: three connections, enough for two logins to *)
(* race for the one place of a listener, or two.                           *)
(***************************************************************************)
EXTENDS Relay

CONSTANTS c1, c2, c3

Three == {c1, c2, c3}
Two   == {c1, c2}
=============================================================================
