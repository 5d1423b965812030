------------------------------- MODULE MCBabel -------------------------------
(* Instances of BabelMesh for TLC: an origin ro and two more routers, all     *)
(* linked with each other, or in a line with ra in the middle.                *)
EXTENDS BabelMesh

CONSTANTS ro, ra, rb

MCLinks == {{ro, ra}, {ro, rb}, {ra, rb}}
MCLine == {{ro, ra}, {ra, rb}}
=============================================================================
