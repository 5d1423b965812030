------------------------------- MODULE MCGossip -------------------------------
(* An instance of GossipPool for TLC: one announcement m1, two sessions.      *)
EXTENDS GossipPool

CONSTANTS m1, s1, s2

MCOne == <<m1>>

\* The peer of s2 may have a request in hand that it has not answered when it is
\* asked again; the peer of s1 also downloads.
MCAsked == [s \in {s1, s2} |-> IF s = s1 THEN 1 ELSE 2]
=============================================================================
