------------------------------- MODULE LoopFree -------------------------------
(***************************************************************************)
(* What the Babel engine promises about forwarding towards one prefix,     *)
(* without sequence numbers, candidates, messages or timers.               *)
(*                                                                         *)
(* Every router has a height, which stands for its feasibility distance,   *)
(* and forwards to at most one neighbour.  A router forwards only to one   *)
(* that is strictly lower, and while others may depend on its height it    *)
(* can go down and never up.                                               *)
(***************************************************************************)
EXTENDS Naturals

CONSTANTS Routers,  \* the routers of the mesh
          NoRouter, \* the next hop of a router that does not forward
          Top       \* the height of a router that has never advertised

VARIABLES hop,      \* router -> the neighbour it forwards to
          height    \* router -> its height

vars == <<hop, height>>

Init ==
    /\ hop = [r \in Routers |-> NoRouter]
    /\ height = [r \in Routers |-> Top]

\* Router r chooses its next hop and its height anew.
Move(r) ==
    /\ \A k \in Routers \ {r} : hop'[k] = hop[k] /\ height'[k] = height[k]
    /\ hop'[r] # r
    /\ hop'[r] # NoRouter => height[hop'[r]] < height'[r]
    /\ height'[r] <= height[r] \/ \A k \in Routers : hop[k] # r

Next ==
    /\ hop' \in [Routers -> Routers \cup {NoRouter}]
    /\ height' \in [Routers -> Nat]
    /\ \E r \in Routers : Move(r)

Spec == Init /\ [][Next]_vars

-----------------------------------------------------------------------------
TypeOK ==
    /\ hop \in [Routers -> Routers \cup {NoRouter}]
    /\ height \in [Routers -> Nat]

\* Forwarding goes strictly downhill.
Descends == \A r \in Routers : hop[r] # NoRouter => height[hop[r]] < height[r]

\* No set of routers forwards the prefix in a circle.
NoLoop == \A S \in (SUBSET Routers) \ {{}} : \E r \in S : hop[r] \notin S

=============================================================================
