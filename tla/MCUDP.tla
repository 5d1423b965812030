-------------------------------- MODULE MCUDP --------------------------------
(* Instances of UDPMessages for TLC: two flows.                               *)
EXTENDS UDPMessages, TLC

CONSTANTS f1, f2

\* Per flow f1 and f2: messages sent and ids received; f2's peer (f1's is "p"); and the
\* length of the messages sent.  The directions share no state but a flow's closing
\* and its expiry, so most behaviours have one of them.  When both flows send, they
\* have a transport of either kind; otherwise f1 may have any.
MCTraffic ==
    {[sends |-> f1 :> n[1] @@ f2 :> n[2], ids |-> f1 :> n[3] @@ f2 :> n[4],
      peer |-> f1 :> "p" @@ f2 :> n[5], length |-> n[6],
      kinds |-> f1 :> (IF n[2] > 0 THEN {"remote"} ELSE {"local", "remote"})
             @@ f2 :> {"local"}] :
        n \in {<<1, 1, 0, 0, "p", 1>>, <<2, 0, 0, 0, "p", 3>>, <<1, 0, 1, 0, "p", 3>>,
               <<0, 0, 4, 0, "p", 1>>, <<0, 0, 1, 1, "p", 1>>, <<0, 0, 1, 1, "q", 1>>}}
=============================================================================
