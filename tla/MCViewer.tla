------------------------------ MODULE MCViewer ------------------------------
(* Viewer for TLC: two commands that need a daemon; one, a daemon run by    *)
(* hand, and a stop; or a viewer and a stop.                               *)
EXTENDS Viewer, TLC

CONSTANTS c1, c2, c3

Together(k1, k2, k3) == c1 :> k1 @@ c2 :> k2 @@ c3 :> k3
AllScenarios == {Together("call", "call", "none"), Together("call", "daemon", "stop"),
                 Together("watch", "stop", "none"), Together("record", "stop", "none")}

=============================================================================
