----------------------------- MODULE MCSession -----------------------------
(* Session for TLC: the sets of operations the runs let clients ask for.   *)
EXTENDS Session

AllOps   == {"watch", "view", "resize", "send", "stop", "kill", "remove", "shutdown"}
LiveOps  == {"watch", "stop", "remove"}
ViewOps  == {"view", "remove"}
WatchOnly == {"watch"}
=============================================================================
