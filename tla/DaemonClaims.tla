---------------------------- MODULE DaemonClaims ----------------------------
(***************************************************************************)
(* What comments and tests of the repository say of the daemon, stated     *)
(* over Daemon, where the code as it stands does otherwise.                *)
(***************************************************************************)
EXTENDS MCDaemon

(* protocol.go:146-149: a parked watch is fulfilled "the moment a session    *)
(* with the requested name (exact match) is created".  No watch stays in   *)
(* the queue of a name that is registered.                                 *)
NoWatchLeftBehind ==
    \A n \in Names : names[n] # None => pendingWatches[n] = <<>>

=============================================================================
