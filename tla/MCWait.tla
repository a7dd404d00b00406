------------------------------ MODULE MCWait -------------------------------
(* Wait for TLC: the condition sets clients ask for, the screens that show  *)
(* the text (it appears with chunk 1 and is gone with chunk 2), and what a *)
(* comment of the repository says of the timeout.                          *)
EXTENDS Wait

AllConds == {{"text", "idle"}, {"text", "exit"},
             {"text", "change", "timeout"},
             {"send", "view"}, {"send", "idle", "view"}}
Reactions == {{"send", "change", "timeout"}}
TimedText == {{"text", "timeout"}}
ShowsBriefly == {1}
Removals == {"remove"}
Nothing == {}

(* wait.go:45: "Timeout: overall deadline."  A wait with a timeout returns.  *)
TimeoutIsOverall ==
    \A p \in Waiters :
        (at[p] = "subscribe" /\ "timeout" \in want[p]) ~> (at[p] = "returned" \/ crashed)

(* send.go:44: "after send, wait for any output chunk to arrive", in        *)
(* waits.md:20 to "confirm the key was processed".  A send that still waits *)
(* for a change, with its channel drained, has got no output since its     *)
(* keys were written.                                                      *)
ReactionCounts ==
    \A p \in Waiters :
        (at[p] = "select" /\ {"send", "change"} \subseteq want[p] /\ p \in subs
           /\ buf[p] = <<>> /\ p \notin pending /\ taken[p] = 0) => screen <= base[p]

=============================================================================
