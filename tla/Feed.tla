-------------------------------- MODULE Feed --------------------------------
(***************************************************************************)
(* What "ht watch" promises its clients, without goroutines, locks or      *)
(* channels.  The session's output is a log, represented by its length; a  *)
(* watcher that attaches gets the current screen, which stands for the log *)
(* so far, and then every later entry once and in order.  When the session *)
(* ends each watcher's feed is cut: it is owed the entries up to the cut   *)
(* and only then the end-of-stream notice.                                 *)
(***************************************************************************)
EXTENDS Naturals

CONSTANT Watchers

VARIABLES
    log,    \* number of entries
    pos,    \* entries each watcher has, those in its first screen included
    mode,   \* "out", "live", "cut" (being drained), "ended" or "left"
    goal    \* of a watcher whose feed is cut: where the feed ends; else 0

feedVars == <<log, pos, mode, goal>>

Init ==
    /\ log = 0
    /\ pos = [w \in Watchers |-> 0]
    /\ mode = [w \in Watchers |-> "out"]
    /\ goal = [w \in Watchers |-> 0]

Emit ==
    /\ log' = log + 1
    /\ UNCHANGED <<pos, mode, goal>>

\* A watcher of an exited session gets the screen and an already cut feed.
Attach(w) ==
    /\ mode[w] = "out"
    /\ pos' = [pos EXCEPT ![w] = log]
    /\ \/ mode' = [mode EXCEPT ![w] = "live"] /\ goal' = goal
       \/ mode' = [mode EXCEPT ![w] = "cut"] /\ goal' = [goal EXCEPT ![w] = log]
    /\ log' = log

Deliver(w) ==
    /\ \/ mode[w] = "live" /\ pos[w] < log
       \/ mode[w] = "cut" /\ pos[w] < goal[w]
    /\ pos' = [pos EXCEPT ![w] = @ + 1]
    /\ UNCHANGED <<log, mode, goal>>

\* The session ends: every live feed is cut at the end of the log.
Cut ==
    /\ mode' = [w \in Watchers |-> IF mode[w] = "live" THEN "cut" ELSE mode[w]]
    /\ goal' = [w \in Watchers |-> IF mode[w] = "live" THEN log ELSE goal[w]]
    /\ UNCHANGED <<log, pos>>

End(w) ==
    /\ mode[w] = "cut" /\ pos[w] = goal[w]
    /\ mode' = [mode EXCEPT ![w] = "ended"]
    /\ goal' = [goal EXCEPT ![w] = 0]
    /\ UNCHANGED <<log, pos>>

\* At any time, also before it has attached.
Leave(w) ==
    /\ mode[w] \in {"out", "live", "cut"}
    /\ mode' = [mode EXCEPT ![w] = "left"]
    /\ goal' = [goal EXCEPT ![w] = 0]
    /\ UNCHANGED <<log, pos>>

Next ==
    \/ Emit \/ Cut
    \/ \E w \in Watchers : Attach(w) \/ Deliver(w) \/ End(w) \/ Leave(w)

Spec == Init /\ [][Next]_feedVars

=============================================================================
