------------------------------- MODULE Spawn -------------------------------
(***************************************************************************)
(* How commands find the daemon: each "ht" command is a process that dials *)
(* the socket and, if nobody listens there, starts a daemon and polls for  *)
(* it; each daemon removes the socket file, binds it, serves, and when it  *)
(* stops removes the file again, by its path.  "ht daemon" by hand starts   *)
(* one without looking.                                                    *)
(*                                                                         *)
(* A command starts at most one daemon, which has the command's name.  The *)
(* connection of a command and the command itself have one position, as    *)
(* the command does nothing but wait for its answer.  What a handler does  *)
(* with a request is in module Daemon; watch and record go on in Viewer.   *)
(*                                                                         *)
(* "Defect" marks faulty variants, as in Session.                          *)
(***************************************************************************)
EXTENDS Naturals

CONSTANTS
    Commands,       \* the processes of "ht"
    Scenarios,      \* what they may be asked to do, together
    MaxFaults,      \* bound: how many daemons get a signal, are killed, panic or get stuck
    None,           \* no socket file, no connection
    Foreign         \* a socket file that is another user's, which cannot be removed

ASSUME SpawnAssumption ==
    /\ None \notin Commands /\ Foreign \notin Commands /\ None # Foreign
    /\ MaxFaults \in Nat
    /\ Scenarios \subseteq
          [Commands -> {"call", "stop", "watch", "record", "daemon", "none"}]

VARIABLES
    kind,       \* the scenario: each command, "none" if it is not given
    cpc,        \* where each command is
    conn,       \* the daemon its last dial reached
    result,     \* "none", "ok", "refused", "lost", "late" or "err"
    path,       \* the daemon that bound the socket file that is there, or Foreign
    dpc,        \* where each daemon is
    asked,      \* the daemons that have been asked to stop, by request or signal
    wedged,     \* those that have a session whose Close blocks for ever
    faults,
    rivals      \* history: the daemons alive or about to be, when d bound

commandVars == <<cpc, conn, result>>
daemonVars  == <<path, dpc, asked, wedged, faults, rivals>>
spawnVars   == <<kind, commandVars, daemonVars>>

Init ==
    /\ kind \in Scenarios /\ cpc = [c \in Commands |-> "idle"]
    /\ conn = [c \in Commands |-> None] /\ result = [c \in Commands |-> "none"]
    /\ path \in {None, Foreign} /\ dpc = [d \in Commands |-> "none"]
    /\ asked = {} /\ wedged = {} /\ faults = 0 /\ rivals = [d \in Commands |-> {}]

alive(d) == dpc[d] \notin {"none", "exited"}
gone(c) == \E d \in Commands : conn[c] = d /\ dpc[d] = "exited"  \* its connection's end
byHand == {d \in Commands : kind[d] = "daemon"}
listens(d) == dpc[d] \in {"serve", "closing", "unlinked"}

\* A dial succeeds if the process that bound the file still has it open.
reachable == path \in Commands /\ listens(path)
unlinked == IF path = Foreign THEN Foreign ELSE None  \* the path once os.Remove was called

Return(c, r) == cpc' = [cpc EXCEPT ![c] = "returned"] /\ result' = [result EXCEPT ![c] = r]
Step(c, from, to) == cpc[c] = from /\ cpc' = [cpc EXCEPT ![c] = to]
DStep(d, from, to) == dpc[d] = from /\ dpc' = [dpc EXCEPT ![d] = to]

-----------------------------------------------------------------------------
(* Commands.                                                               *)

\* "ht daemon stop" does not look for a daemon first; every other command of a
\* client does.
Begin(c) ==
    /\ kind[c] \notin {"daemon", "none"}
    /\ Step(c, "idle", IF kind[c] = "stop" THEN "dial" ELSE "ensure")
    /\ UNCHANGED <<conn, result, daemonVars>>

\* "ht daemon", which itself becomes a daemon.
RunDaemon(d) ==
    /\ kind[d] = "daemon"
    /\ DStep(d, "none", "start")
    /\ UNCHANGED <<commandVars, path, asked, wedged, faults, rivals>>

\* Defect: a daemon is started without a look at the socket.
EnsureBlind(c) ==
    /\ Step(c, "ensure", "spawn")
    /\ UNCHANGED <<conn, result, daemonVars>>

\* EnsureDaemon: the probing dial.
EnsureDial(c) ==
    /\ \/ reachable /\ Step(c, "ensure", "dial") /\ conn' = [conn EXCEPT ![c] = path]
       \/ ~reachable /\ Step(c, "ensure", "spawn") /\ UNCHANGED conn
    /\ UNCHANGED <<result, daemonVars>>

\* Defect: the daemon is taken to be reachable once it is started.
SpawnAndGo(c) ==
    /\ Step(c, "spawn", "dial") /\ dpc' = [dpc EXCEPT ![c] = "start"]
    /\ UNCHANGED <<conn, result, path, asked, wedged, faults, rivals>>

\* The fork, which may fail.
SpawnDaemon(c) ==
    /\ \/ Step(c, "spawn", "poll") /\ dpc' = [dpc EXCEPT ![c] = "start"] /\ UNCHANGED result
       \/ cpc[c] = "spawn" /\ Return(c, "err") /\ UNCHANGED dpc
    /\ UNCHANGED <<conn, path, asked, wedged, faults, rivals>>

PollDial(c) ==
    /\ reachable
    /\ Step(c, "poll", "dial") /\ conn' = [conn EXCEPT ![c] = path]
    /\ UNCHANGED <<result, daemonVars>>

\* Defect: the deadline is computed anew in every round.
PollAgain(c) == cpc[c] = "poll" /\ UNCHANGED spawnVars

\* The three seconds are over.
PollTimeout(c) ==
    /\ cpc[c] = "poll"
    /\ Return(c, "late")
    /\ UNCHANGED <<conn, daemonVars>>

\* Defect: the error of the dial is dropped.
DialUnchecked(c) ==
    /\ Step(c, "dial", "queued") /\ conn' = [conn EXCEPT ![c] = path]
    /\ UNCHANGED <<result, daemonVars>>

\* call and Watch dial anew, and write the request.
Dial(c) ==
    /\ cpc[c] = "dial"
    /\ IF reachable
       THEN Step(c, "dial", "queued") /\ conn' = [conn EXCEPT ![c] = path] /\ UNCHANGED result
       ELSE Return(c, "refused") /\ UNCHANGED conn
    /\ UNCHANGED <<daemonVars>>

CommandStep(c) ==
    EnsureDial(c) \/ SpawnDaemon(c) \/ PollDial(c) \/ PollTimeout(c) \/ Dial(c)

-----------------------------------------------------------------------------
(* Daemons.                                                                *)

\* Defect: the file of a daemon that crashed is left where it is.
RemoveNothing(d) ==
    /\ DStep(d, "start", "bind")
    /\ UNCHANGED <<commandVars, path, asked, wedged, faults, rivals>>

\* Run removes the file, whichever daemon's it is, and ignores the error ...
RemoveStale(d) ==
    /\ DStep(d, "start", "bind")
    /\ path' = unlinked
    /\ UNCHANGED <<commandVars, asked, wedged, faults, rivals>>

\* ... and listens, which fails if there is a file again.
Bind(d) ==
    /\ IF path = None
       THEN /\ DStep(d, "bind", "serve") /\ path' = d
            /\ rivals' = [rivals EXCEPT ![d] =
                             {e \in Commands \ {d} : alive(e) \/ cpc[e] = "spawn"}]
       ELSE DStep(d, "bind", "exited") /\ UNCHANGED <<path, rivals>>
    /\ UNCHANGED <<commandVars, asked, wedged, faults>>

Accept(c) ==
    /\ conn[c] # None /\ listens(conn[c])
    /\ Step(c, "queued", "accepted")
    /\ UNCHANGED <<conn, result, daemonVars>>

\* Defect: a request to stop is answered and forgotten.
ServeUnheard(c) ==
    /\ cpc[c] = "accepted" /\ kind[c] \in {"call", "stop"}
    /\ Return(c, "ok") /\ UNCHANGED <<conn, daemonVars>>

\* The handler answers; after its answer to daemonStop it stops the daemon.
Serve(c) ==
    /\ cpc[c] = "accepted" /\ kind[c] \in {"call", "stop"}
    /\ Return(c, "ok")
    /\ asked' = IF kind[c] = "stop" THEN asked \cup {conn[c]} ELSE asked
    /\ UNCHANGED <<conn, path, dpc, wedged, faults, rivals>>

\* SIGINT or SIGTERM.
Signal(d) ==
    /\ alive(d) /\ d \notin asked /\ faults < MaxFaults
    /\ faults' = faults + 1 /\ asked' = asked \cup {d}
    /\ UNCHANGED <<commandVars, path, dpc, wedged, rivals>>

\* readLoop and a wait get stuck over s.mu of a session (module Wait), so that
\* whoever waits for s.mu now blocks for ever, Close included.
Wedge(d) ==
    /\ dpc[d] \in {"serve", "closing", "unlinked", "remove", "sessions"}
    /\ d \notin wedged /\ faults < MaxFaults
    /\ faults' = faults + 1 /\ wedged' = wedged \cup {d}
    /\ UNCHANGED <<commandVars, path, dpc, asked, rivals>>

\* The goroutine that waits for the request calls l.Close, which unlinks the
\* path and then closes the socket; what it has not accepted is reset.
StopServing(d) ==
    /\ d \in asked
    /\ DStep(d, "serve", "closing")
    /\ UNCHANGED <<commandVars, path, asked, wedged, faults, rivals>>

Unlink(d) ==
    /\ DStep(d, "closing", "unlinked")
    /\ path' = unlinked
    /\ UNCHANGED <<commandVars, asked, wedged, faults, rivals>>

Lose(lost) ==
    /\ cpc' = [c \in Commands |-> IF c \in lost THEN "returned" ELSE cpc[c]]
    /\ result' = [c \in Commands |-> IF c \in lost THEN "lost" ELSE result[c]]

CloseListener(d) ==
    /\ DStep(d, "unlinked", "remove")
    /\ Lose({c \in Commands : conn[c] = d /\ cpc[c] = "queued"})
    /\ UNCHANGED <<conn, path, asked, wedged, faults, rivals>>

\* The deferred function of Run: the path again, then the sessions.
RemovePath(d) ==
    /\ DStep(d, "remove", "sessions")
    /\ path' = unlinked
    /\ UNCHANGED <<commandVars, asked, wedged, faults, rivals>>

\* closeAllSessions has closed them all.
Exit(d) ==
    /\ d \notin wedged
    /\ DStep(d, "sessions", "exited")
    /\ Lose({c \in Commands : conn[c] = d /\ cpc[c] = "accepted"})
    /\ UNCHANGED <<conn, path, asked, wedged, faults, rivals>>

\* SIGKILL or a panic: the socket file stays.
Crash(d) ==
    /\ alive(d) /\ faults < MaxFaults
    /\ faults' = faults + 1
    /\ dpc' = [dpc EXCEPT ![d] = "exited"]
    /\ Lose({c \in Commands : conn[c] = d /\ cpc[c] \in {"queued", "accepted"}})
    /\ UNCHANGED <<conn, path, asked, wedged, rivals>>

DaemonStep(d) ==
    RemoveStale(d) \/ Bind(d) \/ StopServing(d) \/ Unlink(d) \/ CloseListener(d)
    \/ RemovePath(d) \/ Exit(d)

SpawnNext ==
    /\ \/ \E c \in Commands : Begin(c) \/ CommandStep(c) \/ Accept(c) \/ Serve(c)
       \/ \E d \in Commands : RunDaemon(d) \/ DaemonStep(d) \/ Signal(d) \/ Wedge(d) \/ Crash(d)
    /\ UNCHANGED kind

-----------------------------------------------------------------------------

SpawnType ==
    /\ kind \in Scenarios
    /\ cpc \in [Commands -> {"idle", "ensure", "spawn", "poll", "dial", "queued",
                             "accepted", "stream", "returned"}]
    /\ conn \in [Commands -> Commands \cup {None}]
    /\ result \in [Commands -> {"none", "ok", "refused", "lost", "late", "err"}]
    /\ path \in Commands \cup {None, Foreign}
    /\ dpc \in [Commands -> {"none", "start", "bind", "serve", "closing", "unlinked",
                             "remove", "sessions", "exited"}]
    /\ asked \subseteq Commands /\ wedged \subseteq Commands /\ faults \in 0..MaxFaults
    /\ rivals \in [Commands -> SUBSET Commands]
    /\ \A c \in Commands : cpc[c] \in {"queued", "accepted", "stream"} => conn[c] # None

(* EnsureDaemon's probe before the fork protects a daemon that serves: its  *)
(* socket file is removed under it only by a daemon that was there already *)
(* or about to be started when it bound the file, or by one run by hand,   *)
(* never by one that a command starts later on.                            *)
OnlyRivalsTakeTheSocket ==
    [][\A d \in Commands : (path = d /\ path' # d /\ dpc[d] = "serve") =>
           \E e \in rivals[d] \cup byHand : dpc'[e] # dpc[e]]_spawnVars

(* "Clean up a stale socket from a previous crashed run": what a daemon     *)
(* finds in its way when it binds is never the file of a daemon of this    *)
(* user that died before it started, only that of one whose start overlaps *)
(* its own, or a file that it may not remove.                              *)
StaleNeverBlocks ==
    \A d \in Commands :
        (dpc[d] = "bind" /\ path # None) => path = Foreign \/ d \in rivals[path]

(* EnsureDaemon leaves the daemon reachable: the command's own dial is      *)
(* refused only if the very daemon it found has been asked to stop or has  *)
(* ended since, or if a rival or one run by hand got in that one's way.    *)
RefusedForCause ==
    \A c \in Commands : (result[c] = "refused" /\ kind[c] # "stop") =>
        \E d \in Commands :
            /\ conn[c] = d
            /\ \/ d \in asked \/ dpc[d] = "exited"
               \/ \E e \in rivals[d] \cup byHand : dpc[e] # "none"

(* A command ends, whichever daemon stops, crashes, is orphaned or fails to *)
(* bind while it is being started, polled, dialled or asked, but a request *)
(* other than a stop that has come to a daemon with a stuck session.       *)
CommandsEnd ==
    \A c \in Commands :
        (cpc[c] # "idle" /\ kind[c] \in {"call", "stop"}) ~>
            \/ cpc[c] = "returned"
            \/ kind[c] = "call" /\ cpc[c] = "accepted" /\ conn[c] \in wedged

(* The answer "ok" to a stop is kept: the daemon that gave it exits, or it  *)
(* has at least given up its socket, so that the next command can start    *)
(* another, and only a stuck session keeps it from the end.                *)
StopTakesEffect ==
    \A c \in Commands : (kind[c] = "stop" /\ result[c] = "ok") ~>
        \/ gone(c)
        \/ \E d \in wedged : conn[c] = d /\ dpc[d] = "sessions"

=============================================================================
