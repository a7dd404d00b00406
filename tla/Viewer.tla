------------------------------- MODULE Viewer -------------------------------
(***************************************************************************)
(* "ht watch" and "ht record", from their start to their end, on top of    *)
(* Spawn: a goroutine runs client.Watch (the ack, then frames, until EOF   *)
(* or the end of the connection), while the main goroutine selects over    *)
(* its result and a signal; what main does on its way out races with the   *)
(* goroutine, which nothing stops before the process ends.                 *)
(*                                                                         *)
(* Frames are abstracted to their number.  A socket delivers in order and  *)
(* what was written before the daemon went away can still be read.         *)
(* Stdout is a terminal (useAlt); of what can be set on it "alt" is the    *)
(* alternate screen, "listed" what termModeReset lists, "other" the rest,  *)
(* such as focus reports, the cursor's shape and the keypad mode.          *)
(***************************************************************************)
EXTENDS Spawn

CONSTANTS
    MaxFrames   \* bound: data frames per watch

ASSUME ViewerAssumption == MaxFrames \in Nat \ {0}

VARIABLES
    sent,           \* the data frames the daemon has written
    stream,         \* its end: "open", "eof", or "dropped" without the EOF frame
    gpc,            \* where the goroutine is
    shown,          \* the data frames it has written to stdout or to the file
    waiting,        \* as in cmdWatch
    header,         \* the recording's header: "none", "written" or "failed"
    term,           \* what of Modes is set on the user's terminal
    mpc,            \* where the main goroutine is
    err,            \* what Watch returned: "none", "nil" or "error"
    signalled       \* it was interrupted

viewVars == <<sent, stream, gpc, shown, waiting, header, term, mpc, err, signalled>>
allVars == <<spawnVars, viewVars>>

ViewInit ==
    /\ Init
    /\ sent = [v \in Commands |-> 0] /\ stream = [v \in Commands |-> "open"]
    /\ gpc = [v \in Commands |-> "ack"] /\ shown = [v \in Commands |-> 0]
    /\ waiting = [v \in Commands |-> TRUE] /\ header = [v \in Commands |-> "none"]
    /\ term = [v \in Commands |-> {}] /\ mpc = [v \in Commands |-> "select"]
    /\ err = [v \in Commands |-> "none"] /\ signalled = {}

Modes == {"alt", "listed", "other"}
viewers == {v \in Commands : kind[v] \in {"watch", "record"}}
Go(v, from, to) ==
    /\ cpc[v] = "stream" /\ gpc[v] = from
    /\ gpc' = [gpc EXCEPT ![v] = to]
    /\ UNCHANGED <<spawnVars, sent, stream, mpc, signalled>>

-----------------------------------------------------------------------------
(* The daemon's handler, opWatch.  The first frame is the first screen,     *)
(* which is never empty.                                                   *)

Ack(v) ==
    /\ Step(v, "accepted", "stream")
    /\ UNCHANGED <<kind, conn, result, daemonVars, viewVars>>

\* SubscribeWithPrime fails: the connection is closed without another word.
DropStream(v) ==
    /\ cpc[v] = "stream" /\ ~gone(v) /\ stream[v] = "open" /\ sent[v] = 0
    /\ stream' = [stream EXCEPT ![v] = "dropped"]
    /\ UNCHANGED <<spawnVars, sent, gpc, shown, waiting, header, term, mpc, err, signalled>>

SendFrame(v) ==
    /\ cpc[v] = "stream" /\ ~gone(v) /\ stream[v] = "open" /\ sent[v] < MaxFrames
    /\ sent' = [sent EXCEPT ![v] = @ + 1]
    /\ UNCHANGED <<spawnVars, stream, gpc, shown, waiting, header, term, mpc, err, signalled>>

SendEOF(v) ==
    /\ cpc[v] = "stream" /\ ~gone(v) /\ stream[v] = "open" /\ sent[v] > 0
    /\ stream' = [stream EXCEPT ![v] = "eof"]
    /\ UNCHANGED <<spawnVars, sent, gpc, shown, waiting, header, term, mpc, err, signalled>>

-----------------------------------------------------------------------------
(* The goroutine.                                                          *)

\* Watch has read the ack and calls OnReady, which first drops waiting ...
ReadAck(v) ==
    /\ Go(v, "ack", "ready")
    /\ waiting' = [waiting EXCEPT ![v] = (kind[v] # "watch")]
    /\ UNCHANGED <<shown, header, term, err>>

\* ... and then enters the alternate screen; that of record writes the header,
\* ignoring its error, which the encoder keeps.
Ready(v) ==
    /\ Go(v, "ready", "read")
    /\ IF kind[v] = "watch"
       THEN term' = [term EXCEPT ![v] = @ \cup {"alt"}] /\ UNCHANGED header
       ELSE /\ \E h \in {"written", "failed"} : header' = [header EXCEPT ![v] = h]
            /\ UNCHANGED term
    /\ UNCHANGED <<shown, waiting, err>>

\* Defect: the encoder forgets the error of the header.
ShowFrameAfterAll(v) ==
    /\ Go(v, "read", "read") /\ shown[v] < sent[v]
    /\ shown' = [shown EXCEPT ![v] = @ + 1]
    /\ \E t \in SUBSET Modes :
          term' = IF kind[v] = "watch" THEN [term EXCEPT ![v] = t] ELSE term
    /\ UNCHANGED <<waiting, header, err>>

\* OnFrame writes a data frame, whatever it sets and resets.
ShowFrame(v) ==
    /\ header[v] # "failed" /\ shown[v] < sent[v]
    /\ Go(v, "read", "read")
    /\ shown' = [shown EXCEPT ![v] = @ + 1]
    /\ \E t \in SUBSET Modes :
          term' = IF kind[v] = "watch" THEN [term EXCEPT ![v] = t] ELSE term
    /\ UNCHANGED <<waiting, header, err>>

\* The write fails, and Watch returns its error.
ShowFails(v) ==
    /\ shown[v] < sent[v]
    /\ Go(v, "read", "done")
    /\ err' = [err EXCEPT ![v] = "error"]
    /\ UNCHANGED <<shown, waiting, header, term>>

ReadEOF(v) ==
    /\ shown[v] = sent[v] /\ stream[v] = "eof"
    /\ Go(v, "read", "done")
    /\ err' = [err EXCEPT ![v] = "nil"]
    /\ UNCHANGED <<shown, waiting, header, term>>

cut(v) == stream[v] = "dropped" \/ (stream[v] = "open" /\ gone(v))

\* Defect: a failed read is tried again.
ReadAgain(v) ==
    /\ shown[v] = sent[v] /\ cut(v)
    /\ Go(v, "read", "read") /\ UNCHANGED <<err, shown, waiting, header, term>>

\* The connection ends without EOF: Watch returns nil all the same.
ReadFails(v) ==
    /\ shown[v] = sent[v] /\ cut(v)
    /\ Go(v, "read", "done")
    /\ err' = [err EXCEPT ![v] = "nil"]
    /\ UNCHANGED <<shown, waiting, header, term>>

Goroutine(v) ==
    ReadAck(v) \/ Ready(v) \/ ShowFrame(v) \/ ShowFails(v) \/ ReadEOF(v) \/ ReadFails(v)

-----------------------------------------------------------------------------
(* The main goroutine.                                                     *)

\* SIGINT or SIGTERM while the answer is awaited, or later.
Interrupt(v) ==
    /\ mpc[v] = "select" /\ v \notin signalled
    /\ signalled' = signalled \cup {v}
    /\ \/ cpc[v] \in {"dial", "queued", "accepted"} /\ Return(v, "ok")
       \/ cpc[v] = "stream" /\ UNCHANGED <<cpc, result>>
    /\ UNCHANGED <<kind, conn, daemonVars, sent, stream, gpc, shown, waiting,
                   header, term, mpc, err>>

selected(v) == cpc[v] = "stream" /\ mpc[v] = "select" /\ (gpc[v] = "done" \/ v \in signalled)

\* A data race: after a signal nothing orders main's read of waiting with the
\* goroutine's write, so that it may still find it true.
waitingRead(v) == {waiting[v]} \cup (IF v \in signalled THEN {TRUE} ELSE {})

\* Defect: only the alternate screen is left; the modes stay.
RestoreScreenOnly(v) ==
    /\ selected(v)
    /\ mpc' = [mpc EXCEPT ![v] = "exit"]
    /\ \E w \in waitingRead(v) :
          term' = IF w THEN term ELSE [term EXCEPT ![v] = @ \ {"alt"}]
    /\ UNCHANGED <<spawnVars, sent, stream, gpc, shown, waiting, header, err, signalled>>

\* The select is over, and the deferred function of cmdWatch runs.
Restore(v) ==
    /\ selected(v)
    /\ mpc' = [mpc EXCEPT ![v] = "exit"]
    /\ \E w \in waitingRead(v) :
          term' = IF w THEN term ELSE [term EXCEPT ![v] = @ \ {"alt", "listed"}]
    /\ UNCHANGED <<spawnVars, sent, stream, gpc, shown, waiting, header, err, signalled>>

ProcessExit(v) ==
    /\ cpc[v] = "stream" /\ mpc[v] = "exit"
    /\ Return(v, IF v \notin signalled /\ err[v] = "error" THEN "err" ELSE "ok")
    /\ UNCHANGED <<kind, conn, daemonVars, viewVars>>

Main(v) == Restore(v) \/ ProcessExit(v)

-----------------------------------------------------------------------------

ViewNext ==
    \/ SpawnNext /\ UNCHANGED viewVars
    \/ \E v \in viewers :
          Ack(v) \/ DropStream(v) \/ SendFrame(v) \/ SendEOF(v) \/ Goroutine(v) \/ Main(v) \/ Interrupt(v)

(***************************************************************************)
(* Every process runs: each command, each daemon and its accept loop, each *)
(* goroutine of a viewer; and a handler answers a request other than a     *)
(* watch, but a stuck session may hold up any but a stop, which touches    *)
(* none.  Nothing makes a command start, a session write or end, a daemon  *)
(* crash, or a signal come.                                                *)
(***************************************************************************)
Served(c) == Serve(c) /\ (kind[c] = "stop" \/ conn[c] \notin wedged)

ViewFairness ==
    /\ \A c \in Commands :
          WF_allVars((CommandStep(c) \/ Accept(c) \/ Served(c)) /\ UNCHANGED <<kind, viewVars>>)
    /\ \A d \in Commands : WF_allVars(DaemonStep(d) /\ UNCHANGED <<kind, viewVars>>)
    /\ \A v \in Commands : WF_allVars(Goroutine(v)) /\ WF_allVars(Main(v))

ViewSpec == ViewInit /\ [][ViewNext]_allVars /\ ViewFairness

-----------------------------------------------------------------------------

(* Every variable stays within the values listed for it, and a command that *)
(* waits for an answer has a connection.                                   *)
ViewTypeOK ==
    /\ SpawnType
    /\ sent \in [Commands -> 0..MaxFrames] /\ stream \in [Commands -> {"open", "eof", "dropped"}]
    /\ gpc \in [Commands -> {"ack", "ready", "read", "done"}]
    /\ shown \in [Commands -> 0..MaxFrames] /\ waiting \in [Commands -> BOOLEAN]
    /\ header \in [Commands -> {"none", "written", "failed"}]
    /\ term \in [Commands -> SUBSET Modes]
    /\ mpc \in [Commands -> {"select", "exit"}]
    /\ err \in [Commands -> {"none", "nil", "error"}] /\ signalled \subseteq Commands

(* "Exiting restores the user's shell state": a watch that was not          *)
(* interrupted leaves neither the alternate screen nor a mode that         *)
(* termModeReset lists, however it ended and whatever the frames set.      *)
(* Modes that are not listed may stay, and an interrupted watch may leave  *)
(* any, as its goroutine runs on.                                          *)
TerminalRestored ==
    \A v \in viewers : (cpc[v] = "returned" /\ v \notin signalled) =>
        term[v] \cap {"alt", "listed"} = {}

(* A watch or a recording that ends by itself without an error has come to  *)
(* the end of its session, or lost its daemon, or was given up before its  *)
(* first screen; and one that holds frames has its header before them.     *)
(* Only without any frame does a header that failed go unnoticed.          *)
StreamWhole ==
    \A v \in viewers : (cpc[v] = "returned" /\ v \notin signalled /\ result[v] = "ok") =>
        /\ kind[v] = "record" /\ sent[v] > 0 => header[v] = "written"
        /\ stream[v] = "eof" \/ gone(v) \/ (stream[v] = "dropped" /\ sent[v] = 0)

(* A viewer ends when the session has ended, its daemon is gone or has      *)
(* dropped its connection, whichever comes first.                          *)
ViewEnds ==
    \A v \in Commands :
        (cpc[v] = "stream" /\ (stream[v] # "open" \/ gone(v))) ~> cpc[v] = "returned"

=============================================================================
