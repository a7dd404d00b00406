------------------------------ MODULE Session ------------------------------
(***************************************************************************)
(* One session of the daemon: a child process on a pseudo-terminal, the    *)
(* two goroutines session.Start spawns for it (readLoop and waitLoop), and *)
(* the handlers of the daemon that work on the session concurrently.       *)
(*                                                                         *)
(* A critical section of s.mu that cannot block is one step, guarded by    *)
(* mu = "free".  readLoop is the exception: it keeps s.mu while it sends   *)
(* to the watchers' channels, and those sends block, so its section is     *)
(* spread over several steps with mu = "readLoop".                         *)
(*                                                                         *)
(* Output is abstracted to its position: chunk n is what the n-th          *)
(* successful Read of the PTY master returns.                              *)
(*                                                                         *)
(* A definition marked "Defect" is not part of the specification: it is a   *)
(* faulty variant of the definition after it, and shows that the property  *)
(* named for it in PROJECT.json tells the two apart.                       *)
(***************************************************************************)
EXTENDS Naturals, Sequences, FiniteSets

CONSTANTS
    Procs,          \* handler goroutines (one connection, one operation each)
    FaultyClients,  \* handlers whose client may stop reading or disconnect
    Ops,            \* the operations that clients may ask for
    MaxChunks,      \* bound: how many chunks the child's side writes
    ChanCap,        \* capacity of a watcher's channel (64 in the code)
    TtyCap,         \* how many unread chunks the kernel's PTY buffer holds
    None            \* no operation, no target

ASSUME ProcsAssumption == None \notin Procs /\ FaultyClients \subseteq Procs
ASSUME OpsAssumption ==
    Ops \subseteq {"watch", "view", "resize", "send", "stop", "kill",
                   "remove", "shutdown"}
ASSUME BoundsAssumption ==
    MaxChunks \in Nat /\ ChanCap \in Nat \ {0} /\ TtyCap \in Nat \ {0}

VARIABLES
    child,      \* the child process: running, a zombie, or reaped by cmd.Wait
    killed,     \* a SIGKILL has been sent to the child
    slave,      \* "open" while the child or a descendant holds the PTY slave
    tty,        \* the PTY master s.ptmx: "open" or "closed"
    written,    \* number of chunks written to the PTY
    read,       \* number of chunks readLoop has read
    mu,         \* s.mu: "free", or held by "readLoop"
    rpc,        \* where readLoop is
    pending,    \* subscribers the range in readLoop has not yet reached
    target,     \* the subscriber whose channel readLoop is sending to
    screen,     \* last chunk the terminal has parsed
    vt,         \* s.vt: "open" or "nil"
    state,      \* s.state
    subs,       \* s.subs: the handlers with a registered channel
    buf,        \* the channel of each watcher
    closed,     \* the watchers whose channel is closed
    wpc,        \* where waitLoop is
    done,       \* s.done is closed
    registered, \* the daemon's registry still holds the session
    op, pc,     \* each handler's operation and where it is
    sig,        \* the signal a handler is sending
    result,     \* what each handler answers
    client,     \* each watcher's client: "reading", "stalled" or "gone"
    last,       \* last chunk each watcher's client has been given
    eof,        \* the watchers whose client got the EOF frame
    crashed     \* a nil terminal was used: the daemon process has panicked

envVars     == <<child, killed, slave, written>>
readerVars  == <<read, rpc, pending, target, screen>>
subVars     == <<subs, closed>>
waiterVars  == <<wpc, done, tty, state>>
handlerVars == <<op, pc, sig, result, registered>>
watchVars   == <<client, last, eof>>
\* What no handler writes, what no goroutine of the session writes, and all
\* but the handlers' own variables.
coreVars    == <<envVars, readerVars, mu, waiterVars>>
callerVars  == <<vt, handlerVars, watchVars, crashed>>
systemVars  == <<coreVars, vt, subVars, buf, watchVars, crashed>>
vars == <<envVars, readerVars, mu, vt, subVars, buf, waiterVars, handlerVars,
          watchVars, crashed>>

-----------------------------------------------------------------------------
(* The state session.Start returns in: both goroutines are about to run.   *)

Init ==
    /\ child = "alive" /\ killed = FALSE /\ slave = "open" /\ written = 0
    /\ read = 0 /\ rpc = "read" /\ pending = {} /\ target = None
    /\ screen = 0
    /\ mu = "free" /\ vt = "open"
    /\ subs = {} /\ closed = {} /\ buf = [p \in Procs |-> <<>>]
    /\ wpc = "wait" /\ done = FALSE /\ tty = "open" /\ state = "running"
    /\ op = [p \in Procs |-> None] /\ pc = [p \in Procs |-> "idle"]
    /\ sig = [p \in Procs |-> None] /\ result = [p \in Procs |-> "none"]
    /\ registered = TRUE
    /\ client = [p \in Procs |-> "reading"]
    /\ last = [p \in Procs |-> 0] /\ eof = {}
    /\ crashed = FALSE

-----------------------------------------------------------------------------
(* The child, its descendants and the clients.                             *)

ChildWrite ==
    /\ slave = "open" /\ tty = "open"
    /\ written < MaxChunks /\ written - read < TtyCap
    /\ written' = written + 1
    /\ UNCHANGED <<child, killed, slave, readerVars, mu, callerVars, subVars,
                   buf, waiterVars>>

\* A descendant that survives the child keeps the slave side open.
ChildExit ==
    /\ child = "alive"
    /\ child' = "dead"
    /\ slave' \in {"open", "hup"}
    /\ UNCHANGED <<killed, written, readerVars, mu, callerVars, subVars, buf,
                   waiterVars>>

OrphanExit ==
    /\ child # "alive" /\ slave = "open"
    /\ slave' = "hup"
    /\ UNCHANGED <<child, killed, written, readerVars, mu, callerVars, subVars,
                   buf, waiterVars>>

\* The client of a watcher stops reading (its socket buffer is full), reads
\* again, or disconnects.
ClientChanges(p) ==
    /\ p \in FaultyClients
    /\ op[p] = "watch" /\ pc[p] = "stream" /\ client[p] # "gone"
    /\ \E c \in {"reading", "stalled", "gone"} \ {client[p]} :
          client' = [client EXCEPT ![p] = c]
    /\ UNCHANGED <<coreVars, vt, subVars, buf, handlerVars, last, eof, crashed>>

-----------------------------------------------------------------------------
(* readLoop                                                                *)

\* Defect: an empty Read is taken for a chunk.
ReadChunkEmpty ==
    /\ rpc = "read" /\ tty = "open"
    /\ read' = read + 1 /\ rpc' = "got"
    /\ UNCHANGED <<envVars, pending, target, screen, mu, callerVars, subVars,
                   buf, waiterVars>>

ReadChunk ==
    /\ rpc = "read" /\ tty = "open" /\ read < written
    /\ read' = read + 1
    /\ rpc' = "got"
    /\ UNCHANGED <<envVars, pending, target, screen, mu, callerVars, subVars,
                   buf, waiterVars>>

\* Read fails: the master is closed, or nobody holds the slave any more.
ReadEnd ==
    /\ rpc = "read"
    /\ tty = "closed" \/ (slave = "hup" /\ read = written)
    /\ rpc' = "exit"
    /\ UNCHANGED <<envVars, read, pending, target, screen, mu, callerVars,
                   subVars, buf, waiterVars>>

\* Lock s.mu, feed the chunk to the terminal, start ranging over s.subs.
\* With s.vt nil the loop unlocks and leaves.
ParseChunk ==
    /\ rpc = "got" /\ mu = "free"
    /\ IF vt = "nil"
       THEN rpc' = "exit" /\ UNCHANGED <<mu, screen, pending>>
       ELSE rpc' = "fanout" /\ mu' = "readLoop" /\ screen' = read
            /\ pending' = subs
    /\ UNCHANGED <<envVars, read, target, callerVars, subVars, buf, waiterVars>>

\* The map range reaches p: from here on the loop is committed to p's channel.
PickTarget(p) ==
    /\ rpc = "fanout" /\ target = None /\ p \in pending
    /\ target' = p
    /\ UNCHANGED <<envVars, read, rpc, pending, screen, mu, callerVars, subVars,
                   buf, waiterVars>>

\* Defect: a chunk for a full channel is dropped.
SendChunkDropping ==
    /\ rpc = "fanout" /\ target # None
    /\ buf' = IF Len(buf[target]) < ChanCap
              THEN [buf EXCEPT ![target] = Append(@, read)] ELSE buf
    /\ pending' = pending \ {target} /\ target' = None
    /\ UNCHANGED <<envVars, read, rpc, screen, mu, callerVars, subVars,
                   waiterVars>>

SendChunk ==
    /\ rpc = "fanout" /\ target # None
    /\ Len(buf[target]) < ChanCap
    /\ buf' = [buf EXCEPT ![target] = Append(@, read)]
    /\ pending' = pending \ {target}
    /\ target' = None
    /\ UNCHANGED <<envVars, read, rpc, screen, mu, callerVars, subVars,
                   waiterVars>>

FanoutDone ==
    /\ rpc = "fanout" /\ pending = {}
    /\ rpc' = "read" /\ mu' = "free"
    /\ UNCHANGED <<envVars, read, pending, target, screen, callerVars, subVars,
                   buf, waiterVars>>

Reader == ReadChunk \/ ReadEnd \/ ParseChunk \/ (\E p \in Procs : PickTarget(p))
          \/ SendChunk \/ FanoutDone

readDone == rpc = "exit"    \* s.readDone is closed as readLoop returns

-----------------------------------------------------------------------------
(* waitLoop                                                                *)

Reap ==
    /\ wpc = "wait" /\ child = "dead"
    /\ child' = "reaped"
    /\ wpc' = "mark"
    /\ UNCHANGED <<killed, slave, written, readerVars, mu, callerVars, subVars,
                   buf, done, tty, state>>

\* Defect: the channels are not closed.
MarkExitedKeepingSubs ==
    /\ wpc = "mark" /\ mu = "free"
    /\ state' = "exited" /\ wpc' = "closePty"
    /\ UNCHANGED <<envVars, readerVars, mu, callerVars, subVars, buf, done,
                   tty>>

\* Under s.mu: the state becomes exited, every channel is closed and dropped.
MarkExited ==
    /\ wpc = "mark" /\ mu = "free"
    /\ state' = "exited"
    /\ closed' = closed \cup subs /\ subs' = {}
    /\ wpc' = "closePty"
    /\ UNCHANGED <<envVars, readerVars, mu, callerVars, buf, done, tty>>

\* Closing the master drops what nobody has read and fails a pending Read.
ClosePty ==
    /\ wpc = "closePty"
    /\ tty' = "closed"
    /\ wpc' = "closeDone"
    /\ UNCHANGED <<envVars, readerVars, mu, callerVars, subVars, buf, done,
                   state>>

CloseDone ==
    /\ wpc = "closeDone"
    /\ done' = TRUE
    /\ wpc' = "end"
    /\ UNCHANGED <<envVars, readerVars, mu, callerVars, subVars, buf, tty,
                   state>>

Waiter == Reap \/ MarkExited \/ ClosePty \/ CloseDone

-----------------------------------------------------------------------------
(* Handlers.  A handler starts after resolve has found the session, so only *)
(* while the registry holds it.  closeAllSessions, which Run calls once, is *)
(* the operation "shutdown".                                               *)

Begin(p, o) ==
    /\ pc[p] = "idle" /\ registered
    /\ o = "shutdown" => \A q \in Procs : op[q] # "shutdown"
    /\ op' = [op EXCEPT ![p] = o]
    /\ pc' = [pc EXCEPT ![p] = "start"]
    /\ UNCHANGED <<systemVars, sig, result, registered>>

At(p, o, label) == op[p] = o /\ pc[p] = label
Goto(p, label) == pc' = [pc EXCEPT ![p] = label]
Answer(p, r) == Goto(p, "returned") /\ result' = [result EXCEPT ![p] = r]

(* opWatch once it has the session: SubscribeWithPrime, then one frame per  *)
(* chunk.  Taking a chunk from the channel and writing its frame are one   *)
(* step; a write to a stalled client blocks, one to a lost client fails.   *)

\* Defect: a subscription that does not look at the state.
SubscribeUnchecked(p) ==
    /\ At(p, "watch", "start") /\ mu = "free"
    /\ Goto(p, "stream") /\ last' = [last EXCEPT ![p] = screen]
    /\ subs' = subs \cup {p}
    /\ UNCHANGED <<coreVars, vt, closed, buf, op, sig, result, registered,
                   client, eof, crashed>>

SubscribeWithPrime(p) ==
    /\ At(p, "watch", "start") /\ mu = "free"
    /\ IF vt = "nil"
       THEN crashed' = TRUE /\ UNCHANGED <<pc, last, subVars>>
       ELSE /\ Goto(p, "stream")
            /\ last' = [last EXCEPT ![p] = screen]
            /\ IF state = "exited"
               THEN closed' = closed \cup {p} /\ UNCHANGED subs
               ELSE subs' = subs \cup {p} /\ UNCHANGED closed
            /\ UNCHANGED crashed
    /\ UNCHANGED <<coreVars, vt, buf, op, sig, result, registered, client, eof>>

\* The snapshot for the prime fails: opWatch returns without a subscription.
PrimeFails(p) ==
    /\ At(p, "watch", "start") /\ mu = "free" /\ vt # "nil"
    /\ Answer(p, "err")
    /\ UNCHANGED <<systemVars, op, sig, registered>>

ForwardChunk(p) ==
    /\ At(p, "watch", "stream") /\ buf[p] # <<>> /\ client[p] # "stalled"
    /\ buf' = [buf EXCEPT ![p] = Tail(@)]
    /\ IF client[p] = "gone"
       THEN Goto(p, "leave") /\ UNCHANGED last
       ELSE last' = [last EXCEPT ![p] = Head(buf[p])] /\ UNCHANGED pc
    /\ UNCHANGED <<coreVars, vt, subVars, op, sig, result, registered, client,
                   eof, crashed>>

\* Defect: the stream ends with chunks still queued.
EndOfStreamEarly(p) ==
    /\ At(p, "watch", "stream") /\ p \in closed /\ client[p] # "stalled"
    /\ Goto(p, "leave")
    /\ eof' = IF client[p] = "gone" THEN eof ELSE eof \cup {p}
    /\ UNCHANGED <<coreVars, vt, subVars, buf, op, sig, result, registered,
                   client, last, crashed>>

\* The range ends on a closed and drained channel; the EOF frame follows.
EndOfStream(p) ==
    /\ At(p, "watch", "stream") /\ buf[p] = <<>> /\ p \in closed
    /\ client[p] # "stalled"
    /\ Goto(p, "leave")
    /\ eof' = IF client[p] = "gone" THEN eof ELSE eof \cup {p}
    /\ UNCHANGED <<coreVars, vt, subVars, buf, op, sig, result, registered,
                   client, last, crashed>>

\* Defect: unsub closes the channel without s.mu.
UnsubscribeUnlocked(p) ==
    /\ At(p, "watch", "leave")
    /\ Answer(p, "ok")
    /\ closed' = closed \cup (subs \cap {p}) /\ subs' = subs \ {p}
    /\ UNCHANGED <<coreVars, vt, buf, op, sig, registered, watchVars, crashed>>

\* The deferred unsub.  For a watcher that came after the exit it is empty, as
\* here: by then no section of s.mu can block, as nobody is registered.
Unsubscribe(p) ==
    /\ At(p, "watch", "leave") /\ mu = "free"
    /\ Answer(p, "ok")
    /\ closed' = closed \cup (subs \cap {p})
    /\ subs' = subs \ {p}
    /\ UNCHANGED <<coreVars, vt, buf, op, sig, registered, watchVars, crashed>>

(* View, Resize and Send.  The terminal may fail to format or to resize.    *)

View(p) ==
    /\ At(p, "view", "start") /\ mu = "free"
    /\ IF vt = "nil"
       THEN crashed' = TRUE /\ UNCHANGED <<pc, result>>
       ELSE (Answer(p, "ok") \/ Answer(p, "err")) /\ UNCHANGED crashed
    /\ UNCHANGED <<coreVars, vt, subVars, buf, op, sig, registered, watchVars>>

\* pty.Setsize fails on a closed master, before the terminal is touched.
Resize(p) ==
    /\ At(p, "resize", "start") /\ mu = "free"
    /\ crashed' = (tty = "open" /\ vt = "nil")
    /\ Answer(p, "err") \/ (tty = "open" /\ Answer(p, "ok"))
    /\ UNCHANGED <<coreVars, vt, subVars, buf, op, sig, registered, watchVars>>

SendCheck(p) ==
    /\ At(p, "send", "start") /\ mu = "free"
    /\ IF state = "exited" THEN Answer(p, "err")
                           ELSE Goto(p, "write") /\ UNCHANGED result
    /\ UNCHANGED <<systemVars, op, sig, registered>>

\* The write happens outside s.mu.
SendWrite(p) ==
    /\ At(p, "send", "write")
    /\ Answer(p, IF tty = "closed" THEN "err" ELSE "ok")
    /\ UNCHANGED <<systemVars, op, sig, registered>>

(* signal(): the state check under s.mu, then Process.Signal outside it.    *)
(* It fails once the session is marked exited or the child is reaped.      *)
(* opKill and opStop answer with that error; Close and the escalation of   *)
(* opStop ignore it and go on to wait for done.                            *)

IgnoresError(p) == op[p] \in {"remove", "shutdown"} \/ (op[p] = "stop" /\ sig[p] = "KILL")

SignalFails(p) ==
    IF IgnoresError(p) THEN Goto(p, "await") /\ UNCHANGED result
                       ELSE Answer(p, "err")

SignalCheck(p) ==
    /\ pc[p] = "signal" /\ mu = "free"
    /\ IF state = "exited" THEN SignalFails(p)
                           ELSE Goto(p, "raise") /\ UNCHANGED result
    /\ UNCHANGED <<systemVars, op, sig, registered>>

SignalRaise(p) ==
    /\ pc[p] = "raise"
    /\ IF child = "reaped"
       THEN SignalFails(p) /\ UNCHANGED killed
       ELSE /\ Goto(p, IF sig[p] = "TERM" THEN "grace" ELSE "await")
            /\ killed' = (killed \/ sig[p] = "KILL")
            /\ UNCHANGED result
    /\ UNCHANGED <<child, slave, written, readerVars, mu, vt, subVars, buf,
                   waiterVars, op, sig, registered, watchVars, crashed>>

\* opKill and opStop: an exited session is success, else send the signal.
StopCheck(p) ==
    /\ op[p] \in {"stop", "kill"} /\ pc[p] = "start" /\ mu = "free"
    /\ IF state = "exited"
       THEN Answer(p, "ok") /\ UNCHANGED sig
       ELSE /\ Goto(p, "signal") /\ UNCHANGED result
            /\ sig' = [sig EXCEPT ![p] = IF op[p] = "stop" THEN "TERM" ELSE "KILL"]
    /\ UNCHANGED <<systemVars, op, registered>>

\* opStop's select: the session ends in time ...
StopInTime(p) ==
    /\ pc[p] = "grace" /\ done
    /\ Answer(p, "ok")
    /\ UNCHANGED <<systemVars, op, sig, registered>>

\* Defect: after the timeout SIGTERM is sent again.
StopTimeoutGentle(p) ==
    /\ pc[p] = "grace"
    /\ Goto(p, "signal")
    /\ UNCHANGED <<systemVars, op, sig, result, registered>>

\* ... or the timer fires and it escalates to SIGKILL.
StopTimeout(p) ==
    /\ pc[p] = "grace"
    /\ Goto(p, "signal") /\ sig' = [sig EXCEPT ![p] = "KILL"]
    /\ UNCHANGED <<systemVars, op, result, registered>>

\* Defect: the answer does not wait for the session to be done.
AwaitNothing(p) ==
    /\ pc[p] = "await"
    /\ IF op[p] \in {"remove", "shutdown"}
       THEN Goto(p, "drain") /\ UNCHANGED result
       ELSE Answer(p, "ok")
    /\ UNCHANGED <<systemVars, op, sig, registered>>

\* <-s.done: the end of opKill and opStop, the middle of Close.
AwaitDone(p) ==
    /\ pc[p] = "await" /\ done
    /\ IF op[p] \in {"remove", "shutdown"}
       THEN Goto(p, "drain") /\ UNCHANGED result
       ELSE Answer(p, "ok")
    /\ UNCHANGED <<systemVars, op, sig, registered>>

\* opRemove refuses a running session unless the request says force.
RemoveCheck(p) ==
    /\ At(p, "remove", "start") /\ mu = "free"
    /\ \/ state = "running" /\ Answer(p, "err")
       \/ Goto(p, "close") /\ UNCHANGED result
    /\ UNCHANGED <<systemVars, op, sig, registered>>

\* closeAllSessions empties the registry before it closes the sessions.
Shutdown(p) ==
    /\ At(p, "shutdown", "start")
    /\ Goto(p, "close") /\ registered' = FALSE
    /\ UNCHANGED <<systemVars, op, sig, result>>

\* Close reads the state under s.mu: a running session is killed first.
CloseCheck(p) ==
    /\ pc[p] = "close" /\ mu = "free"
    /\ IF state = "exited"
       THEN Goto(p, "drain") /\ UNCHANGED sig
       ELSE Goto(p, "signal") /\ sig' = [sig EXCEPT ![p] = "KILL"]
    /\ UNCHANGED <<systemVars, op, result, registered>>

\* Defect: Close does not wait for readLoop.
AwaitNoReader(p) ==
    /\ pc[p] = "drain"
    /\ Goto(p, "free")
    /\ UNCHANGED <<systemVars, op, sig, result, registered>>

AwaitReader(p) ==
    /\ pc[p] = "drain" /\ readDone
    /\ Goto(p, "free")
    /\ UNCHANGED <<systemVars, op, sig, result, registered>>

FreeTerminal(p) ==
    /\ pc[p] = "free" /\ mu = "free"
    /\ vt' = "nil"
    /\ IF op[p] = "remove" THEN Goto(p, "deregister") /\ UNCHANGED result
                           ELSE Answer(p, "ok")
    /\ UNCHANGED <<coreVars, subVars, buf, op, sig, registered, watchVars,
                   crashed>>

Deregister(p) ==
    /\ pc[p] = "deregister"
    /\ registered' = FALSE
    /\ Answer(p, "ok")
    /\ UNCHANGED <<systemVars, op, sig>>

Handler(p) ==
    \/ SubscribeWithPrime(p) \/ PrimeFails(p)
    \/ ForwardChunk(p) \/ EndOfStream(p) \/ Unsubscribe(p)
    \/ View(p) \/ Resize(p) \/ SendCheck(p) \/ SendWrite(p)
    \/ StopCheck(p) \/ SignalCheck(p) \/ SignalRaise(p)
    \/ StopInTime(p) \/ StopTimeout(p) \/ AwaitDone(p)
    \/ RemoveCheck(p) \/ Shutdown(p) \/ CloseCheck(p) \/ AwaitReader(p)
    \/ FreeTerminal(p) \/ Deregister(p)

-----------------------------------------------------------------------------

Environment ==
    \/ ChildWrite \/ ChildExit \/ OrphanExit
    \/ \E p \in Procs : ClientChanges(p)
    \/ \E p \in Procs, o \in Ops : Begin(p, o)

\* The program has come to rest; every other stop is a deadlock.
AtRest ==
    /\ \/ crashed
       \/ readDone /\ wpc = "end" /\ \A p \in Procs : pc[p] \in {"idle", "returned"}
    /\ UNCHANGED vars

Next ==
    \/ /\ ~crashed
       /\ Environment \/ Reader \/ Waiter \/ \E p \in Procs : Handler(p)
    \/ AtRest

Spec == Init /\ [][Next]_vars

(***************************************************************************)
(* Go runs every goroutine that can run, hands a contended sync.Mutex to a *)
(* waiter in the end (its starvation mode) and a free channel slot to the  *)
(* blocked sender: strong fairness of each goroutine.  A timer fires.  The *)
(* kernel carries out a SIGKILL.  Nothing makes the child write or exit, a *)
(* client read, or a request arrive.                                       *)
(***************************************************************************)
Fairness ==
    /\ SF_vars(~crashed /\ Reader)
    /\ SF_vars(~crashed /\ Waiter)
    /\ \A p \in Procs : SF_vars(~crashed /\ Handler(p))
    /\ WF_vars(~crashed /\ killed /\ ChildExit)

FairSpec == Spec /\ Fairness

-----------------------------------------------------------------------------
(* Properties                                                              *)

EnvType ==
    /\ child \in {"alive", "dead", "reaped"} /\ killed \in BOOLEAN
    /\ slave \in {"open", "hup"} /\ tty \in {"open", "closed"}
    /\ written \in 0..MaxChunks

ReaderType ==
    /\ read \in Nat /\ screen \in Nat /\ read <= written
    /\ mu \in {"free", "readLoop"}
    /\ rpc \in {"read", "got", "fanout", "exit"}
    /\ pending \subseteq Procs /\ target \in Procs \cup {None}

SharedType ==
    /\ vt \in {"open", "nil"} /\ state \in {"running", "exited"}
    /\ subs \subseteq Procs /\ closed \subseteq Procs
    /\ wpc \in {"wait", "mark", "closePty", "closeDone", "end"}
    /\ done \in BOOLEAN /\ registered \in BOOLEAN /\ crashed \in BOOLEAN

HandlerType ==
    /\ op \in [Procs -> Ops \cup {None}]
    /\ pc \in [Procs -> {"idle", "start", "stream", "leave", "write", "signal",
                         "raise", "grace", "await", "close", "drain", "free",
                         "deregister", "returned"}]
    /\ sig \in [Procs -> {"TERM", "KILL", None}]
    /\ result \in [Procs -> {"none", "ok", "err"}]

WatchType ==
    /\ buf \in [Procs -> Seq(Nat)]
    /\ client \in [Procs -> {"reading", "stalled", "gone"}]
    /\ last \in [Procs -> Nat] /\ eof \subseteq Procs

(* Every variable stays within the values listed for it.                   *)
TypeOK == EnvType /\ ReaderType /\ SharedType /\ HandlerType /\ WatchType

(* readLoop never sends on a closed channel, which would panic: the channel *)
(* it is committed to stays registered and open until the send is done,    *)
(* whatever unsubscribes, watch ends and the child's exit do meanwhile.    *)
NoSendOnClosed == target # None => target \in subs /\ target \notin closed

(* No gap, no repetition, no reordering: what is queued for a watcher is    *)
(* exactly the run of chunks that follows what its client has, the screen  *)
(* it was primed with included; and a registered watcher lacks nothing of  *)
(* what the terminal has parsed, but the chunk readLoop still owes it.     *)
StreamContiguous ==
    \A p \in Procs :
        At(p, "watch", "stream") =>
            /\ \A i \in 1..Len(buf[p]) : buf[p][i] = last[p] + i
            /\ p \in subs => last[p] + Len(buf[p])
                               + (IF p \in pending THEN 1 ELSE 0) = screen

(* Close frees the terminal only once nothing inside the session can touch  *)
(* it any more: readLoop has returned (the comment on the wait in Close),  *)
(* the session is marked exited, and no watcher is registered.             *)
TeardownLast == vt = "nil" => readDone /\ state = "exited" /\ subs = {}

(* A session reported as done is really over: reaped, exited, and without   *)
(* a channel left open that nobody would ever close.                       *)
DoneIsFinal ==
    done => child = "reaped" /\ state = "exited" /\ subs = {} /\ tty = "closed"

(* A successful stop or kill means the child is gone and the session says   *)
(* so, however the handlers, their timeouts and waitLoop interleaved; a    *)
(* successful remove means the terminal is freed and the entry dropped.    *)
OkIsTrue ==
    \A p \in Procs : result[p] = "ok" =>
        /\ op[p] \in {"stop", "kill"} => child = "reaped" /\ state = "exited"
        /\ op[p] \in {"remove", "shutdown"} => vt = "nil" /\ ~registered

(* Once the session has exited it stays exited and nobody is registered     *)
(* again: a late watcher gets a closed channel and no watcher is orphaned. *)
NoLateSubscriber == [][state = "exited" => state' = "exited" /\ subs' = {}]_vars

(* Stop and Close end, in opStop, opRemove and closeAllSessions: a child     *)
(* that ignores SIGTERM is killed after the timeout, waitLoop closes the    *)
(* master, and that lets readLoop return.                                  *)
EndReturns == \A p \in Procs :
    (At(p, "stop", "start") \/ pc[p] = "close") ~> (pc[p] = "returned" \/ crashed)

(* Every watcher hears of the end of the session and leaves.                *)
WatchersEnd == \A p \in Procs :
    (state = "exited" /\ pc[p] = "stream") ~> ((p \in eof /\ pc[p] = "returned") \/ crashed)

(* A chunk that was parsed while p was subscribed reaches p's client, also   *)
(* when the session ends with the chunk still queued.                      *)
ChunksDelivered == \A p \in Procs, n \in 1..MaxChunks :
    (p \in subs /\ screen >= n) ~> (last[p] >= n \/ crashed)

-----------------------------------------------------------------------------
(* The watch flow implements Feed.                                         *)

feedMode == [p \in Procs |->
    IF op[p] # "watch" \/ pc[p] \in {"idle", "start"} THEN "out"
    ELSE IF p \in eof THEN "ended"
    ELSE IF pc[p] \in {"leave", "returned"} THEN "left"
    ELSE IF p \in closed THEN "cut" ELSE "live"]

feedGoal == [p \in Procs |->
    IF feedMode[p] = "cut" THEN last[p] + Len(buf[p]) ELSE 0]

F == INSTANCE Feed WITH Watchers <- Procs, log <- screen, pos <- last,
                        mode <- feedMode, goal <- feedGoal

(* Every behaviour of the session is, seen by the watchers' clients, a      *)
(* behaviour of Feed.                                                      *)
ImplementsFeed == F!Spec

=============================================================================
