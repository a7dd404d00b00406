# headless-terminal in TLA+

`ht` runs programs on pseudo-terminals inside a daemon, so that scripts can type
into them, look at their screens and wait for what happens. This directory holds
a TLA+ model of the daemon's core (sessions, registry, watches, waits, sends), of
how keys are sent, of how commands start, find and stop the daemon, and of
`ht watch` and `ht record`, the TLC runs that check it, and TLAPS proofs about it.
Line numbers refer to the source at the modelled commit: S is
`internal/session/session.go`, D is `internal/daemon/daemon.go`, W is
`internal/wait/wait.go`, K is `internal/keys/keys.go`, C is
`internal/client/client.go`.

## 1. The system

| component | state | operations | interacts with |
|---|---|---|---|
| **Session** (S) | the child, the PTY master, the terminal `vt`, `state`, `subs` (channels of capacity 64), `done`, `readDone`; all but the channels under `s.mu` | `Start`, `readLoop`, `waitLoop`, `Subscribe`, `SubscribeWithPrime`, `View`, `Resize`, `Send`, `SendPaced`, `Stop`, `Kill`, `Wait`, `Close` | the kernel (PTY, signals); one handler goroutine per request calls it |
| **Daemon** (D) | `sessions`, `names`, `pendingWatches` under `d.mu`; `shutdown` | `Run`, `handleConn` and one `op...` per request, `resolve`, `closeAllSessions` | sessions (calls with and without `d.mu`), connections, signals |
| **Wait** (W) | the local state of one call: the last look, the idle timer, the deadline | `Wait` | subscribes to a session; called by `opWait` and `opSend` |
| **Client** (C) and start-up | the socket file and who has bound it | `EnsureDaemon` (dial, fork, poll), `call`, `Watch`; `Run` removes, binds and at its end removes the file; `ht daemon stop` | commands and daemons, which are processes; signals, crashes |
| **Keys** (`internal/keys`) | none | key names to bytes | used by `ht send` |
| **Viewers** (`ht watch`, `ht record`) | the mode of the user's terminal; the recording's header and encoder | a goroutine runs `Watch`, main selects over it and a signal, and restores the terminal | the client, the daemon's `opWatch` |
| other commands (`cmd/ht`) | none | one request each, and printing | the client |
| protocol, termshot, libghostty-vt | | plain records; drawing of screenshots (vendored); the terminal emulator (third party, cgo) | |

What is hard about it:

* *Concurrency inside a session.* Any number of handlers use a session while
  `readLoop` and `waitLoop` run. `readLoop` holds `s.mu` while it sends to the
  subscribers' channels, and these sends block (S 197-199).
* *The end of a session.* The child's exit, its reaping, the marking under
  `s.mu`, the closing of the channels, of the master and of `done`, the end of
  `readLoop` and the freeing of the terminal by `Close` are separate steps, and
  they race with signals, timeouts, late subscribers and further closers.
* *Check-then-act in the daemon.* The name check, the resolve of a watch and the
  resolve of every handler are critical sections of their own; what follows uses
  their result after the unlock.
* *Hand-over of waiting watches* between a run, the watch's own disconnect and
  the shutdown.
* *Shutdown* while handlers run: nothing waits for them.
* *Keystrokes.* What the user types as one key must reach the child in one write,
  but `SendPaced` has only the bytes to tell where a key ends.
* *A wait's select* over four sources, any of which may be ready together; and
  `opSend` types, sleeps, and only then subscribes.
* *The socket file* is removed by path, by each daemon at its start and twice at
  its end, whoever has bound it; a probe, a fork, a poll and a dial of one command
  see different moments of it.
* *A viewer's way out.* Main restores the terminal while its goroutine may still
  be about to change it.

What makes each component correct: a watcher's stream has no gap, repetition or
reordering and ends after its last chunk; no send on a closed channel, no use of
a freed terminal; an answer "ok" is true; stop, kill, remove, waits and watches
end; the two maps agree; no child is lost; a waiting watch is served once, with
a session of its name; a wait reports what is the case; a paced send is the bytes
in order, one whole keystroke per write; a command finds a daemon or says why
not, and ends; a viewer shows all it was sent and resets the terminal it changed.
`PROJECT.json` lists the hazards line by line with the properties that cover them.

## 2. The modules

| module | models | role |
|---|---|---|
| `Session` | S 115-244, 340-555; D 236-318, 498-523 | one session, its two goroutines, the handlers on it |
| `Feed` | the promise of `ht watch` | abstract specification; `Session` implements it |
| `SessionProofs`, `FeedProofs` | | theorems about `Session`, and that it implements `Feed` |
| `Daemon` | D 47-318, 451-523, 560-612 | registry, watch queue, handlers, shutdown |
| `Wait` | W 68-251, S 403-427, D 320-398, 525-557 | `Wait`, `opWait` and `opSend`, composed with `Session` |
| `Keystrokes` | K 25-204, S 235-337 | key notation to bytes, paced writes |
| `Spawn` | C 22-122, D 57-105, `cmd/ht/daemon.go` 18-68, `common.go` 14-21 | commands, daemons and the socket file |
| `Viewer` | C 186-246, `watch.go` 17-34, 57-112, `record.go` 84-131, D 498-523 | `ht watch` and `ht record`, composed with `Spawn` |
| `DaemonProofs`, `WaitProofs`, `KeystrokesProofs` | | theorems about the module of the name |
| `SpawnProofs`, `ViewerProofs` | | the inductive invariant of `Spawn`; theorems about `Spawn` and `Viewer` |
| `MCSession`, `MCDaemon`, `MCWait`, `MCKeystrokes`, `MCViewer` | | constants for TLC |
| `SessionClaims`, `DaemonClaims`, parts of `MCWait` | | what comments and tests say and the code does not do |

**Session.** A critical section of `s.mu` that cannot block is one step guarded by
`mu = "free"`. `readLoop`'s section is spread over `ParseChunk`, `PickTarget`,
`SendChunk` and `FanoutDone` with `mu = "readLoop"`, because it blocks inside: once
the `range` has reached a channel (`PickTarget`) the loop is committed to it. Output
is abstracted to positions: chunk *n* is the *n*-th successful Read, `screen` is the
last chunk the terminal has parsed, and a primed watcher is one whose client has
everything up to `screen`. `subs`, `closed`, `buf` are the map, the closed channels
and the channels' contents; a channel is named by the handler that receives from it.
`rpc`, `wpc` and `pc` are the goroutines' positions. A handler takes one of eight
operations: `watch`, `view`, `resize`, `send`, `stop`, `kill`, `remove`, and
`shutdown`, which is `closeAllSessions` with this session in it. `Close` is the path
`close` to `free` that `remove` and `shutdown` share. `crashed` says that a method
has handed a nil terminal to libghostty, which brings the process down. The
environment: the child writes and exits at any time, ignores SIGTERM if it likes,
leaves descendants that keep the slave side open (`OrphanExit`); clients in
`FaultyClients` stall or disconnect. libghostty may fail: a `View`, a `Resize` or
the snapshot of a prime (`PrimeFails`) answers an error. Taking a chunk from a
channel and writing its frame are one step (`ForwardChunk`), which blocks while the
client is stalled and fails when it is gone.

**Feed.** `log`, and per watcher a position, a mode and a goal. A watcher
attaches at the end of the log, is delivered the later entries one by one, and
gets the end-of-stream notice exactly when it has everything up to the cut. The
mapping is at the end of `Session`: `log <- screen`, `pos <- last`, the mode from
the handler's position and its channel, the goal from what is queued in a closed
channel.

**Daemon.** A critical section of `d.mu` is one step, but `opList`'s, which takes
each session's lock while it holds `d.mu`. Sessions are abstracted to their
life; a session that is `stuck` has its `s.mu` held for as long as some receiver
does not receive. `opKill` stands for every handler that resolves a session and
then uses it. `pendingWatches` is the queue by name, `waiters` what a run has
taken off it, `ready` the content of a watch's channel of capacity one; a watch that
disconnects drops its first entry of the queue, as the loop in `opWatch` does. `Main`
is `Run` after its accept loop: `StopServing`, `EmptyRegistry`, `CloseNext`,
`Exit`. IDs are drawn fresh; one name of the model is also a prefix of an ID,
since `resolve` tries both.

**Wait.** Extends `Session`: the handlers in `Waiters` run waits, the others what
`Session` lets them. The text and cursor conditions are one predicate on the screen
that `View` returns, true on the screens in `TextOn`. All four places where the code
evaluates the conditions are `Look` (the View, under `s.mu`) and `Judge` (`allMet`,
which takes `s.mu` again for an exit condition); an error of the View ends the wait.
The select's cases are one action each, and a chunk is `Receive`, `RestartIdle`
(Stop, drain, Reset) and the reset of `idleFired`. The idle timer runs from the
chunk `since`; when it expires, `tick` holds that chunk until the select takes it,
and the history variable `idleFrom` remembers it. A request with "send" is `opSend`:
`TypeCheck` and `TypeKeys` are `SendPaced` (the writes in one step; `Keystrokes` has
them one by one), then the wait if it was asked for, then `ViewAfter` if it was
asked for and the wait has matched or timed out; after an error there is no view.
The history variable `base` is what the child had written when the keys came. Left
out: the label of the trigger and the early errors for no condition or a bad
expression.

**Keystrokes.** A key is a record of a base (one per class that the parser tells
apart) and its modifiers; a byte is one of ten classes that `escapeSeqEnd` tells
apart, and a rune of several bytes is one of two. `Parse` is `ht send` turning
keys into bytes (`ParseAll`, `parseSpecial`, `resolveBase`, `named`); `--raw`
sends any bytes. `Check`, `SendAll`, `SendKey` and `Finish` are `SendPaced`, one
step per write, against `SessionEnds`, in which `waitLoop` marks the session and
then closes the master. The grammar of keystrokes (`IsKeystroke`) is written from
the comments, apart from the code's scan (`escapeSeqEnd`).

**Spawn.** A command is a process `c` that starts at most one daemon, called `c`
too; `RunDaemon` is `ht daemon` by hand, which becomes a daemon without a probe.
`EnsureDial`, `SpawnDaemon`, `PollDial`, `PollTimeout` are `EnsureDaemon`;
`Dial` is the connection of `call` or `Watch`, refused if the file is missing or
the process that bound it has closed it. A daemon is `RemoveStale`, `Bind`, then
`Accept` and `Serve` until it is asked to stop by a request or a `Signal`; then
`StopServing` to `CloseListener` are `l.Close()`, which unlinks the path before it
closes the descriptor, and `RemovePath` and `Exit` are the deferred function of
`Run`. `path` names the daemon whose file is there, and `Crash` leaves it there; or
it is `Foreign`, a file that `os.Remove` cannot remove, which the code does not notice
before `Listen` fails. `Wedge` is finding 2: from then on the daemon has a session
whose `Close` never returns, so that `closeAllSessions` (`Exit`) does not, either.
`conn` is the daemon that the command's last dial has reached.
Connections that the process has not answered when it closes are lost. The
history variable `rivals` is who lived or was being started when a daemon bound
the file. What a handler does before it answers is abstracted to `Serve`.

**Viewer.** Extends `Spawn` with the two goroutines of a watch or a recording:
`ReadAck`, `Ready` (OnReady), `ShowFrame` or `ShowFails` (OnFrame), `ReadEOF`,
`ReadFails` are `client.Watch`. `stream` is the end of what the daemon has sent: the
EOF frame, or nothing, if the prime fails after the ack (`DropStream`, D 505-508).
`Restore` and `ProcessExit` are main after its select, `Interrupt` a signal. After a
signal nothing orders main's read of `waiting` with the goroutine's write, so it may
read either value (`waitingRead`). `term` is what is set on the user's terminal: the
alternate screen, the modes that `termModeReset` lists, and the others, of which a
frame may set and reset any and `Restore` resets the first two kinds. `header` says
whether the first line of the recording could be written: OnReady drops that error,
but the encoder keeps it and the first frame returns it. A connection that ends
without EOF is no error.

**Defects.** Definitions marked "Defect" are not part of the specifications.
Each is a faulty variant of the definition after it (a send that drops, a missing
close, a missing reset, ...), and `PROJECT.json` ("mutants") says which property
tells the two apart: putting the variant in the definition's place makes TLC
report that property violated, so every property is sensitive to the code.

## 3. The runs

Times are with two TLC workers; states are distinct states.

| run | instance | properties |
|---|---|---|
| `session_safety` (857 000 states) | 2 handlers, all operations, both clients faulty, 3 chunks, channels of 2, PTY buffer of 1 | `TypeOK`, `NoSendOnClosed`, `StreamContiguous`, `TeardownLast`, `DoneIsFinal`, `OkIsTrue`, `NoLateSubscriber`, `ImplementsFeed` |
| `session_live` (102 000) | 2 handlers, watch, stop and remove, 2 chunks, channels of 1 | `EndReturns`, `WatchersEnd`, `ChunksDelivered`, no deadlock |
| `daemon_safety` (1 670 000) | 3 handlers (symmetric), 2 names, 2 IDs, all operations, stuck sessions | `TypeOK`, `NamesResolve`, `WaiterInOnePlace`, `DeliverNeverBlocks`, `WatchGetsItsSession`, `NoLostChild`, `EndLeavesOnly` |
| `daemon_live` | 2 handlers, 1 name, 2 IDs, no stuck sessions | `RequestsAnswered`, `ShutdownCompletes`, `FulfilledWatchesStream` |
| `wait` (301 000) | 1 wait or send out of five requests, 1 remover, 2 chunks, channels of 1 | `WaitTypeOK`, `NoMissedOutput`, `IdleMeansQuiet`, `MatchIsTrue`, `WaitReturns` |
| `keystrokes` (4 400 000) | all byte sequences up to 5, all sequences of up to 2 unambiguous keys | `BytesInOrder`, `WholeKeystrokes`, `OneWritePerKey`, no deadlock |
| `client` (69 000) | 2 commands that need a daemon; one, an `ht daemon` and a stop; a watch and a stop; a recording and a stop; 1 signal, crash or stuck session, 2 frames | `ViewTypeOK`, `OnlyRivalsTakeTheSocket`, `StaleNeverBlocks`, `RefusedForCause`, `TerminalRestored`, `StreamWhole`, `CommandsEnd`, `StopTakesEffect`, `ViewEnds` |

*What they show.* Watchers see the session's output from their first screen on
without gap or repetition, whatever subscribes, leaves and exits meanwhile
(`StreamContiguous`, `ImplementsFeed`); with clients that read, they get all that
was parsed while they were subscribed (`ChunksDelivered`) and the end
(`WatchersEnd`). `readLoop` never sends on a closed channel, because unsubscribe
and exit need the lock it holds (`NoSendOnClosed`). `Close` frees the terminal
after everything inside the session is over (`TeardownLast`), for any number of
closers, and ends (`EndReturns`) also when descendants keep the slave side
open, because `waitLoop` closes the master. A stop ends and is true even for a
child that ignores SIGTERM (`EndReturns`, `OkIsTrue`).

In the daemon, the maps never hold a stale name; a running child's session is
registered, about to be, or on the list of those to close (`NoLostChild`); when the
process ends, it leaves running only the children of runs that had not come to
register them and, if it ends by the panic of such a run, those of the sessions
still to be closed (`EndLeavesOnly`). A waiting watch is in the queue, in one
run's hands or served, exactly once.

While a wait is registered, which it is until the session exits, it misses no output
(`NoMissedOutput`); after the exit finding 3 applies. A match for quiet goes by a
tick of the timer that was counted from the last chunk the wait has taken, never by
a tick from before it (`IdleMeansQuiet`). A wait with a timeout and a send without a
wait end but for the deadlock of finding 2; a wait for quiet without a timeout
ends but for that deadlock and for a child that writes for ever, which restarts the
timer each time, as `waits.md` 45-51 warns (`WaitReturns`; output goes on for ever
only in the formula, since `MaxChunks` bounds it in the instance). A send types and
then waits as a wait of its own, and what it answers is true in the same way.

A paced send loses and repeats nothing, and says "ok" only if all was written
(`BytesInOrder`); no write holds half a sequence or rune unless the data itself
ends there (`WholeKeystrokes`); and each key of the notation is one write
(`OneWritePerKey`), but for the ambiguous ones below.

The socket file of a serving daemon is taken only by a daemon that was alive or
being started when it bound the file, or by one run by hand
(`OnlyRivalsTakeTheSocket`): the probe before the fork is good against all others,
and the property says no more than that. What is in a daemon's way when it binds is
the file of such a rival or one that cannot be removed, never that of a daemon that
died before (`StaleNeverBlocks`). A command that has made sure of its daemon is
refused only if that very daemon has ended or been asked to since, or if a rival or
one run by hand got in its way (`RefusedForCause`). Every command ends
(`CommandsEnd`), but a request that has come to a daemon with a stuck session; and a
daemon that answered a stop exits, or has at least given up its socket when a stuck
session keeps it from the exit (`StopTakesEffect`). A watch that was not interrupted
leaves neither the alternate screen nor a mode that `termModeReset` lists
(`TerminalRestored`). A viewer that reports no error has come to its session's end,
lost its daemon or been dropped before its first screen, and a recording with frames
has its header (`StreamWhole`); and a viewer ends with the first of these
(`ViewEnds`).

*Bounds.* `MaxChunks`, `ChanCap`, `TtyCap` in `Session`, `Ids` in `Daemon`,
`MaxFaults` in `Spawn` (signals, crashes and stuck sessions of daemons together),
`MaxFrames` in `Viewer`. The
blocking of a full channel, which the capacity of 64 makes rare, happens from the
second (or third) chunk on; a chunk more than the capacity fills the channel and
leaves one to wait for. Two handlers suffice for every pairwise race with the two
goroutines. For every safety property of the passing runs the proofs of section 4
remove the bounds; for liveness they stay. Three connections are what
the longest scenario of the registry takes: two runs of one name, or two
removals and a run. `Begin` lets each handler make one request; a client that
makes two is two handlers. Five bytes hold the longest form the code has a case
for, OSC with its two-byte terminator and a byte inside, or two shorter ones. Two
commands that start daemons are what it takes for one to remove the other's file,
a third to stop one at any point, and one crash for a stale file; a
frame after the first is where a failed write or the end of the connection finds
something already shown.

*Deadlock* is checked where the code should never stop. `session_safety` and
`wait` have it off because the session can really stop for good there
(findings 2), `client` because its commands, which are finitely many, finish;
`Daemon` stutters once the process is gone.

*Symmetry* is used for the handlers of `daemon_safety`: they differ in nothing
but their requests, and its properties are invariants and one action property.

*Fairness.* Strong fairness of `readLoop`, of `waitLoop` and of every handler or
wait: Go schedules every goroutine that can run, a `sync.Mutex` hands itself to a
waiter that has waited for a millisecond (starvation mode), blocked channel senders
are served in order, and `select` chooses at random among what is ready; by this
last a deadline that has passed is noticed in the end, whatever the output (strong
fairness of `TakeTimeout`). Weak fairness of the death of a child that was sent
SIGKILL, and of timers. No fairness of the child otherwise, of clients, of
descendants, of requests. The liveness runs of `Session` have clients that read;
`daemon_live` has no stuck session. In `client`, weak fairness of every process and
of both goroutines of a viewer, which includes the three seconds of the poll running
out and a handler's answer to anything but a watch (`RequestsAnswered` is the run
that asks when it has one), unless it is a request other than a stop and its daemon
has a stuck session (`Served`); none of the start of commands, of what sessions
write and when they end, of signals and crashes. Without these assumptions the
properties fail, see the findings.

### Where code and documentation differ

Each is a run that ends in a violation; `PROJECT.json` quotes the lines.

1. `claim_concurrent_use`: "Safe for concurrent use." A view or a watch that
   resolved its session before a concurrent remove closed it uses the nil
   terminal.
2. `claim_wait_deadline`: "Timeout: overall deadline." `readLoop` holds `s.mu` and
   waits for room in a wait's channel; the wait, its only receiver, waits for
   `s.mu` to look at the screen. Neither goes on, the timeout is never looked at,
   and the session is locked for everyone: kill, list and shutdown included.
3. `claim_eof_after_output`: a watch can get its EOF frame before the child's last
   output, since `waitLoop` ends the watches when the child is reaped, not when
   `readLoop` has drained the terminal.
4. `claim_watch_left_behind`: a watch that resolves before and queues after a run
   of its name waits on.
5. `claim_change_after_send`: "after send, wait for any output chunk to arrive".
   `opSend` subscribes only after the last key, its trailing delay and the settle
   time, so that a child's prompt answer is not the change that is waited for.

Visible in the models and without a run of their own:

* Two concurrent runs can register one name, since the check and the insertion are
  two critical sections (`RunCheck`, `RunInsert`; `daemon_test.go` 206-208 expects a
  second run to fail). A run in flight when the shutdown sets the maps to nil
  panics, in spite of "stop triggers a graceful shutdown" (D 107), and leaves
  behind its child and the sessions that had still to be closed.
* "Clean up a stale socket from a previous crashed run" (D 63) removes whatever is
  there. Of two commands that find no daemon each may start one, and one of the
  two daemons then lives without a socket until a signal comes; a daemon that
  exits can take the file of its successor with it (D 75); a command whose poll
  succeeded can still be refused. `ht daemon` run by hand beside a live daemon
  (`cmd/ht/daemon.go` 18-28) takes that one's file in the same way (`RunDaemon`).
* "Stale socket from a crashed daemon? ... remove the socket file manually"
  (`troubleshooting.md` 63): the code removes it itself, by D 64, so that it is never
  why a daemon does not start (`StaleNeverBlocks`). A file of another user's, which
  line 64 of the same page names, is in the way: the error of the removal is dropped, the
  daemon fails to listen, and the command polls until it gives up (`Foreign`).
* `ht daemon stop` with no daemon running is an error, although "If the daemon is
  already down, treat as success": the dial's error is a `*net.OpError`, which
  `errors.As` with a `*os.PathError` does not match. And a command that comes right
  after a stop may reach the daemon that is closing, and fail. With a session stuck
  by finding 2 the daemon that has answered "ok" does not exit, though it gives up
  its socket.
* An interrupted watch can leave the alternate screen or a mode behind: its
  goroutine writes on after the restore, and `waiting` is read without
  synchronisation. `TerminalRestored` therefore speaks of the others. And what
  `termModeReset` does not list, such as application cursor keys, focus reports, the
  keypad mode, the cursor's shape or a scroll region, stays set after any watch
  ("exiting restores the user's shell state", `watch.go` 18).
* A header that could not be written goes unnoticed if no frame comes; and the loss
  of the daemon, or a watch it drops because the first screen cannot be formatted
  (D 505-508), is reported as a normal end (`StreamWhole` says just this).
* A wait for quiet can match while a chunk lies in its channel, when the select
  prefers the tick ("no PTY output for this duration", W 20).

Also: opStop and opKill may answer "session has already exited" although a comment
says "Idempotent: already-exited is success" (`SignalFails`); `Session.Wait`
returns before the reader has drained; a watcher that leaves with a full channel
cannot unsubscribe; a removal can drop the name of another session of that name.

Keys that the bytes do not tell from others are left out of `OneWritePerKey`
(`Ambiguous` in `Keystrokes`). "Plain ASCII chars are one keystroke each" (S 254),
but a plain character after a bare `<Esc>`, as in `<Esc>:wq`, is written together
with it, as the alt-key it looks like; `<M-Up>` is written as ESC ESC, `[` and
`A`; `<M-[>`, `<M-O>`, `<M-]>` begin a sequence that takes in what follows; and meta
with a character of several bytes is ESC with its first byte, then the others
("multi-byte UTF-8 runes are never split", S 253). With these
keys allowed, TLC shows each of them as a violation.

## 4. The proofs

Every invariant and every action property of the passing runs is a theorem, and so
is the refinement, for every value of the constants:

| module | theorem | property |
|---|---|---|
| `SessionProofs` | `TypeCorrect` | `TypeOK` |
| | `Inductive` | `IInv`, the inductive invariant |
| | `SendsAreSafe` | `NoSendOnClosed` |
| | `StreamsAreContiguous` | `StreamContiguous` |
| | `TeardownIsLast` | `TeardownLast` |
| | `DoneMeansOver` | `DoneIsFinal` |
| | `AnswersAreTrue` | `OkIsTrue` |
| `FeedProofs` | `ExitIsFinal` | `NoLateSubscriber` (an action property) |
| | `SessionImplementsFeed` | `ImplementsFeed` |
| `DaemonProofs` | `Inductive` | `IInv`, the inductive invariant |
| | `TypeCorrect` | `TypeOK` |
| | `RegistryConsistent` | `NamesResolve` |
| | `WatchFindsSession` | `WatchGetsItsSession` |
| | `ChildrenKept` | `NoLostChild` |
| | `DeliveryFree` | `DeliverNeverBlocks` |
| | `WaiterNeverLost` | `WaiterInOnePlace` |
| | `EndAccounted` | `EndLeavesOnly` (an action property) |
| `WaitProofs` | `WaitInductive` | `WaitInv`, the inductive invariant |
| | `WaitTypeCorrect` | `WaitTypeOK` |
| | `OutputNotMissed` | `NoMissedOutput` |
| | `IdleMatchIsQuiet` | `IdleMeansQuiet` |
| | `MatchesAreTrue` | `MatchIsTrue` |
| `KeystrokesProofs` | `KeystrokeEndCorrect` | where `keystrokeEnd` cuts bytes of any length, against the grammar |
| | `KeyInductive` | `KeyInv`, the inductive invariant |
| | `BytesArriveInOrder` | `BytesInOrder` |
| | `WritesAreKeystrokes` | `WholeKeystrokes` |
| | `KeysWrittenWhole`, `PlainKeysWrittenWhole` | `OneWritePerKey` |
| `ViewerProofs` | `ViewInductive` | `ViewInv`, the inductive invariant |
| | `ViewTypeCorrect` | `ViewTypeOK` |
| | `SocketTakenByRivals` | `OnlyRivalsTakeTheSocket` (an action property) |
| | `StaleSocketRemoved` | `StaleNeverBlocks` |
| | `DialRefusedForCause` | `RefusedForCause` |
| | `TerminalLeftClean` | `TerminalRestored` |
| | `StreamComplete` | `StreamWhole` |

Assumptions: the `ASSUME`s of the modules and no others, but for
`PlainKeysWrittenWhole`. In `Session`, `None` is no handler, the operations are
among the eight, the bounds are naturals and the capacities positive; in `Wait`,
waits are handlers and their requests are what `Wait` understands; in `Daemon`,
`None` is no connection, name or ID, names are no IDs, and prefixes are of IDs;
in `Keystrokes`, keys are keys and bytes are bytes; in `Spawn` and `Viewer`,
scenarios give each command a kind, and the bounds are naturals.
`PlainKeysWrittenWhole` assumes what its name says of the keys users type;
`KeysWrittenWhole` says it of one send instead, and assumes nothing.

Hardly any of the properties is inductive alone. The invariants that are follow; TLC
has checked each on the instance of the component's safety run, but for
`KeyByKeyInv`, which quantifies over functions:

**Session** (`IInv`).

* `LockInv`: who holds `s.mu`. `readLoop` holds it exactly while it fans out, and
  only then is there a pending or a committed subscriber. From it: nobody can
  close the channel `readLoop` is sending to.
* `ExitInv`: how far the end of the session has come. `wpc` orders reaping,
  marking, closing the master and closing `done`; a session past the marking has
  no subscriber.
* `ChannelInv`: what is registered is not closed and belongs to a handler that
  streams or leaves; what is still pending in the fan-out is registered.
* `HandlerInv`: what a handler's position says: past `drain` the reader is done,
  past `free` the terminal is nil, a handler that awaits has signalled or met an
  exited session.

The proof of the step goes component by component: frame lemmas
(`EnvironmentFrame`, `ReaderFrame`, `WaiterFrame`, `HandlerFrame`) say what each
part of `Next` leaves alone, `NextCases` splits a step, and each conjunct of
`IInv` has its own step lemma. The stream property uses one fact about sequences
throughout: an append at the end and a tail at the front keep "the i-th entry is
`last + i`".

**The refinement** adds to `IInv` only where a watch can be (`WatchInv`).
`SessionImplementsFeed` maps each step: parsing a chunk appends to the log, the
subscription attaches at its end, forwarding a chunk delivers the next entry, the
marking of the exit cuts every live feed at the end of the log, which is where the
content of each channel ends, and everything else stutters. That the delivered chunk
is the *next* one is `StreamContiguous`.

**Daemon** (`IInv`). What each handler knows at each point of its code, after the
lock under which it learnt it is gone (`RequestInv`, `HandlerInv`); where each
running child is (`ChildInv`); and for the waiting watches `QueueInv` (what a queue
or a run holds is a watch that waits under that name, without repetition) and
`PlaceInv` (never in two places, and a parked one in at least one).
`WaiterInOnePlace` counts occurrences; the count follows from these two.

**Wait** (`WaitInv`). On top of the session's types: what is on its way to a wait
is on the screen already (`ChunkInv`), since `readLoop` parses before it hands
out; a wait that is about to block with nothing on its way has looked at this
screen (`LookInv`), since it subscribes before its first look and looks again
after each chunk; a run of the idle timer, a tick in its channel and `idleFired` go
by the last chunk taken (`IdleInv`), which is where Stop, drain, Reset and the reset
of `idleFired` are all needed; and a match is the last thing a wait does (`MatchInv`).
`SessionFrame` says what a step of the session can do to a wait, so that the
session's actions are gone through once.

**Keystrokes** (`KeyInv`). Below it is `KeystrokeEndCorrect`: whatever the bytes
and wherever the scan starts in them, the run it cuts off is one keystroke of the
grammar, or the data ends inside a sequence (one lemma for each kind of sequence).
`JunctionInv` says that a write of a lone first byte of a rune is not followed by
the rest of that rune. For `OneWritePerKey`, `KeyByKeyInv` says that the next byte
to write is where the next key begins: what a plain key stands for is a unit
(`PlainUnits`) whose end the scan finds whatever comes after it (`UnitEnd`).

**Spawn and Viewer** (`SpawnInv`, `ViewInv`). `StartInv`: who forks has no daemon
yet. `SoleInv`: while a daemon serves and has its file, whoever else lives or is
about to fork did so when it bound, or is run by hand, as every other command's
probe finds the daemon and does not fork. `Cause` and `DialInv`: that nothing has
gone wrong and a command has found its daemon means that the daemon is reachable,
step by step until the dial.
`BeforeInv`, `GoroutineInv` and `MainInv` say what a viewer's goroutine and main
have done at each point; main restores the terminal only when the goroutine is
done, but for interrupts. `SpawnProofs` proves the steps of `Spawn` with the moves
that `Viewer` adds, so that the invariant of both is proved once.

*Induction.* The library's induction theorems cannot be used, as they take an
operator. `KeystrokesProofs` takes the well-foundedness of `<` from the library
instead (`Smallest`) and derives induction as a fact about a set (`Climb`); with it
`ParsePrefixes` says what the recursive function in `ParseAll` computes, for every
sequence of keys.

*Only model-checked:* liveness (`EndReturns`, `WatchersEnd`, `ChunksDelivered`,
`RequestsAnswered`, `ShutdownCompletes`, `FulfilledWatchesStream`, `WaitReturns`,
`CommandsEnd`, `StopTakesEffect`, `ViewEnds`), since fairness and `ENABLED` are out
of the prover's reach; the absence of deadlock; and the findings, which are
counterexamples.

## 5. Not modelled, and what comes next

The operations that change state are modelled, and the safety properties are
proved. What is left to do is proofs that go beyond the runs:

* The session's own invariant `IInv` in `Wait`, where waits subscribe and
  unsubscribe next to the session's handlers.
* The state predicates that the liveness properties rest on, such as that a
  handler that waits for `done` waits for steps that are enabled.

Not modelled, and why:

* `termshot` is vendored drawing without state, libghostty is third-party code
  behind cgo, and the protocol is plain records: their fields are the parameters of
  the actions.
* Argument parsing and printing, and with them the cut of durations to whole
  milliseconds; the encoding of requests and of frames, so that a rune split
  between two frames, which a recording turns into replacement characters, is not
  seen.
* Errors of the file system other than a socket file in the way or one that cannot
  be removed: of `prepareSocketDir`, of the opening of a recording, and of `Accept`
  other than by its closing; the random choice of IDs, which are drawn fresh.
* Which data libghostty leaves when it fails: a `View`, a `Resize` or a prime may
  answer an error at any time, and the screen stays as it is. `readLoop` drops the
  error of its `Write` (S 193), so that one has no step of its own.
* Time: timers and deadlines fire sooner or later, in every order.
