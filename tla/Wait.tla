-------------------------------- MODULE Wait --------------------------------
(***************************************************************************)
(* wait.Wait on top of a session, and the two handlers that run it: opWait *)
(* ("ht wait"), and opSend ("ht send"), which types keys, then waits, then *)
(* views the screen, as far as it was asked to.  Wait subscribes to the    *)
(* session like a watcher, looks at the screen after every chunk it takes  *)
(* from its channel, and selects over the channel, the session's done, the *)
(* idle timer and the timeout.                                             *)
(*                                                                         *)
(* The handlers in Waiters run waits and sends, the others the operations  *)
(* of module Session.  A wait's text and cursor conditions are one,        *)
(* "text": both are a predicate on the screen that View returns, true of   *)
(* the screens in TextOn; View may fail.  Timers are untimed: a started    *)
(* timer fires sooner or later, and what it fires is marked with the chunk *)
(* from which it was counting.  The keys are written in one step (Keystrokes has the  *)
(* pacing), and the settle time is the time until the next step.           *)
(*                                                                         *)
(* "Defect" marks faulty variants, as in Session.                          *)
(***************************************************************************)
EXTENDS Session

CONSTANTS
    Waiters,    \* the handlers that run opWait or opSend
    Conds,      \* the requests: sets of conditions, with "send" and "view"
    TextOn      \* the screens on which the wanted text shows

hasWait(c) == c \cap {"idle", "change", "text", "exit"} # {}

ASSUME WaitAssumption ==
    /\ Waiters \subseteq Procs /\ TextOn \subseteq Nat
    /\ \A c \in Conds :
          /\ c \subseteq {"idle", "change", "text", "exit", "timeout", "send", "view"}
          /\ hasWait(c) \/ ("send" \in c /\ "timeout" \notin c)
          /\ "view" \in c => "send" \in c

VARIABLES
    at,         \* where each wait is
    want,       \* what was asked for, a member of Conds
    base,       \* history: what the child had written when the keys came, for
                \* a send that waits for a change
    seen,       \* the screen its last View returned
    taken,      \* the last chunk it has taken from its channel, 0 if none
    timer,      \* the idle timer: "off", "running" or "spent"
    since,      \* the chunk from which its current run counts
    tick,       \* what is in its channel: the chunk that tick was counted from
    idleFired,  \* as in the code
    idleFrom,   \* history: the chunk that the tick taken last was counted from
    doneCase,   \* done is not nil: the select still has that case
    chanCase,   \* ch is not nil
    verdict     \* "none", "matched", "timeout" or "error"

timerVars == <<timer, since, tick>>
idleVars == <<timerVars, idleFired, idleFrom>>
caseVars == <<doneCase, chanCase>>
waitVars == <<at, want, base, seen, taken, idleVars, caseVars, verdict>>
waitingVars == <<vars, waitVars>>

WaitInit ==
    /\ Init
    /\ at = [p \in Waiters |-> "idle"] /\ want = [p \in Waiters |-> {}]
    /\ base = [p \in Waiters |-> 0]
    /\ seen = [p \in Waiters |-> 0] /\ taken = [p \in Waiters |-> 0]
    /\ timer = [p \in Waiters |-> "off"] /\ since = [p \in Waiters |-> 0]
    /\ tick = [p \in Waiters |-> {}]
    /\ idleFired = [p \in Waiters |-> FALSE] /\ idleFrom = [p \in Waiters |-> 0]
    /\ doneCase = [p \in Waiters |-> TRUE] /\ chanCase = [p \in Waiters |-> TRUE]
    /\ verdict = [p \in Waiters |-> "none"]

-----------------------------------------------------------------------------

MoveTo(p, label) == at' = [at EXCEPT ![p] = label]

\* opWait or opSend has resolved the session.
WaitBegin(p, c) ==
    /\ at[p] = "idle" /\ registered
    /\ MoveTo(p, IF "send" \in c THEN "check" ELSE "subscribe")
    /\ want' = [want EXCEPT ![p] = c]
    /\ UNCHANGED <<vars, base, seen, taken, idleVars, caseVars, verdict>>

(* opSend before and after its wait.                                       *)

EndWith(p, label, v) == MoveTo(p, label) /\ verdict' = [verdict EXCEPT ![p] = v]
Fail(p) == EndWith(p, "returned", "error")

\* The check of SendPaced under s.mu ...
TypeCheck(p) ==
    /\ at[p] = "check" /\ mu = "free"
    /\ IF state = "exited" THEN Fail(p) ELSE MoveTo(p, "type") /\ UNCHANGED verdict
    /\ UNCHANGED <<vars, want, base, seen, taken, idleVars, caseVars>>

\* ... and its writes outside it, with the delay after the last of them.
TypeKeys(p) ==
    /\ at[p] = "type"
    /\ IF tty = "closed"
       THEN Fail(p) /\ UNCHANGED base
       ELSE /\ MoveTo(p, IF hasWait(want[p]) THEN "subscribe"
                         ELSE IF "view" \in want[p] THEN "view" ELSE "returned")
            /\ base' = [base EXCEPT ![p] = IF "change" \in want[p] THEN written ELSE @]
            /\ UNCHANGED verdict
    /\ UNCHANGED <<vars, want, seen, taken, idleVars, caseVars>>

\* The view that is part of the answer, matched or timed out; an error of it
\* is the answer then.
ViewAfter(p) ==
    /\ at[p] = "view" /\ mu = "free"
    /\ IF vt = "nil" THEN crashed' = TRUE /\ UNCHANGED <<at, verdict>>
       ELSE /\ Fail(p) \/ (MoveTo(p, "returned") /\ UNCHANGED verdict)
            /\ UNCHANGED crashed
    /\ UNCHANGED <<coreVars, vt, subVars, buf, handlerVars, watchVars, want,
                   base, seen, taken, idleVars, caseVars>>

(* Wait.                                                                   *)

\* The channel of an exited session is closed from the start.
Subscribe(p) ==
    /\ at[p] = "subscribe" /\ mu = "free"
    /\ MoveTo(p, "look")
    /\ IF state = "exited"
       THEN closed' = closed \cup {p} /\ UNCHANGED subs
       ELSE subs' = subs \cup {p} /\ UNCHANGED closed
    /\ UNCHANGED <<coreVars, callerVars, buf, want, base, seen, taken, idleVars,
                   caseVars, verdict>>

\* evalSnapshot: a View, when a condition is about the screen.  An error of it
\* ends the wait.
Look(p) ==
    /\ at[p] = "look"
    /\ IF "text" \notin want[p]
       THEN MoveTo(p, "judge") /\ UNCHANGED <<seen, verdict, crashed>>
       ELSE /\ mu = "free"
            /\ IF vt = "nil"
               THEN crashed' = TRUE /\ UNCHANGED <<at, seen, verdict>>
               ELSE /\ \/ EndWith(p, "leave", "error") /\ UNCHANGED seen
                       \/ /\ MoveTo(p, "judge") /\ UNCHANGED verdict
                          /\ seen' = [seen EXCEPT ![p] = screen]
                    /\ UNCHANGED crashed
    /\ UNCHANGED <<coreVars, vt, subVars, buf, handlerVars, watchVars, want,
                   base, taken, idleVars, caseVars>>

textOK(p) == "text" \in want[p] => seen[p] \in TextOn

\* Defect: one condition is enough.
AnyMet(p) ==
    \/ "text" \in want[p] /\ textOK(p)
    \/ "exit" \in want[p] /\ state = "exited"
    \/ "idle" \in want[p] /\ idleFired[p]
    \/ "change" \in want[p] /\ taken[p] > 0

allMet(p) ==
    /\ textOK(p)
    /\ "exit" \in want[p] => state = "exited"
    /\ "idle" \in want[p] => idleFired[p]
    /\ "change" \in want[p] => taken[p] > 0

\* The check of all conditions after a look, which for "exit" takes s.mu to
\* read the state.  The first time it fails, the timers are started.
Judge(p) ==
    /\ at[p] = "judge"
    /\ "exit" \in want[p] /\ textOK(p) => mu = "free"
    /\ IF allMet(p)
       THEN EndWith(p, "leave", "matched") /\ UNCHANGED timer
       ELSE /\ MoveTo(p, "select") /\ UNCHANGED verdict
            /\ timer' = IF timer[p] = "off" /\ "idle" \in want[p]
                        THEN [timer EXCEPT ![p] = "running"] ELSE timer
    /\ UNCHANGED <<vars, want, base, seen, taken, since, tick, idleFired, idleFrom,
                   caseVars>>

\* The runtime puts a tick into the idle timer's channel, which holds one.
IdleExpires(p) ==
    /\ timer[p] = "running" /\ at[p] \notin {"leave", "view", "returned"}
    /\ timer' = [timer EXCEPT ![p] = "spent"]
    /\ tick' = [tick EXCEPT ![p] = IF @ = {} THEN {since[p]} ELSE @]
    /\ UNCHANGED <<vars, at, want, base, seen, taken, since, idleFired, idleFrom,
                   caseVars, verdict>>

(* The select: each case is one action.                                    *)

TakeTimeout(p) ==
    /\ at[p] = "select" /\ "timeout" \in want[p]
    /\ EndWith(p, "leave", "timeout")
    /\ UNCHANGED <<vars, want, base, seen, taken, idleVars, caseVars>>

TakeIdle(p) ==
    /\ at[p] = "select"
    /\ \E n \in tick[p] : idleFrom' = [idleFrom EXCEPT ![p] = n]
    /\ tick' = [tick EXCEPT ![p] = {}]
    /\ idleFired' = [idleFired EXCEPT ![p] = TRUE]
    /\ MoveTo(p, "judge")
    /\ UNCHANGED <<vars, want, base, seen, taken, timer, since, caseVars, verdict>>

\* Defect: the case is taken before done is closed.
TakeDoneEarly(p) ==
    /\ at[p] = "select" /\ doneCase[p]
    /\ doneCase' = [doneCase EXCEPT ![p] = FALSE] /\ MoveTo(p, "look")
    /\ UNCHANGED <<vars, want, base, seen, taken, idleVars, chanCase, verdict>>

TakeDone(p) ==
    /\ at[p] = "select" /\ doneCase[p] /\ done
    /\ doneCase' = [doneCase EXCEPT ![p] = FALSE]
    /\ MoveTo(p, "look")
    /\ UNCHANGED <<vars, want, base, seen, taken, idleVars, chanCase, verdict>>

TakeClosed(p) ==
    /\ at[p] = "select" /\ chanCase[p] /\ buf[p] = <<>> /\ p \in closed
    /\ chanCase' = [chanCase EXCEPT ![p] = FALSE]
    /\ UNCHANGED <<vars, at, want, base, seen, taken, idleVars, doneCase, verdict>>

\* Receive a chunk, in the case of the select whose channel is ch.
Receive(p, label) ==
    /\ at[p] = "select" /\ chanCase[p] /\ buf[p] # <<>>
    /\ buf' = [buf EXCEPT ![p] = Tail(@)]
    /\ taken' = [taken EXCEPT ![p] = Head(buf[p])]
    /\ MoveTo(p, label)
    /\ UNCHANGED <<coreVars, callerVars, subVars, want, base, seen, idleFrom, caseVars,
                   verdict>>

\* Stop, drain and Reset: no tick of the run before is left.
RestartIdle(p, n) ==
    /\ timer' = [timer EXCEPT ![p] = "running"]
    /\ since' = [since EXCEPT ![p] = n]
    /\ tick' = [tick EXCEPT ![p] = {}]

\* Defect: a chunk does not lead to another look at the screen.
TakeChunkBlind(p) == Receive(p, "judge") /\ UNCHANGED <<timerVars, idleFired>>

\* Defect: a chunk leaves idleFired as it is.
TakeChunkStillIdle(p) ==
    /\ Receive(p, "look")
    /\ IF "idle" \in want[p] THEN RestartIdle(p, Head(buf[p])) ELSE UNCHANGED timerVars
    /\ UNCHANGED idleFired

\* Defect: the idle timer is stopped and not started again.
TakeChunkStopping(p) ==
    /\ Receive(p, "look")
    /\ timer' = [timer EXCEPT ![p] = "spent"] /\ tick' = [tick EXCEPT ![p] = {}]
    /\ idleFired' = [idleFired EXCEPT ![p] = FALSE] /\ UNCHANGED since

\* A chunk restarts the idle timer and takes back what it has fired.
TakeChunk(p) ==
    /\ Receive(p, "look")
    /\ IF "idle" \in want[p]
       THEN /\ RestartIdle(p, Head(buf[p]))
            /\ idleFired' = [idleFired EXCEPT ![p] = FALSE]
       ELSE UNCHANGED <<timerVars, idleFired>>

\* The deferred unsub.  An error of the wait is the answer, without a view.
WaitLeave(p) ==
    /\ at[p] = "leave" /\ mu = "free"
    /\ MoveTo(p, IF "view" \in want[p] /\ verdict[p] # "error" THEN "view" ELSE "returned")
    /\ closed' = closed \cup (subs \cap {p}) /\ subs' = subs \ {p}
    /\ UNCHANGED <<coreVars, callerVars, buf, want, base, seen, taken, idleVars,
                   caseVars, verdict>>

WaitStep(p) ==
    \/ TypeCheck(p) \/ TypeKeys(p) \/ ViewAfter(p)
    \/ Subscribe(p) \/ Look(p) \/ Judge(p)
    \/ TakeTimeout(p) \/ TakeIdle(p) \/ TakeDone(p) \/ TakeClosed(p) \/ TakeChunk(p)
    \/ WaitLeave(p)

\* A step of the session; the handlers in Waiters start nothing else.
SessionStep ==
    /\ Environment \/ Reader \/ Waiter \/ \E p \in Procs : Handler(p)
    /\ \A p \in Waiters : pc'[p] = "idle"
    /\ UNCHANGED waitVars

WaitNext ==
    /\ ~crashed
    /\ \/ SessionStep
       \/ \E p \in Waiters : WaitStep(p) \/ IdleExpires(p)
       \/ \E p \in Waiters, c \in Conds : WaitBegin(p, c)

WaitSpec == WaitInit /\ [][WaitNext]_waitingVars

(***************************************************************************)
(* The fairness of Session, the same for each wait, and timers that fire.  *)
(* Go chooses at random among the cases of a select that are ready, so a   *)
(* deadline that has passed is noticed in the end, however much output     *)
(* there is.                                                               *)
(***************************************************************************)
WaitFairness ==
    /\ SF_waitingVars(~crashed /\ Reader /\ UNCHANGED waitVars)
    /\ SF_waitingVars(~crashed /\ Waiter /\ UNCHANGED waitVars)
    /\ \A p \in Procs \ Waiters :
          SF_waitingVars(~crashed /\ Handler(p) /\ UNCHANGED waitVars)
    /\ WF_waitingVars(~crashed /\ killed /\ ChildExit /\ UNCHANGED waitVars)
    /\ \A p \in Waiters :
          /\ SF_waitingVars(~crashed /\ WaitStep(p))
          /\ SF_waitingVars(~crashed /\ TakeTimeout(p))
          /\ WF_waitingVars(~crashed /\ IdleExpires(p))

FairWaitSpec == WaitSpec /\ WaitFairness

-----------------------------------------------------------------------------

(* Every variable of a wait stays within the values listed for it; the      *)
(* select drops a case only when it has been served for good.              *)
WaitTypeOK ==
    /\ at \in [Waiters -> {"idle", "check", "type", "view", "subscribe", "look", "judge", "select",
                           "leave", "returned"}]
    /\ want \in [Waiters -> Conds \cup {{}}]
    /\ base \in [Waiters -> 0..MaxChunks]
    /\ seen \in [Waiters -> 0..MaxChunks] /\ taken \in [Waiters -> 0..MaxChunks]
    /\ timer \in [Waiters -> {"off", "running", "spent"}]
    /\ since \in [Waiters -> 0..MaxChunks] /\ tick \in [Waiters -> SUBSET (0..MaxChunks)]
    /\ idleFired \in [Waiters -> BOOLEAN] /\ idleFrom \in [Waiters -> 0..MaxChunks]
    /\ verdict \in [Waiters -> {"none", "matched", "timeout", "error"}]
    /\ \A p \in Waiters : (~doneCase[p] => done) /\ (~chanCase[p] => p \in closed)

(* "Subscribe first so we don't miss any output": a wait that is registered, *)
(* as it is until the session exits, and blocked in its select, with its   *)
(* channel drained and no chunk on its way to it, has looked at the screen *)
(* as it is.                                                               *)
NoMissedOutput ==
    \A p \in Waiters :
        (at[p] = "select" /\ "text" \in want[p] /\ p \in subs
           /\ buf[p] = <<>> /\ p \notin pending) => seen[p] = screen

(* A match by the idle condition means that the tick it goes by was counted *)
(* from the last chunk that the wait has taken: one counted from an earlier *)
(* chunk does not survive the next, whether it is still in the timer's     *)
(* channel, has been taken, or comes while the chunk is being handled.  A  *)
(* chunk that is still queued may lose the select against the tick.        *)
IdleMeansQuiet ==
    \A p \in Waiters :
        (verdict[p] = "matched" /\ "idle" \in want[p]) => idleFrom[p] = taken[p]

(* "Conditions compose as AND": a match means that the session has exited,  *)
(* that output has come and that the text was on a screen no older than    *)
(* that output, as far as asked for.                                       *)
MatchIsTrue ==
    \A p \in Waiters : verdict[p] = "matched" =>
        /\ "exit" \in want[p] => state = "exited"
        /\ "change" \in want[p] => taken[p] > 0
        /\ "text" \in want[p] => seen[p] \in TextOn /\ seen[p] >= taken[p]

(* A wait or send with a timeout ends, and so does a send without a wait.   *)
(* One that waits for quiet and has no timeout ends unless the child        *)
(* writes for ever (waits.md:45 and 51 say what comes of that).  In either *)
(* case readLoop may get stuck in its send to the wait's full channel:     *)
(* nothing drains that channel while the wait itself is after s.mu, for a  *)
(* look, for the state or to leave.                                        *)
called(p) == at[p] \in {"check", "subscribe"}
isBounded(p) == "timeout" \in want[p] \/ ~hasWait(want[p])
isQuiet(p) == want[p] \cap {"change", "text", "exit"} = {}
OutputGoesOn == []<><<written' # written>>_waitingVars
WaitReturns ==
    \A p \in Waiters :
        \/ <>[](target = p /\ mu = "readLoop" /\ at[p] \in {"look", "judge", "leave"})
        \/ /\ (called(p) /\ isBounded(p)) ~> (at[p] = "returned" \/ crashed)
           /\ \/ OutputGoesOn
              \/ (called(p) /\ isQuiet(p)) ~> (at[p] = "returned" \/ crashed)

=============================================================================
