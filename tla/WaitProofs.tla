----------------------------- MODULE WaitProofs -----------------------------
(***************************************************************************)
(* Theorems about Wait, for every number of waits and of other handlers,   *)
(* every set of conditions, every amount of output and every capacity.     *)
(***************************************************************************)
EXTENDS Wait, SessionProofs

-----------------------------------------------------------------------------
(* The inductive invariant.                                                *)

(* The screen never shows a chunk that readLoop has not read, and while it  *)
(* hands a chunk out, the screen shows that chunk.                         *)
ScreenInv == screen <= read /\ (rpc = "fanout" => screen = read)

(* The handlers of waits take no part in the session's own operations, and  *)
(* a case that the select has dropped will not be ready again.             *)
CaseInv(p) ==
    /\ pc[p] = "idle"
    /\ ~doneCase[p] => done
    /\ ~chanCase[p] => p \in closed

(* What is in a wait's channel, or was taken from it, is on the screen.     *)
ChunkInv(p) ==
    /\ \A i \in 1..Len(buf[p]) : buf[p][i] <= screen
    /\ taken[p] <= screen

(* A wait looks after it has subscribed, and again after every chunk.       *)
LookInv(p) ==
    /\ at[p] \in {"idle", "check", "type", "subscribe"} => seen[p] = 0 /\ taken[p] = 0
    /\ (at[p] \in {"judge", "select"} /\ "text" \in want[p]) => seen[p] >= taken[p]
    /\ (at[p] \in {"judge", "select"} /\ "text" \in want[p] /\ p \in subs
          /\ buf[p] = <<>> /\ p \notin pending) => seen[p] = screen

(* A run of the idle timer, what it has fired and what was taken of that     *)
(* go by the last chunk taken.                                             *)
IdleInv(p) ==
    /\ at[p] \in {"idle", "check", "type", "subscribe"} =>
          /\ timer[p] = "off" /\ since[p] = 0 /\ taken[p] = 0
          /\ tick[p] = {} /\ ~idleFired[p]
    /\ "idle" \in want[p] =>
          /\ timer[p] \in {"off", "running"} => since[p] = taken[p]
          /\ \A n \in tick[p] : n = taken[p]
          /\ idleFired[p] => idleFrom[p] = taken[p]

(* A match ends the wait, and is true.                                      *)
MatchInv(p) ==
    verdict[p] = "matched" =>
        /\ at[p] \in {"leave", "view", "returned"}
        /\ "exit" \in want[p] => state = "exited"
        /\ "change" \in want[p] => taken[p] > 0
        /\ "text" \in want[p] => seen[p] \in TextOn /\ seen[p] >= taken[p]
        /\ "idle" \in want[p] => idleFired[p]

EachInv(p) == CaseInv(p) /\ ChunkInv(p) /\ LookInv(p) /\ IdleInv(p) /\ MatchInv(p)

(* The types, with those of the cases, that WaitTypeOK speaks of by value.  *)
WaitType ==
    /\ TypeOK /\ WaitTypeOK
    /\ doneCase \in [Waiters -> BOOLEAN] /\ chanCase \in [Waiters -> BOOLEAN]

WaitInv == WaitType /\ ScreenInv /\ \A p \in Waiters : EachInv(p)

-----------------------------------------------------------------------------
(* Steps of the session.                                                   *)

USE BoundsAssumption, WaitAssumption
USE DEF vars, envVars, readerVars, subVars, waiterVars, handlerVars, watchVars,
        coreVars, callerVars, systemVars, timerVars, idleVars, caseVars, waitVars,
        waitingVars

(* A handler that does not run does nothing. *)
LEMMA HandlerRuns == ASSUME NEW q \in Procs, Handler(q) PROVE pc[q] # "idle"
BY DEF Handler, SubscribeWithPrime, PrimeFails, ForwardChunk, EndOfStream, Unsubscribe, View, Resize,
   SendCheck, SendWrite, StopCheck, SignalCheck, SignalRaise, StopInTime, StopTimeout,
   AwaitDone, RemoveCheck, Shutdown, CloseCheck, AwaitReader, FreeTerminal, Deregister, At

(* A handler of the session has its own channel, and no wait's. *)
LEMMA ChannelsApart ==
    ASSUME TypeOK, NEW q \in Procs, Handler(q), NEW p \in Procs, p # q
    PROVE  buf'[p] = buf[p] /\ (p \in subs' <=> p \in subs) /\ (p \in closed => p \in closed')
<1> USE DEF TypeOK, WatchType
<1>1. CASE SubscribeWithPrime(q)
  BY <1>1 DEF SubscribeWithPrime
<1>2. CASE ForwardChunk(q)
  BY <1>2 DEF ForwardChunk
<1>3. CASE EndOfStream(q) \/ Unsubscribe(q)
  BY <1>3 DEF EndOfStream, Unsubscribe
<1>4. CASE UNCHANGED <<buf, subs, closed>>
  BY <1>4
<1> QED
  BY <1>1, <1>2, <1>3, <1>4 DEF Handler, PrimeFails, View, Resize, SendCheck, SendWrite, StopCheck,
     SignalCheck, SignalRaise, StopInTime, StopTimeout, AwaitDone, RemoveCheck, Shutdown,
     CloseCheck, AwaitReader, FreeTerminal, Deregister

(* The screen follows readLoop, and the exit is for good.                   *)
LEMMA ScreenStep ==
    ASSUME WaitInv, SessionStep
    PROVE  /\ ScreenInv' /\ screen <= screen' /\ (done => done')
           /\ state = "exited" => state' = "exited"
<1> USE DEF WaitInv, WaitType, ScreenInv, TypeOK, ReaderType, SharedType
<1>1. CASE Environment
  BY <1>1, EnvironmentFrame
<1>2. CASE Reader
  <2>1. UNCHANGED <<done, state>>
    BY <1>2, ReaderFrame
  <2> QED
    BY <1>2, <2>1 DEF Reader, ReadChunk, ReadEnd, ParseChunk, PickTarget, SendChunk, FanoutDone
<1>3. CASE Waiter
  <2>1. UNCHANGED readerVars
    BY <1>3, WaiterFrame
  <2> QED
    BY <1>3, <2>1 DEF Waiter, Reap, MarkExited, ClosePty, CloseDone
<1>4. ASSUME NEW q \in Procs, Handler(q) PROVE UNCHANGED <<readerVars, done, state>>
  BY <1>4, HandlerFrame
<1> QED
  BY <1>1, <1>2, <1>3, <1>4 DEF SessionStep

(* What a wait sees of a step of the session: chunks may come that are on    *)
(* the screen, its channel may be closed, and an empty channel with nothing on  *)
(* its way was so before, and the screen is as it was.                     *)
LEMMA SessionFrame ==
    ASSUME WaitInv, SessionStep, NEW p \in Waiters
    PROVE  /\ \A i \in 1..Len(buf'[p]) : buf'[p][i] <= screen'
           /\ p \in closed => p \in closed'
           /\ (p \in subs' /\ buf'[p] = <<>> /\ p \notin pending') =>
                 p \in subs /\ buf[p] = <<>> /\ p \notin pending /\ screen' = screen
<1> USE DEF WaitInv, WaitType, ScreenInv, TypeOK, ReaderType, SharedType, EnvType
<1>0. /\ p \in Procs /\ pc[p] = "idle" /\ read \in Nat /\ screen \in Nat
      /\ \A i \in 1..Len(buf[p]) : buf[p][i] <= screen
  BY DEF EachInv, CaseInv, ChunkInv
<1>1. CASE Environment
  BY <1>0, <1>1, EnvironmentFrame
<1>2. CASE Reader
  <2>0. UNCHANGED <<subs, closed, done, state>>
    BY <1>2, ReaderFrame
  <2>1. CASE ReadChunk
    BY <1>0, <2>0, <2>1 DEF ReadChunk
  <2>2. CASE ReadEnd
    BY <1>0, <2>0, <2>2 DEF ReadEnd
  <2>3. CASE ParseChunk
    <3>1. CASE vt = "nil"
      BY <1>0, <2>0, <2>3, <3>1 DEF ParseChunk
    <3>2. CASE vt # "nil"
      <4>1. screen' = read /\ screen <= read /\ pending' = subs /\ UNCHANGED <<read, buf>>
        BY <2>3, <3>2 DEF ParseChunk
      <4>2. \A i \in 1..Len(buf[p]) : buf[p][i] \in Nat
        BY <1>0 DEF WatchType
      <4> QED
        BY <1>0, <2>0, <4>1, <4>2
    <3> QED
      BY <3>1, <3>2
  <2>4. ASSUME NEW q \in Procs, PickTarget(q) PROVE UNCHANGED <<screen, read, rpc, buf, pending>>
    BY <2>4 DEF PickTarget
  <2>5. CASE SendChunk
    <3>1. /\ UNCHANGED <<screen, read, rpc>> /\ screen = read
          /\ target \in Procs /\ buf' = [buf EXCEPT ![target] = Append(@, read)]
          /\ pending' = pending \ {target}
      BY <2>5 DEF SendChunk
    <3>2. buf \in [Procs -> Seq(Nat)]
      BY DEF WatchType
    <3>3. CASE target # p
      BY <1>0, <2>0, <3>1, <3>2, <3>3
    <3>4. CASE target = p
      <4>1. buf[p] \in Seq(Nat) /\ buf'[p] = Append(buf[p], read)
        BY <1>0, <3>1, <3>2, <3>4
      <4>2. buf'[p] # <<>> /\ \A i \in 1..Len(buf'[p]) : buf'[p][i] <= screen
        BY <1>0, <3>1, <4>1
      <4> QED
        BY <1>0, <2>0, <3>1, <4>2
    <3> QED
      BY <3>3, <3>4
  <2>6. CASE FanoutDone
    BY <1>0, <2>0, <2>6 DEF FanoutDone
  <2> QED
    BY <1>0, <1>2, <2>0, <2>1, <2>2, <2>3, <2>4, <2>5, <2>6 DEF Reader
<1>3. CASE Waiter
  <2>1. UNCHANGED <<readerVars, buf>>
    BY <1>3, WaiterFrame
  <2>2. /\ p \in closed => p \in closed'
        /\ p \in subs' => p \in subs
    BY <1>3 DEF Waiter, Reap, MarkExited, ClosePty, CloseDone
  <2> QED
    BY <1>0, <2>1, <2>2
<1>4. ASSUME NEW q \in Procs, Handler(q)
      PROVE  /\ UNCHANGED <<readerVars, done, state>> /\ buf'[p] = buf[p]
             /\ (p \in subs' <=> p \in subs) /\ (p \in closed => p \in closed')
  <2>1. p # q
    BY <1>0, <1>4, HandlerRuns
  <2> QED
    BY <1>0, <1>4, <2>1, ChannelsApart, HandlerFrame
<1> QED
  BY <1>0, <1>1, <1>2, <1>3, <1>4 DEF SessionStep

(* A step of the session keeps what each wait has. *)
LEMMA SessionKeeps ==
    ASSUME WaitInv, ~crashed, SessionStep
    PROVE  WaitInv'
<1> USE DEF WaitInv, WaitType
<1>1. TypeOK'
  BY TypeStep DEF SessionStep, Next
<1>2. UNCHANGED waitVars
  BY DEF SessionStep
<1>3. WaitTypeOK'
  <2>1. ASSUME NEW p \in Waiters PROVE (~doneCase[p] => done') /\ (~chanCase[p] => p \in closed')
    BY SessionFrame, ScreenStep DEF WaitTypeOK
  <2> QED
    BY <1>2, <2>1 DEF WaitTypeOK
<1>4. ASSUME NEW p \in Waiters PROVE EachInv(p)'
  <2>0. EachInv(p)
    OBVIOUS
  <2>1. CaseInv(p)'
    BY <1>2, <2>0, SessionFrame, ScreenStep DEF EachInv, CaseInv, SessionStep
  <2>2. ChunkInv(p)'
    <3>1. taken[p] \in Nat /\ screen \in Nat /\ screen' \in Nat
      BY <1>1 DEF WaitTypeOK, TypeOK, ReaderType
    <3>2. taken[p] <= screen /\ screen <= screen'
      BY <2>0, SessionFrame, ScreenStep DEF EachInv, ChunkInv
    <3> QED
      BY <1>2, <3>1, <3>2, SessionFrame, ScreenStep DEF ChunkInv
  <2>3. LookInv(p)'
    BY <1>2, <2>0, SessionFrame, ScreenStep DEF EachInv, LookInv
  <2>4. MatchInv(p)'
    BY <1>2, <2>0, SessionFrame, ScreenStep DEF EachInv, MatchInv
  <2>5. IdleInv(p)'
    BY <1>2, <2>0 DEF EachInv, IdleInv
  <2> QED
    BY <2>1, <2>2, <2>3, <2>4, <2>5 DEF EachInv
<1>5. ScreenInv'
  BY ScreenStep
<1> QED
  BY <1>1, <1>2, <1>3, <1>4, <1>5

-----------------------------------------------------------------------------
(* Steps of a wait.                                                        *)

(* A step of a wait leaves the others, and the session but for the wait's    *)
(* own channel, alone.                                                     *)
LEMMA WaitFrame ==
    ASSUME WaitInv, NEW p \in Waiters,
           \/ WaitStep(p) \/ IdleExpires(p) \/ \E c \in Conds : WaitBegin(p, c)
    PROVE  /\ UNCHANGED <<coreVars, pc>> /\ closed \subseteq closed'
           /\ \A q \in Waiters \ {p} :
                 /\ buf'[q] = buf[q] /\ (q \in subs' <=> q \in subs)
                 /\ at'[q] = at[q] /\ want'[q] = want[q] /\ seen'[q] = seen[q]
                 /\ taken'[q] = taken[q] /\ timer'[q] = timer[q]
                 /\ since'[q] = since[q] /\ tick'[q] = tick[q]
                 /\ idleFired'[q] = idleFired[q] /\ idleFrom'[q] = idleFrom[q]
                 /\ doneCase'[q] = doneCase[q] /\ chanCase'[q] = chanCase[q]
                 /\ verdict'[q] = verdict[q]
<1> USE DEF WaitInv, WaitType, WaitTypeOK, TypeOK, WatchType, MoveTo, EndWith, Fail
<1>1. CASE TypeCheck(p) \/ TypeKeys(p) \/ ViewAfter(p)
  BY <1>1 DEF TypeCheck, TypeKeys, ViewAfter
<1>2. CASE Subscribe(p) \/ Look(p)
  BY <1>2 DEF Subscribe, Look
<1>3. CASE Judge(p)
  BY <1>3 DEF Judge
<1>4. CASE TakeTimeout(p) \/ TakeIdle(p) \/ TakeDone(p) \/ TakeClosed(p)
  BY <1>4 DEF TakeTimeout, TakeIdle, TakeDone, TakeClosed
<1>5. CASE TakeChunk(p)
  BY <1>5 DEF TakeChunk, Receive, RestartIdle
<1>6. CASE WaitLeave(p)
  BY <1>6 DEF WaitLeave
<1>7. CASE IdleExpires(p) \/ \E c \in Conds : WaitBegin(p, c)
  BY <1>7 DEF IdleExpires, WaitBegin
<1> QED
  BY <1>1, <1>2, <1>3, <1>4, <1>5, <1>6, <1>7 DEF WaitStep

(* A chunk that a wait takes is a number of a chunk that has been written.  *)
LEMMA ChunkBound ==
    ASSUME WaitInv, NEW p \in Waiters, buf[p] # <<>>
    PROVE  /\ Head(buf[p]) \in 0..MaxChunks /\ Head(buf[p]) <= screen
           /\ Tail(buf[p]) \in Seq(Nat)
           /\ \A i \in 1..Len(Tail(buf[p])) : Tail(buf[p])[i] <= screen
<1>1. buf[p] \in Seq(Nat) /\ screen \in Nat /\ screen <= MaxChunks
  BY DEF WaitInv, WaitType, ScreenInv, TypeOK, EnvType, ReaderType, WatchType
<1>2. \A i \in 1..Len(buf[p]) : buf[p][i] <= screen
  BY DEF WaitInv, EachInv, ChunkInv
<1> DEFINE b == buf[p]
<1>3. b \in Seq(Nat) /\ b # <<>> /\ \A i \in 1..Len(b) : b[i] <= screen
  BY <1>1, <1>2
<1> HIDE DEF b
<1>4. /\ Len(b) \in Nat /\ Len(b) >= 1 /\ Head(b) = b[1] /\ b[1] \in Nat
      /\ Tail(b) \in Seq(Nat) /\ Len(Tail(b)) = Len(b) - 1
      /\ \A i \in 1..Len(b) - 1 : Tail(b)[i] = b[i + 1]
  BY <1>3
<1>5. Head(b) \in 0..MaxChunks /\ Head(b) <= screen
  BY <1>1, <1>3, <1>4
<1>6. ASSUME NEW i \in 1..Len(Tail(b)) PROVE Tail(b)[i] <= screen
  <2>1. i + 1 \in 1..Len(b) /\ Tail(b)[i] = b[i + 1]
    BY <1>4
  <2> QED
    BY <1>3, <2>1
<1> QED
  BY <1>4, <1>5, <1>6 DEF b

(* Every step of a wait keeps the types. *)
LEMMA WaitTypeStep ==
    ASSUME WaitInv, NEW p \in Waiters,
           \/ WaitStep(p) \/ IdleExpires(p) \/ \E c \in Conds : WaitBegin(p, c)
    PROVE  WaitType'
<1>0. /\ p \in Procs /\ screen \in 0..MaxChunks /\ written \in 0..MaxChunks
      /\ \A q \in Waiters : (~doneCase[q] => done) /\ (~chanCase[q] => q \in closed)
  BY DEF WaitInv, WaitType, WaitTypeOK, ScreenInv, TypeOK, EnvType, ReaderType
<1>1. TypeOK'
  <2>1. EnvType' /\ ReaderType' /\ HandlerType'
    <3>1. UNCHANGED <<coreVars, op, pc, sig, result>>
      BY DEF WaitStep, TypeCheck, TypeKeys, ViewAfter, Subscribe, Look, Judge, TakeTimeout,
         TakeIdle, TakeDone, TakeClosed, TakeChunk, Receive, WaitLeave, IdleExpires,
         WaitBegin, EndWith, Fail, MoveTo
    <3> QED
      BY <3>1 DEF WaitInv, WaitType, TypeOK, EnvType, ReaderType, HandlerType
  <2>2. SharedType'
    <3> USE <1>0 DEF WaitInv, WaitType, TypeOK, SharedType
    <3>1. UNCHANGED <<vt, state, wpc, done, registered>> /\ crashed' \in {crashed, TRUE}
      BY DEF WaitStep, TypeCheck, TypeKeys, ViewAfter, Subscribe, Look, Judge, TakeTimeout,
         TakeIdle, TakeDone, TakeClosed, TakeChunk, Receive, WaitLeave, IdleExpires,
         WaitBegin, EndWith, Fail, MoveTo
    <3>2. subs' \subseteq Procs /\ closed' \subseteq Procs
      BY DEF WaitStep, TypeCheck, TypeKeys, ViewAfter, Subscribe, Look, Judge, TakeTimeout,
         TakeIdle, TakeDone, TakeClosed, TakeChunk, Receive, WaitLeave, IdleExpires,
         WaitBegin, EndWith, Fail, MoveTo
    <3> QED
      BY <3>1, <3>2
  <2>3. WatchType'
    <3>1. CASE TakeChunk(p)
      <4>1. buf' = [buf EXCEPT ![p] = Tail(buf[p])] /\ UNCHANGED watchVars
        BY <3>1 DEF TakeChunk, Receive, RestartIdle
      <4>2. Tail(buf[p]) \in Seq(Nat)
        BY <3>1, ChunkBound DEF TakeChunk, Receive
      <4> QED
        BY <1>0, <4>1, <4>2 DEF WaitInv, WaitType, TypeOK, WatchType
    <3>2. CASE ~TakeChunk(p)
      <4>1. UNCHANGED <<buf, watchVars>>
        BY <3>2 DEF WaitStep, TypeCheck, TypeKeys, ViewAfter, Subscribe, Look, Judge,
           TakeTimeout, TakeIdle, TakeDone, TakeClosed, WaitLeave, IdleExpires, WaitBegin
      <4> QED
        BY <4>1 DEF WaitInv, WaitType, TypeOK, WatchType
    <3> QED
      BY <3>1, <3>2
  <2> QED
    BY <2>1, <2>2, <2>3 DEF TypeOK
<1> USE DEF WaitInv, WaitType, WaitTypeOK, MoveTo, EndWith, Fail
<1>2. CASE TypeCheck(p) \/ TypeKeys(p) \/ ViewAfter(p)
  BY <1>0, <1>1, <1>2 DEF TypeCheck, TypeKeys, ViewAfter
<1>3. CASE Subscribe(p) \/ Look(p)
  BY <1>0, <1>1, <1>3 DEF Subscribe, Look
<1>4. CASE Judge(p)
  BY <1>0, <1>1, <1>4 DEF Judge
<1>5. CASE TakeTimeout(p)
  BY <1>0, <1>1, <1>5 DEF TakeTimeout
<1>11. CASE TakeIdle(p)
  <2>1. idleFired' \in [Waiters -> BOOLEAN]
    BY <1>11 DEF TakeIdle
  <2> QED
    BY <1>0, <1>1, <1>11, <2>1 DEF TakeIdle
<1>6. CASE TakeDone(p)
  BY <1>0, <1>1, <1>6 DEF TakeDone
<1>9. CASE TakeClosed(p)
  BY <1>0, <1>1, <1>9 DEF TakeClosed
<1>10. CASE TakeChunk(p)
  <2>1. Head(buf[p]) \in 0..MaxChunks
    BY <1>10, ChunkBound DEF TakeChunk, Receive
  <2>2. /\ taken' = [taken EXCEPT ![p] = Head(buf[p])]
        /\ at' = [at EXCEPT ![p] = "look"]
        /\ UNCHANGED <<closed, done, want, base, seen, doneCase, chanCase, verdict>>
    BY <1>10 DEF TakeChunk, Receive, RestartIdle
  <2>3. /\ timer' \in [Waiters -> {"off", "running", "spent"}]
        /\ since' \in [Waiters -> 0..MaxChunks]
        /\ tick' \in [Waiters -> SUBSET (0..MaxChunks)]
        /\ idleFired' \in [Waiters -> BOOLEAN]
    <3>1. CASE "idle" \in want[p]
      <4>1. /\ timer' = [timer EXCEPT ![p] = "running"]
            /\ since' = [since EXCEPT ![p] = Head(buf[p])]
            /\ tick' = [tick EXCEPT ![p] = {}]
            /\ idleFired' = [idleFired EXCEPT ![p] = FALSE]
        BY <1>10, <3>1 DEF TakeChunk, RestartIdle
      <4> QED
        BY <2>1, <4>1
    <3>2. CASE "idle" \notin want[p]
      BY <1>10, <3>2 DEF TakeChunk
    <3> QED
      BY <3>1, <3>2
  <2>4. UNCHANGED idleFrom
    BY <1>10 DEF TakeChunk, Receive
  <2> QED
    BY <1>0, <1>1, <2>1, <2>2, <2>3, <2>4
<1>7. CASE WaitLeave(p)
  BY <1>0, <1>1, <1>7 DEF WaitLeave
<1>8. CASE IdleExpires(p) \/ \E c \in Conds : WaitBegin(p, c)
  BY <1>0, <1>1, <1>8 DEF IdleExpires, WaitBegin
<1> QED
  BY <1>2, <1>3, <1>4, <1>5, <1>6, <1>7, <1>8, <1>9, <1>10, <1>11 DEF WaitStep

(* Every step of a wait keeps what the wait has. *)
LEMMA EachStep ==
    ASSUME WaitInv, NEW p \in Waiters,
           \/ WaitStep(p) \/ IdleExpires(p) \/ \E c \in Conds : WaitBegin(p, c)
    PROVE  EachInv(p)'
<1>0. /\ EachInv(p) /\ WaitTypeOK /\ p \in Procs /\ screen \in Nat
      /\ doneCase \in [Waiters -> BOOLEAN] /\ chanCase \in [Waiters -> BOOLEAN]
      /\ buf \in [Procs -> Seq(Nat)] /\ taken[p] \in Nat /\ seen[p] \in Nat
  BY DEF WaitInv, WaitType, WaitTypeOK, TypeOK, ReaderType, WatchType
<1>00. UNCHANGED <<coreVars, pc>> /\ closed \subseteq closed'
  BY WaitFrame
<1> USE <1>0, <1>00
        DEF EachInv, CaseInv, ChunkInv, LookInv, IdleInv, MatchInv, WaitTypeOK, MoveTo,
            EndWith, Fail
<1>1. CASE TypeCheck(p) \/ TypeKeys(p)
  BY <1>1 DEF TypeCheck, TypeKeys
<1>2. CASE ViewAfter(p)
  BY <1>2 DEF ViewAfter
<1>3. CASE Subscribe(p)
  BY <1>3 DEF Subscribe
<1>4. CASE Look(p)
  <2>1. /\ at[p] = "look" /\ at'[p] \in {"look", "judge", "leave"}
        /\ UNCHANGED <<buf, want, taken, idleVars, caseVars, subs, closed>>
        /\ verdict'[p] = verdict[p] \/ verdict'[p] = "error"
    BY <1>4 DEF Look
  <2>2. CaseInv(p)' /\ ChunkInv(p)' /\ IdleInv(p)'
    BY <2>1
  <2>3. LookInv(p)'
    <3>1. CASE seen'[p] = screen
      BY <2>1, <3>1
    <3>2. CASE "text" \notin want[p]
      BY <2>1, <3>2
    <3>3. CASE at'[p] \in {"look", "leave"} /\ UNCHANGED seen
      BY <2>1, <3>3
    <3> QED
      BY <1>4, <3>1, <3>2, <3>3 DEF Look
  <2>4. MatchInv(p)'
    BY <2>1
  <2> QED
    BY <2>2, <2>3, <2>4
<1>5. CASE Judge(p)
  BY <1>5 DEF Judge, allMet, textOK
<1>6. CASE TakeTimeout(p)
  BY <1>6 DEF TakeTimeout
<1>7. CASE TakeIdle(p)
  BY <1>7 DEF TakeIdle
<1>8. CASE TakeDone(p)
  BY <1>8 DEF TakeDone
<1>9. CASE TakeClosed(p)
  BY <1>9 DEF TakeClosed
<1>10. CASE TakeChunk(p)
  <2>1. /\ buf'[p] = Tail(buf[p]) /\ taken'[p] = Head(buf[p]) /\ at'[p] = "look"
        /\ at[p] = "select"
        /\ "idle" \in want[p] => since'[p] = Head(buf[p]) /\ tick'[p] = {} /\ ~idleFired'[p]
        /\ UNCHANGED <<closed, subs, want, seen, doneCase, chanCase, verdict>>
    BY <1>10 DEF TakeChunk, Receive, RestartIdle
  <2>2. /\ Head(buf[p]) <= screen
        /\ \A i \in 1..Len(Tail(buf[p])) : Tail(buf[p])[i] <= screen
    BY <1>10, ChunkBound DEF TakeChunk, Receive
  <2>3. CaseInv(p)' /\ LookInv(p)' /\ IdleInv(p)' /\ MatchInv(p)'
    BY <2>1
  <2>4. ChunkInv(p)'
    <3> HIDE DEF CaseInv, LookInv, IdleInv, MatchInv
    <3> QED
      BY <2>1, <2>2
  <2> QED
    BY <2>3, <2>4
<1>11. CASE WaitLeave(p)
  BY <1>11 DEF WaitLeave
<1>12. CASE IdleExpires(p)
  BY <1>12 DEF IdleExpires
<1>13. ASSUME NEW c \in Conds, WaitBegin(p, c) PROVE EachInv(p)'
  BY <1>13 DEF WaitBegin
<1> QED
  BY <1>1, <1>2, <1>3, <1>4, <1>5, <1>6, <1>7, <1>8, <1>9, <1>10, <1>11, <1>12, <1>13
  DEF WaitStep

(* Every step of a wait keeps what all waits have. *)
LEMMA WaitKeeps ==
    ASSUME WaitInv, NEW p \in Waiters,
           \/ WaitStep(p) \/ IdleExpires(p) \/ \E c \in Conds : WaitBegin(p, c)
    PROVE  WaitInv'
<1>1. ScreenInv'
  BY WaitFrame DEF WaitInv, ScreenInv
<1>2. ASSUME NEW q \in Waiters, q # p PROVE EachInv(q)'
  <2>1. EachInv(q)
    BY DEF WaitInv
  <2>2. /\ UNCHANGED <<coreVars, pc>> /\ closed \subseteq closed'
        /\ buf'[q] = buf[q] /\ (q \in subs' <=> q \in subs)
        /\ at'[q] = at[q] /\ want'[q] = want[q] /\ seen'[q] = seen[q]
        /\ taken'[q] = taken[q] /\ timer'[q] = timer[q]
        /\ since'[q] = since[q] /\ tick'[q] = tick[q]
        /\ idleFired'[q] = idleFired[q] /\ idleFrom'[q] = idleFrom[q]
        /\ doneCase'[q] = doneCase[q] /\ chanCase'[q] = chanCase[q]
        /\ verdict'[q] = verdict[q]
    BY <1>2, WaitFrame
  <2> QED
    BY <2>1, <2>2 DEF EachInv, CaseInv, ChunkInv, LookInv, IdleInv, MatchInv
<1> QED
  BY <1>1, <1>2, EachStep, WaitTypeStep DEF WaitInv

-----------------------------------------------------------------------------
(* The theorems.                                                           *)

(* No wait has begun when Start returns. *)
LEMMA WaitInvInit == WaitInit => WaitInv
<1> SUFFICES ASSUME WaitInit PROVE WaitInv
    OBVIOUS
<1>1. TypeOK
  BY TypeInit DEF WaitInit
<1>2. WaitType
  <2>1. 0 \in 0..MaxChunks
    OBVIOUS
  <2> QED
    BY <1>1, <2>1 DEF WaitInit, WaitType, WaitTypeOK
<1>3. ScreenInv /\ \A p \in Waiters : EachInv(p)
  BY DEF WaitInit, Init, ScreenInv, EachInv, CaseInv, ChunkInv, LookInv, IdleInv, MatchInv
<1> QED
  BY <1>2, <1>3 DEF WaitInv

(* What each wait has done and seen at each point of wait.Wait, opWait and  *)
(* opSend holds in every state.                                            *)
THEOREM WaitInductive == WaitSpec => []WaitInv
<1>1. ASSUME WaitInv, [WaitNext]_waitingVars PROVE WaitInv'
  <2>1. CASE UNCHANGED waitingVars
    <3>1. WaitType'
      BY <1>1, <2>1, TypeStep DEF WaitInv, WaitType, WaitTypeOK
    <3>2. ScreenInv' /\ \A p \in Waiters : EachInv(p)'
      BY <1>1, <2>1 DEF WaitInv, ScreenInv, EachInv, CaseInv, ChunkInv, LookInv, IdleInv, MatchInv
    <3> QED
      BY <3>1, <3>2 DEF WaitInv
  <2>2. CASE WaitNext
    BY <1>1, <2>2, SessionKeeps, WaitKeeps DEF WaitNext
  <2> QED
    BY <1>1, <2>1, <2>2
<1> QED
  BY <1>1, WaitInvInit, PTL DEF WaitSpec

(* Every variable of a wait keeps its type, and the select drops a case only *)
(* when it has been served for good (done and ch set to nil in wait.Wait).  *)
THEOREM WaitTypeCorrect == WaitSpec => []WaitTypeOK
<1>1. WaitInv => WaitTypeOK
  BY DEF WaitInv, WaitType
<1> QED
  BY <1>1, WaitInductive, PTL

(* wait.Wait subscribes before it looks, so that no output goes unseen.      *)
THEOREM OutputNotMissed == WaitSpec => []NoMissedOutput
<1>1. WaitInv => NoMissedOutput
  BY DEF WaitInv, EachInv, LookInv, NoMissedOutput
<1> QED
  BY <1>1, WaitInductive, PTL

(* Every chunk restarts the idle timer, drains its channel and resets        *)
(* idleFired, so that a match by the idle condition goes by a tick that was *)
(* counted from the last chunk taken.                                      *)
THEOREM IdleMatchIsQuiet == WaitSpec => []IdleMeansQuiet
<1>1. WaitInv => IdleMeansQuiet
  BY DEF WaitInv, EachInv, IdleInv, MatchInv, IdleMeansQuiet
<1> QED
  BY <1>1, WaitInductive, PTL

(* A wait that reports a match has met all its conditions.                   *)
THEOREM MatchesAreTrue == WaitSpec => []MatchIsTrue
<1>1. WaitInv => MatchIsTrue
  BY DEF WaitInv, EachInv, LookInv, MatchInv, MatchIsTrue
<1> QED
  BY <1>1, WaitInductive, PTL

=============================================================================
