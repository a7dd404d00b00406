----------------------------- MODULE FeedProofs -----------------------------
(***************************************************************************)
(* Session implements Feed, and no watcher registers after the exit: two   *)
(* theorems on top of the inductive invariant of SessionProofs.            *)
(***************************************************************************)
EXTENDS SessionProofs

USE BoundsAssumption
USE DEF vars, envVars, readerVars, subVars, waiterVars, handlerVars, watchVars,
        coreVars, callerVars, systemVars

-----------------------------------------------------------------------------
(* A watch goes from the start through the stream to its end, and the EOF   *)
(* frame is written as it leaves.                                          *)
WatchInv ==
    \A p \in Procs :
        /\ op[p] = "watch" => pc[p] \in {"idle", "start", "stream", "leave", "returned"}
        /\ p \in eof => op[p] = "watch" /\ pc[p] \in {"leave", "returned"}

(* No watch has begun when Start returns. *)
LEMMA WatchInit == Init => WatchInv
BY DEF Init, WatchInv

(* No step takes a watch elsewhere. *)
LEMMA WatchStep == IInv /\ WatchInv /\ [Next]_vars => WatchInv'
<1> SUFFICES ASSUME IInv, WatchInv, [Next]_vars PROVE WatchInv'
    OBVIOUS
<1> USE DEF IInv, WatchInv, TypeOK, HandlerType, WatchType, At, Goto, Answer
<1>1. CASE Environment
  <2>1. UNCHANGED eof
    BY <1>1, EnvironmentFrame
  <2>2. CASE UNCHANGED <<op, pc>>
    BY <2>1, <2>2
  <2>3. ASSUME NEW p \in Procs, NEW o \in Ops, Begin(p, o) PROVE WatchInv'
    BY <2>1, <2>3 DEF Begin
  <2> QED
    BY <1>1, <2>2, <2>3 DEF Environment, ChildWrite, ChildExit, OrphanExit, ClientChanges
<1>2. CASE Reader \/ Waiter \/ UNCHANGED vars
    BY <1>2, ReaderFrame, WaiterFrame
<1>3. ASSUME NEW p \in Procs, Handler(p) PROVE WatchInv'
  <2>1. CASE SubscribeWithPrime(p)
    BY <2>1 DEF SubscribeWithPrime
  <2>2. CASE ForwardChunk(p)
    BY <2>2 DEF ForwardChunk
  <2>3. CASE EndOfStream(p)
    BY <2>3 DEF EndOfStream
  <2>4. CASE Unsubscribe(p)
    BY <2>4 DEF Unsubscribe
  <2>5. CASE View(p) \/ Resize(p) \/ SendCheck(p) \/ SendWrite(p) \/ PrimeFails(p)
    BY <2>5 DEF View, Resize, SendCheck, SendWrite, PrimeFails
  <2>6. CASE StopCheck(p) \/ SignalCheck(p) \/ SignalRaise(p)
    BY <2>6 DEF StopCheck, SignalCheck, SignalRaise, SignalFails, IgnoresError
  <2>7. CASE StopInTime(p) \/ StopTimeout(p) \/ AwaitDone(p) \/ AwaitReader(p)
    BY <2>7 DEF StopInTime, StopTimeout, AwaitDone, AwaitReader
  <2>8. CASE RemoveCheck(p) \/ Shutdown(p) \/ CloseCheck(p)
    BY <2>8 DEF RemoveCheck, Shutdown, CloseCheck
  <2>9. CASE FreeTerminal(p) \/ Deregister(p)
    BY <2>9 DEF FreeTerminal, Deregister
  <2> QED
    BY <1>3, <2>1, <2>2, <2>3, <2>4, <2>5, <2>6, <2>7, <2>8, <2>9 DEF Handler
<1> QED
    BY <1>1, <1>2, <1>3, NextCases

-----------------------------------------------------------------------------
(* No late subscriber.                                                     *)

(* The first exit is final: no watcher is registered with an exited session. *)
THEOREM ExitIsFinal == Spec => NoLateSubscriber
<1>1. IInv /\ IInv' /\ [Next]_vars => [state = "exited" => state' = "exited" /\ subs' = {}]_vars
  <2> SUFFICES ASSUME IInv, IInv', [Next]_vars, state = "exited"
               PROVE  state' = "exited" /\ subs' = {}
    OBVIOUS
  <2>1. state' = "exited"
    <3>1. CASE Environment \/ UNCHANGED vars
      BY <3>1, EnvironmentFrame
    <3>2. CASE Reader
      BY <3>2, ReaderFrame
    <3>3. CASE Waiter
      BY <3>3 DEF Waiter, Reap, MarkExited, ClosePty, CloseDone
    <3>4. ASSUME NEW p \in Procs, Handler(p) PROVE state' = "exited"
      BY <3>4, HandlerFrame
    <3> QED
      BY <3>1, <3>2, <3>3, <3>4, NextCases
  <2> QED
    BY <2>1 DEF IInv, ExitInv
<1> QED
  BY <1>1, Inductive, PTL DEF Spec, NoLateSubscriber

-----------------------------------------------------------------------------
(* The refinement.                                                         *)

(* A watcher that is being drained or lives is in its stream; a live one is  *)
(* registered, and lacks what is queued for it, all of it when s.mu is free. *)
LEMMA Modes ==
    ASSUME IInv, WatchInv, NEW p \in Procs
    PROVE  /\ feedMode[p] = "out" <=> op[p] # "watch" \/ pc[p] \in {"idle", "start"}
           /\ feedMode[p] \in {"live", "cut"} <=> At(p, "watch", "stream")
           /\ feedMode[p] = "cut" => p \in closed
           /\ feedMode[p] = "live" => p \in subs /\ p \notin closed
           /\ feedMode[p] = "live" /\ mu = "free" => screen = last[p] + Len(buf[p])
           /\ feedMode[p] \in {"out", "live", "cut", "ended", "left"}
<1> USE DEF IInv, WatchInv, feedMode, At
<1>1. feedMode[p] = "live" => p \in subs /\ p \notin closed
  BY DEF ChannelInv
<1>2. ASSUME feedMode[p] = "live", mu = "free" PROVE screen = last[p] + Len(buf[p])
  <2>1. At(p, "watch", "stream") /\ p \in subs /\ p \notin pending
    BY <1>1, <1>2 DEF LockInv
  <2>2. last[p] \in Nat /\ Len(buf[p]) \in Nat
    BY DEF TypeOK, WatchType
  <2>3. last[p] + Len(buf[p]) + (IF p \in pending THEN 1 ELSE 0) = screen
    BY <2>1 DEF StreamContiguous
  <2> QED
    BY <2>1, <2>2, <2>3
<1> QED
  BY <1>1, <1>2

(* What changes neither the screen nor a watcher's position, stream or       *)
(* registration is a stutter of the feed.                                  *)
LEMMA FeedStutter ==
    ASSUME UNCHANGED <<screen, last, eof, closed, buf>>,
           \A p \in Procs : feedMode'[p] = feedMode[p]
    PROVE  UNCHANGED F!feedVars
BY DEF F!feedVars, feedMode, feedGoal

(* The session starts as the feed does. *)
LEMMA FeedInit == Init => F!Init
BY DEF Init, F!Init, feedMode, feedGoal

(* readLoop: parsing a chunk emits it, queueing it is not yet visible.       *)
LEMMA FeedReader == ASSUME IInv, WatchInv, Reader PROVE [F!Next]_(F!feedVars)
<1>1. UNCHANGED <<op, pc, eof, closed, last>>
  BY ReaderFrame
<1>2. feedMode' = feedMode
  BY <1>1 DEF feedMode
<1>3. CASE UNCHANGED <<screen, buf>>
  BY <1>1, <1>2, <1>3, FeedStutter
<1>4. CASE ParseChunk
  <2>1. screen' = screen + 1 /\ UNCHANGED buf
    BY <1>4 DEF ParseChunk, IInv, LockInv, TeardownLast, readDone, TypeOK, ReaderType,
       SharedType
  <2>2. feedGoal' = feedGoal
    BY <1>1, <1>2, <2>1 DEF feedGoal
  <2> QED
    BY <1>1, <1>2, <2>1, <2>2 DEF F!Next, F!Emit
<1>5. CASE SendChunk
  <2>1. target \in subs /\ target \notin closed /\ UNCHANGED screen
    BY <1>5 DEF SendChunk, IInv, LockInv, ChannelInv
  <2>2. \A p \in Procs : p # target => buf'[p] = buf[p]
    BY <1>5 DEF SendChunk, IInv, TypeOK, WatchType
  <2>3. \A p \in Procs : feedMode[p] = "cut" => buf'[p] = buf[p]
    BY <2>1, <2>2, Modes
  <2>4. feedGoal' = feedGoal
    BY <1>1, <1>2, <2>3 DEF feedGoal
  <2> QED
    BY <1>1, <1>2, <2>1, <2>4 DEF F!feedVars
<1> QED
  BY <1>3, <1>4, <1>5 DEF Reader, ReadChunk, ReadEnd, PickTarget, FanoutDone

(* waitLoop: the marking cuts every live feed, where readLoop has got to.    *)
LEMMA FeedWaiter == ASSUME IInv, WatchInv, Waiter PROVE [F!Next]_(F!feedVars)
<1>1. UNCHANGED <<op, pc, eof, last, screen, buf>>
  BY WaiterFrame
<1>2. CASE UNCHANGED closed
  BY <1>1, <1>2, FeedStutter DEF feedMode
<1>3. CASE MarkExited
  <2>1. closed' = closed \cup subs /\ mu = "free"
    BY <1>3 DEF MarkExited
  <2>2. ASSUME NEW p \in Procs
        PROVE  feedMode'[p] = IF feedMode[p] = "live" THEN "cut" ELSE feedMode[p]
    <3>1. feedMode[p] = "live" => p \in subs
      BY Modes
    <3> QED
      BY <1>1, <2>1, <3>1 DEF feedMode
  <2>3. ASSUME NEW p \in Procs
        PROVE  feedGoal'[p] = IF feedMode[p] = "live" THEN screen ELSE feedGoal[p]
    <3>1. feedMode[p] = "live" => screen = last[p] + Len(buf[p])
      BY <2>1, Modes
    <3> QED
      BY <1>1, <2>2, <3>1 DEF feedGoal
  <2>4. /\ feedMode' = [p \in Procs |-> IF feedMode[p] = "live" THEN "cut" ELSE feedMode[p]]
        /\ feedGoal' = [p \in Procs |-> IF feedMode[p] = "live" THEN screen ELSE feedGoal[p]]
    BY <2>2, <2>3 DEF feedMode, feedGoal
  <2> QED
    BY <1>1, <2>4 DEF F!Next, F!Cut
<1> QED
  BY <1>2, <1>3 DEF Waiter, Reap, ClosePty, CloseDone

(* A handler that is no watch is invisible.                                 *)
LEMMA FeedOther ==
    ASSUME IInv, WatchInv, NEW p \in Procs, op[p] # "watch",
           UNCHANGED <<screen, last, eof, closed, buf, op>>,
           \A q \in Procs \ {p} : pc'[q] = pc[q]
    PROVE  UNCHANGED F!feedVars
<1>1. ASSUME NEW q \in Procs PROVE feedMode'[q] = feedMode[q]
  BY DEF feedMode
<1> QED
  BY <1>1, FeedStutter

(* What a handler does changes the feed of its own watcher only: the new      *)
(* feed is the old one with that watcher's part replaced.                  *)
LEMMA FeedOf ==
    ASSUME IInv, WatchInv, NEW p \in Procs,
           UNCHANGED op,
           \A q \in Procs \ {p} :
              /\ pc'[q] = pc[q] /\ last'[q] = last[q] /\ buf'[q] = buf[q]
              /\ q \in eof' <=> q \in eof
              /\ q \in closed' <=> q \in closed
    PROVE  /\ feedMode' = [feedMode EXCEPT ![p] = feedMode'[p]]
           /\ feedGoal' = [feedGoal EXCEPT ![p] = feedGoal'[p]]
<1>1. ASSUME NEW q \in Procs \ {p} PROVE feedMode'[q] = feedMode[q]
  BY DEF feedMode
<1>2. ASSUME NEW q \in Procs \ {p} PROVE feedGoal'[q] = feedGoal[q]
  BY <1>1 DEF feedGoal
<1>3. /\ feedMode = [q \in Procs |-> feedMode[q]]
      /\ feedMode' = [q \in Procs |-> feedMode'[q]]
  BY DEF feedMode
<1>4. /\ feedGoal = [q \in Procs |-> feedGoal[q]]
      /\ feedGoal' = [q \in Procs |-> feedGoal'[q]]
  BY DEF feedGoal
<1>5. feedMode' = [feedMode EXCEPT ![p] = feedMode'[p]]
  BY <1>1, <1>3
<1>6. feedGoal' = [feedGoal EXCEPT ![p] = feedGoal'[p]]
  BY <1>2, <1>4
<1> QED
  BY <1>5, <1>6

(* Handlers: a watch attaches, is delivered a chunk, ends or leaves; the     *)
(* unsubscribe comes after the feed has ended.                             *)
LEMMA FeedHandler ==
    ASSUME IInv, WatchInv, NEW p \in Procs, Handler(p)
    PROVE  [F!Next]_(F!feedVars)
<1> USE DEF At, Goto, Answer
<1>0. /\ UNCHANGED screen
      /\ pc = [q \in Procs |-> pc[q]]
      /\ DOMAIN last = Procs /\ last \in [Procs -> Nat] /\ buf \in [Procs -> Seq(Nat)]
  BY HandlerFrame DEF IInv, TypeOK, HandlerType, WatchType
<1>1. CASE SubscribeWithPrime(p)
  <2>1. CASE vt = "nil"
    BY <1>1, <2>1, FeedStutter DEF SubscribeWithPrime, feedMode
  <2>2. CASE vt # "nil"
    <3>1. /\ At(p, "watch", "start") /\ buf[p] = <<>> /\ p \notin closed /\ p \notin eof
          /\ UNCHANGED <<op, buf, eof>>
          /\ pc' = [pc EXCEPT ![p] = "stream"] /\ last' = [last EXCEPT ![p] = screen]
      BY <1>1, <2>2 DEF SubscribeWithPrime, IInv, ChannelInv, WatchInv
    <3>2. closed' = closed \/ closed' = closed \cup {p}
      BY <1>1, <2>2 DEF SubscribeWithPrime
    <3>3. /\ feedMode' = [feedMode EXCEPT ![p] = feedMode'[p]]
          /\ feedGoal' = [feedGoal EXCEPT ![p] = feedGoal'[p]]
      BY <1>0, <3>1, <3>2, FeedOf
    <3>4. feedMode[p] = "out" /\ feedGoal[p] = 0
      BY <3>1 DEF feedMode, feedGoal
    <3>5. screen \in Nat
      BY DEF IInv, TypeOK, ReaderType
    <3>6. CASE closed' = closed
      <4>1. feedMode'[p] = "live" /\ feedGoal'[p] = 0
        BY <1>0, <3>1, <3>6 DEF feedMode, feedGoal
      <4>2. feedGoal' = feedGoal
        BY <3>3, <3>4, <4>1 DEF feedGoal
      <4> QED
        BY <1>0, <3>1, <3>3, <3>4, <4>1, <4>2 DEF F!Next, F!Attach
    <3>7. CASE closed' = closed \cup {p}
      <4>1. feedMode'[p] = "cut" /\ feedGoal'[p] = screen
        BY <1>0, <3>1, <3>5, <3>7 DEF feedMode, feedGoal
      <4> QED
        BY <1>0, <3>1, <3>3, <3>4, <4>1 DEF F!Next, F!Attach
    <3> QED
      BY <3>2, <3>6, <3>7
  <2> QED
    BY <2>1, <2>2
<1>10. CASE PrimeFails(p)
  <2>1. /\ At(p, "watch", "start") /\ p \notin eof /\ pc' = [pc EXCEPT ![p] = "returned"]
        /\ UNCHANGED <<op, buf, eof, last, closed>>
    BY <1>10 DEF PrimeFails, WatchInv
  <2>2. /\ feedMode' = [feedMode EXCEPT ![p] = feedMode'[p]]
        /\ feedGoal' = [feedGoal EXCEPT ![p] = feedGoal'[p]]
    BY <1>0, <2>1, FeedOf
  <2>3. feedMode[p] = "out" /\ feedMode'[p] = "left" /\ feedGoal'[p] = 0
    BY <1>0, <2>1 DEF feedMode, feedGoal
  <2> QED
    BY <1>0, <2>1, <2>2, <2>3 DEF F!Next, F!Leave
<1>2. CASE ForwardChunk(p)
  <2>1. /\ At(p, "watch", "stream") /\ buf[p] # <<>> /\ p \notin eof
        /\ buf' = [buf EXCEPT ![p] = Tail(buf[p])]
        /\ UNCHANGED <<op, eof, subs, closed>>
    BY <1>2 DEF ForwardChunk, WatchInv
  <2>2. CASE client[p] = "gone"
    <3>1. pc' = [pc EXCEPT ![p] = "leave"] /\ UNCHANGED last
      BY <1>2, <2>2 DEF ForwardChunk
    <3>2. /\ feedMode' = [feedMode EXCEPT ![p] = feedMode'[p]]
          /\ feedGoal' = [feedGoal EXCEPT ![p] = feedGoal'[p]]
      BY <1>0, <2>1, <3>1, FeedOf
    <3>3. feedMode[p] \in {"live", "cut"}
      BY <2>1, Modes
    <3>4. feedMode'[p] = "left" /\ feedGoal'[p] = 0
      BY <1>0, <2>1, <3>1 DEF feedMode, feedGoal
    <3> QED
      BY <1>0, <3>1, <3>2, <3>3, <3>4 DEF F!Next, F!Leave
  <2>3. CASE client[p] # "gone"
    <3>1. last' = [last EXCEPT ![p] = Head(buf[p])] /\ UNCHANGED pc
      BY <1>2, <2>3 DEF ForwardChunk
    <3>2. /\ Len(buf[p]) \in Nat /\ Len(buf[p]) > 0 /\ last[p] \in Nat
          /\ Head(buf[p]) = buf[p][1] /\ Len(Tail(buf[p])) = Len(buf[p]) - 1
      BY <1>0, <2>1
    <3>3. Head(buf[p]) = last[p] + 1
      BY <2>1, <3>2 DEF IInv, StreamContiguous
    <3>4. feedMode' = feedMode
      BY <2>1, <3>1 DEF feedMode
    <3>5. last'[p] = last[p] + 1 /\ Len(buf'[p]) = Len(buf[p]) - 1
      BY <1>0, <2>1, <3>1, <3>2, <3>3
    <3>6. last' = [last EXCEPT ![p] = @ + 1]
      BY <3>1, <3>3
    <3>7. feedGoal' = feedGoal
      <4>1. last'[p] + Len(buf'[p]) = last[p] + Len(buf[p])
        BY <3>2, <3>5
      <4>2. feedGoal'[p] = feedGoal[p]
        BY <3>4, <4>1 DEF feedGoal
      <4>3. /\ feedMode' = [feedMode EXCEPT ![p] = feedMode'[p]]
            /\ feedGoal' = [feedGoal EXCEPT ![p] = feedGoal'[p]]
        BY <1>0, <2>1, <3>1, FeedOf
      <4> QED
        BY <4>2, <4>3 DEF feedGoal
    <3>8. CASE feedMode[p] = "live"
      <4>1. last[p] + Len(buf[p]) + (IF p \in pending THEN 1 ELSE 0) = screen
        BY <2>1, <3>8, Modes DEF IInv, StreamContiguous
      <4>2. last[p] < screen
        BY <3>2, <4>1
      <4> QED
        BY <1>0, <3>4, <3>6, <3>7, <3>8, <4>2 DEF F!Next, F!Deliver
    <3>9. CASE feedMode[p] = "cut"
      <4>1. feedGoal[p] = last[p] + Len(buf[p])
        BY <3>9 DEF feedGoal
      <4>2. last[p] < feedGoal[p]
        BY <3>2, <4>1
      <4> QED
        BY <1>0, <3>4, <3>6, <3>7, <3>9, <4>2 DEF F!Next, F!Deliver
    <3> QED
      BY <2>1, <3>8, <3>9, Modes
  <2> QED
    BY <2>2, <2>3
<1>3. CASE EndOfStream(p)
  <2>1. /\ At(p, "watch", "stream") /\ buf[p] = <<>> /\ p \in closed /\ p \notin eof
        /\ pc' = [pc EXCEPT ![p] = "leave"] /\ UNCHANGED <<op, last, buf, closed>>
        /\ eof' = IF client[p] = "gone" THEN eof ELSE eof \cup {p}
    BY <1>3 DEF EndOfStream, WatchInv
  <2>2. /\ feedMode' = [feedMode EXCEPT ![p] = feedMode'[p]]
        /\ feedGoal' = [feedGoal EXCEPT ![p] = feedGoal'[p]]
    BY <1>0, <2>1, FeedOf
  <2>3. feedMode[p] = "cut" /\ feedGoal[p] = last[p]
    BY <1>0, <2>1 DEF feedMode, feedGoal
  <2>4. CASE client[p] = "gone"
    <3>1. feedMode'[p] = "left" /\ feedGoal'[p] = 0
      BY <1>0, <2>1, <2>4 DEF feedMode, feedGoal
    <3> QED
      BY <1>0, <2>1, <2>2, <2>3, <3>1 DEF F!Next, F!Leave
  <2>5. CASE client[p] # "gone"
    <3>1. feedMode'[p] = "ended" /\ feedGoal'[p] = 0
      BY <1>0, <2>1, <2>5 DEF feedMode, feedGoal
    <3> QED
      BY <1>0, <2>1, <2>2, <2>3, <3>1 DEF F!Next, F!End
  <2> QED
    BY <2>4, <2>5
<1>4. CASE Unsubscribe(p)
  <2>1. /\ At(p, "watch", "leave") /\ pc' = [pc EXCEPT ![p] = "returned"]
        /\ closed' \subseteq closed \cup {p} /\ closed \subseteq closed'
        /\ UNCHANGED <<op, last, buf, eof>>
    BY <1>4 DEF Unsubscribe
  <2>2. /\ feedMode' = [feedMode EXCEPT ![p] = feedMode'[p]]
        /\ feedGoal' = [feedGoal EXCEPT ![p] = feedGoal'[p]]
    BY <1>0, <2>1, FeedOf
  <2>3. feedMode'[p] = feedMode[p] /\ feedMode[p] # "cut"
    BY <1>0, <2>1 DEF feedMode
  <2>4. feedGoal'[p] = feedGoal[p]
    BY <2>3 DEF feedGoal
  <2> QED
    BY <1>0, <2>1, <2>2, <2>3, <2>4 DEF F!feedVars, feedMode, feedGoal
<1>5. CASE View(p) \/ Resize(p) \/ SendCheck(p) \/ SendWrite(p)
  BY <1>0, <1>5, FeedOther DEF View, Resize, SendCheck, SendWrite
<1>6. CASE StopCheck(p) \/ SignalCheck(p) \/ SignalRaise(p)
  BY <1>0, <1>6, FeedOther DEF StopCheck, SignalCheck, SignalRaise, SignalFails, WatchInv
<1>7. CASE StopInTime(p) \/ StopTimeout(p) \/ AwaitDone(p) \/ AwaitReader(p)
  BY <1>0, <1>7, FeedOther DEF StopInTime, StopTimeout, AwaitDone, AwaitReader, WatchInv
<1>8. CASE RemoveCheck(p) \/ Shutdown(p) \/ CloseCheck(p)
  BY <1>0, <1>8, FeedOther DEF RemoveCheck, Shutdown, CloseCheck, WatchInv
<1>9. CASE FreeTerminal(p) \/ Deregister(p)
  BY <1>0, <1>9, FeedOther DEF FreeTerminal, Deregister, WatchInv
<1> QED
  BY <1>1, <1>2, <1>3, <1>4, <1>5, <1>6, <1>7, <1>8, <1>9, <1>10 DEF Handler

(* Neither the child nor the clients of watchers move a feed.               *)
LEMMA FeedEnvironment == ASSUME IInv, WatchInv, Environment PROVE UNCHANGED F!feedVars
<1>1. UNCHANGED <<screen, last, eof, closed, buf>>
  BY EnvironmentFrame
<1>2. CASE UNCHANGED <<op, pc>>
  BY <1>1, <1>2, FeedStutter DEF feedMode
<1>3. ASSUME NEW p \in Procs, NEW o \in Ops, Begin(p, o) PROVE UNCHANGED F!feedVars
  <2>1. ASSUME NEW q \in Procs PROVE feedMode'[q] = feedMode[q]
    BY <1>1, <1>3 DEF Begin, feedMode, IInv, TypeOK, HandlerType
  <2> QED
    BY <1>1, <2>1, FeedStutter
<1> QED
  BY <1>2, <1>3 DEF Environment, ChildWrite, ChildExit, OrphanExit, ClientChanges

(* What the clients of watchers see of a session is a behaviour of Feed.    *)
THEOREM SessionImplementsFeed == Spec => ImplementsFeed
<1>1. WatchInv /\ IInv /\ [Next]_vars => WatchInv'
  BY WatchStep
<1>2. Init => F!Init
  BY FeedInit
<1>3. IInv /\ WatchInv /\ [Next]_vars => [F!Next]_(F!feedVars)
  <2> SUFFICES ASSUME IInv, WatchInv, [Next]_vars PROVE [F!Next]_(F!feedVars)
    OBVIOUS
  <2>1. CASE UNCHANGED vars
    BY <2>1 DEF F!feedVars, feedMode, feedGoal
  <2> QED
    BY <2>1, NextCases, FeedEnvironment, FeedReader, FeedWaiter, FeedHandler
<1> QED
  BY <1>1, <1>2, <1>3, WatchInit, Inductive, PTL DEF Spec, ImplementsFeed, F!Spec

=============================================================================
