--------------------------- MODULE SessionProofs ---------------------------
(***************************************************************************)
(* Theorems about Session for every number of handlers, every capacity and *)
(* every amount of output.                                                 *)
(***************************************************************************)
EXTENDS Session, TLAPS

-----------------------------------------------------------------------------
(* The inductive invariant.                                                *)

(* readLoop holds s.mu exactly while it fans a chunk out; it then owes the  *)
(* chunk to registered watchers only, and is committed to one of them.     *)
LockInv ==
    /\ mu = "readLoop" <=> rpc = "fanout"
    /\ pending \subseteq subs
    /\ rpc # "fanout" => pending = {} /\ target = None
    /\ target # None => target \in pending
    /\ screen = IF rpc = "got" THEN read - 1 ELSE read
    /\ rpc = "got" => read > 0

(* How far waitLoop has come is what the session says of itself.            *)
ExitInv ==
    /\ state = "running" <=> wpc \in {"wait", "mark"}
    /\ tty = "closed" <=> wpc \in {"closeDone", "end"}
    /\ done <=> wpc = "end"
    /\ wpc # "wait" => child = "reaped"
    /\ state = "exited" => subs = {}

(* Only watches have channels; a channel is registered or closed, not both. *)
ChannelInv ==
    /\ subs \cap closed = {}
    /\ \A p \in Procs :
          /\ p \in subs => op[p] = "watch" /\ pc[p] \in {"stream", "leave"}
          /\ pc[p] \in {"idle", "start"} => buf[p] = <<>> /\ p \notin closed
          /\ At(p, "watch", "stream") => p \in subs \cup closed

(* What each handler has already established at each point of its code.     *)
HandlerInv ==
    \A p \in Procs :
        /\ pc[p] \in {"drain", "free", "deregister"} => state = "exited"
        /\ pc[p] \in {"free", "deregister"} => readDone
        /\ pc[p] = "deregister" => vt = "nil" /\ op[p] = "remove"
        /\ result[p] # "none" => pc[p] = "returned"
        /\ pc[p] \in {"signal", "raise"} =>
              sig[p] = "KILL" \/ (sig[p] = "TERM" /\ op[p] = "stop")
        /\ pc[p] = "grace" => op[p] = "stop"
        /\ (op[p] = "shutdown" /\ pc[p] \notin {"idle", "start"}) => ~registered

IInv ==
    /\ TypeOK /\ LockInv /\ ExitInv /\ ChannelInv /\ HandlerInv
    /\ StreamContiguous /\ TeardownLast /\ OkIsTrue

-----------------------------------------------------------------------------
(* Type correctness.                                                       *)

USE BoundsAssumption
USE DEF vars, envVars, readerVars, subVars, waiterVars, handlerVars, watchVars,
        coreVars, callerVars, systemVars

(* Start returns a session of the right type. *)
LEMMA TypeInit == Init => TypeOK
<1> SUFFICES ASSUME Init PROVE TypeOK
    OBVIOUS
<1> USE DEF Init
<1>1. EnvType
  <2>1. written \in 0..MaxChunks
    OBVIOUS
  <2> QED
    BY <2>1 DEF EnvType
<1>2. ReaderType
    BY DEF ReaderType
<1>3. SharedType
    BY DEF SharedType
<1>4. HandlerType
    BY DEF HandlerType
<1>5. WatchType
    BY DEF WatchType
<1> QED
    BY <1>1, <1>2, <1>3, <1>4, <1>5 DEF TypeOK

(* Every step of the session, of a handler or of the environment keeps it. *)
LEMMA TypeStep == TypeOK /\ [Next]_vars => TypeOK'
<1> SUFFICES ASSUME TypeOK, [Next]_vars PROVE TypeOK'
    OBVIOUS
<1> USE DEF TypeOK, EnvType, ReaderType, SharedType, At, Goto, Answer
<1>1. CASE ChildWrite
    BY <1>1 DEF ChildWrite, HandlerType, WatchType
<1>2. CASE ChildExit
    BY <1>2 DEF ChildExit, HandlerType, WatchType
<1>3. CASE OrphanExit
    BY <1>3 DEF OrphanExit, HandlerType, WatchType
<1>4. ASSUME NEW p \in Procs, ClientChanges(p) PROVE TypeOK'
  <2> USE <1>4 DEF ClientChanges
  <2>1. EnvType' /\ ReaderType'
    OBVIOUS
  <2>2. SharedType'
    OBVIOUS
  <2>3. HandlerType'
    BY DEF HandlerType
  <2>4. WatchType'
    BY DEF WatchType
  <2> QED
    BY <2>1, <2>2, <2>3, <2>4
<1>5. ASSUME NEW p \in Procs, NEW o \in Ops, Begin(p, o) PROVE TypeOK'
    BY <1>5 DEF Begin, HandlerType, WatchType
<1>6. CASE ReadChunk
    BY <1>6 DEF ReadChunk, HandlerType, WatchType
<1>7. CASE ReadEnd
    BY <1>7 DEF ReadEnd, HandlerType, WatchType
<1>8. CASE ParseChunk
    BY <1>8 DEF ParseChunk, HandlerType, WatchType
<1>9. ASSUME NEW p \in Procs, PickTarget(p) PROVE TypeOK'
    BY <1>9 DEF PickTarget, HandlerType, WatchType
<1>10. CASE SendChunk
    BY <1>10 DEF SendChunk, HandlerType, WatchType
<1>11. CASE FanoutDone
    BY <1>11 DEF FanoutDone, HandlerType, WatchType
<1>12. CASE Reap
    BY <1>12 DEF Reap, HandlerType, WatchType
<1>13. CASE MarkExited
    BY <1>13 DEF MarkExited, HandlerType, WatchType
<1>14. CASE ClosePty
    BY <1>14 DEF ClosePty, HandlerType, WatchType
<1>15. CASE CloseDone
    BY <1>15 DEF CloseDone, HandlerType, WatchType
<1>16. ASSUME NEW p \in Procs, SubscribeWithPrime(p) PROVE TypeOK'
  <2> USE <1>16 DEF SubscribeWithPrime
  <2>1. EnvType' /\ ReaderType'
    OBVIOUS
  <2>2. SharedType'
    OBVIOUS
  <2>3. HandlerType'
    BY DEF HandlerType
  <2>4. WatchType'
    BY DEF WatchType
  <2> QED
    BY <2>1, <2>2, <2>3, <2>4
<1>17. ASSUME NEW p \in Procs, ForwardChunk(p) PROVE TypeOK'
  <2> USE <1>17 DEF ForwardChunk
  <2>1. EnvType' /\ ReaderType'
    OBVIOUS
  <2>2. SharedType'
    OBVIOUS
  <2>3. HandlerType'
    BY DEF HandlerType
  <2>4. WatchType'
    <3>1. buf[p] \in Seq(Nat) /\ buf[p] # <<>>
      BY DEF WatchType
    <3>2. Head(buf[p]) \in Nat /\ Tail(buf[p]) \in Seq(Nat)
      BY <3>1
    <3>3. buf' \in [Procs -> Seq(Nat)]
      BY <3>2 DEF WatchType
    <3>4. last' \in [Procs -> Nat]
      BY <3>2 DEF WatchType
    <3> QED
      BY <3>3, <3>4 DEF WatchType
  <2> QED
    BY <2>1, <2>2, <2>3, <2>4
<1>18. ASSUME NEW p \in Procs, EndOfStream(p) PROVE TypeOK'
  <2> USE <1>18 DEF EndOfStream
  <2>1. EnvType' /\ ReaderType'
    OBVIOUS
  <2>2. SharedType'
    OBVIOUS
  <2>3. HandlerType'
    BY DEF HandlerType
  <2>4. WatchType'
    BY DEF WatchType
  <2> QED
    BY <2>1, <2>2, <2>3, <2>4
<1>19. ASSUME NEW p \in Procs, Unsubscribe(p) PROVE TypeOK'
  <2> USE <1>19 DEF Unsubscribe
  <2>1. EnvType' /\ ReaderType'
    OBVIOUS
  <2>2. SharedType'
    OBVIOUS
  <2>3. HandlerType'
    BY DEF HandlerType
  <2>4. WatchType'
    BY DEF WatchType
  <2> QED
    BY <2>1, <2>2, <2>3, <2>4
<1>20. ASSUME NEW p \in Procs, View(p) PROVE TypeOK'
  <2> USE <1>20 DEF View
  <2>1. EnvType' /\ ReaderType'
    OBVIOUS
  <2>2. SharedType'
    OBVIOUS
  <2>3. HandlerType'
    BY DEF HandlerType
  <2>4. WatchType'
    BY DEF WatchType
  <2> QED
    BY <2>1, <2>2, <2>3, <2>4
<1>21. ASSUME NEW p \in Procs, Resize(p) PROVE TypeOK'
  <2> USE <1>21 DEF Resize
  <2>1. EnvType' /\ ReaderType'
    OBVIOUS
  <2>2. SharedType'
    OBVIOUS
  <2>3. HandlerType'
    BY DEF HandlerType
  <2>4. WatchType'
    BY DEF WatchType
  <2> QED
    BY <2>1, <2>2, <2>3, <2>4
<1>22. ASSUME NEW p \in Procs, SendCheck(p) \/ PrimeFails(p) PROVE TypeOK'
  <2> USE <1>22 DEF SendCheck, PrimeFails
  <2>1. EnvType' /\ ReaderType'
    OBVIOUS
  <2>2. SharedType'
    OBVIOUS
  <2>3. HandlerType'
    BY DEF HandlerType
  <2>4. WatchType'
    BY DEF WatchType
  <2> QED
    BY <2>1, <2>2, <2>3, <2>4
<1>23. ASSUME NEW p \in Procs, SendWrite(p) PROVE TypeOK'
  <2> USE <1>23 DEF SendWrite
  <2>1. EnvType' /\ ReaderType'
    OBVIOUS
  <2>2. SharedType'
    OBVIOUS
  <2>3. HandlerType'
    BY DEF HandlerType
  <2>4. WatchType'
    BY DEF WatchType
  <2> QED
    BY <2>1, <2>2, <2>3, <2>4
<1>24. ASSUME NEW p \in Procs, StopCheck(p) PROVE TypeOK'
  <2> USE <1>24 DEF StopCheck
  <2>1. EnvType' /\ ReaderType'
    OBVIOUS
  <2>2. SharedType'
    OBVIOUS
  <2>3. HandlerType'
    BY DEF HandlerType
  <2>4. WatchType'
    BY DEF WatchType
  <2> QED
    BY <2>1, <2>2, <2>3, <2>4
<1>25. ASSUME NEW p \in Procs, SignalCheck(p) PROVE TypeOK'
  <2> USE <1>25 DEF SignalFails, IgnoresError, SignalCheck
  <2>1. EnvType' /\ ReaderType'
    OBVIOUS
  <2>2. SharedType'
    OBVIOUS
  <2>3. HandlerType'
    BY DEF HandlerType
  <2>4. WatchType'
    BY DEF WatchType
  <2> QED
    BY <2>1, <2>2, <2>3, <2>4
<1>26. ASSUME NEW p \in Procs, SignalRaise(p) PROVE TypeOK'
  <2> USE <1>26 DEF SignalFails, IgnoresError, SignalRaise
  <2>1. EnvType' /\ ReaderType'
    OBVIOUS
  <2>2. SharedType'
    OBVIOUS
  <2>3. HandlerType'
    BY DEF HandlerType
  <2>4. WatchType'
    BY DEF WatchType
  <2> QED
    BY <2>1, <2>2, <2>3, <2>4
<1>27. ASSUME NEW p \in Procs, StopInTime(p) PROVE TypeOK'
  <2> USE <1>27 DEF StopInTime
  <2>1. EnvType' /\ ReaderType'
    OBVIOUS
  <2>2. SharedType'
    OBVIOUS
  <2>3. HandlerType'
    BY DEF HandlerType
  <2>4. WatchType'
    BY DEF WatchType
  <2> QED
    BY <2>1, <2>2, <2>3, <2>4
<1>28. ASSUME NEW p \in Procs, StopTimeout(p) PROVE TypeOK'
  <2> USE <1>28 DEF StopTimeout
  <2>1. EnvType' /\ ReaderType'
    OBVIOUS
  <2>2. SharedType'
    OBVIOUS
  <2>3. HandlerType'
    BY DEF HandlerType
  <2>4. WatchType'
    BY DEF WatchType
  <2> QED
    BY <2>1, <2>2, <2>3, <2>4
<1>29. ASSUME NEW p \in Procs, AwaitDone(p) PROVE TypeOK'
  <2> USE <1>29 DEF AwaitDone
  <2>1. EnvType' /\ ReaderType'
    OBVIOUS
  <2>2. SharedType'
    OBVIOUS
  <2>3. HandlerType'
    BY DEF HandlerType
  <2>4. WatchType'
    BY DEF WatchType
  <2> QED
    BY <2>1, <2>2, <2>3, <2>4
<1>30. ASSUME NEW p \in Procs, RemoveCheck(p) PROVE TypeOK'
  <2> USE <1>30 DEF RemoveCheck
  <2>1. EnvType' /\ ReaderType'
    OBVIOUS
  <2>2. SharedType'
    OBVIOUS
  <2>3. HandlerType'
    BY DEF HandlerType
  <2>4. WatchType'
    BY DEF WatchType
  <2> QED
    BY <2>1, <2>2, <2>3, <2>4
<1>31. ASSUME NEW p \in Procs, Shutdown(p) PROVE TypeOK'
  <2> USE <1>31 DEF Shutdown
  <2>1. EnvType' /\ ReaderType'
    OBVIOUS
  <2>2. SharedType'
    OBVIOUS
  <2>3. HandlerType'
    BY DEF HandlerType
  <2>4. WatchType'
    BY DEF WatchType
  <2> QED
    BY <2>1, <2>2, <2>3, <2>4
<1>32. ASSUME NEW p \in Procs, CloseCheck(p) PROVE TypeOK'
  <2> USE <1>32 DEF CloseCheck
  <2>1. EnvType' /\ ReaderType'
    OBVIOUS
  <2>2. SharedType'
    OBVIOUS
  <2>3. HandlerType'
    BY DEF HandlerType
  <2>4. WatchType'
    BY DEF WatchType
  <2> QED
    BY <2>1, <2>2, <2>3, <2>4
<1>33. ASSUME NEW p \in Procs, AwaitReader(p) PROVE TypeOK'
  <2> USE <1>33 DEF readDone, AwaitReader
  <2>1. EnvType' /\ ReaderType'
    OBVIOUS
  <2>2. SharedType'
    OBVIOUS
  <2>3. HandlerType'
    BY DEF HandlerType
  <2>4. WatchType'
    BY DEF WatchType
  <2> QED
    BY <2>1, <2>2, <2>3, <2>4
<1>34. ASSUME NEW p \in Procs, FreeTerminal(p) PROVE TypeOK'
  <2> USE <1>34 DEF FreeTerminal
  <2>1. EnvType' /\ ReaderType'
    OBVIOUS
  <2>2. SharedType'
    OBVIOUS
  <2>3. HandlerType'
    BY DEF HandlerType
  <2>4. WatchType'
    BY DEF WatchType
  <2> QED
    BY <2>1, <2>2, <2>3, <2>4
<1>35. ASSUME NEW p \in Procs, Deregister(p) PROVE TypeOK'
  <2> USE <1>35 DEF Deregister
  <2>1. EnvType' /\ ReaderType'
    OBVIOUS
  <2>2. SharedType'
    OBVIOUS
  <2>3. HandlerType'
    BY DEF HandlerType
  <2>4. WatchType'
    BY DEF WatchType
  <2> QED
    BY <2>1, <2>2, <2>3, <2>4
<1>36. CASE UNCHANGED vars
    BY <1>36 DEF HandlerType, WatchType
<1> QED
    BY <1>1, <1>2, <1>3, <1>4, <1>5, <1>6, <1>7, <1>8, <1>9, <1>10, <1>11, <1>12, <1>13, <1>14, <1>15, <1>16, <1>17, <1>18, <1>19, <1>20, <1>21, <1>22, <1>23, <1>24, <1>25, <1>26, <1>27, <1>28, <1>29, <1>30, <1>31, <1>32, <1>33, <1>34, <1>35, <1>36
       DEF Next, Environment, Reader, Waiter, Handler, AtRest

(* Every variable of a session stays within its type.                       *)
THEOREM TypeCorrect == Spec => []TypeOK
<1>1. QED
    BY TypeInit, TypeStep, PTL DEF Spec

-----------------------------------------------------------------------------
(* Who may change what.                                                    *)

(* What the environment leaves alone. *)
LEMMA EnvironmentFrame ==
    Environment => UNCHANGED <<readerVars, mu, vt, subVars, buf, waiterVars, sig,
                               result, registered, last, eof, crashed>>
BY DEF Environment, ChildWrite, ChildExit, OrphanExit, ClientChanges, Begin

(* What readLoop leaves alone. *)
LEMMA ReaderFrame ==
    Reader => UNCHANGED <<envVars, vt, subVars, waiterVars, handlerVars,
                          watchVars, crashed>>
BY DEF Reader, ReadChunk, ReadEnd, ParseChunk, PickTarget, SendChunk, FanoutDone

(* What waitLoop leaves alone. *)
LEMMA WaiterFrame ==
    Waiter => UNCHANGED <<killed, slave, written, readerVars, mu, vt, buf,
                          handlerVars, watchVars, crashed>>
BY DEF Waiter, Reap, MarkExited, ClosePty, CloseDone

(* Handlers leave the goroutines of the session, the child and the lock      *)
(* alone, and touch the registrations only while s.mu is free.             *)
LEMMA HandlerFrame ==
    ASSUME NEW p \in Procs, Handler(p)
    PROVE  /\ UNCHANGED <<child, slave, written, readerVars, mu, waiterVars>>
           /\ mu = "free" \/ UNCHANGED <<subVars, vt>>
           /\ state = "exited" => subs' \subseteq subs
           /\ subs' \subseteq subs \cup {p} /\ closed' \subseteq closed \cup {p}
<1>1. CASE SubscribeWithPrime(p)
    BY <1>1 DEF SubscribeWithPrime
<1>2. CASE ForwardChunk(p) \/ EndOfStream(p)
    BY <1>2 DEF ForwardChunk, EndOfStream
<1>3. CASE Unsubscribe(p)
    BY <1>3 DEF Unsubscribe
<1>4. CASE View(p) \/ Resize(p) \/ SendCheck(p) \/ SendWrite(p) \/ PrimeFails(p)
    BY <1>4 DEF View, Resize, SendCheck, SendWrite, PrimeFails
<1>5. CASE StopCheck(p) \/ SignalCheck(p) \/ SignalRaise(p)
    BY <1>5 DEF StopCheck, SignalCheck, SignalRaise
<1>6. CASE StopInTime(p) \/ StopTimeout(p) \/ AwaitDone(p) \/ AwaitReader(p)
    BY <1>6 DEF StopInTime, StopTimeout, AwaitDone, AwaitReader
<1>7. CASE RemoveCheck(p) \/ Shutdown(p) \/ CloseCheck(p) \/ FreeTerminal(p) \/ Deregister(p)
    BY <1>7 DEF RemoveCheck, Shutdown, CloseCheck, FreeTerminal, Deregister
<1> QED
    BY <1>1, <1>2, <1>3, <1>4, <1>5, <1>6, <1>7 DEF Handler

(* The cases of a step.                                                     *)
LEMMA NextCases ==
    [Next]_vars => \/ Environment \/ Reader \/ Waiter
                   \/ \E p \in Procs : Handler(p)
                   \/ UNCHANGED vars
BY DEF Next, AtRest

-----------------------------------------------------------------------------
(* The lock, the end of the session.                                       *)

(* s.mu is held by readLoop in its fan-out, and by nobody else over a step. *)
LEMMA LockStep == IInv /\ [Next]_vars => LockInv'
<1> SUFFICES ASSUME IInv, [Next]_vars PROVE LockInv'
    OBVIOUS
<1> USE DEF IInv, LockInv
<1>1. CASE Environment \/ UNCHANGED vars
    BY <1>1, EnvironmentFrame
<1>2. CASE Reader
  <2>1. UNCHANGED <<subs, vt>>
    BY <1>2, ReaderFrame
  <2>2. read \in Nat /\ screen \in Nat
    BY DEF TypeOK, ReaderType
  <2>3. CASE ReadChunk
    BY <2>1, <2>2, <2>3 DEF ReadChunk
  <2>4. CASE ReadEnd
    BY <2>1, <2>4 DEF ReadEnd
  <2>5. CASE ParseChunk
    BY <2>1, <2>5 DEF ParseChunk, TeardownLast, readDone
  <2>6. ASSUME NEW p \in Procs, PickTarget(p) PROVE LockInv'
    BY <2>1, <2>6 DEF PickTarget
  <2>7. CASE SendChunk
    BY <2>1, <2>7 DEF SendChunk
  <2>8. CASE FanoutDone
    BY <2>1, <2>8 DEF FanoutDone
  <2> QED
    BY <1>2, <2>3, <2>4, <2>5, <2>6, <2>7, <2>8 DEF Reader
<1>3. CASE Waiter
  <2>1. UNCHANGED <<readerVars, mu>>
    BY <1>3, WaiterFrame
  <2>2. mu = "free" \/ UNCHANGED subs
    BY <1>3 DEF Waiter, Reap, MarkExited, ClosePty, CloseDone
  <2> QED
    BY <2>1, <2>2
<1>4. ASSUME NEW p \in Procs, Handler(p) PROVE LockInv'
    BY <1>4, HandlerFrame
<1> QED
    BY <1>1, <1>2, <1>3, <1>4, NextCases

(* The end of the session goes in waitLoop's order. *)
LEMMA ExitStep == IInv /\ [Next]_vars => ExitInv'
<1> SUFFICES ASSUME IInv, [Next]_vars PROVE ExitInv'
    OBVIOUS
<1> USE DEF IInv, ExitInv
<1>1. CASE Environment
  <2>1. UNCHANGED <<subVars, waiterVars>>
    BY <1>1, EnvironmentFrame
  <2>2. child = "reaped" => child' = "reaped"
    BY <1>1 DEF Environment, ChildWrite, ChildExit, OrphanExit, ClientChanges, Begin
  <2> QED
    BY <2>1, <2>2
<1>2. CASE Reader \/ UNCHANGED vars
    BY <1>2, ReaderFrame
<1>3. CASE Waiter
  <2> USE DEF TypeOK, SharedType
  <2>1. CASE Reap
    BY <2>1 DEF Reap
  <2>2. CASE MarkExited
    BY <2>2 DEF MarkExited
  <2>3. CASE ClosePty
    BY <2>3 DEF ClosePty
  <2>4. CASE CloseDone
    BY <2>4 DEF CloseDone
  <2> QED
    BY <1>3, <2>1, <2>2, <2>3, <2>4 DEF Waiter
<1>4. ASSUME NEW p \in Procs, Handler(p) PROVE ExitInv'
    BY <1>4, HandlerFrame
<1> QED
    BY <1>1, <1>2, <1>3, <1>4, NextCases

-----------------------------------------------------------------------------
(* Channels and handlers.                                                  *)

(* Registered channels stay open and have a receiver. *)
LEMMA ChannelStep == IInv /\ [Next]_vars => ChannelInv'
<1> SUFFICES ASSUME IInv, [Next]_vars PROVE ChannelInv'
    OBVIOUS
<1> USE DEF IInv, ChannelInv, TypeOK, HandlerType, WatchType, At, Goto, Answer
<1>1. CASE Environment
  <2>1. UNCHANGED <<subVars, buf>>
    BY <1>1, EnvironmentFrame
  <2>2. CASE UNCHANGED <<op, pc>>
    BY <2>1, <2>2
  <2>3. ASSUME NEW p \in Procs, NEW o \in Ops, Begin(p, o) PROVE ChannelInv'
    BY <2>1, <2>3 DEF Begin
  <2> QED
    BY <1>1, <2>2, <2>3 DEF Environment, ChildWrite, ChildExit, OrphanExit, ClientChanges
<1>2. CASE Reader
  <2>1. UNCHANGED <<subVars, op, pc>>
    BY <1>2, ReaderFrame
  <2>2. CASE UNCHANGED buf
    BY <2>1, <2>2
  <2>3. CASE SendChunk
    <3>1. target \in subs
      BY <2>3 DEF SendChunk, LockInv
    <3>2. \A q \in Procs : q # target => buf'[q] = buf[q]
      BY <2>3 DEF SendChunk
    <3> QED
      BY <2>1, <3>1, <3>2
  <2> QED
    BY <1>2, <2>2, <2>3 DEF Reader, ReadChunk, ReadEnd, ParseChunk, PickTarget, FanoutDone
<1>3. CASE Waiter
  <2>1. UNCHANGED <<buf, op, pc>>
    BY <1>3, WaiterFrame
  <2>2. CASE UNCHANGED subVars
    BY <2>1, <2>2
  <2>3. CASE MarkExited
    BY <2>1, <2>3 DEF MarkExited
  <2> QED
    BY <1>3, <2>2, <2>3 DEF Waiter, Reap, ClosePty, CloseDone
<1>4. ASSUME NEW p \in Procs, Handler(p) PROVE ChannelInv'
  <2>1. CASE SubscribeWithPrime(p)
    BY <2>1 DEF SubscribeWithPrime
  <2>2. CASE ForwardChunk(p)
    BY <2>2 DEF ForwardChunk
  <2>3. CASE EndOfStream(p)
    BY <2>3 DEF EndOfStream
  <2>4. CASE Unsubscribe(p)
    BY <2>4 DEF Unsubscribe
  <2>5. CASE View(p)
    BY <2>5 DEF View
  <2>6. CASE Resize(p)
    BY <2>6 DEF Resize
  <2>7. CASE SendCheck(p) \/ PrimeFails(p)
    BY <2>7 DEF SendCheck, PrimeFails
  <2>8. CASE SendWrite(p)
    BY <2>8 DEF SendWrite
  <2>9. CASE StopCheck(p)
    BY <2>9 DEF StopCheck
  <2>10. CASE SignalCheck(p)
    BY <2>10 DEF SignalFails, IgnoresError, SignalCheck
  <2>11. CASE SignalRaise(p)
    BY <2>11 DEF SignalFails, IgnoresError, SignalRaise
  <2>12. CASE StopInTime(p)
    BY <2>12 DEF StopInTime
  <2>13. CASE StopTimeout(p)
    BY <2>13 DEF StopTimeout
  <2>14. CASE AwaitDone(p)
    BY <2>14 DEF AwaitDone
  <2>15. CASE RemoveCheck(p)
    BY <2>15 DEF RemoveCheck
  <2>16. CASE Shutdown(p)
    BY <2>16 DEF Shutdown
  <2>17. CASE CloseCheck(p)
    BY <2>17 DEF CloseCheck
  <2>18. CASE AwaitReader(p)
    BY <2>18 DEF readDone, AwaitReader
  <2>19. CASE FreeTerminal(p)
    BY <2>19 DEF FreeTerminal
  <2>20. CASE Deregister(p)
    BY <2>20 DEF Deregister
  <2> QED
    BY <1>4, <2>1, <2>2, <2>3, <2>4, <2>5, <2>6, <2>7, <2>8, <2>9, <2>10, <2>11, <2>12, <2>13, <2>14, <2>15, <2>16, <2>17, <2>18, <2>19, <2>20 DEF Handler
<1>5. CASE UNCHANGED vars
    BY <1>5
<1> QED
    BY <1>1, <1>2, <1>3, <1>4, <1>5, NextCases

(* A handler's position keeps meaning what it says. *)
LEMMA HandlerStep == IInv /\ [Next]_vars => HandlerInv'
<1> SUFFICES ASSUME IInv, [Next]_vars PROVE HandlerInv'
    OBVIOUS
<1> USE DEF IInv, HandlerInv, TypeOK, HandlerType, At, Goto, Answer
<1>1. CASE Environment
  <2>1. UNCHANGED <<state, rpc, vt, sig, result, registered>>
    BY <1>1, EnvironmentFrame
  <2>2. CASE UNCHANGED <<op, pc>>
    BY <2>1, <2>2 DEF readDone
  <2>3. ASSUME NEW p \in Procs, NEW o \in Ops, Begin(p, o) PROVE HandlerInv'
    BY <2>1, <2>3 DEF Begin, readDone
  <2> QED
    BY <1>1, <2>2, <2>3 DEF Environment, ChildWrite, ChildExit, OrphanExit, ClientChanges
<1>2. CASE Reader
  <2>1. UNCHANGED <<state, vt, op, pc, sig, result, registered>>
    BY <1>2, ReaderFrame
  <2>2. readDone => readDone'
    BY <1>2 DEF Reader, ReadChunk, ReadEnd, ParseChunk, PickTarget, SendChunk,
                FanoutDone, readDone
  <2> QED
    BY <2>1, <2>2
<1>3. CASE Waiter
  <2>1. UNCHANGED <<rpc, vt, op, pc, sig, result, registered>>
    BY <1>3, WaiterFrame
  <2>2. state = "exited" => state' = "exited"
    BY <1>3 DEF Waiter, Reap, MarkExited, ClosePty, CloseDone
  <2> QED
    BY <2>1, <2>2 DEF readDone
<1>4. ASSUME NEW p \in Procs, Handler(p) PROVE HandlerInv'
  <2> USE DEF readDone, ExitInv, SharedType
  <2>1. CASE SubscribeWithPrime(p)
    BY <2>1 DEF SubscribeWithPrime
  <2>2. CASE ForwardChunk(p)
    BY <2>2 DEF ForwardChunk
  <2>3. CASE EndOfStream(p)
    BY <2>3 DEF EndOfStream
  <2>4. CASE Unsubscribe(p)
    BY <2>4 DEF Unsubscribe
  <2>5. CASE View(p)
    BY <2>5 DEF View
  <2>6. CASE Resize(p)
    BY <2>6 DEF Resize
  <2>7. CASE SendCheck(p) \/ PrimeFails(p)
    BY <2>7 DEF SendCheck, PrimeFails
  <2>8. CASE SendWrite(p)
    BY <2>8 DEF SendWrite
  <2>9. CASE StopCheck(p)
    BY <2>9 DEF StopCheck
  <2>10. CASE SignalCheck(p)
    BY <2>10 DEF SignalFails, IgnoresError, SignalCheck
  <2>11. CASE SignalRaise(p)
    BY <2>11 DEF SignalFails, IgnoresError, SignalRaise
  <2>12. CASE StopInTime(p)
    BY <2>12 DEF StopInTime
  <2>13. CASE StopTimeout(p)
    BY <2>13 DEF StopTimeout
  <2>14. CASE AwaitDone(p)
    BY <2>14 DEF AwaitDone
  <2>15. CASE RemoveCheck(p)
    BY <2>15 DEF RemoveCheck
  <2>16. CASE Shutdown(p)
    BY <2>16 DEF Shutdown
  <2>17. CASE CloseCheck(p)
    BY <2>17 DEF CloseCheck
  <2>18. CASE AwaitReader(p)
    BY <2>18 DEF readDone, AwaitReader
  <2>19. CASE FreeTerminal(p)
    BY <2>19 DEF FreeTerminal
  <2>20. CASE Deregister(p)
    BY <2>20 DEF Deregister
  <2> QED
    BY <1>4, <2>1, <2>2, <2>3, <2>4, <2>5, <2>6, <2>7, <2>8, <2>9, <2>10, <2>11, <2>12, <2>13, <2>14, <2>15, <2>16, <2>17, <2>18, <2>19, <2>20 DEF Handler
<1>5. CASE UNCHANGED vars
    BY <1>5 DEF readDone
<1> QED
    BY <1>1, <1>2, <1>3, <1>4, <1>5, NextCases

(* Nobody uses the terminal, or registers, after Close has freed it. *)
LEMMA TeardownStep == IInv /\ [Next]_vars => TeardownLast'
<1> SUFFICES ASSUME IInv, [Next]_vars PROVE TeardownLast'
    OBVIOUS
<1> USE DEF IInv, TeardownLast, readDone
<1>1. CASE Environment \/ UNCHANGED vars
    BY <1>1, EnvironmentFrame
<1>2. CASE Reader
  <2>1. UNCHANGED <<vt, state, subs>>
    BY <1>2, ReaderFrame
  <2>2. rpc = "exit" => rpc' = "exit"
    BY <1>2 DEF Reader, ReadChunk, ReadEnd, ParseChunk, PickTarget, SendChunk, FanoutDone
  <2> QED
    BY <2>1, <2>2
<1>3. CASE Waiter
    BY <1>3 DEF Waiter, Reap, MarkExited, ClosePty, CloseDone
<1>4. ASSUME NEW p \in Procs, Handler(p) PROVE TeardownLast'
  <2>1. UNCHANGED <<state, rpc>> /\ (state = "exited" => subs' \subseteq subs)
    BY <1>4, HandlerFrame
  <2>2. CASE FreeTerminal(p)
    BY <2>1, <2>2 DEF FreeTerminal, HandlerInv, ExitInv
  <2>3. CASE UNCHANGED vt
    BY <2>1, <2>3
  <2> QED
    BY <1>4, <2>2, <2>3 DEF Handler, SubscribeWithPrime, PrimeFails, ForwardChunk, EndOfStream,
       Unsubscribe, View, Resize, SendCheck, SendWrite, StopCheck, SignalCheck,
       SignalRaise, StopInTime, StopTimeout, AwaitDone, RemoveCheck, Shutdown,
       CloseCheck, AwaitReader, Deregister
<1> QED
    BY <1>1, <1>2, <1>3, <1>4, NextCases

-----------------------------------------------------------------------------
(* The watchers' streams.                                                  *)

(* StreamContiguous for one watcher.                                        *)
StreamOf(q) ==
    At(q, "watch", "stream") =>
        /\ \A i \in 1..Len(buf[q]) : buf[q][i] = last[q] + i
        /\ q \in subs => last[q] + Len(buf[q]) + (IF q \in pending THEN 1 ELSE 0) = screen

(* A step that leaves q's position, channel and registration alone and does  *)
(* not bring it into the stream preserves its part of the invariant.       *)
LEMMA StreamFrame ==
    ASSUME NEW q \in Procs, StreamOf(q),
           At(q, "watch", "stream")' => At(q, "watch", "stream"),
           buf'[q] = buf[q], last'[q] = last[q],
           q \in subs' => q \in subs,
           UNCHANGED <<pending, screen>>
    PROVE  StreamOf(q)'
BY DEF StreamOf

(* Arithmetic of one step of a stream. *)
LEMMA ShiftedSum == ASSUME NEW a \in Nat, NEW i \in Nat PROVE a + (i + 1) = (a + 1) + i
OBVIOUS

(* Every step keeps every watcher's stream contiguous. *)
LEMMA StreamStep == IInv /\ [Next]_vars => StreamContiguous'
<1> SUFFICES ASSUME IInv, [Next]_vars, NEW q \in Procs PROVE StreamOf(q)'
    BY DEF StreamContiguous, StreamOf
<1> USE DEF IInv, TypeOK
<1>0. StreamOf(q) /\ buf[q] \in Seq(Nat) /\ last[q] \in Nat /\ screen \in Nat
    BY DEF StreamContiguous, StreamOf, WatchType, ReaderType
<1>1. CASE Environment
  <2>1. UNCHANGED <<pending, screen, buf, last, subs>>
    BY <1>1, EnvironmentFrame
  <2>2. At(q, "watch", "stream")' => At(q, "watch", "stream")
    BY <1>1 DEF Environment, ChildWrite, ChildExit, OrphanExit, ClientChanges, Begin,
       At, HandlerType
  <2> QED
    BY <1>0, <2>1, <2>2, StreamFrame
<1>2. CASE Reader
  <2>1. UNCHANGED <<op, pc, last, subs, vt>>
    BY <1>2, ReaderFrame
  <2>2. CASE UNCHANGED <<buf, pending, screen>>
    BY <1>0, <2>1, <2>2 DEF StreamOf, At
  <2>3. CASE ParseChunk
    <3>1. pending = {} /\ vt = "open" /\ screen = read - 1 /\ read \in Nat
      BY <2>3 DEF ParseChunk, LockInv, TeardownLast, readDone, SharedType, ReaderType
    <3>2. pending' = subs /\ screen' = screen + 1 /\ UNCHANGED buf
      BY <2>3, <3>1 DEF ParseChunk
    <3> QED
      BY <1>0, <2>1, <3>1, <3>2 DEF StreamOf, At
  <2>4. CASE SendChunk
    <3>1. /\ target \in pending /\ target \in subs /\ screen = read
          /\ buf' = [buf EXCEPT ![target] = Append(@, read)]
          /\ pending' = pending \ {target} /\ UNCHANGED screen
      BY <2>4 DEF SendChunk, LockInv
    <3>2. CASE q # target
      <4>1. buf'[q] = buf[q] /\ (q \in pending' <=> q \in pending)
        BY <3>1, <3>2
      <4> QED
        BY <1>0, <2>1, <3>1, <4>1 DEF StreamOf, At
    <3>3. CASE q = target
      <4>1. buf'[q] = Append(buf[q], screen)
        BY <3>1, <3>3 DEF WatchType
      <4>2. SUFFICES ASSUME At(q, "watch", "stream") PROVE StreamOf(q)'
        BY <2>1 DEF StreamOf, At
      <4>3. last[q] + Len(buf[q]) + 1 = screen
        BY <1>0, <3>1, <3>3, <4>2 DEF StreamOf
      <4>4. /\ Len(buf'[q]) = Len(buf[q]) + 1
            /\ \A i \in 1..Len(buf'[q]) : buf'[q][i] = last[q] + i
        <5>1. Len(buf[q]) \in Nat /\ Len(buf'[q]) = Len(buf[q]) + 1
          BY <1>0, <4>1
        <5>2. ASSUME NEW i \in 1..Len(buf[q]) PROVE buf'[q][i] = last[q] + i
          <6>1. buf'[q][i] = buf[q][i]
            BY <1>0, <4>1
          <6> QED
            BY <1>0, <4>2, <6>1 DEF StreamOf
        <5>3. buf'[q][Len(buf[q]) + 1] = last[q] + (Len(buf[q]) + 1)
          <6>1. buf'[q][Len(buf[q]) + 1] = screen
            BY <1>0, <4>1
          <6> QED
            BY <1>0, <4>3, <5>1, <6>1
        <5>4. \A i \in 1..Len(buf'[q]) : i \in 1..Len(buf[q]) \/ i = Len(buf[q]) + 1
          BY <5>1
        <5> QED
          BY <5>1, <5>2, <5>3, <5>4
      <4>5. q \notin pending'
        BY <3>1, <3>3
      <4> QED
        BY <1>0, <2>1, <3>1, <4>3, <4>4, <4>5 DEF StreamOf
    <3> QED
      BY <3>2, <3>3
  <2>5. CASE FanoutDone
    BY <1>0, <2>1, <2>2, <2>5 DEF FanoutDone
  <2> QED
    BY <1>2, <2>2, <2>3, <2>4, <2>5 DEF Reader, ReadChunk, ReadEnd, PickTarget
<1>3. CASE Waiter
  <2>1. UNCHANGED <<pending, screen, buf, last, op, pc>> /\ subs' \subseteq subs
    BY <1>3, WaiterFrame DEF Waiter, Reap, MarkExited, ClosePty, CloseDone
  <2> QED
    BY <1>0, <2>1, StreamFrame DEF At
<1>4. ASSUME NEW p \in Procs, Handler(p) PROVE StreamOf(q)'
  <2> USE DEF At, Goto, Answer, HandlerType
  <2>1. UNCHANGED <<pending, screen, mu>> /\ subs' \subseteq subs \cup {p}
    BY <1>4, HandlerFrame
  <2>2. CASE SubscribeWithPrime(p)
    <3>1. CASE q = p /\ vt # "nil"
      <4>1. buf'[q] = <<>> /\ last'[q] = screen /\ q \notin pending
        BY <2>2, <3>1 DEF SubscribeWithPrime, ChannelInv, LockInv, WatchType
      <4> QED
        BY <1>0, <2>1, <4>1 DEF StreamOf
    <3>2. CASE q # p \/ vt = "nil"
      <4>1. /\ buf'[q] = buf[q] /\ last'[q] = last[q] /\ (q \in subs' => q \in subs)
            /\ pc'[q] = pc[q] /\ op'[q] = op[q]
        BY <2>1, <2>2, <3>2 DEF SubscribeWithPrime, WatchType
      <4> QED
        BY <1>0, <2>1, <4>1, StreamFrame
    <3> QED
      BY <3>1, <3>2
  <2>3. CASE ForwardChunk(p)
    <3>1. CASE q = p /\ client[p] # "gone"
      <4>1. /\ buf[q] # <<>> /\ At(q, "watch", "stream")
            /\ buf'[q] = Tail(buf[q]) /\ last'[q] = Head(buf[q]) /\ UNCHANGED subs
        BY <2>3, <3>1 DEF ForwardChunk, WatchType
      <4>2. Len(buf[q]) \in Nat /\ Len(buf[q]) > 0
        BY <1>0, <4>1
      <4>3. last'[q] = last[q] + 1
        BY <1>0, <4>1, <4>2 DEF StreamOf
      <4>4. /\ Len(buf'[q]) = Len(buf[q]) - 1
            /\ \A i \in 1..Len(buf'[q]) : buf'[q][i] = buf[q][i + 1]
        BY <1>0, <4>1, <4>2
      <4>5. ASSUME NEW i \in 1..Len(buf'[q]) PROVE buf'[q][i] = last'[q] + i
        <5>1. i \in Nat /\ i + 1 \in 1..Len(buf[q]) /\ buf'[q][i] = buf[q][i + 1]
          BY <4>2, <4>4
        <5>2. buf[q][i + 1] = last[q] + (i + 1)
          BY <1>0, <4>1, <5>1 DEF StreamOf
        <5>3. last[q] \in Nat /\ i \in Nat
          BY <1>0, <5>1
        <5>4. last[q] + (i + 1) = (last[q] + 1) + i
          BY <5>3, ShiftedSum
        <5> QED
          BY <4>3, <5>1, <5>2, <5>4
      <4> QED
        BY <1>0, <2>1, <4>1, <4>2, <4>3, <4>4, <4>5 DEF StreamOf
    <3>2. CASE q = p /\ client[p] = "gone"
      BY <2>3, <3>2 DEF ForwardChunk, StreamOf
    <3>3. CASE q # p
      <4>1. /\ buf'[q] = buf[q] /\ last'[q] = last[q] /\ UNCHANGED subs
            /\ pc'[q] = pc[q] /\ op'[q] = op[q]
        BY <2>3, <3>3 DEF ForwardChunk, WatchType
      <4> QED
        BY <1>0, <2>1, <4>1, StreamFrame
    <3> QED
      BY <3>1, <3>2, <3>3
  <2>4. CASE EndOfStream(p)
    BY <1>0, <2>1, <2>4, StreamFrame DEF EndOfStream
  <2>5. CASE Unsubscribe(p)
    BY <1>0, <2>1, <2>5, StreamFrame DEF Unsubscribe
  <2>6. CASE UNCHANGED <<buf, last, subs>> /\ (At(q, "watch", "stream")' => At(q, "watch", "stream"))
    BY <1>0, <2>1, <2>6, StreamFrame
  <2>7. CASE View(p)
    BY <2>6, <2>7 DEF View
  <2>8. CASE Resize(p)
    BY <2>6, <2>8 DEF Resize
  <2>9. CASE SendCheck(p) \/ PrimeFails(p)
    BY <2>6, <2>9 DEF SendCheck, PrimeFails
  <2>10. CASE SendWrite(p)
    BY <2>6, <2>10 DEF SendWrite
  <2>11. CASE StopCheck(p)
    BY <2>6, <2>11 DEF StopCheck
  <2>12. CASE SignalCheck(p)
    BY <2>6, <2>12 DEF SignalFails, IgnoresError, SignalCheck
  <2>13. CASE SignalRaise(p)
    BY <2>6, <2>13 DEF SignalFails, IgnoresError, SignalRaise
  <2>14. CASE StopInTime(p)
    BY <2>6, <2>14 DEF StopInTime
  <2>15. CASE StopTimeout(p)
    BY <2>6, <2>15 DEF StopTimeout
  <2>16. CASE AwaitDone(p)
    BY <2>6, <2>16 DEF AwaitDone
  <2>17. CASE RemoveCheck(p)
    BY <2>6, <2>17 DEF RemoveCheck
  <2>18. CASE Shutdown(p)
    BY <2>6, <2>18 DEF Shutdown
  <2>19. CASE CloseCheck(p)
    BY <2>6, <2>19 DEF CloseCheck
  <2>20. CASE AwaitReader(p)
    BY <2>6, <2>20 DEF readDone, AwaitReader
  <2>21. CASE FreeTerminal(p)
    BY <2>6, <2>21 DEF FreeTerminal
  <2>22. CASE Deregister(p)
    BY <2>6, <2>22 DEF Deregister
  <2> QED
    BY <1>4, <2>2, <2>3, <2>4, <2>5, <2>7, <2>8, <2>9, <2>10, <2>11, <2>12, <2>13, <2>14, <2>15, <2>16, <2>17, <2>18, <2>19, <2>20, <2>21, <2>22 DEF Handler
<1>5. CASE UNCHANGED vars
    BY <1>0, <1>5, StreamFrame DEF At
<1> QED
    BY <1>1, <1>2, <1>3, <1>4, <1>5, NextCases

-----------------------------------------------------------------------------
(* The answers.                                                            *)

(* An answer stays true, and a new one is. *)
LEMMA OkStep == IInv /\ [Next]_vars => OkIsTrue'
<1> SUFFICES ASSUME IInv, [Next]_vars PROVE OkIsTrue'
    OBVIOUS
<1> USE DEF IInv, OkIsTrue, TypeOK, SharedType, HandlerType
<1>1. CASE Environment
  <2>1. UNCHANGED <<state, vt, result, registered>>
    BY <1>1, EnvironmentFrame
  <2>2. child = "reaped" => child' = "reaped"
    BY <1>1 DEF Environment, ChildWrite, ChildExit, OrphanExit, ClientChanges, Begin
  <2>3. \A p \in Procs : result[p] = "ok" => op'[p] = op[p]
    BY <1>1 DEF Environment, ChildWrite, ChildExit, OrphanExit, ClientChanges, Begin,
       HandlerInv
  <2> QED
    BY <2>1, <2>2, <2>3
<1>2. CASE Reader \/ UNCHANGED vars
    BY <1>2, ReaderFrame
<1>3. CASE Waiter
  <2>1. UNCHANGED <<vt, op, result, registered>>
    BY <1>3, WaiterFrame
  <2>2. /\ state = "exited" => state' = "exited"
        /\ child = "reaped" => child' = "reaped"
    BY <1>3 DEF Waiter, Reap, MarkExited, ClosePty, CloseDone
  <2> QED
    BY <2>1, <2>2
<1>4. ASSUME NEW p \in Procs, Handler(p) PROVE OkIsTrue'
  <2> USE DEF At, Goto, Answer, HandlerInv, ExitInv
  <2>1. CASE SubscribeWithPrime(p)
    BY <2>1 DEF SubscribeWithPrime
  <2>2. CASE ForwardChunk(p)
    BY <2>2 DEF ForwardChunk
  <2>3. CASE EndOfStream(p)
    BY <2>3 DEF EndOfStream
  <2>4. CASE Unsubscribe(p)
    BY <2>4 DEF Unsubscribe
  <2>5. CASE View(p)
    BY <2>5 DEF View
  <2>6. CASE Resize(p)
    BY <2>6 DEF Resize
  <2>7. CASE SendCheck(p) \/ PrimeFails(p)
    BY <2>7 DEF SendCheck, PrimeFails
  <2>8. CASE SendWrite(p)
    BY <2>8 DEF SendWrite
  <2>9. CASE StopCheck(p)
    BY <2>9 DEF StopCheck
  <2>10. CASE SignalCheck(p)
    BY <2>10 DEF SignalFails, IgnoresError, SignalCheck
  <2>11. CASE SignalRaise(p)
    BY <2>11 DEF SignalFails, IgnoresError, SignalRaise
  <2>12. CASE StopInTime(p)
    BY <2>12 DEF StopInTime
  <2>13. CASE StopTimeout(p)
    BY <2>13 DEF StopTimeout
  <2>14. CASE AwaitDone(p)
    BY <2>14 DEF AwaitDone
  <2>15. CASE RemoveCheck(p)
    BY <2>15 DEF RemoveCheck
  <2>16. CASE Shutdown(p)
    BY <2>16 DEF Shutdown
  <2>17. CASE CloseCheck(p)
    BY <2>17 DEF CloseCheck
  <2>18. CASE AwaitReader(p)
    BY <2>18 DEF readDone, AwaitReader
  <2>19. CASE FreeTerminal(p)
    BY <2>19 DEF FreeTerminal
  <2>20. CASE Deregister(p)
    BY <2>20 DEF Deregister
  <2> QED
    BY <1>4, <2>1, <2>2, <2>3, <2>4, <2>5, <2>6, <2>7, <2>8, <2>9, <2>10, <2>11, <2>12, <2>13, <2>14, <2>15, <2>16, <2>17, <2>18, <2>19, <2>20 DEF Handler
<1> QED
    BY <1>1, <1>2, <1>3, <1>4, NextCases

-----------------------------------------------------------------------------

(* The invariant holds when Start returns. *)
LEMMA IInvInit == Init => IInv
<1> SUFFICES ASSUME Init PROVE IInv
    OBVIOUS
<1>1. TypeOK
    BY TypeInit
<1>2. LockInv /\ ExitInv /\ TeardownLast
    BY DEF Init, LockInv, ExitInv, TeardownLast
<1>3. ChannelInv /\ HandlerInv
    BY DEF Init, ChannelInv, HandlerInv, At
<1>4. StreamContiguous /\ OkIsTrue
    BY DEF Init, StreamContiguous, OkIsTrue, At
<1> QED
    BY <1>1, <1>2, <1>3, <1>4 DEF IInv

(* The inductive invariant holds in every state of every behaviour. *)
THEOREM Inductive == Spec => []IInv
<1>1. IInv /\ [Next]_vars => IInv'
  <2>1. IInv /\ [Next]_vars => TypeOK'
    BY TypeStep DEF IInv
  <2> QED
    BY <2>1, LockStep, ExitStep, ChannelStep, HandlerStep, StreamStep, TeardownStep,
       OkStep DEF IInv
<1> QED
    BY IInvInit, <1>1, PTL DEF Spec

(* readLoop never sends on a closed channel: what it is committed to is      *)
(* still owed, what is owed is registered, what is registered is open.     *)
THEOREM SendsAreSafe == Spec => []NoSendOnClosed
<1>1. IInv => NoSendOnClosed
    BY DEF IInv, LockInv, ChannelInv, NoSendOnClosed
<1> QED
    BY <1>1, Inductive, PTL

(* Watch streams have no gap, no repetition and no reordering.              *)
THEOREM StreamsAreContiguous == Spec => []StreamContiguous
<1>1. IInv => StreamContiguous
    BY DEF IInv
<1> QED
    BY <1>1, Inductive, PTL

(* Close frees the terminal after readLoop has returned and the session has  *)
(* exited.                                                                 *)
THEOREM TeardownIsLast == Spec => []TeardownLast
<1>1. IInv => TeardownLast
    BY DEF IInv
<1> QED
    BY <1>1, Inductive, PTL

(* A session that is done is reaped, exited, closed and without watchers.   *)
THEOREM DoneMeansOver == Spec => []DoneIsFinal
<1>1. IInv => DoneIsFinal
    BY DEF IInv, ExitInv, DoneIsFinal, TypeOK, SharedType
<1> QED
    BY <1>1, Inductive, PTL

(* A handler that answers ok has done what was asked.                       *)
THEOREM AnswersAreTrue == Spec => []OkIsTrue
<1>1. IInv => OkIsTrue
    BY DEF IInv
<1> QED
    BY <1>1, Inductive, PTL

=============================================================================
