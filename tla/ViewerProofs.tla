---------------------------- MODULE ViewerProofs ----------------------------
(***************************************************************************)
(* Theorems about commands, daemons and viewers, for every number of them, *)
(* every number of frames and of faults.                                   *)
(***************************************************************************)
EXTENDS Viewer, SpawnProofs

-----------------------------------------------------------------------------
(* Until its request is accepted a viewer has done nothing.                 *)
BeforeInv ==
    \A v \in Commands : cpc[v] \notin {"stream", "returned"} =>
        /\ gpc[v] = "ack" /\ mpc[v] = "select"
        /\ sent[v] = 0 /\ stream[v] = "open"

(* What the goroutine has done at each point of its code.                   *)
GoroutineInv ==
    \A v \in Commands :
        /\ gpc[v] \in {"ack", "ready"} => shown[v] = 0 /\ term[v] = {} /\ header[v] = "none"
        /\ (gpc[v] # "ack" /\ kind[v] = "watch") => ~waiting[v]
        /\ kind[v] # "watch" => term[v] = {}
        /\ (kind[v] = "record" /\ gpc[v] \in {"read", "done"}) => header[v] # "none"
        /\ shown[v] > 0 => header[v] # "failed"
        /\ shown[v] <= sent[v]
        /\ err[v] = "none" <=> gpc[v] # "done"
        /\ err[v] = "nil" => shown[v] = sent[v] /\ (stream[v] # "open" \/ gone(v))
        /\ stream[v] = "dropped" => sent[v] = 0

(* What main has done.                                                      *)
MainInv ==
    \A v \in Commands : v \notin signalled =>
        /\ mpc[v] = "exit" => gpc[v] = "done" /\ term[v] \cap {"alt", "listed"} = {}
        /\ (cpc[v] = "returned" /\ v \in viewers /\ result[v] = "ok") => err[v] = "nil"
        /\ cpc[v] = "returned" => mpc[v] = "exit" \/ gpc[v] = "ack"

ViewInv == SpawnInv /\ ViewTypeOK /\ BeforeInv /\ GoroutineInv /\ MainInv

-----------------------------------------------------------------------------
(* What a step is, and what it does to viewers.                            *)

USE SpawnAssumption, ViewerAssumption
USE DEF commandVars, daemonVars, spawnVars, viewVars, allVars

\* A step of the viewer v or of its handler.
ViewerStep(v) ==
    Ack(v) \/ DropStream(v) \/ SendFrame(v) \/ SendEOF(v) \/ Goroutine(v) \/ Main(v) \/ Interrupt(v)

(* A step is one of Spawn or one of a viewer. *)
LEMMA ViewCases ==
    ASSUME [ViewNext]_allVars
    PROVE  \/ UNCHANGED allVars
           \/ SpawnNext /\ UNCHANGED viewVars
           \/ \E v \in viewers : ViewerStep(v)
BY DEF ViewNext, ViewerStep

(* Seen from Spawn, a viewer is answered, returns, or does nothing. *)
LEMMA ViewMoves ==
    ASSUME [ViewNext]_allVars
    PROVE  Moves \/ UNCHANGED spawnVars
<1>1. ASSUME NEW v \in viewers, ViewerStep(v)
      PROVE  UNCHANGED kind /\ (ViewerMoves(v) \/ UNCHANGED spawnVars)
  BY <1>1 DEF ViewerStep, Ack, DropStream, SendFrame, SendEOF, Goroutine, ReadAck, Ready,
     ShowFrame, ShowFails, ReadEOF, ReadFails, Go, Main, Restore, ProcessExit,
     Interrupt, ViewerMoves, Step
<1>2. SpawnNext => Moves
  BY DEF Moves, SpawnNext
<1>3. viewers \subseteq Commands
  BY DEF viewers
<1> QED
  BY <1>1, <1>2, <1>3, ViewCases DEF Moves

(* In Spawn a command does not return twice, and none that is not a call or *)
(* a stop returns with an answer.                                          *)
LEMMA SpawnReturns ==
    ASSUME SpawnType, SpawnNext, NEW v \in Commands
    PROVE  /\ cpc[v] \in {"stream", "returned"} => cpc'[v] = cpc[v] /\ result'[v] = result[v]
           /\ cpc[v] \notin {"stream", "returned"} =>
                 /\ cpc'[v] # "stream"
                 /\ cpc'[v] = "returned" => result'[v] # "ok" \/ kind[v] \in {"call", "stop"}
<1>1. ASSUME NEW c \in Commands, Begin(c) \/ CommandStep(c) \/ Accept(c)
      PROVE  /\ cpc[c] \notin {"stream", "returned"} /\ cpc'[c] # "stream"
             /\ cpc'[c] = "returned" => result'[c] # "ok"
             /\ v # c => cpc'[v] = cpc[v] /\ result'[v] = result[v]
  BY <1>1 DEF Begin, CommandStep, EnsureDial, SpawnDaemon, PollDial, PollTimeout,
     Dial, Accept, Step, Return, SpawnType
<1>2. ASSUME NEW c \in Commands, Serve(c)
      PROVE  /\ cpc[c] = "accepted" /\ cpc'[c] = "returned" /\ kind[c] \in {"call", "stop"}
             /\ v # c => cpc'[v] = cpc[v] /\ result'[v] = result[v]
  BY <1>2, ServeFrame
<1>3. ASSUME NEW d \in Commands, DaemonMoves(d)
      PROVE  \/ cpc'[v] = cpc[v] /\ result'[v] = result[v]
             \/ cpc[v] \in {"queued", "accepted"} /\ cpc'[v] = "returned" /\ result'[v] = "lost"
  BY <1>3, DaemonFrame
<1>4. ASSUME NEW d \in Commands, RunDaemon(d) PROVE UNCHANGED <<cpc, result>>
  BY <1>4, RunFrame
<1> QED
  BY <1>1, <1>2, <1>3, <1>4 DEF SpawnNext, DaemonMoves

(* The connection of a viewer that has one stays at its end. *)
LEMMA GoneStep ==
    ASSUME SpawnType, StartInv, [ViewNext]_allVars, NEW v \in Commands,
           cpc[v] \in {"stream", "returned"}
    PROVE  conn'[v] = conn[v] /\ (gone(v) => gone(v)')
<1>1. ASSUME Moves PROVE conn'[v] = conn[v] /\ \A d \in Commands : dpc[d] = "exited" => dpc'[d] = "exited"
  <2>1. ASSUME NEW c \in Commands, CommandMoves(c) \/ ViewerMoves(c)
        PROVE  conn'[v] = conn[v] /\ UNCHANGED dpc
    BY <2>1, CommandFrame
  <2>2. ASSUME NEW c \in Commands, SpawnDaemon(c)
        PROVE  conn'[v] = conn[v] /\ \A d \in Commands : dpc[d] = "exited" => dpc'[d] = "exited"
    BY <2>2, ForkFrame DEF StartInv
  <2>3. ASSUME NEW c \in Commands, Serve(c) PROVE conn'[v] = conn[v] /\ UNCHANGED dpc
    BY <2>3, ServeFrame
  <2>4. ASSUME NEW b \in Commands, DaemonMoves(b)
        PROVE  conn'[v] = conn[v] /\ \A d \in Commands : dpc[d] = "exited" => dpc'[d] = "exited"
    BY <2>4, DaemonFrame
  <2>5. ASSUME NEW b \in Commands, RunDaemon(b)
        PROVE  conn'[v] = conn[v] /\ \A d \in Commands : dpc[d] = "exited" => dpc'[d] = "exited"
    BY <2>5, RunFrame
  <2> QED
    BY <1>1, <2>1, <2>2, <2>3, <2>4, <2>5, MovesCases
<1> QED
  BY <1>1, ViewMoves DEF gone

(* A viewer's step is a step of that viewer only. *)
LEMMA ViewerFrame ==
    ASSUME ViewTypeOK, NEW v \in viewers, ViewerStep(v), NEW w \in Commands, w # v
    PROVE  /\ cpc'[w] = cpc[w] /\ result'[w] = result[w] /\ sent'[w] = sent[w]
           /\ stream'[w] = stream[w] /\ (w \in signalled' <=> w \in signalled)
           /\ gpc'[w] = gpc[w] /\ shown'[w] = shown[w] /\ waiting'[w] = waiting[w]
           /\ header'[w] = header[w] /\ term'[w] = term[w]
           /\ mpc'[w] = mpc[w] /\ err'[w] = err[w]
<1> USE DEF ViewTypeOK, SpawnType, Step, Return, Go, viewers
<1>1. CASE Ack(v) \/ DropStream(v) \/ SendFrame(v) \/ SendEOF(v)
  BY <1>1 DEF Ack, DropStream, SendFrame, SendEOF
<1>2. CASE ReadAck(v) \/ Ready(v)
  BY <1>2 DEF ReadAck, Ready
<1>3. CASE ShowFrame(v)
  BY <1>3 DEF ShowFrame
<1>4. CASE ShowFails(v) \/ ReadEOF(v) \/ ReadFails(v)
  BY <1>4 DEF ShowFails, ReadEOF, ReadFails
<1>5. CASE Restore(v)
  BY <1>5 DEF Restore
<1>6. CASE ProcessExit(v) \/ Interrupt(v)
  BY <1>6 DEF ProcessExit, Interrupt
<1> QED
  BY <1>1, <1>2, <1>3, <1>4, <1>5, <1>6 DEF ViewerStep, Goroutine, Main

-----------------------------------------------------------------------------
(* The conjuncts of the invariant.                                         *)

(* The invariant holds before any command starts. *)
LEMMA ViewInvInit == ViewInit => ViewInv
<1> SUFFICES ASSUME ViewInit PROVE ViewInv
    OBVIOUS
<1>1. SpawnInv
  BY SpawnInit DEF ViewInit
<1>2. ViewTypeOK
  <2>1. 0 \in 0..MaxFrames /\ SpawnType
    BY <1>1 DEF SpawnInv
  <2> QED
    BY <2>1 DEF ViewInit, ViewTypeOK
<1>3. BeforeInv /\ GoroutineInv /\ MainInv
  BY DEF ViewInit, Init, BeforeInv, GoroutineInv, MainInv
<1> QED
  BY <1>1, <1>2, <1>3 DEF ViewInv

(* Every step keeps the types. *)
LEMMA ViewTypeStep == ASSUME ViewInv, [ViewNext]_allVars PROVE ViewTypeOK'
<1>0. SpawnType'
  <2>1. CASE Moves
    BY <2>1, SpawnTypeStep DEF ViewInv, SpawnInv
  <2>2. CASE UNCHANGED spawnVars
    BY <2>2 DEF ViewInv, SpawnInv, SpawnType
  <2> QED
    BY <2>1, <2>2, ViewMoves
<1> USE DEF ViewTypeOK
<1>1. CASE UNCHANGED viewVars
  BY <1>0, <1>1 DEF ViewInv
<1>2. ASSUME NEW v \in viewers, ViewerStep(v) PROVE ViewTypeOK'
  <2> USE <1>0 DEF ViewInv, viewers, Go
  <2>1. CASE Ack(v)
    BY <2>1 DEF Ack
  <2>2. CASE DropStream(v) \/ SendFrame(v)
    BY <2>2 DEF DropStream, SendFrame
  <2>3. CASE SendEOF(v)
    BY <2>3 DEF SendEOF
  <2>4. CASE ReadAck(v)
    BY <2>4 DEF ReadAck
  <2>5. CASE Ready(v)
    BY <2>5 DEF Ready, Modes
  <2>6. CASE ShowFrame(v)
    BY <2>6 DEF ShowFrame
  <2>7. CASE ShowFails(v) \/ ReadEOF(v) \/ ReadFails(v)
    BY <2>7 DEF ShowFails, ReadEOF, ReadFails
  <2>8. CASE Restore(v)
    BY <2>8 DEF Restore
  <2>9. CASE ProcessExit(v)
    BY <2>9 DEF ProcessExit
  <2>10. CASE Interrupt(v)
    BY <2>10 DEF Interrupt
  <2> QED
    BY <1>2, <2>1, <2>2, <2>3, <2>4, <2>5, <2>6, <2>7, <2>8, <2>9, <2>10
    DEF ViewerStep, Goroutine, Main
<1> QED
  BY <1>1, <1>2, ViewCases

(* What a command sees of a step that is not its own as a viewer: its part  *)
(* stays as it is, except that it may move on its way to its answer.       *)
LEMMA OtherStep ==
    ASSUME ViewInv, [ViewNext]_allVars, NEW w \in Commands, ~(w \in viewers /\ ViewerStep(w))
    PROVE  /\ kind' = kind /\ sent'[w] = sent[w]
           /\ stream'[w] = stream[w] /\ (w \in signalled' <=> w \in signalled)
           /\ gpc'[w] = gpc[w] /\ shown'[w] = shown[w] /\ waiting'[w] = waiting[w]
           /\ header'[w] = header[w] /\ term'[w] = term[w]
           /\ mpc'[w] = mpc[w] /\ err'[w] = err[w]
           /\ cpc[w] \in {"stream", "returned"} => cpc'[w] = cpc[w] /\ result'[w] = result[w]
           /\ cpc[w] \notin {"stream", "returned"} =>
                 /\ cpc'[w] # "stream"
                 /\ cpc'[w] = "returned" => result'[w] # "ok" \/ w \notin viewers
<1>1. CASE UNCHANGED allVars
  BY <1>1
<1>2. CASE SpawnNext /\ UNCHANGED viewVars
  <2>1. UNCHANGED kind
    BY <1>2 DEF SpawnNext
  <2> QED
    BY <1>2, <2>1, SpawnReturns DEF ViewInv, SpawnInv, viewers
<1>3. ASSUME NEW v \in viewers, ViewerStep(v)
      PROVE  /\ v # w /\ UNCHANGED kind
             /\ cpc'[w] = cpc[w] /\ result'[w] = result[w] /\ sent'[w] = sent[w]
             /\ stream'[w] = stream[w] /\ (w \in signalled' <=> w \in signalled)
             /\ gpc'[w] = gpc[w] /\ shown'[w] = shown[w] /\ waiting'[w] = waiting[w]
             /\ header'[w] = header[w] /\ term'[w] = term[w]
             /\ mpc'[w] = mpc[w] /\ err'[w] = err[w]
  <2>1. v # w
    BY <1>3
  <2>2. UNCHANGED kind
    BY <1>3 DEF ViewerStep, Ack, DropStream, SendFrame, SendEOF, Goroutine, ReadAck, Ready,
       ShowFrame, ShowFails, ReadEOF, ReadFails, Go, Main, Restore, ProcessExit, Interrupt
  <2> QED
    BY <1>3, <2>1, <2>2, ViewerFrame DEF ViewInv
<1> QED
  BY <1>1, <1>2, <1>3, ViewCases

(* Nothing happens at a viewer before it is answered, and its answer is the *)
(* first thing that does.                                                  *)
LEMMA BeforeStep == ASSUME ViewInv, [ViewNext]_allVars PROVE BeforeInv'
<1> SUFFICES ASSUME NEW w \in Commands, cpc'[w] \notin {"stream", "returned"}
             PROVE  gpc'[w] = "ack" /\ mpc'[w] = "select" /\ sent'[w] = 0 /\ stream'[w] = "open"
  BY DEF BeforeInv
<1>1. CASE ~(w \in viewers /\ ViewerStep(w))
  BY <1>1, OtherStep DEF ViewInv, BeforeInv
<1>2. CASE w \in viewers /\ ViewerStep(w)
  <2> USE DEF ViewInv, ViewTypeOK, SpawnType, viewers, Step, Return, Go
  <2>1. CASE Ack(w) \/ DropStream(w) \/ SendFrame(w) \/ SendEOF(w)
    BY <1>2, <2>1 DEF Ack, DropStream, SendFrame, SendEOF
  <2>2. CASE Goroutine(w)
    BY <2>2 DEF Goroutine, ReadAck, Ready, ShowFrame, ShowFails, ReadEOF, ReadFails
  <2>3. CASE Main(w)
    BY <1>2, <2>3 DEF Main, Restore, selected, ProcessExit
  <2>4. CASE Interrupt(w)
    BY <1>2, <2>4 DEF Interrupt
  <2> QED
    BY <1>2, <2>1, <2>2, <2>3, <2>4 DEF ViewerStep
<1> QED
  BY <1>1, <1>2

(* The goroutine's own steps do what GoroutineInv says; the daemon only      *)
(* sends more, until the goroutine has come to the end of what there is.   *)
LEMMA GoroutineStep == ASSUME ViewInv, [ViewNext]_allVars PROVE GoroutineInv'
<1> DEFINE At(w) ==
        /\ gpc[w] \in {"ack", "ready"} => shown[w] = 0 /\ term[w] = {} /\ header[w] = "none"
        /\ (gpc[w] # "ack" /\ kind[w] = "watch") => ~waiting[w]
        /\ kind[w] # "watch" => term[w] = {}
        /\ (kind[w] = "record" /\ gpc[w] \in {"read", "done"}) => header[w] # "none"
        /\ shown[w] > 0 => header[w] # "failed"
        /\ shown[w] <= sent[w]
        /\ err[w] = "none" <=> gpc[w] # "done"
        /\ err[w] = "nil" => shown[w] = sent[w] /\ (stream[w] # "open" \/ gone(w))
        /\ stream[w] = "dropped" => sent[w] = 0
<1> SUFFICES ASSUME NEW w \in Commands PROVE At(w)'
  BY DEF GoroutineInv
<1>0. At(w)
  BY DEF ViewInv, GoroutineInv
<1>1. CASE ~(w \in viewers /\ ViewerStep(w))
  <2>1. err[w] = "nil" => cpc[w] \in {"stream", "returned"}
    BY <1>0 DEF ViewInv, BeforeInv
  <2>2. err[w] = "nil" => (gone(w) => gone(w)')
    BY <2>1, GoneStep DEF ViewInv, SpawnInv
  <2> HIDE DEF viewVars, allVars, spawnVars
  <2>3. kind' = kind /\ sent'[w] = sent[w] /\ stream'[w] = stream[w]
        /\ gpc'[w] = gpc[w] /\ shown'[w] = shown[w] /\ waiting'[w] = waiting[w]
        /\ header'[w] = header[w] /\ term'[w] = term[w] /\ err'[w] = err[w]
    BY <1>1, OtherStep
  <2> QED
    BY <1>0, <2>2, <2>3
<1>2. ASSUME w \in viewers, ViewerStep(w) PROVE At(w)'
  <2>0. gone(w) => gone(w)'
    BY <1>2 DEF gone, ViewerStep, Ack, DropStream, SendFrame, SendEOF, Goroutine, ReadAck, Ready,
       ShowFrame, ShowFails, ReadEOF, ReadFails, Go, Main, Restore, ProcessExit,
       Interrupt
  <2> USE <1>0, <1>2, <2>0 DEF ViewInv, ViewTypeOK, Go, viewers
  <2> HIDE DEF gone
  <2>1. CASE Ack(w) \/ ProcessExit(w) \/ Interrupt(w)
    BY <2>1 DEF Ack, ProcessExit, Interrupt
  <2>2. CASE SendFrame(w)
    <3>1. sent'[w] = sent[w] + 1 /\ err[w] # "nil"
      BY <2>2 DEF SendFrame
    <3> QED
      BY <2>2, <3>1 DEF SendFrame
  <2>3. CASE DropStream(w) \/ SendEOF(w)
    BY <2>3 DEF DropStream, SendEOF
  <2>4. CASE ReadAck(w)
    BY <2>4 DEF ReadAck
  <2>5. CASE Ready(w)
    BY <2>5 DEF Ready
  <2>6. CASE ShowFrame(w)
    BY <2>6 DEF ShowFrame
  <2>7. CASE ShowFails(w)
    BY <2>7 DEF ShowFails
  <2>8. CASE ReadEOF(w) \/ ReadFails(w)
    BY <2>8 DEF ReadEOF, ReadFails, cut
  <2>9. CASE Restore(w)
    BY <2>9 DEF Restore
  <2> QED
    BY <1>2, <2>1, <2>2, <2>3, <2>4, <2>5, <2>6, <2>7, <2>8, <2>9
    DEF ViewerStep, Goroutine, Main
<1> QED
  BY <1>1, <1>2

(* Without a signal main goes on only once the goroutine is done, and finds *)
(* waiting as the goroutine left it.                                       *)
LEMMA MainStep == ASSUME ViewInv, [ViewNext]_allVars PROVE MainInv'
<1> DEFINE At(w) ==
        w \notin signalled =>
        /\ mpc[w] = "exit" => gpc[w] = "done" /\ term[w] \cap {"alt", "listed"} = {}
        /\ (cpc[w] = "returned" /\ w \in viewers /\ result[w] = "ok") => err[w] = "nil"
        /\ cpc[w] = "returned" => mpc[w] = "exit" \/ gpc[w] = "ack"
<1> SUFFICES ASSUME NEW w \in Commands PROVE At(w)'
  BY DEF MainInv
<1>0. At(w)
  BY DEF ViewInv, MainInv
<1>1. CASE ~(w \in viewers /\ ViewerStep(w))
  <2>1. /\ kind' = kind /\ (w \in signalled' <=> w \in signalled) /\ gpc'[w] = gpc[w]
        /\ term'[w] = term[w] /\ mpc'[w] = mpc[w] /\ err'[w] = err[w]
        /\ cpc[w] \in {"stream", "returned"} => cpc'[w] = cpc[w] /\ result'[w] = result[w]
        /\ (cpc[w] \notin {"stream", "returned"} /\ cpc'[w] = "returned") =>
              result'[w] # "ok" \/ w \notin viewers
    BY <1>1, OtherStep
  <2>2. cpc[w] \notin {"stream", "returned"} => gpc[w] = "ack"
    BY DEF ViewInv, BeforeInv
  <2> QED
    BY <1>0, <2>1, <2>2 DEF viewers
<1>2. ASSUME w \in viewers, ViewerStep(w) PROVE At(w)'
  <2>0. /\ gpc[w] # "ack" /\ kind[w] = "watch" => ~waiting[w]
        /\ kind[w] # "watch" => term[w] = {}
        /\ err[w] = "none" <=> gpc[w] # "done"
        /\ kind[w] \in {"watch", "record"}
    BY <1>2 DEF ViewInv, GoroutineInv, viewers
  <2> USE <1>0, <1>2, <2>0 DEF ViewInv, ViewTypeOK, SpawnType, Go, viewers, Step, Return
  <2>1. CASE Ack(w)
    BY <2>1 DEF Ack
  <2>2. CASE DropStream(w) \/ SendFrame(w) \/ SendEOF(w)
    BY <2>2 DEF DropStream, SendFrame, SendEOF
  <2>3. CASE ReadAck(w) \/ Ready(w)
    BY <2>3 DEF ReadAck, Ready
  <2>4. CASE ShowFrame(w)
    BY <2>4 DEF ShowFrame
  <2>5. CASE ShowFails(w) \/ ReadEOF(w) \/ ReadFails(w)
    BY <2>5 DEF ShowFails, ReadEOF, ReadFails
  <2>6. CASE Restore(w)
    BY <2>6 DEF Restore, selected, waitingRead
  <2>7. CASE ProcessExit(w)
    BY <2>7 DEF ProcessExit
  <2>8. CASE Interrupt(w)
    BY <2>8 DEF Interrupt
  <2> QED
    BY <1>2, <2>1, <2>2, <2>3, <2>4, <2>5, <2>6, <2>7, <2>8
    DEF ViewerStep, Goroutine, Main
<1> QED
  BY <1>1, <1>2

-----------------------------------------------------------------------------
(* The theorems.                                                           *)

(* What commands, daemons and viewers have done at each point of their code *)
(* holds in every state, for every number of them.                         *)
THEOREM ViewInductive == ViewSpec => []ViewInv
<1>1. ASSUME ViewInv, [ViewNext]_allVars PROVE ViewInv'
  <2>1. SpawnInv'
    <3>1. CASE Moves
      BY <1>1, <3>1, SpawnStep DEF ViewInv
    <3>2. CASE UNCHANGED spawnVars
      BY <1>1, <3>2 DEF ViewInv, SpawnInv, SpawnType, StartInv, SoleInv, alive,
         byHand, StaleNeverBlocks, DialInv, Cause, RefusedForCause
    <3> QED
      BY <1>1, <3>1, <3>2, ViewMoves
  <2> QED
    BY <1>1, <2>1, ViewTypeStep, BeforeStep, GoroutineStep, MainStep DEF ViewInv
<1> QED
  BY <1>1, ViewInvInit, PTL DEF ViewSpec

(* Every variable of Spawn and Viewer keeps its type, and whoever waits for *)
(* an answer has a connection (client.call, client.Watch).                 *)
THEOREM ViewTypeCorrect == ViewSpec => []ViewTypeOK
<1>1. ViewInv => ViewTypeOK
  BY DEF ViewInv
<1> QED
  BY <1>1, ViewInductive, PTL

(* EnsureDaemon's probe before it forks is enough against later starts:     *)
(* only a daemon that was on its way when a serving one bound the socket   *)
(* file, or one run by hand, takes that file away.                         *)
THEOREM SocketTakenByRivals == ViewSpec => OnlyRivalsTakeTheSocket
<1>1. ASSUME ViewInv, [ViewNext]_allVars, NEW d \in Commands,
             path = d, path' # d, dpc[d] = "serve"
      PROVE  \E e \in rivals[d] \cup byHand : dpc'[e] # dpc[e]
  <2>1. Moves
    BY <1>1, ViewMoves
  <2> QED
    BY <1>1, <2>1, TakeStep DEF ViewInv, SpawnInv
<1>2. ViewInv /\ [ViewNext]_allVars =>
        [\A d \in Commands : (path = d /\ path' # d /\ dpc[d] = "serve") =>
            \E e \in rivals[d] \cup byHand : dpc'[e] # dpc[e]]_spawnVars
  BY <1>1
<1> QED
  BY <1>2, ViewInductive, PTL DEF ViewSpec, OnlyRivalsTakeTheSocket

(* Run's removal of the file before it listens is enough against the file   *)
(* of a daemon that crashed, if it is this user's.                         *)
THEOREM StaleSocketRemoved == ViewSpec => []StaleNeverBlocks
<1>1. ViewInv => StaleNeverBlocks
  BY DEF ViewInv, SpawnInv
<1> QED
  BY <1>1, ViewInductive, PTL

(* EnsureDaemon's poll is enough for the command's own dial: a refusal has   *)
(* a cause in what befell the daemon it found.                             *)
THEOREM DialRefusedForCause == ViewSpec => []RefusedForCause
<1>1. ViewInv => RefusedForCause
  BY DEF ViewInv, SpawnInv
<1> QED
  BY <1>1, ViewInductive, PTL

(* cmdWatch's deferred function undoes the alternate screen and every mode   *)
(* it lists, whatever the frames set, unless the viewer is interrupted.    *)
THEOREM TerminalLeftClean == ViewSpec => []TerminalRestored
<1>1. ViewInv => TerminalRestored
  <2> SUFFICES ASSUME ViewInv, NEW v \in viewers, cpc[v] = "returned", v \notin signalled
               PROVE  term[v] \cap {"alt", "listed"} = {}
    BY DEF TerminalRestored
  <2> QED
    BY DEF ViewInv, MainInv, GoroutineInv, viewers
<1> QED
  BY <1>1, ViewInductive, PTL

(* A watch or a recording that ends by itself and without an error had its   *)
(* session's end, or its daemon's, or was dropped before the first screen; *)
(* and a recording of frames begins with its header.                       *)
THEOREM StreamComplete == ViewSpec => []StreamWhole
<1>1. ViewInv => StreamWhole
  <2> SUFFICES ASSUME ViewInv, NEW v \in viewers, cpc[v] = "returned", v \notin signalled,
                      result[v] = "ok"
               PROVE  /\ kind[v] = "record" /\ sent[v] > 0 => header[v] = "written"
                      /\ stream[v] = "eof" \/ gone(v) \/ (stream[v] = "dropped" /\ sent[v] = 0)
    BY DEF StreamWhole
  <2>1. v \in Commands /\ err[v] = "nil" /\ gpc[v] = "done"
    BY DEF ViewInv, MainInv, GoroutineInv, viewers
  <2>2. header[v] \in {"none", "written", "failed"} /\ stream[v] \in {"open", "eof", "dropped"}
    BY <2>1 DEF ViewInv, ViewTypeOK
  <2> QED
    BY <2>1, <2>2 DEF ViewInv, GoroutineInv
<1> QED
  BY <1>1, ViewInductive, PTL

=============================================================================
