---------------------------- MODULE SpawnProofs -----------------------------
(***************************************************************************)
(* The inductive invariant of Spawn, for every number of commands, every   *)
(* scenario and every number of faults, and that its steps keep it.  The   *)
(* theorems are in ViewerProofs, whose specification takes those steps.    *)
(***************************************************************************)
EXTENDS Spawn, TLAPS

-----------------------------------------------------------------------------
(* A command forks once: before that it has no daemon, unless it is one.     *)
(* The history of a daemon begins when it binds, and one that closes was   *)
(* asked to.  A command that was refused is over.                          *)
StartInv ==
    \A d \in Commands :
        /\ dpc[d] # "none" => d \in byHand \/ cpc[d] \notin {"idle", "ensure", "spawn"}
        /\ d \in byHand => cpc[d] = "idle"
        /\ dpc[d] \in {"none", "start", "bind"} => rivals[d] = {}
        /\ dpc[d] \in {"closing", "unlinked", "remove", "sessions"} => d \in asked
        /\ result[d] = "refused" => cpc[d] = "returned"

(* As long as a daemon serves and has its file, every probe finds it: who   *)
(* else lives or is about to fork did so when it bound, or is run by hand. *)
SoleInv ==
    \A d \in Commands : (dpc[d] = "serve" /\ path = d) =>
        \A e \in Commands \ {d} :
            (alive(e) \/ cpc[e] = "spawn") => e \in rivals[d] \cup byHand

(* What RefusedForCause allows for; it lasts.                               *)
Cause(d) ==
    \/ d \in asked \/ dpc[d] = "exited"
    \/ \E e \in rivals[d] \cup byHand : dpc[e] # "none"

(* A command that dials has found a daemon that serves and has its file,    *)
(* which lasts too, or there is a cause.                                   *)
DialInv ==
    \A c \in Commands : (cpc[c] = "dial" /\ kind[c] # "stop") =>
        \E d \in Commands : conn[c] = d /\ (Cause(d) \/ (path = d /\ dpc[d] = "serve"))

SpawnInv ==
    /\ SpawnType /\ StartInv /\ SoleInv /\ StaleNeverBlocks /\ DialInv
    /\ RefusedForCause

-----------------------------------------------------------------------------
(* What a step is.                                                         *)

USE SpawnAssumption
USE DEF commandVars, daemonVars, spawnVars

\* A step of the command c, or of its connection, that leaves the daemons alone.
CommandMoves(c) ==
    Begin(c) \/ EnsureDial(c) \/ PollDial(c) \/ PollTimeout(c) \/ Dial(c) \/ Accept(c)

\* A step of a daemon that is there, or of what befalls it.
DaemonMoves(d) == DaemonStep(d) \/ Signal(d) \/ Wedge(d) \/ Crash(d)

\* What Viewer adds: a viewer is answered, streams, or returns.
ViewerMoves(c) ==
    /\ UNCHANGED <<conn, daemonVars>>
    /\ \/ Step(c, "accepted", "stream") /\ UNCHANGED result
       \/ /\ cpc[c] \in {"dial", "queued", "accepted", "stream"}
          /\ \E r \in {"ok", "err"} : Return(c, r)

Moves == /\ \/ SpawnNext
            \/ \E c \in Commands : ViewerMoves(c) /\ UNCHANGED kind
         /\ UNCHANGED kind

(* A step is one of a command, of its viewer, or of a daemon. *)
LEMMA MovesCases ==
    ASSUME Moves
    PROVE  \/ \E c \in Commands : CommandMoves(c) \/ SpawnDaemon(c) \/ Serve(c) \/ ViewerMoves(c)
           \/ \E d \in Commands : RunDaemon(d) \/ DaemonMoves(d)
BY DEF Moves, SpawnNext, CommandStep, CommandMoves, DaemonMoves

(* Every step keeps the types. *)
LEMMA SpawnTypeStep == ASSUME SpawnType, Moves PROVE SpawnType'
<1> USE DEF SpawnType, Step, DStep, Return, unlinked
<1>0. UNCHANGED kind
  BY DEF Moves
<1>1. ASSUME NEW c \in Commands, CommandMoves(c) PROVE SpawnType'
  <2>1. CASE Begin(c)
    BY <1>0, <2>1 DEF Begin
  <2>2. CASE EnsureDial(c)
    BY <1>0, <2>2 DEF EnsureDial, reachable
  <2>3. CASE PollDial(c)
    BY <1>0, <2>3 DEF PollDial, reachable
  <2>4. CASE PollTimeout(c)
    BY <1>0, <2>4 DEF PollTimeout
  <2>5. CASE Dial(c)
    BY <1>0, <2>5 DEF Dial, reachable
  <2>6. CASE Accept(c)
    BY <1>0, <2>6 DEF Accept
  <2> QED
    BY <1>1, <2>1, <2>2, <2>3, <2>4, <2>5, <2>6 DEF CommandMoves
<1>2. ASSUME NEW c \in Commands, SpawnDaemon(c) PROVE SpawnType'
  BY <1>0, <1>2 DEF SpawnDaemon
<1>3. ASSUME NEW c \in Commands, Serve(c) PROVE SpawnType'
  BY <1>0, <1>3 DEF Serve
<1>4. ASSUME NEW c \in Commands, ViewerMoves(c) PROVE SpawnType'
  BY <1>0, <1>4 DEF ViewerMoves
<1>5. ASSUME NEW d \in Commands, DaemonStep(d) PROVE SpawnType'
  <2>1. CASE RemoveStale(d)
    BY <1>0, <2>1 DEF RemoveStale
  <2>2. CASE Bind(d)
    BY <1>0, <2>2 DEF Bind
  <2>3. CASE StopServing(d)
    BY <1>0, <2>3 DEF StopServing
  <2>4. CASE Unlink(d)
    BY <1>0, <2>4 DEF Unlink
  <2>5. CASE CloseListener(d)
    BY <1>0, <2>5 DEF CloseListener, Lose
  <2>6. CASE RemovePath(d)
    BY <1>0, <2>6 DEF RemovePath
  <2>7. CASE Exit(d)
    BY <1>0, <2>7 DEF Exit, Lose
  <2> QED
    BY <1>5, <2>1, <2>2, <2>3, <2>4, <2>5, <2>6, <2>7 DEF DaemonStep
<1>6. ASSUME NEW d \in Commands, Signal(d) PROVE SpawnType'
  BY <1>0, <1>6 DEF Signal
<1>7. ASSUME NEW d \in Commands, Wedge(d) PROVE SpawnType'
  BY <1>0, <1>7 DEF Wedge
<1>8. ASSUME NEW d \in Commands, Crash(d) PROVE SpawnType'
  BY <1>0, <1>8 DEF Crash, Lose
<1>9. ASSUME NEW d \in Commands, RunDaemon(d) PROVE SpawnType'
  BY <1>0, <1>9 DEF RunDaemon
<1> QED
  BY <1>1, <1>2, <1>3, <1>4, <1>5, <1>6, <1>7, <1>8, <1>9, MovesCases DEF DaemonMoves

-----------------------------------------------------------------------------
(* What each kind of step does to the others' parts.                       *)

(* A command moves itself only, forward, and to its dial only from a daemon *)
(* that it has reached.                                                    *)
LEMMA CommandFrame ==
    ASSUME SpawnType, NEW c \in Commands, CommandMoves(c) \/ ViewerMoves(c)
    PROVE  /\ UNCHANGED daemonVars
           /\ \A e \in Commands \ {c} :
                 cpc'[e] = cpc[e] /\ conn'[e] = conn[e] /\ result'[e] = result[e]
           /\ c \notin byHand \/ cpc[c] # "idle"
           /\ cpc'[c] \in {"idle", "ensure", "spawn"} => cpc[c] \in {"idle", "ensure"}
           /\ cpc[c] # "returned" /\ cpc'[c] # "idle"
           /\ cpc'[c] = "spawn" => cpc[c] = "ensure" /\ ~reachable
           /\ cpc'[c] = "dial" => kind[c] = "stop" \/ (reachable /\ conn'[c] = path)
           /\ result'[c] = "refused" => \/ result[c] = "refused"
                                        \/ /\ cpc[c] = "dial" /\ cpc'[c] = "returned"
                                           /\ ~reachable /\ conn'[c] = conn[c]
           /\ conn'[c] # conn[c] => cpc[c] \in {"ensure", "poll", "dial"}
<1> USE DEF SpawnType, Step, Return
<1>1. CASE Begin(c)
  BY <1>1 DEF Begin, byHand
<1>2. CASE EnsureDial(c)
  BY <1>2 DEF EnsureDial
<1>3. CASE PollDial(c) \/ PollTimeout(c)
  BY <1>3 DEF PollDial, PollTimeout
<1>4. CASE Dial(c) \/ Accept(c)
  BY <1>4 DEF Dial, Accept
<1>5. CASE ViewerMoves(c)
  BY <1>5 DEF ViewerMoves
<1> QED
  BY <1>1, <1>2, <1>3, <1>4, <1>5 DEF CommandMoves

(* What ends a daemon makes commands that wait for it return. *)
LEMMA DaemonFrame ==
    ASSUME SpawnType, NEW d \in Commands, DaemonMoves(d)
    PROVE  /\ UNCHANGED conn
           /\ \A e \in Commands :
                 \/ cpc'[e] = cpc[e] /\ result'[e] = result[e]
                 \/ cpc[e] \in {"queued", "accepted"} /\ cpc'[e] = "returned" /\ result'[e] = "lost"
           /\ \A e \in Commands \ {d} :
                 /\ dpc'[e] = dpc[e] /\ rivals'[e] = rivals[e]
                 /\ e \in asked' <=> e \in asked
           /\ dpc[d] \notin {"none", "exited"} /\ dpc'[d] # "none"
           /\ d \in asked => d \in asked'
           /\ ~Bind(d) => UNCHANGED rivals
           /\ path' # path => dpc[d] # "serve" /\ dpc'[d] # dpc[d]
           /\ dpc[d] = "serve" => dpc'[d] = "serve" \/ d \in asked' \/ dpc'[d] = "exited"
<1> USE DEF SpawnType, Step, DStep
<1>1. CASE RemoveStale(d) \/ StopServing(d)
  BY <1>1 DEF RemoveStale, StopServing
<1>2. CASE Bind(d)
  BY <1>2 DEF Bind
<1>3. CASE Unlink(d) \/ RemovePath(d)
  BY <1>3 DEF Unlink, RemovePath
<1>4. CASE CloseListener(d)
  BY <1>4 DEF CloseListener, Lose
<1>5. CASE Exit(d)
  BY <1>5 DEF Exit, Lose
<1>6. CASE Signal(d)
  BY <1>6 DEF Signal, alive
<1>7. CASE Wedge(d)
  BY <1>7 DEF Wedge
<1>8. CASE Crash(d)
  BY <1>8 DEF Crash, Lose, alive
<1> QED
  BY <1>1, <1>2, <1>3, <1>4, <1>5, <1>6, <1>7, <1>8 DEF DaemonMoves, DaemonStep

(* A fork starts the daemon of the command.  An answer may ask one to stop.  *)
LEMMA ForkFrame ==
    ASSUME SpawnType, NEW c \in Commands, SpawnDaemon(c)
    PROVE  /\ UNCHANGED <<conn, path, asked, wedged, faults, rivals>>
           /\ cpc[c] = "spawn" /\ cpc'[c] \in {"poll", "returned"}
           /\ \A e \in Commands \ {c} :
                 cpc'[e] = cpc[e] /\ result'[e] = result[e] /\ dpc'[e] = dpc[e]
           /\ dpc'[c] = dpc[c] \/ dpc'[c] = "start"
           /\ result'[c] = result[c] \/ (result'[c] = "err" /\ cpc'[c] = "returned")
BY DEF SpawnDaemon, SpawnType, Step, Return

(* "ht daemon" starts the daemon that it is. *)
LEMMA RunFrame ==
    ASSUME SpawnType, NEW d \in Commands, RunDaemon(d)
    PROVE  /\ UNCHANGED <<commandVars, path, asked, wedged, faults, rivals>>
           /\ d \in byHand /\ dpc[d] = "none" /\ dpc'[d] = "start"
           /\ \A e \in Commands \ {d} : dpc'[e] = dpc[e]
BY DEF RunDaemon, DStep, SpawnType, byHand

(* A handler of a daemon answers the command, and may be the one that stops it. *)
LEMMA ServeFrame ==
    ASSUME SpawnType, NEW c \in Commands, Serve(c)
    PROVE  /\ UNCHANGED <<conn, path, dpc, wedged, faults, rivals>>
           /\ kind[c] \in {"call", "stop"} /\ cpc[c] = "accepted" /\ cpc'[c] = "returned"
           /\ \A e \in Commands \ {c} : cpc'[e] = cpc[e] /\ result'[e] = result[e]
           /\ asked \subseteq asked' /\ result'[c] = "ok"
BY DEF Serve, SpawnType, Return

-----------------------------------------------------------------------------
(* The conjuncts of the invariant.                                         *)

(* The invariant holds before any command starts. *)
LEMMA SpawnInit == Init => SpawnInv
<1> SUFFICES ASSUME Init PROVE SpawnInv
    OBVIOUS
<1> USE DEF Init
<1>1. SpawnType
  BY DEF SpawnType
<1>2. StartInv
  BY DEF StartInv
<1>3. SoleInv /\ StaleNeverBlocks
  BY DEF SoleInv, StaleNeverBlocks
<1>4. DialInv /\ RefusedForCause
  BY DEF DialInv, RefusedForCause
<1> QED
  BY <1>1, <1>2, <1>3, <1>4 DEF SpawnInv

(* Every step keeps what the positions of commands and daemons say. *)
LEMMA StartStep == ASSUME SpawnType, StartInv, Moves PROVE StartInv'
<1> USE DEF StartInv
<1>0. UNCHANGED byHand
  BY DEF Moves, byHand
<1>1. ASSUME NEW c \in Commands, CommandMoves(c) \/ ViewerMoves(c) PROVE StartInv'
  <2> SUFFICES ASSUME NEW d \in Commands
      PROVE  /\ dpc[d] # "none" => d \in byHand \/ cpc'[d] \notin {"idle", "ensure", "spawn"}
             /\ d \in byHand => cpc'[d] = "idle"
             /\ result'[d] = "refused" => cpc'[d] = "returned"
    BY <1>0, <1>1, CommandFrame
  <2>1. CASE d = c
    BY <1>1, <2>1, CommandFrame
  <2>2. CASE d # c
    BY <1>1, <2>2, CommandFrame
  <2> QED
    BY <2>1, <2>2
<1>2. ASSUME NEW c \in Commands, SpawnDaemon(c) PROVE StartInv'
  BY <1>0, <1>2, ForkFrame
<1>3. ASSUME NEW c \in Commands, Serve(c) PROVE StartInv'
  BY <1>0, <1>3, ServeFrame
<1>4. ASSUME NEW d \in Commands, RunDaemon(d) PROVE StartInv'
  BY <1>0, <1>4, RunFrame
<1>5. ASSUME NEW d \in Commands, DaemonMoves(d) PROVE StartInv'
  <2>1. \A e \in Commands \ {d} :
           dpc'[e] = dpc[e] /\ rivals'[e] = rivals[e] /\ (e \in asked => e \in asked')
    BY <1>5, DaemonFrame
  <2>2. \A e \in Commands :
           \/ cpc'[e] = cpc[e] /\ result'[e] = result[e]
           \/ cpc[e] # "idle" /\ cpc'[e] = "returned" /\ result'[e] # "refused"
    BY <1>5, DaemonFrame
  <2>3. dpc[d] \notin {"none", "exited"}
    BY <1>5, DaemonFrame
  <2>4. /\ dpc'[d] \in {"none", "start", "bind"} => rivals'[d] = {}
        /\ dpc'[d] \in {"closing", "unlinked", "remove", "sessions"} => d \in asked'
    BY <1>5 DEF DaemonMoves, DaemonStep, RemoveStale, Bind, StopServing, Unlink,
       CloseListener, RemovePath, Exit, Signal, Wedge, Crash, DStep, SpawnType
  <2> QED
    BY <1>0, <2>1, <2>2, <2>3, <2>4
<1> QED
  BY <1>1, <1>2, <1>3, <1>4, <1>5, MovesCases

(* Who takes the file from a daemon that serves. *)
LEMMA TakeStep ==
    ASSUME SpawnType, SoleInv, Moves, NEW d \in Commands, dpc[d] = "serve", path = d, path' # d
    PROVE  \E e \in rivals[d] \cup byHand : e \in Commands /\ dpc'[e] # dpc[e] /\ dpc'[e] # "none"
<1>1. ASSUME NEW c \in Commands, CommandMoves(c) \/ ViewerMoves(c) PROVE FALSE
  BY <1>1, CommandFrame
<1>2. ASSUME NEW c \in Commands, SpawnDaemon(c) \/ Serve(c) \/ RunDaemon(c) PROVE FALSE
  BY <1>2, ForkFrame, ServeFrame, RunFrame
<1>3. PICK b \in Commands : DaemonMoves(b)
  BY <1>1, <1>2, MovesCases
<1>4. b # d /\ dpc[b] \notin {"none", "exited"} /\ dpc'[b] # dpc[b] /\ dpc'[b] # "none"
  BY <1>3, DaemonFrame
<1>5. b \in rivals[d] \cup byHand
  BY <1>4 DEF SoleInv, alive
<1> QED
  BY <1>4, <1>5

(* A daemon that serves and has its file is found by every probe, so nobody *)
(* forks who was not about to.                                             *)
LEMMA SoleStep == ASSUME SpawnType, StartInv, SoleInv, Moves PROVE SoleInv'
<1> SUFFICES ASSUME NEW d \in Commands, dpc'[d] = "serve", path' = d,
                    NEW e \in Commands \ {d},
                    dpc'[e] \notin {"none", "exited"} \/ cpc'[e] = "spawn"
             PROVE  e \in rivals'[d] \cup byHand
  <2> UNCHANGED byHand
    BY DEF Moves, byHand
  <2> QED
    BY DEF SoleInv, alive
<1> DEFINE Old == dpc[e] \notin {"none", "exited"} \/ cpc[e] = "spawn"
<1>0. dpc[d] = "serve" /\ path = d /\ Old => e \in rivals[d] \cup byHand
  BY DEF SoleInv, alive
<1>1. ASSUME NEW c \in Commands, CommandMoves(c) \/ ViewerMoves(c)
      PROVE  e \in rivals'[d] \cup byHand
  <2>1. UNCHANGED daemonVars
    BY <1>1, CommandFrame
  <2>2. reachable
    BY <2>1, SpawnAssumption DEF reachable, listens
  <2>3. Old
    BY <1>1, <2>1, <2>2, CommandFrame
  <2> QED
    BY <1>0, <2>1, <2>3
<1>2. ASSUME NEW c \in Commands, SpawnDaemon(c) PROVE e \in rivals'[d] \cup byHand
  <2>1. UNCHANGED <<path, rivals>> /\ dpc[d] = "serve" /\ Old
    BY <1>2, ForkFrame
  <2> QED
    BY <1>0, <2>1
<1>3. ASSUME NEW c \in Commands, Serve(c) PROVE e \in rivals'[d] \cup byHand
  <2>1. UNCHANGED <<path, dpc, rivals>> /\ Old
    BY <1>3, ServeFrame
  <2> QED
    BY <1>0, <2>1
<1>4. ASSUME NEW c \in Commands, RunDaemon(c) PROVE e \in rivals'[d] \cup byHand
  <2>1. UNCHANGED <<path, rivals, cpc>> /\ dpc[d] = "serve"
    BY <1>4, RunFrame
  <2>2. e \in byHand \/ Old
    BY <1>4, RunFrame
  <2> QED
    BY <1>0, <2>1, <2>2
<1>5. ASSUME NEW b \in Commands, DaemonMoves(b) PROVE e \in rivals'[d] \cup byHand
  <2>1. Old
    BY <1>5, DaemonFrame
  <2>2. CASE Bind(b) /\ b = d
    <3>1. dpc[d] = "bind"
      BY <2>2 DEF Bind, DStep
    <3>2. e \in rivals'[d]
      BY <2>1, <2>2, <3>1 DEF Bind, DStep, SpawnType, alive
    <3> QED
      BY <3>2
  <2>3. CASE ~(Bind(b) /\ b = d)
    <3>1. rivals'[d] = rivals[d]
      BY <1>5, <2>3, DaemonFrame
    <3>2. dpc[d] = "serve" /\ path = d
      BY <1>5, <2>3, SpawnAssumption DEF DaemonMoves, DaemonStep, RemoveStale, Bind, StopServing,
         Unlink, CloseListener, RemovePath, Exit, Signal, Wedge, Crash, DStep, SpawnType,
         unlinked, alive
    <3> QED
      BY <1>0, <2>1, <3>1, <3>2
  <2> QED
    BY <2>2, <2>3
<1> QED
  BY <1>1, <1>2, <1>3, <1>4, <1>5, MovesCases

(* Whoever binds while another is about to bind counts it as a rival. *)
LEMMA StaleStep == ASSUME SpawnType, StartInv, StaleNeverBlocks, Moves PROVE StaleNeverBlocks'
<1> USE DEF StaleNeverBlocks
<1>1. ASSUME NEW c \in Commands, CommandMoves(c) \/ ViewerMoves(c) PROVE StaleNeverBlocks'
  BY <1>1, CommandFrame
<1>2. ASSUME NEW c \in Commands, SpawnDaemon(c) PROVE StaleNeverBlocks'
  BY <1>2, ForkFrame
<1>3. ASSUME NEW c \in Commands, Serve(c) PROVE StaleNeverBlocks'
  BY <1>3, ServeFrame
<1>4. ASSUME NEW c \in Commands, RunDaemon(c) PROVE StaleNeverBlocks'
  BY <1>4, RunFrame
<1>5. ASSUME NEW b \in Commands, DaemonMoves(b) PROVE StaleNeverBlocks'
  <2>1. CASE Bind(b) /\ path = None
    BY <2>1 DEF Bind, DStep, SpawnType, alive
  <2>2. CASE path' \in {None, Foreign}
    BY <2>2
  <2>3. CASE path' = path /\ UNCHANGED rivals /\ (dpc'[b] = "bind" => dpc[b] = "bind")
    BY <1>5, <2>3, DaemonFrame
  <2> QED
    BY <1>5, <2>1, <2>2, <2>3 DEF DaemonMoves, DaemonStep, RemoveStale, Bind, StopServing,
       Unlink, CloseListener, RemovePath, Exit, Signal, Wedge, Crash, DStep, SpawnType, unlinked
<1> QED
  BY <1>1, <1>2, <1>3, <1>4, <1>5, MovesCases

(* A cause lasts: nothing forgets a request, revives a daemon or rewrites    *)
(* its history.                                                            *)
LEMMA CauseStep ==
    ASSUME SpawnType, StartInv, Moves, NEW d \in Commands, Cause(d)
    PROVE  Cause(d)'
<1>0. UNCHANGED byHand
  BY DEF Moves, byHand
<1>1. ASSUME NEW c \in Commands, CommandMoves(c) \/ ViewerMoves(c) PROVE Cause(d)'
  BY <1>0, <1>1, CommandFrame DEF Cause
<1>2. ASSUME NEW c \in Commands, SpawnDaemon(c) PROVE Cause(d)'
  <2>1. dpc[d] = "exited" => dpc'[d] = "exited"
    BY <1>2, ForkFrame DEF StartInv
  <2>2. \A e \in rivals[d] \cup byHand : dpc[e] # "none" => dpc'[e] # "none"
    BY <1>2, ForkFrame DEF SpawnType, byHand
  <2> QED
    BY <1>0, <1>2, <2>1, <2>2, ForkFrame DEF Cause
<1>3. ASSUME NEW c \in Commands, Serve(c) PROVE Cause(d)'
  BY <1>0, <1>3, ServeFrame DEF Cause
<1>4. ASSUME NEW c \in Commands, RunDaemon(c) PROVE Cause(d)'
  <2>1. \A e \in rivals[d] \cup byHand : dpc[e] # "none" => dpc'[e] # "none"
    BY <1>4, RunFrame DEF SpawnType, byHand
  <2> QED
    BY <1>0, <1>4, <2>1, RunFrame DEF Cause
<1>5. ASSUME NEW b \in Commands, DaemonMoves(b) PROVE Cause(d)'
  <2>1. /\ d \in asked => d \in asked'
        /\ dpc[d] = "exited" => dpc'[d] = "exited"
    BY <1>5, DaemonFrame
  <2>2. \A e \in rivals[d] \cup byHand : dpc[e] # "none" => dpc'[e] # "none"
    BY <1>5, DaemonFrame DEF SpawnType, byHand
  <2>3. rivals[d] \subseteq rivals'[d]
    <3>1. CASE Bind(d)
      BY <3>1 DEF Bind, DStep, StartInv
    <3>2. CASE ~Bind(d)
      BY <1>5, <3>2, DaemonFrame
    <3> QED
      BY <3>1, <3>2
  <2> QED
    BY <1>0, <2>1, <2>2, <2>3 DEF Cause
<1> QED
  BY <1>1, <1>2, <1>3, <1>4, <1>5, MovesCases

(* A daemon that serves and has its file keeps both, or there is a cause. *)
LEMMA KeepStep ==
    ASSUME SpawnType, StartInv, SoleInv, Moves, NEW d \in Commands, path = d, dpc[d] = "serve"
    PROVE  Cause(d)' \/ (path' = d /\ dpc'[d] = "serve")
<1>0. UNCHANGED byHand
  BY DEF Moves, byHand
<1>1. CASE path' # d
  <2>1. PICK e \in rivals[d] \cup byHand : e \in Commands /\ dpc'[e] # dpc[e] /\ dpc'[e] # "none"
    BY <1>1, TakeStep
  <2>2. rivals'[d] = rivals[d]
    <3>1. ~Bind(d)
      BY DEF Bind, DStep
    <3> QED
      BY <3>1, CommandFrame, ForkFrame, ServeFrame, RunFrame, DaemonFrame, MovesCases
  <2> QED
    BY <1>0, <2>1, <2>2 DEF Cause
<1>2. dpc'[d] = "serve" \/ d \in asked' \/ dpc'[d] = "exited"
  BY CommandFrame, ForkFrame, ServeFrame, RunFrame, DaemonFrame, MovesCases DEF StartInv
<1> QED
  BY <1>1, <1>2 DEF Cause

(* A command that is about to dial knows a daemon, or there is a cause. *)
LEMMA DialStep ==
    ASSUME SpawnType, StartInv, SoleInv, DialInv, Moves
    PROVE  DialInv'
<1> SUFFICES ASSUME NEW c \in Commands, cpc'[c] = "dial", kind[c] # "stop"
             PROVE  \E d \in Commands :
                       conn'[c] = d /\ (Cause(d)' \/ (path' = d /\ dpc'[d] = "serve"))
  BY DEF DialInv, Moves
<1>1. PICK d \in Commands : conn'[c] = d /\ (Cause(d) \/ (path = d /\ dpc[d] = "serve"))
  <2>1. ASSUME cpc[c] = "dial", conn'[c] = conn[c]
        PROVE  \E d \in Commands : conn'[c] = d /\ (Cause(d) \/ (path = d /\ dpc[d] = "serve"))
    BY <2>1 DEF DialInv
  <2>2. ASSUME NEW e \in Commands, CommandMoves(e) \/ ViewerMoves(e)
        PROVE  \E d \in Commands : conn'[c] = d /\ (Cause(d) \/ (path = d /\ dpc[d] = "serve"))
    <3>1. CASE e = c
      <4>1. reachable /\ conn'[c] = path
        BY <2>2, <3>1, CommandFrame
      <4> QED
        BY <4>1 DEF reachable, listens, StartInv, Cause
    <3>2. CASE e # c
      BY <2>1, <2>2, <3>2, CommandFrame
    <3> QED
      BY <3>1, <3>2
  <2>3. ASSUME NEW e \in Commands, SpawnDaemon(e) PROVE cpc[c] = "dial" /\ conn'[c] = conn[c]
    BY <2>3, ForkFrame
  <2>4. ASSUME NEW e \in Commands, Serve(e) PROVE cpc[c] = "dial" /\ conn'[c] = conn[c]
    BY <2>4, ServeFrame
  <2>5. ASSUME NEW b \in Commands, RunDaemon(b) PROVE cpc[c] = "dial" /\ conn'[c] = conn[c]
    BY <2>5, RunFrame
  <2>6. ASSUME NEW b \in Commands, DaemonMoves(b) PROVE cpc[c] = "dial" /\ conn'[c] = conn[c]
    BY <2>6, DaemonFrame
  <2> QED
    BY <2>1, <2>2, <2>3, <2>4, <2>5, <2>6, MovesCases
<1> QED
  BY <1>1, CauseStep, KeepStep

(* A command is refused only from a dial that does not find its daemon. *)
LEMMA RefusedStep ==
    ASSUME SpawnType, StartInv, DialInv, RefusedForCause, Moves
    PROVE  RefusedForCause'
<1> SUFFICES ASSUME NEW c \in Commands, result'[c] = "refused", kind[c] # "stop"
             PROVE  \E d \in Commands : conn'[c] = d /\ Cause(d)'
  BY DEF RefusedForCause, Cause, Moves
<1>1. ASSUME result[c] = "refused", conn'[c] = conn[c]
      PROVE  \E d \in Commands : conn'[c] = d /\ Cause(d)
  BY <1>1 DEF RefusedForCause, Cause
<1>2. PICK d \in Commands : conn'[c] = d /\ Cause(d)
  <2>1. ASSUME NEW e \in Commands, CommandMoves(e) \/ ViewerMoves(e)
        PROVE  \E d \in Commands : conn'[c] = d /\ Cause(d)
    <3>1. CASE result[c] = "refused"
      <4>1. cpc[c] = "returned"
        BY <3>1 DEF StartInv
      <4> QED
        BY <1>1, <2>1, <3>1, <4>1, CommandFrame
    <3>2. CASE result[c] # "refused"
      <4>1. cpc[c] = "dial" /\ ~reachable /\ conn'[c] = conn[c]
        BY <2>1, <3>2, CommandFrame
      <4> QED
        BY <4>1, SpawnAssumption DEF DialInv, reachable, listens
    <3> QED
      BY <3>1, <3>2
  <2>2. ASSUME NEW e \in Commands, SpawnDaemon(e) PROVE result[c] = "refused" /\ conn'[c] = conn[c]
    BY <2>2, ForkFrame
  <2>3. ASSUME NEW e \in Commands, Serve(e) PROVE result[c] = "refused" /\ conn'[c] = conn[c]
    BY <2>3, ServeFrame
  <2>4. ASSUME NEW b \in Commands, RunDaemon(b) PROVE result[c] = "refused" /\ conn'[c] = conn[c]
    BY <2>4, RunFrame
  <2>5. ASSUME NEW b \in Commands, DaemonMoves(b) PROVE result[c] = "refused" /\ conn'[c] = conn[c]
    BY <2>5, DaemonFrame
  <2> QED
    BY <1>1, <2>1, <2>2, <2>3, <2>4, <2>5, MovesCases
<1> QED
  BY <1>2, CauseStep

(* Every step keeps the whole invariant. *)
LEMMA SpawnStep == ASSUME SpawnInv, Moves PROVE SpawnInv'
BY SpawnTypeStep, StartStep, SoleStep, StaleStep, DialStep, RefusedStep DEF SpawnInv

=============================================================================
