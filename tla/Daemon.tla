------------------------------- MODULE Daemon -------------------------------
(***************************************************************************)
(* The daemon: its registry of sessions, the queue of watches that wait    *)
(* for a session to be created (follow mode), the handlers that work on    *)
(* them, one goroutine per connection, and the shutdown in Run.            *)
(*                                                                         *)
(* A critical section of d.mu is one step, except opList's, which keeps    *)
(* d.mu while it takes each session's own lock.  Sessions are abstracted   *)
(* to their life; module Session has their inside.  What the handlers see  *)
(* of s.mu is that it may be stuck: readLoop holds it while the client of  *)
(* a watcher does not read.                                                *)
(*                                                                         *)
(* A definition marked "Defect" is not part of the specification: it is a   *)
(* faulty variant of the definition after it, and shows that the property  *)
(* named for it in PROJECT.json tells the two apart.                       *)
(***************************************************************************)
EXTENDS Naturals, Sequences, FiniteSets

CONSTANTS
    Handlers,   \* connections, one request each
    Ids,        \* bound: the session IDs newID may draw
    Names,      \* names clients give to sessions
    Prefixed,   \* for each name, the IDs it happens to be a prefix of
    Ops,        \* the operations clients ask for
    MayStick,   \* whether some client may stop reading its watch
    None

ASSUME NoneAssumption == None \notin Handlers \cup Ids \cup Names
ASSUME RefsAssumption == Names \cap Ids = {} /\ Prefixed \in [Names -> SUBSET Ids]
ASSUME OpsAssumption ==
    /\ Ops \subseteq {"run", "list", "kill", "remove", "watch", "daemonStop"}
    /\ MayStick \in BOOLEAN

Refs == Names \cup Ids

VARIABLES
    sessions,       \* the keys of d.sessions
    names,          \* d.names; None where a name is absent
    pendingWatches, \* d.pendingWatches: handlers parked, by what they asked for
    dmu,            \* d.mu: None, or the opList handler that holds it
    life,           \* each ID: "unused", "running", "exited" or "closed"
    nameOf,         \* s.Name, None for a session without a name
    stuck,          \* the sessions whose s.mu is held by a blocked readLoop
    op, pc, ref,    \* each handler's request and where it is
    force,          \* the force flag of a remove
    sess,           \* the session a handler works on
    waiters,        \* the waiters opRun has taken off the queue
    todo,           \* the sessions opList has still to describe
    ready,          \* what lies in a parked handler's ready channel
    result,         \* what each handler answers
    gone,           \* the clients that have disconnected
    mpc,            \* where Run is: "serve", "closeAll", "closing", "exit"
    shutdown, ctx,  \* d.shutdown is closed; the context is canceled (a signal)
    nilMaps,        \* closeAllSessions has set d.sessions and d.names to nil
    doomed,         \* the sessions closeAllSessions has still to close
    crashed         \* the daemon process has panicked

registryVars == <<sessions, names, pendingWatches>>
sessionVars  == <<life, nameOf, stuck>>
requestVars  == <<op, ref, force, gone>>
localVars    == <<pc, sess, waiters, todo, result>>
mainVars     == <<mpc, shutdown, ctx, nilMaps, doomed>>
\* What the handlers share, and what handlers alone write.
sharedVars   == <<registryVars, dmu, sessionVars, requestVars, ready, mainVars,
                  crashed>>
handlingVars == <<requestVars, localVars, ready>>
vars == <<registryVars, dmu, sessionVars, requestVars, localVars, ready,
          mainVars, crashed>>

Init ==
    /\ sessions = {} /\ names = [n \in Names |-> None]
    /\ pendingWatches = [r \in Refs |-> <<>>]
    /\ dmu = None
    /\ life = [i \in Ids |-> "unused"] /\ nameOf = [i \in Ids |-> None]
    /\ stuck = {}
    /\ op = [h \in Handlers |-> None] /\ pc = [h \in Handlers |-> "idle"]
    /\ ref = [h \in Handlers |-> None] /\ force = [h \in Handlers |-> FALSE]
    /\ sess = [h \in Handlers |-> None] /\ waiters = [h \in Handlers |-> <<>>]
    /\ todo = [h \in Handlers |-> {}] /\ ready = [h \in Handlers |-> None]
    /\ result = [h \in Handlers |-> "none"] /\ gone = {}
    /\ mpc = "serve" /\ shutdown = FALSE /\ ctx = FALSE
    /\ nilMaps = FALSE /\ doomed = {}
    /\ crashed = FALSE

-----------------------------------------------------------------------------
(* Clients, children and signals.                                          *)

\* The accept loop hands a connection to a handler, which reads its request.
Begin(h, o, r, f) ==
    /\ pc[h] = "idle" /\ mpc = "serve"
    /\ IF o = "run" THEN r \in Names \cup {None}
       ELSE IF o \in {"list", "daemonStop"} THEN r = None ELSE r \in Refs
    /\ f => o = "remove"
    /\ op' = [op EXCEPT ![h] = o] /\ ref' = [ref EXCEPT ![h] = r]
    /\ force' = [force EXCEPT ![h] = f]
    /\ pc' = [pc EXCEPT ![h] = "start"]
    /\ UNCHANGED <<registryVars, dmu, sessionVars, gone, sess, waiters, todo,
                   result, ready, mainVars, crashed>>

Disconnect(h) ==
    /\ op[h] = "watch" /\ pc[h] \in {"park", "parked", "stream"} /\ h \notin gone
    /\ gone' = gone \cup {h}
    /\ UNCHANGED <<registryVars, dmu, sessionVars, op, ref, force, localVars,
                   ready, mainVars, crashed>>

ChildExit(i) ==
    /\ life[i] = "running" /\ i \notin stuck
    /\ life' = [life EXCEPT ![i] = "exited"]
    /\ UNCHANGED <<registryVars, dmu, nameOf, stuck, handlingVars, mainVars,
                   crashed>>

\* A watcher's client stops reading, so readLoop blocks with s.mu held; or
\* the client reads on.
Stick(i) ==
    /\ MayStick /\ life[i] = "running"
    /\ stuck' = IF i \in stuck THEN stuck \ {i} ELSE stuck \cup {i}
    /\ UNCHANGED <<registryVars, dmu, life, nameOf, handlingVars, mainVars,
                   crashed>>

Signal ==
    /\ ~ctx /\ mpc = "serve"
    /\ ctx' = TRUE
    /\ UNCHANGED <<registryVars, dmu, sessionVars, handlingVars, mpc, shutdown,
                   nilMaps, doomed, crashed>>

-----------------------------------------------------------------------------

At(h, o, label) == op[h] = o /\ pc[h] = label
Goto(h, label) == pc' = [pc EXCEPT ![h] = label]
Answer(h, r) == Goto(h, "returned") /\ result' = [result EXCEPT ![h] = r]

\* resolve: an explicit name first, then a full ID, then an unambiguous
\* prefix.  None stands for its errors.
Resolve(r) ==
    LET matches == IF r \in Names THEN sessions \cap Prefixed[r] ELSE {}
    IN  IF r \in Names /\ names[r] \in sessions THEN names[r]
        ELSE IF r \in sessions THEN r
        ELSE IF Cardinality(matches) = 1 THEN CHOOSE i \in matches : TRUE
        ELSE None

(* opRun                                                                   *)

\* The name check, a critical section of its own.
RunCheck(h) ==
    /\ At(h, "run", "start")
    /\ ref[h] # None => dmu = None
    /\ IF ref[h] # None /\ names[ref[h]] # None
       THEN Answer(h, "err")
       ELSE Goto(h, "spawn") /\ UNCHANGED result
    /\ UNCHANGED <<sharedVars, sess, waiters, todo>>

\* session.Start draws a fresh ID and starts the child, or fails.
RunSpawn(h) ==
    /\ At(h, "run", "spawn")
    /\ \E i \in Ids :
          /\ life[i] = "unused"
          /\ life' = [life EXCEPT ![i] = "running"]
          /\ nameOf' = [nameOf EXCEPT ![i] = ref[h]]
          /\ sess' = [sess EXCEPT ![h] = i]
    /\ Goto(h, "insert")
    /\ UNCHANGED <<registryVars, dmu, stuck, requestVars, waiters, todo, result,
                   ready, mainVars, crashed>>

RunFails(h) ==
    /\ At(h, "run", "spawn")
    /\ Answer(h, "err")
    /\ UNCHANGED <<sharedVars, sess, waiters, todo>>

\* Defect: the waiters are taken off the queue and forgotten.
RunInsertForgetting(h) ==
    /\ At(h, "run", "insert") /\ dmu = None /\ ~nilMaps
    /\ sessions' = sessions \cup {sess[h]}
    /\ names' = [n \in Names |-> IF n = ref[h] THEN sess[h] ELSE names[n]]
    /\ pendingWatches' = [r \in Refs |-> IF r = ref[h] THEN <<>> ELSE pendingWatches[r]]
    /\ Goto(h, "deliver")
    /\ UNCHANGED <<dmu, sessionVars, requestVars, sess, waiters, todo, result,
                   ready, mainVars, crashed>>

\* Defect: the waiters are served and stay in the queue.
RunInsertKeeping(h) ==
    /\ At(h, "run", "insert") /\ dmu = None /\ ~nilMaps
    /\ sessions' = sessions \cup {sess[h]}
    /\ names' = [n \in Names |-> IF n = ref[h] THEN sess[h] ELSE names[n]]
    /\ waiters' = [waiters EXCEPT ![h] = IF ref[h] = None THEN <<>> ELSE pendingWatches[ref[h]]]
    /\ Goto(h, "deliver")
    /\ UNCHANGED <<pendingWatches, dmu, sessionVars, requestVars, sess, todo,
                   result, ready, mainVars, crashed>>

\* Defect: the waiters of any one name are served.
RunInsertAnyQueue(h) ==
    /\ At(h, "run", "insert") /\ dmu = None /\ ~nilMaps
    /\ sessions' = sessions \cup {sess[h]}
    /\ names' = [n \in Names |-> IF n = ref[h] THEN sess[h] ELSE names[n]]
    /\ \E r \in Refs :
          /\ waiters' = [waiters EXCEPT ![h] = pendingWatches[r]]
          /\ pendingWatches' = [pendingWatches EXCEPT ![r] = <<>>]
    /\ Goto(h, "deliver")
    /\ UNCHANGED <<dmu, sessionVars, requestVars, sess, todo, result, ready,
                   mainVars, crashed>>

\* The second critical section: no second look at d.names; assigning into
\* the nil map that closeAllSessions leaves panics.
RunInsert(h) ==
    /\ At(h, "run", "insert") /\ dmu = None
    /\ IF nilMaps
       THEN crashed' = TRUE /\ UNCHANGED <<registryVars, waiters, pc>>
       ELSE /\ sessions' = sessions \cup {sess[h]}
            /\ IF ref[h] = None
               THEN UNCHANGED <<names, pendingWatches, waiters>>
               ELSE /\ names' = [names EXCEPT ![ref[h]] = sess[h]]
                    /\ waiters' = [waiters EXCEPT ![h] = pendingWatches[ref[h]]]
                    /\ pendingWatches' = [pendingWatches EXCEPT ![ref[h]] = <<>>]
            /\ Goto(h, "deliver")
            /\ UNCHANGED crashed
    /\ UNCHANGED <<dmu, sessionVars, requestVars, sess, todo, result, ready,
                   mainVars>>

\* Defect: the channel is closed without a session in it.
RunDeliverNothing(h) ==
    /\ At(h, "run", "deliver") /\ waiters[h] # <<>>
    /\ waiters' = [waiters EXCEPT ![h] = Tail(@)]
    /\ UNCHANGED <<sharedVars, pc, sess, todo, result>>

\* ch <- s outside d.mu, to a channel with room for one session.
RunDeliver(h) ==
    /\ At(h, "run", "deliver") /\ waiters[h] # <<>>
    /\ ready[Head(waiters[h])] = None
    /\ ready' = [ready EXCEPT ![Head(waiters[h])] = sess[h]]
    /\ waiters' = [waiters EXCEPT ![h] = Tail(@)]
    /\ UNCHANGED <<registryVars, dmu, sessionVars, requestVars, pc, sess, todo,
                   result, mainVars, crashed>>

\* The answer describes the session, under its lock.
RunReply(h) ==
    /\ At(h, "run", "deliver") /\ waiters[h] = <<>> /\ sess[h] \notin stuck
    /\ Answer(h, "ok")
    /\ UNCHANGED <<sharedVars, sess, waiters, todo>>

(* opList holds d.mu throughout.                                           *)

ListLock(h) ==
    /\ At(h, "list", "start") /\ dmu = None
    /\ dmu' = h /\ todo' = [todo EXCEPT ![h] = sessions]
    /\ Goto(h, "collect")
    /\ UNCHANGED <<registryVars, sessionVars, requestVars, sess, waiters,
                   result, ready, mainVars, crashed>>

ListDescribe(h) ==
    /\ At(h, "list", "collect")
    /\ \E i \in todo[h] \ stuck : todo' = [todo EXCEPT ![h] = @ \ {i}]
    /\ UNCHANGED <<sharedVars, pc, sess, waiters, result>>

\* Defect: no unlock.
ListReplyLocked(h) ==
    /\ At(h, "list", "collect") /\ todo[h] = {}
    /\ Answer(h, "ok")
    /\ UNCHANGED <<sharedVars, sess, waiters, todo>>

ListReply(h) ==
    /\ At(h, "list", "collect") /\ todo[h] = {}
    /\ dmu' = None
    /\ Answer(h, "ok")
    /\ UNCHANGED <<registryVars, sessionVars, requestVars, sess, waiters, todo,
                   ready, mainVars, crashed>>

(* opKill, for all handlers that resolve a session and then use it          *)
(* (opStop, opSend, opView, opWait): the uses are in Session.              *)

ResolveSession(h) ==
    /\ op[h] \in {"kill", "remove"} /\ pc[h] = "start" /\ dmu = None
    /\ IF Resolve(ref[h]) = None
       THEN Answer(h, "err") /\ UNCHANGED sess
       ELSE Goto(h, "use") /\ sess' = [sess EXCEPT ![h] = Resolve(ref[h])]
            /\ UNCHANGED result
    /\ UNCHANGED <<sharedVars, waiters, todo>>

KillSession(h) ==
    /\ At(h, "kill", "use") /\ sess[h] \notin stuck
    /\ life' = [life EXCEPT ![sess[h]] = IF @ = "running" THEN "exited" ELSE @]
    /\ Answer(h, "ok")
    /\ UNCHANGED <<registryVars, dmu, nameOf, stuck, requestVars, sess, waiters,
                   todo, ready, mainVars, crashed>>

(* opRemove: refuse or close, then drop the entry and the session's name,   *)
(* whatever the name refers to by then.                                    *)

RemoveRefused(h) ==
    /\ At(h, "remove", "use") /\ sess[h] \notin stuck
    /\ life[sess[h]] = "running" /\ ~force[h]
    /\ Answer(h, "err")
    /\ UNCHANGED <<sharedVars, sess, waiters, todo>>

\* Defect: the entry is dropped without Close.
RemoveUnclosed(h) ==
    /\ At(h, "remove", "use") /\ sess[h] \notin stuck
    /\ life[sess[h]] = "running" => force[h]
    /\ Goto(h, "delete")
    /\ UNCHANGED <<sharedVars, sess, waiters, todo, result>>

RemoveClose(h) ==
    /\ At(h, "remove", "use") /\ sess[h] \notin stuck
    /\ life[sess[h]] = "running" => force[h]
    /\ life' = [life EXCEPT ![sess[h]] = "closed"]
    /\ Goto(h, "delete")
    /\ UNCHANGED <<registryVars, dmu, nameOf, stuck, requestVars, sess, waiters,
                   todo, result, ready, mainVars, crashed>>

\* Defect: the name stays.
RemoveKeepingName(h) ==
    /\ At(h, "remove", "delete") /\ dmu = None
    /\ sessions' = sessions \ {sess[h]}
    /\ Answer(h, "ok")
    /\ UNCHANGED <<names, pendingWatches, dmu, sessionVars, requestVars, sess,
                   waiters, todo, ready, mainVars, crashed>>

RemoveDelete(h) ==
    /\ At(h, "remove", "delete") /\ dmu = None
    /\ sessions' = sessions \ {sess[h]}
    /\ names' = [n \in Names |-> IF n = nameOf[sess[h]] THEN None ELSE names[n]]
    /\ Answer(h, "ok")
    /\ UNCHANGED <<pendingWatches, dmu, sessionVars, requestVars, sess, waiters,
                   todo, ready, mainVars, crashed>>

(* opWatch                                                                 *)

WatchResolve(h) ==
    /\ At(h, "watch", "start") /\ dmu = None
    /\ IF Resolve(ref[h]) = None
       THEN Goto(h, "park") /\ UNCHANGED sess
       ELSE Goto(h, "stream") /\ sess' = [sess EXCEPT ![h] = Resolve(ref[h])]
    /\ UNCHANGED <<sharedVars, waiters, todo, result>>

\* Join the queue, in a second critical section, without resolving again.
WatchPark(h) ==
    /\ At(h, "watch", "park") /\ dmu = None
    /\ pendingWatches' = [pendingWatches EXCEPT ![ref[h]] = Append(@, h)]
    /\ Goto(h, "parked")
    /\ UNCHANGED <<sessions, names, dmu, sessionVars, requestVars, sess,
                   waiters, todo, result, ready, mainVars, crashed>>

\* The select over ready, the disconnect of the client and d.shutdown.
WatchReady(h) ==
    /\ At(h, "watch", "parked") /\ ready[h] # None
    /\ sess' = [sess EXCEPT ![h] = ready[h]] /\ ready' = [ready EXCEPT ![h] = None]
    /\ Goto(h, "stream")
    /\ UNCHANGED <<registryVars, dmu, sessionVars, requestVars, waiters, todo,
                   result, mainVars, crashed>>

WatchDisconnected(h) ==
    /\ At(h, "watch", "parked") /\ h \in gone
    /\ Goto(h, "unpark")
    /\ UNCHANGED <<sharedVars, sess, waiters, todo, result>>

\* The sequence s without its k-th entry.
WithoutNth(s, k) == [j \in 1..Len(s) - 1 |-> IF j < k THEN s[j] ELSE s[j + 1]]

\* Drop the first entry for this watch; a run may have taken it meanwhile.
WatchUnpark(h) ==
    /\ At(h, "watch", "unpark") /\ dmu = None
    /\ LET q    == pendingWatches[ref[h]]
           mine == {k \in 1..Len(q) : q[k] = h}
       IN  \/ mine = {} /\ UNCHANGED pendingWatches
           \/ \E k \in mine :
                 /\ \A j \in mine : k <= j
                 /\ pendingWatches' = [pendingWatches EXCEPT ![ref[h]] = WithoutNth(q, k)]
    /\ Answer(h, "err")
    /\ UNCHANGED <<sessions, names, dmu, sessionVars, requestVars, sess,
                   waiters, todo, ready, mainVars, crashed>>

WatchShutdown(h) ==
    /\ At(h, "watch", "parked") /\ shutdown
    /\ Answer(h, "err")
    /\ UNCHANGED <<sharedVars, sess, waiters, todo>>

\* The stream ends with the session or with the client.
WatchEnd(h) ==
    /\ At(h, "watch", "stream") /\ sess[h] \notin stuck
    /\ life[sess[h]] # "running" \/ h \in gone
    /\ Answer(h, "ok")
    /\ UNCHANGED <<sharedVars, sess, waiters, todo>>

(* daemonStop closes d.shutdown, once.                                     *)

DaemonStop(h) ==
    /\ At(h, "daemonStop", "start")
    /\ shutdown' = TRUE
    /\ Answer(h, "ok")
    /\ UNCHANGED <<registryVars, dmu, sessionVars, requestVars, sess, waiters,
                   todo, ready, mpc, ctx, nilMaps, doomed, crashed>>

Handler(h) ==
    \/ RunCheck(h) \/ RunSpawn(h) \/ RunFails(h) \/ RunInsert(h)
    \/ RunDeliver(h) \/ RunReply(h)
    \/ ListLock(h) \/ ListDescribe(h) \/ ListReply(h)
    \/ ResolveSession(h) \/ KillSession(h)
    \/ RemoveRefused(h) \/ RemoveClose(h) \/ RemoveDelete(h)
    \/ WatchResolve(h) \/ WatchPark(h) \/ WatchReady(h) \/ WatchDisconnected(h)
    \/ WatchUnpark(h) \/ WatchShutdown(h) \/ WatchEnd(h)
    \/ DaemonStop(h)

-----------------------------------------------------------------------------
(* Run, once d.shutdown or the context ends it.  Handlers go on until the   *)
(* process exits: nothing waits for them.                                  *)

\* Defect: only a signal closes the listener.
StopServingOnSignal ==
    /\ mpc = "serve" /\ ctx
    /\ mpc' = "closeAll"
    /\ UNCHANGED <<registryVars, dmu, sessionVars, handlingVars, shutdown, ctx,
                   nilMaps, doomed, crashed>>

\* The listener is closed, Accept fails, the deferred calls run.
StopServing ==
    /\ mpc = "serve" /\ (shutdown \/ ctx)
    /\ mpc' = "closeAll"
    /\ UNCHANGED <<registryVars, dmu, sessionVars, handlingVars, shutdown, ctx,
                   nilMaps, doomed, crashed>>

\* Defect: the sessions are forgotten instead of closed.
EmptyRegistryOnly ==
    /\ mpc = "closeAll" /\ dmu = None
    /\ nilMaps' = TRUE /\ sessions' = {} /\ names' = [n \in Names |-> None]
    /\ mpc' = "closing"
    /\ UNCHANGED <<pendingWatches, dmu, sessionVars, handlingVars, shutdown,
                   ctx, doomed, crashed>>

\* closeAllSessions: d.pendingWatches is left alone.
EmptyRegistry ==
    /\ mpc = "closeAll" /\ dmu = None
    /\ doomed' = sessions
    /\ nilMaps' = TRUE /\ sessions' = {} /\ names' = [n \in Names |-> None]
    /\ mpc' = "closing"
    /\ UNCHANGED <<pendingWatches, dmu, sessionVars, handlingVars, shutdown,
                   ctx, crashed>>

\* Close the sessions one after the other, in map order.
CloseNext ==
    /\ mpc = "closing"
    /\ \E i \in doomed \ stuck :
          /\ life' = [life EXCEPT ![i] = "closed"]
          /\ doomed' = doomed \ {i}
    /\ UNCHANGED <<registryVars, dmu, nameOf, stuck, handlingVars, mpc,
                   shutdown, ctx, nilMaps, crashed>>

Exit ==
    /\ mpc = "closing" /\ doomed = {}
    /\ mpc' = "exit"
    /\ UNCHANGED <<registryVars, dmu, sessionVars, handlingVars, shutdown, ctx,
                   nilMaps, doomed, crashed>>

Main == StopServing \/ EmptyRegistry \/ CloseNext \/ Exit

Environment ==
    \/ \E h \in Handlers, o \in Ops, r \in Refs \cup {None}, f \in BOOLEAN : Begin(h, o, r, f)
    \/ \E h \in Handlers : Disconnect(h)
    \/ \E i \in Ids : ChildExit(i) \/ Stick(i)
    \/ Signal

Alive == mpc # "exit" /\ ~crashed

Next ==
    \/ Alive /\ (Environment \/ Main \/ \E h \in Handlers : Handler(h))
    \/ ~Alive /\ UNCHANGED vars     \* the process is gone

Spec == Init /\ [][Next]_vars

(***************************************************************************)
(* Go runs every goroutine that can run and its mutexes are starvation     *)
(* free, hence strong fairness of each; nothing is assumed of clients,     *)
(* children and signals.                                                   *)
(***************************************************************************)
Fairness ==
    /\ SF_vars(Alive /\ Main)
    /\ \A h \in Handlers : SF_vars(Alive /\ Handler(h))

FairSpec == Spec /\ Fairness

-----------------------------------------------------------------------------
(* Properties                                                              *)

RegistryType ==
    /\ sessions \subseteq Ids /\ names \in [Names -> Ids \cup {None}]
    /\ pendingWatches \in [Refs -> Seq(Handlers)]
    /\ dmu # None => dmu \in Handlers /\ At(dmu, "list", "collect")

SessionType ==
    /\ life \in [Ids -> {"unused", "running", "exited", "closed"}]
    /\ nameOf \in [Ids -> Names \cup {None}] /\ stuck \subseteq Ids

RequestType ==
    /\ op \in [Handlers -> Ops \cup {None}]
    /\ pc \in [Handlers -> {"idle", "start", "spawn", "insert", "deliver",
                  "collect", "use", "delete", "park", "parked", "unpark",
                  "stream", "returned"}]
    /\ ref \in [Handlers -> Refs \cup {None}] /\ force \in [Handlers -> BOOLEAN]
    /\ gone \subseteq Handlers

LocalType ==
    /\ sess \in [Handlers -> Ids \cup {None}]
    /\ waiters \in [Handlers -> Seq(Handlers)]
    /\ todo \in [Handlers -> SUBSET Ids]
    /\ ready \in [Handlers -> Ids \cup {None}]
    /\ result \in [Handlers -> {"none", "ok", "err"}]

MainType ==
    /\ mpc \in {"serve", "closeAll", "closing", "exit"}
    /\ shutdown \in BOOLEAN /\ ctx \in BOOLEAN /\ nilMaps \in BOOLEAN
    /\ doomed \subseteq Ids /\ crashed \in BOOLEAN

(* Every variable stays within the values listed for it; d.mu is held over  *)
(* several steps by an opList that is collecting only.                     *)
TypeOK == RegistryType /\ SessionType /\ RequestType /\ LocalType /\ MainType

(* d.names never points at a session that is gone or has another name, so   *)
(* resolve's name match never falls through to an ID prefix of a stranger  *)
(* because of a stale entry; the two maps change together.                 *)
NamesResolve ==
    \A n \in Names : names[n] # None => names[n] \in sessions /\ nameOf[names[n]] = n

\* How often h occurs in the sequence s.
Occurrences(s, h) == Cardinality({k \in 1..Len(s) : s[k] = h})

(* A waiting watcher is in exactly one place: still queued under the name   *)
(* it asked for, in the hands of the run that took the queue, or served.   *)
(* So no run loses it and none serves it twice, which would block that run *)
(* on the watcher's full channel.                                          *)
WaiterInOnePlace ==
    \A h \in Handlers : At(h, "watch", "parked") =>
        LET queued == Occurrences(pendingWatches[ref[h]], h)
            taken  == {g \in Handlers : Occurrences(waiters[g], h) = 1}
            served == IF ready[h] = None THEN 0 ELSE 1
        IN  /\ queued + Cardinality(taken) + served = 1
            /\ \A g \in Handlers : Occurrences(waiters[g], h) <= 1
            /\ \A r \in Refs : r # ref[h] => Occurrences(pendingWatches[r], h) = 0

(* opRun's send to a waiter never finds the channel full, also when the     *)
(* waiter has disconnected or been shut down meanwhile.                    *)
DeliverNeverBlocks ==
    \A g \in Handlers : At(g, "run", "deliver") /\ waiters[g] # <<>> =>
        ready[Head(waiters[g])] = None

(* A watch that waited streams a session that was created under the name it *)
(* asked for; one that did not wait streams what the name, ID or prefix of *)
(* its request stood for.                                                  *)
WatchGetsItsSession ==
    \A h \in Handlers : At(h, "watch", "stream") =>
        \/ nameOf[sess[h]] = ref[h] \/ sess[h] = ref[h]
        \/ ref[h] \in Names /\ sess[h] \in Prefixed[ref[h]]

(* A running child is never forgotten: its session is registered, or, once  *)
(* the daemon stops, on the list of those to close, or the run that has    *)
(* just started it is about to register it; two removals, kills and name   *)
(* clashes notwithstanding.                                                *)
NoLostChild ==
    \A i \in Ids : life[i] = "running" =>
        \/ i \in IF nilMaps THEN doomed ELSE sessions
        \/ \E h \in Handlers : At(h, "run", "insert") /\ sess[h] = i

(* What the process leaves running when it ends: the children of runs that  *)
(* had not come to register them; and when it is the panic of such a run   *)
(* that ends it, also those of the sessions closeAllSessions had still to  *)
(* close.  If Run comes to its own end, it has closed all the others.      *)
EndLeavesOnly ==
    [][Alive /\ ~Alive' => \A i \in Ids : life[i] = "running" =>
          \/ \E h \in Handlers : At(h, "run", "insert") /\ sess[h] = i
          \/ crashed' /\ i \in doomed]_vars

(* Every run, list, kill and remove is answered, or the daemon is gone.      *)
RequestsAnswered == \A h \in Handlers :
    (pc[h] = "start" /\ op[h] # "watch") ~> (pc[h] = "returned" \/ ~Alive)

(* A daemonStop or a signal makes the daemon exit.                          *)
ShutdownCompletes == (shutdown \/ ctx) ~> ~Alive

(* A queued watch is served once a session of its name is registered: it    *)
(* streams, unless its client or the daemon goes first.                    *)
FulfilledWatchesStream == \A h \in Handlers :
    (\E g \in Handlers : \E k \in 1..Len(waiters[g]) : waiters[g][k] = h)
        ~> (sess[h] # None \/ h \in gone \/ ~Alive \/ pc[h] = "returned")

=============================================================================
