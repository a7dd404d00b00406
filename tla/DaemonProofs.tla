---------------------------- MODULE DaemonProofs ----------------------------
(***************************************************************************)
(* Theorems about Daemon for every set of connections, names and IDs.      *)
(***************************************************************************)
EXTENDS Daemon, FiniteSetTheorems, TLAPS

-----------------------------------------------------------------------------
(* The inductive invariant.                                                *)

Used(i) == i \in Ids /\ life[i] # "unused"

(* What the registry and Run's list hold are sessions that were started;    *)
(* the maps are nil from closeAllSessions on.                              *)
RegistryInv ==
    /\ \A i \in sessions \cup doomed : life[i] # "unused"
    /\ nilMaps <=> mpc \in {"closing", "exit"}

(* What a handler works with: only a run gives a name of its own, the       *)
(* others say which session; a run that comes to insert has a session.     *)
RequestInv ==
    \A h \in Handlers :
        /\ op[h] = "run" => ref[h] \in Names \cup {None}
        /\ op[h] \in {"kill", "remove", "watch"} /\ pc[h] # "idle" => ref[h] \in Refs
        /\ pc[h] = "insert" => sess[h] \in Ids

(* What each handler has already established at each point of its code.     *)
HandlerInv ==
    \A h \in Handlers :
        /\ At(h, "run", "insert") \/ At(h, "run", "deliver") =>
              Used(sess[h]) /\ nameOf[sess[h]] = ref[h]
        /\ pc[h] \in {"use", "delete", "stream"} => Used(sess[h])
        /\ pc[h] = "delete" => life[sess[h]] = "closed"
        /\ ready[h] # None => Used(ready[h]) /\ nameOf[ready[h]] = ref[h]

(* A running child is in the registry, in the list of sessions Run has to   *)
(* close, or on its way to the registry.                                   *)
ChildInv ==
    \A i \in Ids : life[i] = "running" =>
        \/ i \in IF nilMaps THEN doomed ELSE sessions
        \/ \E h \in Handlers : At(h, "run", "insert") /\ sess[h] = i

(* A watch that has parked and is not served: only such a one may be in a   *)
(* queue, under the name it asked for, or in the hands of a run.           *)
Waits(h, r) ==
    /\ op[h] = "watch" /\ pc[h] \in {"parked", "unpark", "returned"}
    /\ ref[h] = r /\ ready[h] = None

Has(s, h) == \E k \in 1..Len(s) : s[k] = h

Queued(r, h) == Has(pendingWatches[r], h)
Taken(g, h)  == Has(waiters[g], h)

Distinct(s) == \A j, k \in 1..Len(s) : s[j] = s[k] => j = k

QueueInv ==
    /\ \A r \in Refs : Distinct(pendingWatches[r])
    /\ \A g \in Handlers : Distinct(waiters[g])
    /\ \A h \in Handlers, r \in Refs : Queued(r, h) => Waits(h, r)
    /\ \A g, h \in Handlers : Taken(g, h) => At(g, "run", "deliver") /\ Waits(h, ref[g])

PlaceInv ==
    /\ \A g, h \in Handlers, r \in Refs : ~(Taken(g, h) /\ Queued(r, h))
    /\ \A f, g, h \in Handlers : Taken(f, h) /\ Taken(g, h) => f = g
    /\ \A h \in Handlers :
          /\ ready[h] # None => op[h] = "watch" /\ pc[h] \in {"parked", "unpark", "returned"}
          /\ At(h, "watch", "parked") =>
                Queued(ref[h], h) \/ ready[h] # None \/ \E g \in Handlers : Taken(g, h)

IInv ==
    /\ TypeOK /\ RequestInv /\ RegistryInv /\ NamesResolve /\ HandlerInv /\ ChildInv
    /\ WatchGetsItsSession /\ QueueInv /\ PlaceInv

-----------------------------------------------------------------------------
(* Type correctness.                                                       *)

USE NoneAssumption, RefsAssumption
USE DEF NoneAssumption, RefsAssumption, vars, registryVars, sessionVars, requestVars, localVars, mainVars,
        sharedVars, handlingVars, Refs

(* What a step is: nothing, or one of the daemon's or of its surroundings. *)
LEMMA NextCases ==
    ASSUME [Next]_vars
    PROVE  \/ UNCHANGED vars
           \/ Environment
           \/ Main
           \/ \E h \in Handlers : Handler(h)
BY DEF Next

(* The daemon starts with the right types. *)
LEMMA TypeInit == Init => TypeOK
<1> SUFFICES ASSUME Init PROVE TypeOK
    OBVIOUS
<1> USE DEF Init
<1>1. RegistryType
    BY DEF RegistryType
<1>2. SessionType
    BY DEF SessionType
<1>3. RequestType
    BY DEF RequestType
<1>4. LocalType
    BY DEF LocalType
<1>5. MainType
    BY DEF MainType
<1> QED
    BY <1>1, <1>2, <1>3, <1>4, <1>5 DEF TypeOK

(* A reference resolves to a registered session or to none. *)
LEMMA ResolveType ==
    ASSUME TypeOK, NEW r \in Refs
    PROVE  /\ Resolve(r) \in sessions \cup {None}
           /\ Resolve(r) # None =>
                 \/ r \in Names /\ Resolve(r) = names[r]
                 \/ Resolve(r) = r
                 \/ r \in Names /\ Resolve(r) \in Prefixed[r]
<1> DEFINE matches == IF r \in Names THEN sessions \cap Prefixed[r] ELSE {}
<1>1. Cardinality(matches) = 1 => matches # {}
  BY FS_EmptySet
<1>2. Cardinality(matches) = 1 =>
         /\ (CHOOSE i \in matches : TRUE) \in sessions
         /\ r \in Names /\ (CHOOSE i \in matches : TRUE) \in Prefixed[r]
  BY <1>1
<1> QED
  BY <1>2 DEF Resolve

(* The queue without one of its entries: what is left, and in which order. *)
LEMMA WithoutNthIs ==
    ASSUME NEW S, NEW s \in Seq(S), NEW k \in 1..Len(s)
    PROVE  /\ WithoutNth(s, k) \in Seq(S)
           /\ Len(WithoutNth(s, k)) = Len(s) - 1
           /\ \A j \in 1..Len(s) - 1 :
                 WithoutNth(s, k)[j] = IF j < k THEN s[j] ELSE s[j + 1]
BY DEF WithoutNth

(* What a queue holds once its head is taken, an entry is added at its end   *)
(* or one is dropped.                                                      *)
LEMMA TailHas ==
    ASSUME NEW S, NEW s \in Seq(S), s # <<>>, Distinct(s)
    PROVE  /\ Distinct(Tail(s))
           /\ \A x : Has(Tail(s), x) <=> Has(s, x) /\ x # Head(s)
<1>1. /\ Len(s) \in Nat \ {0} /\ Head(s) = s[1] /\ Len(Tail(s)) = Len(s) - 1
      /\ \A j \in 1..Len(s) - 1 : Tail(s)[j] = s[j + 1]
  OBVIOUS
<1>2. Distinct(Tail(s))
  BY <1>1 DEF Distinct
<1>3. ASSUME NEW x, Has(Tail(s), x) PROVE Has(s, x) /\ x # Head(s)
  BY <1>1, <1>3 DEF Distinct, Has
<1>4. ASSUME NEW x, Has(s, x), x # Head(s) PROVE Has(Tail(s), x)
  <2>1. PICK k \in 1..Len(s) : s[k] = x
    BY <1>4 DEF Has
  <2>2. k - 1 \in 1..Len(s) - 1 /\ Tail(s)[k - 1] = x
    BY <1>1, <1>4, <2>1
  <2> QED
    BY <1>1, <2>2 DEF Has
<1> QED
  BY <1>2, <1>3, <1>4

(* Appending a new entry to a queue without repetitions. *)
LEMMA AppendHas ==
    ASSUME NEW S, NEW s \in Seq(S), NEW y \in S, Distinct(s), ~Has(s, y)
    PROVE  /\ Distinct(Append(s, y))
           /\ \A x : Has(Append(s, y), x) <=> Has(s, x) \/ x = y
<1>1. /\ Len(s) \in Nat /\ Len(Append(s, y)) = Len(s) + 1
      /\ \A j \in 1..Len(s) + 1 : Append(s, y)[j] = IF j <= Len(s) THEN s[j] ELSE y
  OBVIOUS
<1>2. Distinct(Append(s, y))
  BY <1>1 DEF Distinct, Has
<1>3. ASSUME NEW x PROVE Has(Append(s, y), x) <=> Has(s, x) \/ x = y
  BY <1>1 DEF Has
<1> QED
  BY <1>2, <1>3

(* Dropping the k-th entry of a queue without repetitions. *)
LEMMA WithoutNthHas ==
    ASSUME NEW S, NEW s \in Seq(S), NEW k \in 1..Len(s), Distinct(s)
    PROVE  /\ Distinct(WithoutNth(s, k))
           /\ \A x : Has(WithoutNth(s, k), x) <=> Has(s, x) /\ x # s[k]
<1> DEFINE rest == WithoutNth(s, k)
<1>1. /\ Len(s) \in Nat /\ Len(rest) = Len(s) - 1
      /\ \A j \in 1..Len(s) - 1 : rest[j] = IF j < k THEN s[j] ELSE s[j + 1]
  BY WithoutNthIs
<1> HIDE DEF rest
<1>2. Distinct(rest)
  <2> SUFFICES ASSUME NEW i \in 1..Len(rest), NEW j \in 1..Len(rest), rest[i] = rest[j]
               PROVE  i = j
    BY DEF Distinct
  <2> DEFINE at(n) == IF n < k THEN n ELSE n + 1
  <2>1. at(i) \in 1..Len(s) /\ at(j) \in 1..Len(s) /\ s[at(i)] = s[at(j)]
    BY <1>1
  <2>2. at(i) = at(j)
    BY <2>1 DEF Distinct
  <2> QED
    BY <1>1, <2>2
<1>3. ASSUME NEW x, Has(rest, x) PROVE Has(s, x) /\ x # s[k]
  <2>1. PICK j \in 1..Len(rest) : rest[j] = x
    BY <1>3 DEF Has
  <2>2. PICK i \in 1..Len(s) : s[i] = x /\ i # k
    BY <1>1, <2>1
  <2> QED
    BY <2>2 DEF Has, Distinct
<1>4. ASSUME NEW x, Has(s, x), x # s[k] PROVE Has(rest, x)
  <2>1. PICK i \in 1..Len(s) : s[i] = x /\ i # k
    BY <1>4 DEF Has
  <2>2. CASE i < k
    <3>1. i \in 1..Len(rest) /\ rest[i] = x
      BY <1>1, <2>1, <2>2
    <3> QED
      BY <3>1 DEF Has
  <2>3. CASE i > k
    <3>1. i - 1 \in 1..Len(rest) /\ rest[i - 1] = x
      BY <1>1, <2>1, <2>3
    <3> QED
      BY <3>1 DEF Has
  <2> QED
    BY <1>1, <2>1, <2>2, <2>3
<1>5. \A x : Has(rest, x) <=> Has(s, x) /\ x # s[k]
  BY <1>3, <1>4
<1> QED
  BY <1>2, <1>5 DEF rest

(* Every step keeps the types. *)
LEMMA TypeStep == TypeOK /\ RequestInv /\ [Next]_vars => TypeOK'
<1> SUFFICES ASSUME TypeOK, RequestInv, [Next]_vars PROVE TypeOK'
    OBVIOUS
<1>1. CASE Environment
  <2>1. ASSUME NEW h \in Handlers, NEW o \in Ops, NEW r \in Refs \cup {None},
               NEW f \in BOOLEAN, Begin(h, o, r, f)
        PROVE  TypeOK'
    BY <2>1 DEF Begin, TypeOK, RegistryType, SessionType,
         RequestType, LocalType, MainType, At, Goto, Answer
  <2>2. ASSUME NEW h \in Handlers, Disconnect(h) PROVE TypeOK'
    BY <2>2 DEF Disconnect, TypeOK, RegistryType, SessionType,
         RequestType, LocalType, MainType, At, Goto, Answer
  <2>3. ASSUME NEW i \in Ids, ChildExit(i) PROVE TypeOK'
    BY <2>3 DEF ChildExit, TypeOK, RegistryType, SessionType,
         RequestType, LocalType, MainType, At, Goto, Answer
  <2>4. ASSUME NEW i \in Ids, Stick(i) PROVE TypeOK'
    BY <2>4 DEF Stick, TypeOK, RegistryType, SessionType,
         RequestType, LocalType, MainType, At, Goto, Answer
  <2>5. CASE Signal
    BY <2>5 DEF Signal, TypeOK, RegistryType, SessionType,
         RequestType, LocalType, MainType, At, Goto, Answer
  <2> QED
    BY <1>1, <2>1, <2>2, <2>3, <2>4, <2>5 DEF Environment
<1>2. CASE Main
  <2>1. CASE StopServing
    BY <2>1 DEF StopServing, TypeOK, RegistryType, SessionType,
         RequestType, LocalType, MainType, At, Goto, Answer
  <2>2. CASE EmptyRegistry
    BY <2>2 DEF EmptyRegistry, TypeOK, RegistryType, SessionType,
         RequestType, LocalType, MainType, At, Goto, Answer
  <2>3. CASE CloseNext
    BY <2>3 DEF CloseNext, TypeOK, RegistryType, SessionType,
         RequestType, LocalType, MainType, At, Goto, Answer
  <2>4. CASE Exit
    BY <2>4 DEF Exit, TypeOK, RegistryType, SessionType,
         RequestType, LocalType, MainType, At, Goto, Answer
  <2> QED
    BY <1>2, <2>1, <2>2, <2>3, <2>4 DEF Main
<1>3. ASSUME NEW h \in Handlers, Handler(h) PROVE TypeOK'
  <2>1. CASE RunCheck(h)
    BY <2>1 DEF RunCheck, TypeOK, RegistryType, SessionType,
         RequestType, LocalType, MainType, At, Goto, Answer
  <2>2. CASE RunSpawn(h)
    <3> USE <2>2 DEF TypeOK, RequestInv, At, Goto, Answer, RunSpawn
    <3>1. RegistryType'
      BY DEF RegistryType, RequestType, LocalType
    <3>2. SessionType'
      BY DEF RegistryType, RequestType, SessionType, LocalType, MainType
    <3>3. RequestType'
      BY DEF RegistryType, RequestType, SessionType, LocalType, MainType
    <3>4. LocalType'
      BY DEF RegistryType, RequestType, SessionType, LocalType, MainType
    <3>5. MainType'
      BY DEF RegistryType, RequestType, SessionType, LocalType, MainType
    <3> QED
      BY <3>1, <3>2, <3>3, <3>4, <3>5
  <2>3. CASE RunFails(h)
    BY <2>3 DEF RunFails, TypeOK, RegistryType, SessionType,
         RequestType, LocalType, MainType, At, Goto, Answer
  <2>4. CASE RunInsert(h)
    <3> USE <2>4 DEF TypeOK, At, Goto, Answer, RunInsert
    <3>1. ref[h] = None \/ ref[h] \in Names
      BY DEF RequestInv
    <3>2. sess[h] \in Ids \cup {None} /\ h # dmu
      BY DEF LocalType, RegistryType
    <3>3. sessions' \subseteq Ids
      BY DEF RegistryType, RequestInv
    <3>4. names' \in [Names -> Ids \cup {None}]
      BY <3>1, <3>2 DEF RegistryType
    <3>5. pendingWatches' \in [Refs -> Seq(Handlers)]
      <4>1. pendingWatches \in [Refs -> Seq(Handlers)] /\ <<>> \in Seq(Handlers)
        BY DEF RegistryType
      <4>2. \/ pendingWatches' = pendingWatches
            \/ pendingWatches' = [pendingWatches EXCEPT ![ref[h]] = <<>>]
        OBVIOUS
      <4> QED
        BY <4>1, <4>2
    <3>6. RegistryType'
      BY <3>3, <3>4, <3>5 DEF RegistryType, RequestType
    <3>7. waiters' \in [Handlers -> Seq(Handlers)]
      BY <3>1 DEF RegistryType, LocalType
    <3>8. LocalType'
      BY <3>7 DEF LocalType
    <3>9. RequestType'
      BY DEF RequestType
    <3> QED
      BY <3>6, <3>8, <3>9 DEF SessionType, MainType
  <2>5. CASE RunDeliver(h)
    BY <2>5 DEF RunDeliver, TypeOK, RegistryType, SessionType,
         RequestType, LocalType, MainType, At, Goto, Answer
  <2>6. CASE RunReply(h)
    BY <2>6 DEF RunReply, TypeOK, RegistryType, SessionType,
         RequestType, LocalType, MainType, At, Goto, Answer
  <2>7. CASE ListLock(h)
    BY <2>7 DEF ListLock, TypeOK, RegistryType, SessionType,
         RequestType, LocalType, MainType, At, Goto, Answer
  <2>8. CASE ListDescribe(h)
    BY <2>8 DEF ListDescribe, TypeOK, RegistryType, SessionType,
         RequestType, LocalType, MainType, At, Goto, Answer
  <2>9. CASE ListReply(h)
    BY <2>9 DEF ListReply, TypeOK, RegistryType, SessionType,
         RequestType, LocalType, MainType, At, Goto, Answer
  <2>10. CASE ResolveSession(h)
    <3>1. ref[h] \in Refs /\ h \in DOMAIN sess /\ h \in DOMAIN pc
      BY <2>10 DEF ResolveSession, RequestInv, TypeOK, RequestType, LocalType, At
    <3>2. Resolve(ref[h]) \in Ids \cup {None}
      BY <3>1, ResolveType DEF TypeOK, RegistryType
    <3>3. sess' \in [Handlers -> Ids \cup {None}]
      BY <2>10, <3>2 DEF ResolveSession, TypeOK, LocalType
    <3>4. RequestType'
      BY <2>10 DEF ResolveSession, TypeOK, RequestType, Goto, Answer
    <3>5. LocalType'
      BY <2>10, <3>3 DEF ResolveSession, TypeOK, LocalType, Goto, Answer
    <3>6. RegistryType'
      BY <2>10 DEF ResolveSession, TypeOK, RegistryType, RequestType, At, Goto, Answer
    <3> QED
      BY <2>10, <3>4, <3>5, <3>6 DEF ResolveSession, TypeOK, SessionType, MainType
  <2>11. CASE KillSession(h)
    BY <2>11 DEF KillSession, TypeOK, RegistryType, SessionType,
         RequestType, LocalType, MainType, At, Goto, Answer
  <2>12. CASE RemoveRefused(h)
    BY <2>12 DEF RemoveRefused, TypeOK, RegistryType, SessionType,
         RequestType, LocalType, MainType, At, Goto, Answer
  <2>13. CASE RemoveClose(h)
    BY <2>13 DEF RemoveClose, TypeOK, RegistryType, SessionType,
         RequestType, LocalType, MainType, At, Goto, Answer
  <2>14. CASE RemoveDelete(h)
    BY <2>14 DEF RemoveDelete, TypeOK, RegistryType, SessionType,
         RequestType, LocalType, MainType, At, Goto, Answer
  <2>15. CASE WatchResolve(h)
    <3>1. ref[h] \in Refs /\ h \in DOMAIN sess /\ h \in DOMAIN pc
      BY <2>15 DEF WatchResolve, RequestInv, TypeOK, RequestType, LocalType, At
    <3>2. Resolve(ref[h]) \in Ids \cup {None}
      BY <3>1, ResolveType DEF TypeOK, RegistryType
    <3>3. sess' \in [Handlers -> Ids \cup {None}]
      BY <2>15, <3>2 DEF WatchResolve, TypeOK, LocalType
    <3>4. RequestType'
      BY <2>15 DEF WatchResolve, TypeOK, RequestType, Goto, Answer
    <3>5. LocalType'
      BY <2>15, <3>3 DEF WatchResolve, TypeOK, LocalType, Goto, Answer
    <3>6. RegistryType'
      BY <2>15 DEF WatchResolve, TypeOK, RegistryType, RequestType, At, Goto, Answer
    <3> QED
      BY <2>15, <3>4, <3>5, <3>6 DEF WatchResolve, TypeOK, SessionType, MainType
  <2>16. CASE WatchPark(h)
    <3> USE <2>16 DEF TypeOK, RequestInv, At, Goto, Answer, WatchPark
    <3>1. RegistryType'
      BY DEF RegistryType, RequestType, LocalType
    <3>2. SessionType'
      BY DEF RegistryType, RequestType, SessionType, LocalType, MainType
    <3>3. RequestType'
      BY DEF RegistryType, RequestType, SessionType, LocalType, MainType
    <3>4. LocalType'
      BY DEF RegistryType, RequestType, SessionType, LocalType, MainType
    <3>5. MainType'
      BY DEF RegistryType, RequestType, SessionType, LocalType, MainType
    <3> QED
      BY <3>1, <3>2, <3>3, <3>4, <3>5
  <2>17. CASE WatchReady(h)
    BY <2>17 DEF WatchReady, TypeOK, RegistryType, SessionType,
         RequestType, LocalType, MainType, At, Goto, Answer
  <2>18. CASE WatchDisconnected(h)
    BY <2>18 DEF WatchDisconnected, TypeOK, RegistryType, SessionType,
         RequestType, LocalType, MainType, At, Goto, Answer
  <2>19. CASE WatchUnpark(h)
    <3> USE <2>19 DEF TypeOK, At, Goto, Answer, WatchUnpark
    <3>1. ASSUME NEW k \in 1..Len(pendingWatches[ref[h]])
          PROVE  WithoutNth(pendingWatches[ref[h]], k) \in Seq(Handlers)
      BY WithoutNthIs DEF RequestInv, RegistryType
    <3>2. pendingWatches' \in [Refs -> Seq(Handlers)]
      <4>1. pendingWatches \in [Refs -> Seq(Handlers)]
        BY DEF RegistryType
      <4>2. \/ pendingWatches' = pendingWatches
            \/ \E k \in 1..Len(pendingWatches[ref[h]]) : pendingWatches' =
                  [pendingWatches EXCEPT ![ref[h]] = WithoutNth(pendingWatches[ref[h]], k)]
        OBVIOUS
      <4>3. ASSUME NEW k \in 1..Len(pendingWatches[ref[h]]),
                   pendingWatches' =
                     [pendingWatches EXCEPT ![ref[h]] = WithoutNth(pendingWatches[ref[h]], k)]
            PROVE  pendingWatches' \in [Refs -> Seq(Handlers)]
        <5> DEFINE rest == WithoutNth(pendingWatches[ref[h]], k)
        <5>1. rest \in Seq(Handlers)
          BY <3>1
        <5> HIDE DEF rest
        <5>2. pendingWatches' = [pendingWatches EXCEPT ![ref[h]] = rest]
          BY <4>3 DEF rest
        <5> QED
          BY <4>1, <5>1, <5>2
      <4> QED
        BY <4>1, <4>2, <4>3
    <3>3. RegistryType'
      BY <3>2 DEF RegistryType, RequestType
    <3>4. RequestType'
      BY DEF RequestType
    <3>5. LocalType'
      BY DEF LocalType
    <3> QED
      BY <3>3, <3>4, <3>5 DEF SessionType, MainType
  <2>20. CASE WatchShutdown(h)
    BY <2>20 DEF WatchShutdown, TypeOK, RegistryType, SessionType,
         RequestType, LocalType, MainType, At, Goto, Answer
  <2>21. CASE WatchEnd(h)
    BY <2>21 DEF WatchEnd, TypeOK, RegistryType, SessionType,
         RequestType, LocalType, MainType, At, Goto, Answer
  <2>22. CASE DaemonStop(h)
    BY <2>22 DEF DaemonStop, TypeOK, RegistryType, SessionType,
         RequestType, LocalType, MainType, At, Goto, Answer
  <2> QED
    BY <1>3, <2>1, <2>2, <2>3, <2>4, <2>5, <2>6, <2>7, <2>8, <2>9, <2>10, <2>11, <2>12, <2>13, <2>14, <2>15, <2>16, <2>17, <2>18, <2>19, <2>20, <2>21, <2>22 DEF Handler
<1>4. CASE UNCHANGED vars
  BY <1>4 DEF TypeOK, RegistryType, SessionType, RequestType, LocalType, MainType, At
<1> QED
  BY <1>1, <1>2, <1>3, <1>4, NextCases

-----------------------------------------------------------------------------
(* What the steps leave alone.                                             *)

(* A handler writes its own part of the handlers' variables, but for ready. *)
LEMMA HandlerFrame ==
    ASSUME TypeOK, NEW h \in Handlers, Handler(h)
    PROVE  /\ UNCHANGED requestVars
           /\ UNCHANGED <<mpc, ctx, nilMaps, doomed, stuck>>
           /\ \A q \in Handlers \ {h} :
                 /\ pc'[q] = pc[q] /\ sess'[q] = sess[q]
                 /\ waiters'[q] = waiters[q] /\ todo'[q] = todo[q]
<1> USE DEF TypeOK, RequestType, LocalType, At, Goto, Answer
<1>1. CASE RunCheck(h)
  BY <1>1 DEF RunCheck
<1>2. CASE RunSpawn(h)
  BY <1>2 DEF RunSpawn
<1>3. CASE RunFails(h)
  BY <1>3 DEF RunFails
<1>4. CASE RunInsert(h)
  BY <1>4 DEF RunInsert
<1>5. CASE RunDeliver(h)
  BY <1>5 DEF RunDeliver
<1>6. CASE RunReply(h)
  BY <1>6 DEF RunReply
<1>7. CASE ListLock(h)
  BY <1>7 DEF ListLock
<1>8. CASE ListDescribe(h)
  BY <1>8 DEF ListDescribe
<1>9. CASE ListReply(h)
  BY <1>9 DEF ListReply
<1>10. CASE ResolveSession(h)
  BY <1>10 DEF ResolveSession
<1>11. CASE KillSession(h)
  BY <1>11 DEF KillSession
<1>12. CASE RemoveRefused(h)
  BY <1>12 DEF RemoveRefused
<1>13. CASE RemoveClose(h)
  BY <1>13 DEF RemoveClose
<1>14. CASE RemoveDelete(h)
  BY <1>14 DEF RemoveDelete
<1>15. CASE WatchResolve(h)
  BY <1>15 DEF WatchResolve
<1>16. CASE WatchPark(h)
  BY <1>16 DEF WatchPark
<1>17. CASE WatchReady(h)
  BY <1>17 DEF WatchReady
<1>18. CASE WatchDisconnected(h)
  BY <1>18 DEF WatchDisconnected
<1>19. CASE WatchUnpark(h)
  BY <1>19 DEF WatchUnpark
<1>20. CASE WatchShutdown(h)
  BY <1>20 DEF WatchShutdown
<1>21. CASE WatchEnd(h)
  BY <1>21 DEF WatchEnd
<1>22. CASE DaemonStop(h)
  BY <1>22 DEF DaemonStop
<1> QED
  BY <1>1, <1>2, <1>3, <1>4, <1>5, <1>6, <1>7, <1>8, <1>9, <1>10, <1>11,
       <1>12, <1>13, <1>14, <1>15, <1>16, <1>17, <1>18, <1>19, <1>20, <1>21,
       <1>22 DEF Handler

(* Only a run that assigns into the nil map panics. *)
LEMMA HandlerCrash ==
    ASSUME NEW h \in Handlers, Handler(h), ~crashed, crashed'
    PROVE  nilMaps
<1>1. CASE RunInsert(h)
  BY <1>1 DEF RunInsert
<1>2. CASE RunCheck(h) \/ RunSpawn(h) \/ RunFails(h) \/ RunDeliver(h) \/ RunReply(h)
  BY <1>2 DEF RunCheck, RunSpawn, RunFails, RunDeliver, RunReply, sharedVars
<1>3. CASE ListLock(h) \/ ListDescribe(h) \/ ListReply(h) \/ ResolveSession(h) \/ KillSession(h)
  BY <1>3 DEF ListLock, ListDescribe, ListReply, ResolveSession, KillSession, sharedVars
<1>4. CASE RemoveRefused(h) \/ RemoveClose(h) \/ RemoveDelete(h) \/ DaemonStop(h)
  BY <1>4 DEF RemoveRefused, RemoveClose, RemoveDelete, DaemonStop, sharedVars
<1>5. CASE WatchResolve(h) \/ WatchPark(h) \/ WatchReady(h) \/ WatchDisconnected(h)
  BY <1>5 DEF WatchResolve, WatchPark, WatchReady, WatchDisconnected, sharedVars
<1>6. CASE WatchUnpark(h) \/ WatchShutdown(h) \/ WatchEnd(h)
  BY <1>6 DEF WatchUnpark, WatchShutdown, WatchEnd, sharedVars
<1> QED
  BY <1>1, <1>2, <1>3, <1>4, <1>5, <1>6 DEF Handler

(* Run touches neither a request nor a queue. *)
LEMMA MainFrame ==
    ASSUME Main
    PROVE  UNCHANGED <<pendingWatches, dmu, nameOf, stuck, handlingVars, crashed>>
BY DEF Main, StopServing, EmptyRegistry, CloseNext, Exit

(* What happens around the daemon moves a handler only from idle to start. *)
LEMMA EnvironmentFrame ==
    ASSUME Environment
    PROVE  /\ UNCHANGED <<registryVars, dmu, nameOf, sess, waiters, todo, ready, result>>
           /\ UNCHANGED <<mpc, shutdown, nilMaps, doomed, crashed>>
BY DEF Environment, Begin, Disconnect, ChildExit, Stick, Signal

(* A request, once begun, is not changed. *)
LEMMA BegunStays ==
    ASSUME TypeOK, Environment, NEW h \in Handlers, pc[h] # "idle"
    PROVE  pc'[h] = pc[h] /\ op'[h] = op[h] /\ ref'[h] = ref[h]
BY DEF Environment, Begin, Disconnect, ChildExit, Stick, Signal, TypeOK, RequestType

(* A session never comes back to unused, from closed or to another name, and *)
(* only a run starts one.                                                  *)
LEMMA LifeStep ==
    ASSUME TypeOK, RequestInv, [Next]_vars, NEW i \in Ids
    PROVE  /\ life[i] # "unused" => life'[i] # "unused" /\ nameOf'[i] = nameOf[i]
           /\ life[i] = "closed" => life'[i] = "closed"
           /\ life'[i] = "running" =>
                 \/ life[i] = "running"
                 \/ \E h \in Handlers : At(h, "run", "insert")' /\ sess'[h] = i
<1> USE DEF TypeOK, SessionType, RequestType, LocalType, At, Goto, Answer
<1>1. CASE UNCHANGED <<life, nameOf>>
  BY <1>1
<1>2. ASSUME NEW j \in Ids, ChildExit(j)
      PROVE  /\ UNCHANGED nameOf
             /\ \/ life' = life
                \/ life' = [life EXCEPT ![j] = "exited"] /\ life[j] = "running"
  BY <1>2 DEF ChildExit
<1>3. CASE \E j \in Ids : ChildExit(j)
  BY <1>2, <1>3
<1>4. CASE CloseNext
  BY <1>4 DEF CloseNext
<1>5. ASSUME NEW h \in Handlers, RunSpawn(h)
      PROVE  /\ life[i] # "unused" => life'[i] = life[i] /\ nameOf'[i] = nameOf[i]
             /\ life'[i] = "running" => life[i] = "running" \/ (At(h, "run", "insert")' /\ sess'[h] = i)
  <2>1. PICK j \in Ids : /\ life[j] = "unused"
                         /\ life' = [life EXCEPT ![j] = "running"]
                         /\ nameOf' = [nameOf EXCEPT ![j] = ref[h]]
                         /\ sess' = [sess EXCEPT ![h] = j]
    BY <1>5 DEF RunSpawn
  <2>2. At(h, "run", "insert")' /\ sess'[h] = j
    BY <1>5, <2>1 DEF RunSpawn
  <2> QED
    BY <2>1, <2>2
<1>6. CASE \E h \in Handlers : RunSpawn(h)
  BY <1>5, <1>6
<1>7. ASSUME NEW h \in Handlers, KillSession(h) \/ RemoveClose(h)
      PROVE  /\ UNCHANGED nameOf
             /\ \/ life' = [life EXCEPT ![sess[h]] = IF @ = "running" THEN "exited" ELSE @]
                \/ life' = [life EXCEPT ![sess[h]] = "closed"]
  BY <1>7 DEF KillSession, RemoveClose
<1>8. CASE \E h \in Handlers : KillSession(h) \/ RemoveClose(h)
  <2>1. PICK h \in Handlers : KillSession(h) \/ RemoveClose(h)
    BY <1>8
  <2>2. UNCHANGED nameOf
    BY <1>7, <2>1
  <2>3. CASE life' = [life EXCEPT ![sess[h]] = IF @ = "running" THEN "exited" ELSE @]
    BY <2>2, <2>3
  <2>4. CASE life' = [life EXCEPT ![sess[h]] = "closed"]
    BY <2>2, <2>4
  <2> QED
    BY <1>7, <2>1, <2>3, <2>4
<1>9. Environment => UNCHANGED <<life, nameOf>> \/ \E j \in Ids : ChildExit(j)
  BY DEF Environment, Begin, Disconnect, Stick, Signal
<1>10. Main => UNCHANGED <<life, nameOf>> \/ CloseNext
  BY DEF Main, StopServing, EmptyRegistry, Exit
<1>11. ASSUME NEW h \in Handlers, Handler(h)
       PROVE  UNCHANGED <<life, nameOf>> \/ RunSpawn(h) \/ KillSession(h) \/ RemoveClose(h)
  BY <1>11 DEF Handler, RunCheck, RunFails, RunInsert, RunDeliver, RunReply,
       ListLock, ListDescribe, ListReply, ResolveSession, RemoveRefused,
       RemoveDelete, WatchResolve, WatchPark, WatchReady, WatchDisconnected,
       WatchUnpark, WatchShutdown, WatchEnd, DaemonStop
<1> QED
  BY <1>1, <1>3, <1>4, <1>6, <1>8, <1>9, <1>10, <1>11, NextCases

-----------------------------------------------------------------------------
(* Every conjunct of the inductive invariant is kept by every step.         *)

(* Init establishes the invariant. *)
LEMMA InvInit == Init => IInv
<1> SUFFICES ASSUME Init PROVE IInv
    OBVIOUS
<1>1. TypeOK
    BY TypeInit
<1>2. RequestInv /\ HandlerInv /\ WatchGetsItsSession
  <2>1. \A h \in Handlers : op[h] = None /\ pc[h] = "idle" /\ ready[h] = None
    BY DEF Init
  <2>2. RequestInv
    BY <2>1 DEF Init, RequestInv
  <2>3. HandlerInv
    BY <2>1 DEF HandlerInv, At
  <2>4. WatchGetsItsSession
    BY <2>1 DEF WatchGetsItsSession, At
  <2> QED
    BY <2>2, <2>3, <2>4
<1>3. RegistryInv /\ NamesResolve /\ ChildInv
    BY DEF Init, RegistryInv, NamesResolve, ChildInv
<1>4. QueueInv
    BY DEF Init, QueueInv, Distinct, Queued, Taken, Has
<1>5. PlaceInv
    BY DEF Init, PlaceInv, Queued, Taken, Has, At
<1> QED
    BY <1>1, <1>2, <1>3, <1>4, <1>5 DEF IInv

(* What a handler works with: a run is sure of its session once it spawned. *)
LEMMA RequestStep == TypeOK /\ RequestInv /\ [Next]_vars => RequestInv'
<1> SUFFICES ASSUME TypeOK, RequestInv, [Next]_vars PROVE RequestInv'
    OBVIOUS
<1> USE DEF RequestInv
<1>1. CASE UNCHANGED <<op, ref, pc, sess>>
  BY <1>1
<1>2. ASSUME NEW h \in Handlers, NEW o \in Ops, NEW r \in Refs \cup {None},
             NEW f \in BOOLEAN, Begin(h, o, r, f)
      PROVE  RequestInv'
  BY <1>2 DEF Begin, TypeOK, RequestType
<1>3. ASSUME NEW h \in Handlers, Handler(h) PROVE RequestInv'
  <2>1. \A q \in Handlers \ {h} : pc'[q] = pc[q] /\ sess'[q] = sess[q]
    BY <1>3, HandlerFrame
  <2>2. UNCHANGED <<op, ref>>
    BY <1>3, HandlerFrame DEF requestVars
  <2>3. pc'[h] = "insert" => sess'[h] \in Ids
    <3> USE DEF At, Goto, Answer, TypeOK, RequestType, LocalType
    <3>1. CASE RunSpawn(h)
      BY <3>1 DEF RunSpawn
    <3>2. CASE pc'[h] # "insert" \/ UNCHANGED <<pc, sess>>
      BY <3>2
    <3>3. Handler(h) => RunSpawn(h) \/ pc'[h] # "insert" \/ UNCHANGED <<pc, sess>>
      BY <1>3 DEF Handler, RunCheck, RunFails, RunInsert, RunDeliver,
           RunReply, ListLock, ListDescribe, ListReply, ResolveSession,
           KillSession, RemoveRefused, RemoveClose, RemoveDelete, WatchResolve,
           WatchPark, WatchReady, WatchDisconnected, WatchUnpark, WatchShutdown,
           WatchEnd, DaemonStop
    <3> QED
      BY <1>3, <3>1, <3>2, <3>3
  <2>4. pc[h] # "idle"
    BY <1>3 DEF Handler, RunCheck, RunSpawn, RunFails, RunInsert, RunDeliver,
       RunReply, ListLock, ListDescribe, ListReply, ResolveSession, KillSession,
       RemoveRefused, RemoveClose, RemoveDelete, WatchResolve, WatchPark,
       WatchReady, WatchDisconnected, WatchUnpark, WatchShutdown, WatchEnd,
       DaemonStop, At
  <2> QED
    BY <2>1, <2>2, <2>3, <2>4
<1>4. Environment => UNCHANGED <<op, ref, pc, sess>> \/
         \E h \in Handlers, o \in Ops, r \in Refs \cup {None}, f \in BOOLEAN : Begin(h, o, r, f)
  BY DEF Environment, Disconnect, ChildExit, Stick, Signal
<1>5. Main => UNCHANGED <<op, ref, pc, sess>>
  BY MainFrame
<1> QED
  BY <1>1, <1>2, <1>3, <1>4, <1>5, NextCases

(* d.sessions and d.names change together, and only opRun and opRemove      *)
(* change them, until shutdown drops both.                                 *)
LEMMA RegistryStep ==
    ASSUME IInv, [Next]_vars
    PROVE  RegistryInv' /\ NamesResolve'
<1> USE DEF IInv, RegistryInv, NamesResolve, TypeOK, RegistryType, RequestType,
        LocalType, At, Goto, Answer
<1>0. \A i \in Ids : life[i] # "unused" => life'[i] # "unused" /\ nameOf'[i] = nameOf[i]
  BY LifeStep
<1>1. CASE UNCHANGED <<sessions, names, nilMaps, mpc, doomed>>
  BY <1>0, <1>1 DEF MainType
<1>2. ASSUME NEW h \in Handlers, RunInsert(h) PROVE RegistryInv' /\ NamesResolve'
  <2>1. /\ sess[h] \in Ids /\ life[sess[h]] # "unused" /\ nameOf[sess[h]] = ref[h]
        /\ ref[h] \in Names \cup {None}
    BY <1>2 DEF RunInsert, HandlerInv, Used, RequestInv
  <2>2. UNCHANGED <<nilMaps, mpc, doomed, life, nameOf>>
    BY <1>2 DEF RunInsert
  <2>3. \/ UNCHANGED <<sessions, names>>
        \/ /\ sessions' = sessions \cup {sess[h]}
           /\ \/ ref[h] = None /\ names' = names
              \/ ref[h] # None /\ names' = [names EXCEPT ![ref[h]] = sess[h]]
    BY <1>2 DEF RunInsert
  <2>4. RegistryInv'
    BY <2>1, <2>2, <2>3
  <2>5. ASSUME NEW n \in Names, names'[n] # None
        PROVE  names'[n] \in sessions' /\ nameOf'[names'[n]] = n
    BY <2>1, <2>2, <2>3, <2>5
  <2> QED
    BY <2>4, <2>5
<1>3. ASSUME NEW h \in Handlers, RemoveDelete(h) PROVE RegistryInv' /\ NamesResolve'
  BY <1>3 DEF RemoveDelete
<1>4. CASE Main
  <2>1. CASE StopServing \/ Exit
    BY <2>1, <1>0 DEF StopServing, Exit
  <2>2. CASE EmptyRegistry
    BY <2>2 DEF EmptyRegistry
  <2>3. CASE CloseNext
    BY <2>3, <1>0 DEF CloseNext, MainType
  <2> QED
    BY <1>4, <2>1, <2>2, <2>3 DEF Main
<1>5. CASE Environment
  BY <1>1, <1>5, EnvironmentFrame
<1>6. ASSUME NEW h \in Handlers, Handler(h)
      PROVE  \/ RunInsert(h) \/ RemoveDelete(h)
             \/ UNCHANGED <<sessions, names, nilMaps, mpc, doomed>>
  BY <1>6 DEF Handler, RunCheck, RunSpawn, RunFails, RunDeliver, RunReply,
       ListLock, ListDescribe, ListReply, ResolveSession, KillSession,
       RemoveRefused, RemoveClose, WatchResolve, WatchPark, WatchReady,
       WatchDisconnected, WatchUnpark, WatchShutdown, WatchEnd, DaemonStop
<1> QED
  BY <1>1, <1>2, <1>3, <1>4, <1>5, <1>6, NextCases DEF vars

(* A running child stays where it is found: dropping an entry comes after   *)
(* its close, and emptying the registry hands its sessions to Run.         *)
LEMMA ChildStep == ASSUME IInv, [Next]_vars PROVE ChildInv'
<1> SUFFICES ASSUME NEW i \in Ids, life'[i] = "running"
             PROVE  \/ i \in (IF nilMaps THEN doomed ELSE sessions)'
                    \/ \E h \in Handlers : At(h, "run", "insert")' /\ sess'[h] = i
  BY DEF ChildInv
<1> DEFINE Kept == i \in IF nilMaps THEN doomed ELSE sessions
           Arriving(h) == At(h, "run", "insert") /\ sess[h] = i
<1> USE DEF IInv, TypeOK, RequestType, At, Goto, Answer
<1>1. CASE \E h \in Handlers : Arriving(h)'
  BY <1>1
<1>2. CASE ~\E h \in Handlers : Arriving(h)'
  <2>1. life[i] = "running"
    BY <1>2, LifeStep
  <2>2. Kept \/ \E h \in Handlers : Arriving(h)
    BY <2>1 DEF ChildInv
  <2>3. CASE UNCHANGED <<nilMaps, doomed, sessions, op, pc, sess>>
    BY <1>2, <2>2, <2>3
  <2>4. ASSUME NEW h \in Handlers, Handler(h) PROVE Kept'
    <3>1. UNCHANGED <<nilMaps, doomed, op>>
      BY <2>4, HandlerFrame DEF requestVars
    <3>2. \A q \in Handlers \ {h} : Arriving(q)' = Arriving(q)
      BY <2>4, HandlerFrame DEF requestVars
    <3>3. CASE RunInsert(h)
      <4>1. sessions \subseteq sessions' /\ (~nilMaps => sess[h] \in sessions')
        BY <3>3 DEF RunInsert
      <4>2. nilMaps => UNCHANGED <<pc, sess>>
        BY <3>3 DEF RunInsert
      <4> QED
        BY <1>2, <2>2, <3>1, <3>2, <4>1, <4>2
    <3>4. CASE RemoveDelete(h)
      <4>1. i # sess[h] /\ pc[h] # "insert"
        BY <2>1, <3>4 DEF RemoveDelete, HandlerInv
      <4> QED
        BY <1>2, <2>2, <3>1, <3>2, <3>4, <4>1 DEF RemoveDelete
    <3>5. CASE UNCHANGED sessions /\ (Arriving(h) => Arriving(h)')
      BY <1>2, <2>2, <3>1, <3>2, <3>5
    <3>6. RunInsert(h) \/ RemoveDelete(h) \/ (UNCHANGED sessions /\ (Arriving(h) => Arriving(h)'))
      BY <2>4 DEF Handler, RunCheck, RunSpawn, RunFails, RunDeliver,
           RunReply, ListLock, ListDescribe, ListReply, ResolveSession,
           KillSession, RemoveRefused, RemoveClose, WatchResolve, WatchPark,
           WatchReady, WatchDisconnected, WatchUnpark, WatchShutdown, WatchEnd,
           DaemonStop
    <3> QED
      BY <3>3, <3>4, <3>5, <3>6
  <2>5. CASE Environment
    <3>1. \A q \in Handlers : Arriving(q) => Arriving(q)'
      BY <2>5, BegunStays, EnvironmentFrame
    <3> QED
      BY <1>2, <2>2, <2>5, <3>1, EnvironmentFrame DEF registryVars
  <2>6. CASE Main
    <3>1. \A q \in Handlers : Arriving(q) => Arriving(q)'
      BY <2>6, MainFrame DEF handlingVars, requestVars, localVars
    <3>2. Kept
      BY <1>2, <2>2, <3>1
    <3>3. CASE StopServing \/ Exit
      BY <3>2, <3>3 DEF StopServing, Exit
    <3>4. CASE EmptyRegistry
      BY <3>2, <3>4 DEF EmptyRegistry, RegistryInv
    <3>5. CASE CloseNext
      BY <3>2, <3>5, <2>1 DEF CloseNext, RegistryInv, SessionType
    <3> QED
      BY <2>6, <3>3, <3>4, <3>5 DEF Main
  <2> QED
    BY <1>2, <2>3, <2>4, <2>5, <2>6, NextCases DEF vars
<1> QED
  BY <1>1, <1>2

(* A channel is filled by a run that has the receiver in hand, with the      *)
(* session it has registered; only the receiver empties it.                *)
LEMMA ReadyStep ==
    ASSUME IInv, NEW h \in Handlers, Handler(h), NEW q \in Handlers
    PROVE  \/ ready'[q] = ready[q]
           \/ q = h /\ At(h, "watch", "parked") /\ ready'[q] = None
           \/ RunDeliver(h) /\ Taken(h, q) /\ ready'[q] = sess[h]
<1> USE DEF IInv, TypeOK, LocalType
<1>1. CASE RunDeliver(h)
  <2>1. waiters[h] \in Seq(Handlers) /\ waiters[h] # <<>>
    BY <1>1 DEF RunDeliver
  <2>2. Head(waiters[h]) = waiters[h][1] /\ 1 \in 1..Len(waiters[h])
    BY <2>1
  <2>3. ready' = [ready EXCEPT ![Head(waiters[h])] = sess[h]]
    BY <1>1 DEF RunDeliver
  <2> QED
    BY <1>1, <2>2, <2>3 DEF Taken, Has
<1>2. CASE WatchReady(h)
  BY <1>2 DEF WatchReady
<1>3. CASE UNCHANGED ready
  BY <1>3
<1>4. RunDeliver(h) \/ WatchReady(h) \/ UNCHANGED ready
  BY DEF Handler, RunCheck, RunSpawn, RunFails, RunInsert, RunReply,
       ListLock, ListDescribe, ListReply, ResolveSession, KillSession,
       RemoveRefused, RemoveClose, RemoveDelete, WatchResolve, WatchPark,
       WatchDisconnected, WatchUnpark, WatchShutdown, WatchEnd, DaemonStop
<1> QED
  BY <1>1, <1>2, <1>3, <1>4

(* What a handler has established stays so, whatever the others do.          *)
LEMMA HandlerStep == ASSUME IInv, [Next]_vars PROVE HandlerInv' /\ WatchGetsItsSession'
<1> DEFINE Facts(q) ==
             /\ At(q, "run", "insert") \/ At(q, "run", "deliver") =>
                   Used(sess[q]) /\ nameOf[sess[q]] = ref[q]
             /\ pc[q] \in {"use", "delete", "stream"} => Used(sess[q])
             /\ pc[q] = "delete" => life[sess[q]] = "closed"
             /\ At(q, "watch", "stream") =>
                   \/ nameOf[sess[q]] = ref[q] \/ sess[q] = ref[q]
                   \/ ref[q] \in Names /\ sess[q] \in Prefixed[ref[q]]
           ReadyFact(q) == ready[q] # None => Used(ready[q]) /\ nameOf[ready[q]] = ref[q]
<1>0. \A q \in Handlers : Facts(q) /\ ReadyFact(q)
  BY DEF IInv, HandlerInv, WatchGetsItsSession
<1> SUFFICES ASSUME NEW q \in Handlers PROVE Facts(q)' /\ ReadyFact(q)'
  BY DEF HandlerInv, WatchGetsItsSession
<1>1. \A i \in Ids : /\ life[i] # "unused" => life'[i] # "unused" /\ nameOf'[i] = nameOf[i]
                     /\ life[i] = "closed" => life'[i] = "closed"
  BY LifeStep DEF IInv
<1>2. ASSUME op'[q] = op[q], ref'[q] = ref[q], pc'[q] = pc[q], sess'[q] = sess[q]
      PROVE  Facts(q)'
  <2>1. /\ Used(sess[q]) => Used(sess[q])' /\ nameOf'[sess[q]] = nameOf[sess[q]]
        /\ Used(sess[q]) /\ life[sess[q]] = "closed" => life'[sess[q]] = "closed"
    BY <1>1, <1>2 DEF Used
  <2> QED
    BY <1>0, <1>2, <2>1 DEF At
<1>3. ASSUME ref'[q] = ref[q], ready'[q] = ready[q] PROVE ReadyFact(q)'
  BY <1>0, <1>1, <1>3 DEF Used
<1>4. CASE Environment
  <2>1. UNCHANGED <<sess, ready>>
    BY <1>4, EnvironmentFrame
  <2>2. pc[q] = "idle" => pc'[q] \in {"idle", "start"} /\ ready[q] = None
    BY <1>4 DEF Environment, Begin, Disconnect, ChildExit, Stick, Signal,
       IInv, PlaceInv, TypeOK, RequestType
  <2>3. pc[q] # "idle" => pc'[q] = pc[q] /\ op'[q] = op[q] /\ ref'[q] = ref[q]
    BY <1>4, BegunStays DEF IInv
  <2> QED
    BY <1>0, <1>1, <2>1, <2>2, <2>3 DEF Used, At
<1>5. CASE Main
  BY <1>2, <1>3, <1>5, MainFrame DEF handlingVars, requestVars, localVars
<1>6. ASSUME NEW h \in Handlers, Handler(h) PROVE ReadyFact(q)'
  <2>1. UNCHANGED <<op, ref>>
    BY <1>6, HandlerFrame DEF IInv, requestVars
  <2>2. CASE RunDeliver(h) /\ Taken(h, q) /\ ready'[q] = sess[h]
    <3>1. ref[q] = ref[h] /\ At(h, "run", "deliver")
      BY <2>2 DEF IInv, QueueInv, Waits
    <3> QED
      BY <1>0, <1>1, <2>1, <2>2, <3>1 DEF Used
  <2> QED
    BY <1>0, <1>1, <1>6, <2>1, <2>2, ReadyStep DEF Used
<1>7. ASSUME NEW h \in Handlers, Handler(h) PROVE Facts(q)'
  <2> USE DEF IInv, TypeOK, RequestType, LocalType, At, Goto, Answer
  <2>1. UNCHANGED <<op, ref>>
    BY <1>7, HandlerFrame DEF requestVars
  <2>2. CASE pc'[q] = pc[q] /\ sess'[q] = sess[q]
    BY <1>2, <2>1, <2>2
  <2>3. CASE q = h /\ pc'[h] \notin {"insert", "deliver", "use", "delete", "stream"}
    BY <2>3
  <2>4. CASE q = h /\ RunSpawn(h)
    <3>1. PICK i \in Ids : /\ life' = [life EXCEPT ![i] = "running"]
                           /\ nameOf' = [nameOf EXCEPT ![i] = ref[h]]
                           /\ sess' = [sess EXCEPT ![h] = i]
      BY <2>4 DEF RunSpawn
    <3>2. pc'[h] = "insert"
      BY <2>4 DEF RunSpawn
    <3> QED
      BY <2>1, <2>4, <3>1, <3>2 DEF Used, SessionType
  <2>5. CASE q = h /\ RunInsert(h)
    BY <1>0, <1>1, <2>1, <2>5 DEF RunInsert, Used
  <2>6. CASE q = h /\ ResolveSession(h)
    <3>1. ref[h] \in Refs /\ op[h] # "watch" /\ op[h] # "run"
      BY <2>6 DEF ResolveSession, RequestInv
    <3>2. Resolve(ref[h]) # None => Used(Resolve(ref[h]))
      BY <3>1, ResolveType DEF RegistryInv, RegistryType, Used
    <3>3. \/ pc'[h] = "returned"
          \/ Resolve(ref[h]) # None /\ sess'[h] = Resolve(ref[h]) /\ pc'[h] = "use"
      BY <2>6 DEF ResolveSession
    <3> QED
      BY <1>1, <2>1, <2>6, <3>1, <3>2, <3>3 DEF Used
  <2>7. CASE q = h /\ RemoveClose(h)
    <3>1. Used(sess[h]) /\ life' = [life EXCEPT ![sess[h]] = "closed"] /\ UNCHANGED sess
      BY <1>0, <2>7 DEF RemoveClose
    <3>2. pc'[h] = "delete" /\ life'[sess[h]] = "closed" /\ op[h] = "remove"
      BY <2>7, <3>1 DEF RemoveClose, Used, SessionType
    <3> QED
      BY <2>1, <2>7, <3>1, <3>2 DEF Used
  <2>8. CASE q = h /\ WatchResolve(h)
    <3>1. ref[h] \in Refs
      BY <2>8 DEF WatchResolve, RequestInv
    <3>2. Resolve(ref[h]) # None =>
             /\ Used(Resolve(ref[h]))
             /\ \/ nameOf[Resolve(ref[h])] = ref[h] \/ Resolve(ref[h]) = ref[h]
                \/ ref[h] \in Names /\ Resolve(ref[h]) \in Prefixed[ref[h]]
      BY <3>1, ResolveType DEF RegistryInv, NamesResolve, RegistryType, Used
    <3>3. \/ pc'[h] = "park"
          \/ Resolve(ref[h]) # None /\ sess'[h] = Resolve(ref[h]) /\ pc'[h] = "stream"
      BY <2>8 DEF WatchResolve
    <3> QED
      BY <1>1, <2>1, <2>8, <3>2, <3>3 DEF Used
  <2>9. CASE q = h /\ WatchReady(h)
    BY <1>0, <1>1, <2>1, <2>9 DEF WatchReady, Used
  <2>10. \/ pc'[h] = pc[h] /\ sess'[h] = sess[h]
         \/ pc'[h] \notin {"insert", "deliver", "use", "delete", "stream"}
         \/ RunSpawn(h) \/ RunInsert(h) \/ ResolveSession(h) \/ RemoveClose(h)
         \/ WatchResolve(h) \/ WatchReady(h)
    BY <1>7 DEF Handler, RunCheck, RunFails, RunDeliver, RunReply, ListLock,
         ListDescribe, ListReply, KillSession, RemoveRefused, RemoveDelete,
         WatchPark, WatchDisconnected, WatchUnpark, WatchShutdown, WatchEnd,
         DaemonStop
  <2> QED
    BY <1>7, <2>2, <2>3, <2>4, <2>5, <2>6, <2>7, <2>8, <2>9, <2>10, HandlerFrame
<1>8. CASE UNCHANGED vars
  BY <1>2, <1>3, <1>8 DEF vars
<1> QED
  BY <1>4, <1>5, <1>6, <1>7, <1>8, NextCases

(* A parked watch that is not served leaves only for good, and a run that    *)
(* has waiters in hand goes on delivering.                                 *)
LEMMA WaitsStep ==
    ASSUME IInv, [Next]_vars, NEW q \in Handlers, NEW r, Waits(q, r),
           ready'[q] = None
    PROVE  Waits(q, r)'
<1> USE DEF IInv, Waits
<1>1. CASE Environment
  BY <1>1, BegunStays, EnvironmentFrame
<1>2. CASE Main
  BY <1>2, MainFrame DEF handlingVars, requestVars, localVars
<1>3. ASSUME NEW h \in Handlers, Handler(h) PROVE Waits(q, r)'
  <2>1. UNCHANGED <<op, ref>> /\ (q # h => pc'[q] = pc[q])
    BY <1>3, HandlerFrame DEF requestVars
  <2>2. CASE q = h
    <3>1. pc'[h] \in {"parked", "unpark", "returned"}
      BY <1>3, <2>2 DEF TypeOK, RequestType, At, Goto, Answer, Handler,
           RunCheck, RunSpawn, RunFails, RunInsert, RunDeliver,
           RunReply, ListLock, ListDescribe, ListReply,
           ResolveSession, KillSession, RemoveRefused, RemoveClose,
           RemoveDelete, WatchResolve, WatchPark, WatchReady,
           WatchDisconnected, WatchUnpark, WatchShutdown, WatchEnd,
           DaemonStop
    <3> QED
      BY <2>1, <2>2, <3>1
  <2> QED
    BY <2>1, <2>2
<1> QED
  BY <1>1, <1>2, <1>3, NextCases DEF vars

(* A run that has taken waiting watches keeps delivering its session until the
   last of them is served. *)
LEMMA DeliveringStep ==
    ASSUME IInv, [Next]_vars, NEW g \in Handlers, NEW q \in Handlers, Taken(g, q)
    PROVE  At(g, "run", "deliver")' /\ ref'[g] = ref[g]
<1>1. At(g, "run", "deliver") /\ waiters[g] # <<>>
  BY DEF IInv, QueueInv, Taken, Has
<1> USE DEF IInv, At
<1>2. CASE Environment
  BY <1>1, <1>2, BegunStays
<1>3. CASE Main
  BY <1>1, <1>3, MainFrame DEF handlingVars, requestVars, localVars
<1>4. ASSUME NEW h \in Handlers, Handler(h) PROVE At(g, "run", "deliver")' /\ ref'[g] = ref[g]
  <2>1. UNCHANGED <<op, ref>> /\ (g # h => pc'[g] = pc[g])
    BY <1>4, HandlerFrame DEF requestVars
  <2>2. g = h => pc'[g] = pc[g]
    BY <1>1, <1>4 DEF TypeOK, RequestType, Goto, Answer, Handler,
         RunCheck, RunSpawn, RunFails, RunInsert, RunDeliver,
         RunReply, ListLock, ListDescribe, ListReply, ResolveSession,
         KillSession, RemoveRefused, RemoveClose, RemoveDelete,
         WatchResolve, WatchPark, WatchReady, WatchDisconnected,
         WatchUnpark, WatchShutdown, WatchEnd, DaemonStop
  <2> QED
    BY <1>1, <2>1, <2>2
<1> QED
  BY <1>1, <1>2, <1>3, <1>4, NextCases DEF vars

(* A step that moves no entry keeps the places of all who wait: nobody       *)
(* parks, and a channel is at most emptied, by its own watch.              *)
LEMMA NothingMoves ==
    ASSUME IInv, [Next]_vars, UNCHANGED <<pendingWatches, waiters>>,
           \A q \in Handlers :
              /\ ready'[q] = ready[q] \/ (ready'[q] = None /\ pc'[q] = "stream")
              /\ At(q, "watch", "parked")' => At(q, "watch", "parked") /\ ref'[q] = ref[q]
              /\ (op[q] = "watch" /\ pc[q] \in {"parked", "unpark", "returned"}) =>
                    op'[q] = "watch" /\ (ready'[q] = ready[q] =>
                                            pc'[q] \in {"parked", "unpark", "returned"} \/ ready[q] = None)
    PROVE  QueueInv' /\ PlaceInv'
<1>1. /\ \A r \in Refs, q \in Handlers : Queued(r, q)' = Queued(r, q)
      /\ \A g, q \in Handlers : Taken(g, q)' = Taken(g, q)
  BY DEF Queued, Taken
<1>2. \A q \in Handlers : \A r : Waits(q, r) => Waits(q, r)'
  BY WaitsStep DEF Waits
<1>3. QueueInv'
  <2>1. (\A r \in Refs : Distinct(pendingWatches[r]))' /\ (\A g \in Handlers : Distinct(waiters[g]))'
    BY DEF IInv, QueueInv
  <2>2. ASSUME NEW g \in Handlers, NEW q \in Handlers, Taken(g, q)
        PROVE  (At(g, "run", "deliver") /\ Waits(q, ref[g]))'
    BY <1>2, <2>2, DeliveringStep DEF IInv, QueueInv
  <2>3. \A q \in Handlers, r \in Refs : Queued(r, q) => Waits(q, r)'
    BY <1>2 DEF IInv, QueueInv
  <2> QED
    BY <1>1, <2>1, <2>2, <2>3 DEF QueueInv
<1>4. PlaceInv'
  <2>1. ASSUME NEW q \in Handlers, At(q, "watch", "parked")'
        PROVE  Queued(ref[q], q)' \/ ready'[q] # None \/ \E g \in Handlers : Taken(g, q)'
    <3>1. At(q, "watch", "parked") /\ ref'[q] = ref[q] /\ ref[q] \in Refs
      BY <2>1 DEF IInv, RequestInv, At
    <3>2. Queued(ref[q], q)' = Queued(ref[q], q)
      BY <1>1, <3>1 DEF Queued
    <3>3. ready'[q] = ready[q]
      BY <2>1 DEF At
    <3> QED
      BY <1>1, <3>1, <3>2, <3>3 DEF IInv, PlaceInv
  <2>2. \A q \in Handlers :
           ready'[q] # None => op'[q] = "watch" /\ pc'[q] \in {"parked", "unpark", "returned"}
    BY DEF IInv, PlaceInv
  <2> QED
    BY <1>1, <2>1, <2>2 DEF IInv, PlaceInv
<1> QED
  BY <1>3, <1>4

(* opRun takes the whole queue of its name. *)
LEMMA QueueTaken ==
    ASSUME IInv, [Next]_vars, NEW h \in Handlers, RunInsert(h), ref[h] # None, ~nilMaps
    PROVE  QueueInv' /\ PlaceInv'
<1>0. Handler(h)
  BY DEF Handler
<1>1. /\ At(h, "run", "insert") /\ pc'[h] = "deliver"
      /\ waiters' = [waiters EXCEPT ![h] = pendingWatches[ref[h]]]
      /\ pendingWatches' = [pendingWatches EXCEPT ![ref[h]] = <<>>]
      /\ UNCHANGED <<op, ref, ready>>
  BY DEF RunInsert, requestVars, IInv, TypeOK, RequestType, Goto
<1>2. ref[h] \in Refs
  BY <1>1 DEF IInv, RequestInv, At
<1>3. /\ waiters \in [Handlers -> Seq(Handlers)] /\ pendingWatches \in [Refs -> Seq(Handlers)]
      /\ \A q \in Handlers \ {h} : pc'[q] = pc[q]
  BY <1>0, HandlerFrame DEF IInv, TypeOK, LocalType, RegistryType
<1>4. \A q \in Handlers : ~Taken(h, q)
  BY <1>1 DEF IInv, QueueInv, At
<1>5. ASSUME NEW q \in Handlers
      PROVE  /\ \A r \in Refs : Queued(r, q)' <=> Queued(r, q) /\ r # ref[h]
             /\ \A g \in Handlers \ {h} : Taken(g, q)' = Taken(g, q)
             /\ Taken(h, q)' <=> Queued(ref[h], q)
  <2>1. /\ \A r \in Refs \ {ref[h]} : pendingWatches'[r] = pendingWatches[r]
        /\ pendingWatches'[ref[h]] = <<>>
        /\ \A g \in Handlers \ {h} : waiters'[g] = waiters[g]
        /\ waiters'[h] = pendingWatches[ref[h]]
    BY <1>1, <1>2, <1>3
  <2>2. ~Has(<<>>, q)
    BY DEF Has
  <2> QED
    BY <2>1, <2>2 DEF Queued, Taken
<1>6. \A q \in Handlers : \A r : Waits(q, r) => Waits(q, r)'
  BY <1>1, WaitsStep DEF Waits
<1>7. QueueInv'
  <2>1. /\ \A r \in Refs : Distinct(pendingWatches'[r])
        /\ \A g \in Handlers : Distinct(waiters'[g])
    BY <1>1, <1>2, <1>3 DEF IInv, QueueInv, Distinct
  <2>2. \A q \in Handlers, r \in Refs : Queued(r, q)' => Waits(q, r)'
    BY <1>5, <1>6 DEF IInv, QueueInv
  <2>3. ASSUME NEW g \in Handlers, NEW q \in Handlers, Taken(g, q)'
        PROVE  At(g, "run", "deliver")' /\ Waits(q, ref[g])'
    <3>1. CASE g = h
      BY <1>1, <1>2, <1>5, <1>6, <2>3, <3>1 DEF IInv, QueueInv, At, Waits
    <3>2. CASE g # h
      BY <1>1, <1>5, <1>6, <2>3, <3>2, DeliveringStep DEF IInv, QueueInv, Waits
    <3> QED
      BY <3>1, <3>2
  <2> QED
    BY <2>1, <2>2, <2>3 DEF QueueInv
<1>8. PlaceInv'
  <2>1. \A q \in Handlers : At(q, "watch", "parked")' => At(q, "watch", "parked")
    BY <1>1, <1>3 DEF At
  <2>2. \A q \in Handlers, r \in Refs : Queued(r, q) => r = ref[q]
    BY DEF IInv, QueueInv, Waits
  <2>3. \A g, q \in Handlers, r \in Refs : ~(Taken(g, q)' /\ Queued(r, q)')
    BY <1>2, <1>5, <2>2 DEF IInv, PlaceInv
  <2>4. \A f, g, q \in Handlers : Taken(f, q)' /\ Taken(g, q)' => f = g
    BY <1>2, <1>4, <1>5 DEF IInv, PlaceInv
  <2>5. ASSUME NEW q \in Handlers
        PROVE  /\ ready'[q] # None => op'[q] = "watch" /\ pc'[q] \in {"parked", "unpark", "returned"}
               /\ At(q, "watch", "parked")' =>
                     Queued(ref[q], q)' \/ ready'[q] # None \/ \E g \in Handlers : Taken(g, q)'
    <3>1. ready'[q] # None => op'[q] = "watch" /\ pc'[q] \in {"parked", "unpark", "returned"}
      BY <1>1, <1>3 DEF IInv, PlaceInv, At
    <3>2. At(q, "watch", "parked")' => ref[q] \in Refs
      BY <2>1 DEF IInv, RequestInv, At
    <3>3. Taken(h, q) => FALSE
      BY <1>4
    <3> QED
      BY <1>1, <1>5, <2>1, <3>1, <3>2, <3>3 DEF IInv, PlaceInv, Queued
  <2> QED
    BY <2>3, <2>4, <2>5 DEF PlaceInv
<1> QED
  BY <1>7, <1>8

(* A run serves the first waiter it has in hand. *)
LEMMA WaiterServed ==
    ASSUME IInv, [Next]_vars, NEW h \in Handlers, RunDeliver(h)
    PROVE  QueueInv' /\ PlaceInv'
<1> DEFINE w == Head(waiters[h])
<1>0. Handler(h)
  BY DEF Handler
<1>1. /\ At(h, "run", "deliver") /\ UNCHANGED <<pendingWatches, op, ref, pc>>
      /\ waiters[h] # <<>> /\ waiters' = [waiters EXCEPT ![h] = Tail(waiters[h])]
      /\ ready' = [ready EXCEPT ![w] = sess[h]]
  BY DEF RunDeliver, requestVars
<1>2. /\ waiters \in [Handlers -> Seq(Handlers)] /\ Distinct(waiters[h])
      /\ ready \in [Handlers -> Ids \cup {None}] /\ Used(sess[h])
  BY <1>1 DEF IInv, TypeOK, LocalType, QueueInv, HandlerInv
<1>3. /\ Distinct(Tail(waiters[h]))
      /\ \A q : Has(Tail(waiters[h]), q) <=> Has(waiters[h], q) /\ q # w
  BY <1>1, <1>2, TailHas
<1>4. w \in Handlers /\ Taken(h, w)
  <2>1. waiters[h] \in Seq(Handlers) /\ 1 \in 1..Len(waiters[h]) /\ w = waiters[h][1]
    BY <1>1, <1>2
  <2> QED
    BY <2>1 DEF Taken, Has
<1> HIDE DEF w
<1>5. /\ \A r \in Refs, q \in Handlers : Queued(r, q)' = Queued(r, q)
      /\ \A g \in Handlers \ {h}, q \in Handlers : Taken(g, q)' = Taken(g, q)
      /\ \A q \in Handlers : Taken(h, q)' <=> Taken(h, q) /\ q # w
  BY <1>1, <1>2, <1>3 DEF Queued, Taken
<1>6. \A q \in Handlers : \A r : q # w /\ Waits(q, r) => Waits(q, r)'
  BY <1>1, WaitsStep DEF Waits
<1>7. /\ \A r \in Refs : ~Queued(r, w)
      /\ \A g \in Handlers : Taken(g, w) => g = h
  BY <1>4 DEF IInv, PlaceInv
<1>8. QueueInv'
  <2>1. /\ \A r \in Refs : Distinct(pendingWatches'[r])
        /\ \A g \in Handlers : Distinct(waiters'[g])
    BY <1>1, <1>2, <1>3 DEF IInv, QueueInv
  <2>2. ASSUME NEW r \in Refs, NEW q \in Handlers, Queued(r, q)' PROVE Waits(q, r)'
    BY <1>5, <1>6, <1>7, <2>2 DEF IInv, QueueInv
  <2>3. ASSUME NEW g \in Handlers, NEW q \in Handlers, Taken(g, q)'
        PROVE  At(g, "run", "deliver")' /\ Waits(q, ref[g])'
    <3>1. Taken(g, q) /\ q # w
      BY <1>5, <1>7, <2>3
    <3> QED
      BY <1>1, <1>6, <3>1, DeliveringStep DEF IInv, QueueInv, Waits
  <2> QED
    BY <2>1, <2>2, <2>3 DEF QueueInv
<1>9. PlaceInv'
  <2>1. Waits(w, ref[h]) /\ ready'[w] # None /\ \A q \in Handlers \ {w} : ready'[q] = ready[q]
    BY <1>1, <1>2, <1>4 DEF IInv, QueueInv, Used
  <2>2. ASSUME NEW q \in Handlers
        PROVE  /\ ready'[q] # None => op'[q] = "watch" /\ pc'[q] \in {"parked", "unpark", "returned"}
               /\ At(q, "watch", "parked")' =>
                     Queued(ref[q], q)' \/ ready'[q] # None \/ \E g \in Handlers : Taken(g, q)'
    <3>1. ready'[q] # None => op'[q] = "watch" /\ pc'[q] \in {"parked", "unpark", "returned"}
      BY <1>1, <2>1 DEF IInv, PlaceInv, Waits
    <3>2. CASE q # w /\ At(q, "watch", "parked")'
      <4>1. At(q, "watch", "parked") /\ ref[q] \in Refs /\ ref'[q] = ref[q]
        BY <1>1, <3>2 DEF IInv, RequestInv, At
      <4>2. Queued(ref[q], q) \/ ready[q] # None \/ \E g \in Handlers : Taken(g, q)
        BY <4>1 DEF IInv, PlaceInv
      <4>3. Queued(ref[q], q)' = Queued(ref[q], q)
        BY <1>1, <4>1 DEF Queued
      <4>4. \A g \in Handlers : Taken(g, q) => Taken(g, q)'
        BY <1>5, <3>2
      <4> QED
        BY <2>1, <3>1, <3>2, <4>2, <4>3, <4>4
    <3> QED
      BY <2>1, <3>1, <3>2
  <2>3. \A g, q \in Handlers : Taken(g, q)' => Taken(g, q)
    BY <1>5
  <2> QED
    BY <1>5, <2>2, <2>3 DEF IInv, PlaceInv
<1> QED
  BY <1>8, <1>9

(* A watch that joins the queue was nowhere before. *)
LEMMA WatchQueued ==
    ASSUME IInv, [Next]_vars, NEW h \in Handlers, WatchPark(h)
    PROVE  QueueInv' /\ PlaceInv'
<1>0. Handler(h)
  BY DEF Handler
<1>1. /\ At(h, "watch", "park") /\ pc'[h] = "parked" /\ UNCHANGED <<waiters, op, ref, ready>>
      /\ pendingWatches' = [pendingWatches EXCEPT ![ref[h]] = Append(pendingWatches[ref[h]], h)]
  BY DEF WatchPark, requestVars, IInv, TypeOK, RequestType, Goto
<1>2. /\ ref[h] \in Refs /\ pendingWatches \in [Refs -> Seq(Handlers)]
      /\ \A q \in Handlers \ {h} : pc'[q] = pc[q]
  BY <1>0, <1>1, HandlerFrame DEF IInv, RequestInv, TypeOK, RegistryType, At
<1>3. /\ ready[h] = None /\ \A g \in Handlers : ~Taken(g, h)
      /\ \A r \in Refs : ~Queued(r, h)
  BY <1>1 DEF IInv, PlaceInv, QueueInv, Waits, At
<1>4. /\ Distinct(Append(pendingWatches[ref[h]], h))
      /\ \A q : Has(Append(pendingWatches[ref[h]], h), q) <=> Has(pendingWatches[ref[h]], q) \/ q = h
  BY <1>2, <1>3, AppendHas DEF IInv, QueueInv, Queued
<1>5. /\ \A r \in Refs, q \in Handlers : Queued(r, q)' <=> Queued(r, q) \/ (r = ref[h] /\ q = h)
      /\ \A g, q \in Handlers : Taken(g, q)' = Taken(g, q)
  BY <1>1, <1>2, <1>4 DEF Queued, Taken
<1>6. \A q \in Handlers : \A r : Waits(q, r) => Waits(q, r)'
  BY <1>1, WaitsStep DEF Waits
<1>7. QueueInv'
  <2>1. /\ \A r \in Refs : Distinct(pendingWatches'[r])
        /\ \A g \in Handlers : Distinct(waiters'[g])
    BY <1>1, <1>2, <1>4 DEF IInv, QueueInv
  <2>2. ASSUME NEW r \in Refs, NEW q \in Handlers, Queued(r, q)' PROVE Waits(q, r)'
    BY <1>1, <1>3, <1>5, <1>6, <2>2 DEF IInv, QueueInv, Waits, At
  <2>3. ASSUME NEW g \in Handlers, NEW q \in Handlers, Taken(g, q)'
        PROVE  At(g, "run", "deliver")' /\ Waits(q, ref[g])'
    BY <1>1, <1>5, <1>6, <2>3, DeliveringStep DEF IInv, QueueInv, Waits
  <2> QED
    BY <2>1, <2>2, <2>3 DEF QueueInv
<1>8. PlaceInv'
  <2>1. ASSUME NEW q \in Handlers
        PROVE  /\ ready'[q] # None => op'[q] = "watch" /\ pc'[q] \in {"parked", "unpark", "returned"}
               /\ At(q, "watch", "parked")' =>
                     Queued(ref[q], q)' \/ ready'[q] # None \/ \E g \in Handlers : Taken(g, q)'
    <3>1. CASE q = h
      <4>1. Queued(ref[q], q)'
        BY <1>1, <1>2, <1>4, <3>1 DEF Queued
      <4> QED
        BY <1>1, <1>3, <3>1, <4>1
    <3>2. CASE q # h /\ At(q, "watch", "parked")'
      <4>1. At(q, "watch", "parked") /\ ref[q] \in Refs /\ ref'[q] = ref[q] /\ ready'[q] = ready[q]
        BY <1>1, <1>2, <3>2 DEF IInv, RequestInv, At
      <4>2. Queued(ref[q], q) => Queued(ref[q], q)'
        BY <1>1, <1>2, <1>4, <4>1 DEF Queued
      <4> QED
        BY <1>5, <3>2, <4>1, <4>2 DEF IInv, PlaceInv, At
    <3>3. CASE q # h /\ ~At(q, "watch", "parked")'
      BY <1>1, <1>2, <3>3 DEF IInv, PlaceInv
    <3> QED
      BY <1>1, <1>2, <3>1, <3>2, <3>3 DEF IInv, PlaceInv
  <2> QED
    BY <1>3, <1>5, <2>1 DEF IInv, PlaceInv
<1> QED
  BY <1>7, <1>8

(* A watch whose client has left takes its own entry off the queue only. *)
LEMMA WatchDequeued ==
    ASSUME IInv, [Next]_vars, NEW h \in Handlers, WatchUnpark(h),
           pendingWatches' # pendingWatches
    PROVE  QueueInv' /\ PlaceInv'
<1>0. Handler(h)
  BY DEF Handler
<1>1. /\ At(h, "watch", "unpark") /\ pc'[h] = "returned" /\ UNCHANGED <<waiters, op, ref, ready>>
      /\ \E k \in 1..Len(pendingWatches[ref[h]]) :
            /\ pendingWatches[ref[h]][k] = h
            /\ pendingWatches' =
                  [pendingWatches EXCEPT ![ref[h]] = WithoutNth(pendingWatches[ref[h]], k)]
  BY DEF WatchUnpark, requestVars, IInv, TypeOK, RequestType, Answer, Goto
<1>2. /\ ref[h] \in Refs /\ pendingWatches \in [Refs -> Seq(Handlers)]
      /\ \A q \in Handlers \ {h} : pc'[q] = pc[q]
  BY <1>0, <1>1, HandlerFrame DEF IInv, RequestInv, TypeOK, RegistryType, At
<1> DEFINE s == pendingWatches[ref[h]]
<1>3. PICK k \in 1..Len(s) : s[k] = h /\ pendingWatches' = [pendingWatches EXCEPT ![ref[h]] = WithoutNth(s, k)]
  BY <1>1
<1>4. /\ Distinct(WithoutNth(s, k))
      /\ \A q : Has(WithoutNth(s, k), q) <=> Has(s, q) /\ q # h
  <2>1. s \in Seq(Handlers) /\ Distinct(s)
    BY <1>2 DEF IInv, QueueInv
  <2> QED
    BY <1>3, <2>1, WithoutNthHas
<1>5. /\ \A r \in Refs, q \in Handlers : Queued(r, q)' <=> Queued(r, q) /\ ~(r = ref[h] /\ q = h)
      /\ \A g, q \in Handlers : Taken(g, q)' = Taken(g, q)
  BY <1>1, <1>2, <1>3, <1>4 DEF Queued, Taken
<1>6. \A q \in Handlers : \A r : Waits(q, r) => Waits(q, r)'
  BY <1>1, WaitsStep DEF Waits
<1>7. QueueInv'
  <2>1. /\ \A r \in Refs : Distinct(pendingWatches'[r])
        /\ \A g \in Handlers : Distinct(waiters'[g])
    BY <1>1, <1>2, <1>3, <1>4 DEF IInv, QueueInv
  <2>2. ASSUME NEW r \in Refs, NEW q \in Handlers, Queued(r, q)' PROVE Waits(q, r)'
    BY <1>5, <1>6, <2>2 DEF IInv, QueueInv
  <2>3. ASSUME NEW g \in Handlers, NEW q \in Handlers, Taken(g, q)'
        PROVE  At(g, "run", "deliver")' /\ Waits(q, ref[g])'
    BY <1>1, <1>5, <1>6, <2>3, DeliveringStep DEF IInv, QueueInv, Waits
  <2> QED
    BY <2>1, <2>2, <2>3 DEF QueueInv
<1>8. PlaceInv'
  <2>1. ASSUME NEW q \in Handlers
        PROVE  ready'[q] # None => op'[q] = "watch" /\ pc'[q] \in {"parked", "unpark", "returned"}
    BY <1>1, <1>2 DEF IInv, PlaceInv
  <2>2. ASSUME NEW q \in Handlers, At(q, "watch", "parked")'
        PROVE  Queued(ref[q], q)' \/ ready'[q] # None \/ \E g \in Handlers : Taken(g, q)'
    <3>1. /\ q # h /\ At(q, "watch", "parked") /\ ref[q] \in Refs
          /\ ref'[q] = ref[q] /\ ready'[q] = ready[q]
      BY <1>1, <1>2, <2>2 DEF IInv, RequestInv, At
    <3>2. Queued(ref[q], q) => Queued(ref[q], q)'
      BY <1>5, <3>1 DEF Queued
    <3> QED
      BY <1>5, <3>1, <3>2 DEF IInv, PlaceInv
  <2> QED
    BY <1>5, <2>1, <2>2 DEF IInv, PlaceInv
<1> QED
  BY <1>7, <1>8

(* No step loses a waiting watch or puts it in two places. *)
LEMMA QueueStep == ASSUME IInv, [Next]_vars PROVE QueueInv' /\ PlaceInv'
<1> USE DEF IInv, TypeOK, RequestType, LocalType, At, Goto, Answer
<1>1. CASE Environment
  <2>1. ASSUME NEW q \in Handlers, pc[q] = "idle"
        PROVE  pc'[q] \in {"idle", "start"}
    BY <1>1, <2>1 DEF Environment, Begin, Disconnect, ChildExit, Stick, Signal
  <2> QED
    BY <1>1, <2>1, BegunStays, EnvironmentFrame, NothingMoves DEF registryVars
<1>2. CASE Main
  BY <1>2, MainFrame, NothingMoves DEF handlingVars, requestVars, localVars
<1>3. ASSUME NEW h \in Handlers, Handler(h) PROVE QueueInv' /\ PlaceInv'
  <2>1. CASE RunInsert(h) /\ ref[h] # None /\ ~nilMaps
    BY <2>1, QueueTaken
  <2>2. CASE RunDeliver(h)
    BY <2>2, WaiterServed
  <2>3. CASE WatchPark(h)
    BY <2>3, WatchQueued
  <2>4. CASE WatchUnpark(h) /\ pendingWatches' # pendingWatches
    BY <2>4, WatchDequeued
  <2>5. CASE /\ UNCHANGED <<pendingWatches, waiters>>
             /\ ready' = ready \/ WatchReady(h)
             /\ pc'[h] = "parked" => pc[h] = "parked"
    <3>1. UNCHANGED <<op, ref>> /\ \A q \in Handlers \ {h} : pc'[q] = pc[q]
      BY <1>3, HandlerFrame DEF requestVars
    <3>2. /\ pc[h] \in {"parked", "unpark", "returned"} /\ op[h] = "watch" =>
                pc'[h] \in {"parked", "unpark", "returned"} \/ WatchReady(h)
      BY <1>3 DEF Handler,
           RunCheck, RunSpawn, RunFails, RunInsert, RunDeliver,
           RunReply, ListLock, ListDescribe, ListReply,
           ResolveSession, KillSession, RemoveRefused, RemoveClose,
           RemoveDelete, WatchResolve, WatchPark, WatchReady,
           WatchDisconnected, WatchUnpark, WatchShutdown, WatchEnd,
           DaemonStop
    <3>3. WatchReady(h) => /\ pc'[h] = "stream" /\ ready[h] # None /\ ready' = [ready EXCEPT ![h] = None]
      BY DEF WatchReady
    <3> QED
      BY <2>5, <3>1, <3>2, <3>3, NothingMoves
  <2>6. \/ RunInsert(h) /\ ref[h] # None /\ ~nilMaps
        \/ RunDeliver(h) \/ WatchPark(h) \/ (WatchUnpark(h) /\ pendingWatches' # pendingWatches)
        \/ /\ UNCHANGED <<pendingWatches, waiters>>
           /\ ready' = ready \/ WatchReady(h)
           /\ pc'[h] = "parked" => pc[h] = "parked"
    <3>0. SUFFICES ASSUME ~(RunInsert(h) /\ ref[h] # None /\ ~nilMaps), ~RunDeliver(h), ~WatchPark(h)
                   PROVE  \/ WatchUnpark(h) /\ pendingWatches' # pendingWatches
                          \/ /\ UNCHANGED <<pendingWatches, waiters>>
                             /\ ready' = ready \/ WatchReady(h)
                             /\ pc'[h] = "parked" => pc[h] = "parked"
      OBVIOUS
    <3>1. CASE RunCheck(h) \/ RunSpawn(h) \/ RunFails(h) \/ RunInsert(h) \/ RunReply(h)
      BY <3>0, <3>1 DEF RunCheck, RunSpawn, RunFails, RunInsert, RunReply
    <3>2. CASE ListLock(h) \/ ListDescribe(h) \/ ListReply(h) \/ ResolveSession(h) \/ KillSession(h)
      BY <3>2 DEF ListLock, ListDescribe, ListReply, ResolveSession, KillSession
    <3>3. CASE RemoveRefused(h) \/ RemoveClose(h) \/ RemoveDelete(h) \/ DaemonStop(h)
      BY <3>3 DEF RemoveRefused, RemoveClose, RemoveDelete, DaemonStop
    <3>4. CASE WatchResolve(h) \/ WatchReady(h) \/ WatchDisconnected(h)
      BY <3>4 DEF WatchResolve, WatchReady, WatchDisconnected
    <3>5. CASE WatchUnpark(h) \/ WatchShutdown(h) \/ WatchEnd(h)
      BY <3>5 DEF WatchUnpark, WatchShutdown, WatchEnd
    <3> QED
      BY <1>3, <3>0, <3>1, <3>2, <3>3, <3>4, <3>5 DEF Handler
  <2> QED
    BY <2>1, <2>2, <2>3, <2>4, <2>5, <2>6
<1>4. CASE UNCHANGED vars
  BY <1>4, NothingMoves DEF vars
<1> QED
  BY <1>1, <1>2, <1>3, <1>4, NextCases

(* IInv is an inductive invariant. *)
THEOREM Inductive == Spec => []IInv
<1>1. IInv /\ [Next]_vars => IInv'
  BY TypeStep, RequestStep, RegistryStep, HandlerStep, ChildStep, QueueStep DEF IInv
<1> QED
  BY <1>1, InvInit, PTL DEF Spec

-----------------------------------------------------------------------------
(* The theorems.                                                           *)

(* The daemon's variables keep to their types, and d.mu is held over        *)
(* several steps by an opList only.                                        *)
THEOREM TypeCorrect == Spec => []TypeOK
BY Inductive, PTL DEF IInv

(* d.names refers to registered sessions of that very name.                 *)
THEOREM RegistryConsistent == Spec => []NamesResolve
BY Inductive, PTL DEF IInv

(* A watch streams the session its request stood for.                       *)
THEOREM WatchFindsSession == Spec => []WatchGetsItsSession
BY Inductive, PTL DEF IInv

(* No running child is without a session that is registered, about to be,  *)
(* or on the list of those that the shutdown closes.                       *)
THEOREM ChildrenKept == Spec => []NoLostChild
<1>1. IInv => NoLostChild
  BY DEF IInv, ChildInv, NoLostChild
<1> QED
  BY <1>1, Inductive, PTL

(* opRun never blocks on a waiter's channel.                                *)
THEOREM DeliveryFree == Spec => []DeliverNeverBlocks
<1>1. IInv => DeliverNeverBlocks
  <2> SUFFICES ASSUME IInv, NEW g \in Handlers, waiters[g] # <<>>
               PROVE  ready[Head(waiters[g])] = None
    BY DEF DeliverNeverBlocks
  <2>1. /\ waiters[g] \in Seq(Handlers) /\ 1 \in 1..Len(waiters[g])
        /\ Head(waiters[g]) = waiters[g][1] /\ Head(waiters[g]) \in Handlers
    BY DEF IInv, TypeOK, LocalType
  <2>2. Taken(g, Head(waiters[g]))
    BY <2>1 DEF Taken, Has
  <2> QED
    BY <2>1, <2>2 DEF IInv, QueueInv, Waits
<1> QED
  BY <1>1, Inductive, PTL

(* In a sequence of distinct entries each occurs once or not at all. *)
LEMMA OccurrencesIs ==
    ASSUME NEW s, NEW h, Distinct(s)
    PROVE  Occurrences(s, h) = IF Has(s, h) THEN 1 ELSE 0
<1> DEFINE places == {k \in 1..Len(s) : s[k] = h}
<1>1. CASE Has(s, h)
  <2>1. PICK k \in 1..Len(s) : s[k] = h
    BY <1>1 DEF Has
  <2>2. places = {k}
    BY <2>1 DEF Distinct
  <2> QED
    BY <1>1, <2>2, FS_Singleton DEF Occurrences
<1>2. CASE ~Has(s, h)
  <2>1. places = {}
    BY <1>2 DEF Has
  <2> QED
    BY <1>2, <2>1, FS_EmptySet DEF Occurrences
<1> QED
  BY <1>1, <1>2

(* A waiting watch is queued, in the hands of one run, or served.           *)
THEOREM WaiterNeverLost == Spec => []WaiterInOnePlace
<1>1. IInv => WaiterInOnePlace
  <2> SUFFICES ASSUME IInv, NEW h \in Handlers, At(h, "watch", "parked")
               PROVE  LET queued == Occurrences(pendingWatches[ref[h]], h)
                          taken  == {g \in Handlers : Occurrences(waiters[g], h) = 1}
                          served == IF ready[h] = None THEN 0 ELSE 1
                      IN  /\ queued + Cardinality(taken) + served = 1
                          /\ \A g \in Handlers : Occurrences(waiters[g], h) <= 1
                          /\ \A r \in Refs : r # ref[h] => Occurrences(pendingWatches[r], h) = 0
    BY DEF WaiterInOnePlace
  <2> DEFINE taken == {g \in Handlers : Occurrences(waiters[g], h) = 1}
  <2>1. ref[h] \in Refs
    BY DEF IInv, RequestInv, At
  <2>2. /\ \A r \in Refs : Occurrences(pendingWatches[r], h) = IF Queued(r, h) THEN 1 ELSE 0
        /\ \A g \in Handlers : Occurrences(waiters[g], h) = IF Taken(g, h) THEN 1 ELSE 0
    BY OccurrencesIs DEF IInv, QueueInv, Queued, Taken
  <2>3. taken = {g \in Handlers : Taken(g, h)}
    BY <2>2
  <2>4. \A r \in Refs : Queued(r, h) => r = ref[h] /\ ready[h] = None
    BY DEF IInv, QueueInv, Waits
  <2>5. \A g \in Handlers : Taken(g, h) => ready[h] = None /\ ~Queued(ref[h], h)
    BY <2>1 DEF IInv, QueueInv, PlaceInv, Waits
  <2>6. CASE \E g \in Handlers : Taken(g, h)
    <3>1. PICK g \in Handlers : Taken(g, h)
      BY <2>6
    <3>2. taken = {g}
      BY <2>3, <3>1 DEF IInv, PlaceInv
    <3>3. Cardinality(taken) = 1
      BY <3>2, FS_Singleton
    <3> QED
      BY <2>1, <2>2, <2>4, <2>5, <3>1, <3>3
  <2>7. CASE ~\E g \in Handlers : Taken(g, h)
    <3>1. Cardinality(taken) = 0
      BY <2>3, <2>7, FS_EmptySet
    <3>2. Queued(ref[h], h) \/ ready[h] # None
      BY <2>7 DEF IInv, PlaceInv
    <3> QED
      BY <2>1, <2>2, <2>4, <2>7, <3>1, <3>2
  <2> QED
    BY <2>6, <2>7
<1> QED
  BY <1>1, Inductive, PTL

(* However the process ends, a child it leaves behind is that of a run on   *)
(* its way to the registry or, after the panic of one, of a session that   *)
(* closeAllSessions had not come to.                                       *)
THEOREM EndAccounted == Spec => EndLeavesOnly
<1>1. IInv /\ [Next]_vars => [Alive /\ ~Alive' => \A i \in Ids : life[i] = "running" =>
          \/ \E h \in Handlers : At(h, "run", "insert") /\ sess[h] = i
          \/ crashed' /\ i \in doomed]_vars
  <2> SUFFICES ASSUME IInv, [Next]_vars, Alive, ~Alive', NEW i \in Ids, life[i] = "running",
                      \A h \in Handlers : ~(At(h, "run", "insert") /\ sess[h] = i)
               PROVE  crashed' /\ i \in doomed
    OBVIOUS
  <2>1. i \in IF nilMaps THEN doomed ELSE sessions
    BY DEF IInv, ChildInv
  <2>2. CASE crashed'
    <3>1. PICK h \in Handlers : Handler(h) /\ ~crashed /\ crashed'
      <4>1. Environment => crashed' = crashed
        BY EnvironmentFrame
      <4>2. Main => crashed' = crashed
        BY MainFrame
      <4>3. ~crashed /\ (Next \/ UNCHANGED vars)
        BY DEF Alive
      <4> QED
        BY <2>2, <4>1, <4>2, <4>3, NextCases DEF vars
    <3>2. nilMaps
      BY <3>1, HandlerCrash
    <3> QED
      BY <2>1, <2>2, <3>2
  <2>3. CASE ~crashed'
    <3>1. mpc # "exit" /\ mpc' = "exit"
      BY <2>3 DEF Alive
    <3>2. Exit
      <4>1. Environment => mpc' = mpc
        BY EnvironmentFrame
      <4>2. \A h \in Handlers : Handler(h) => mpc' = mpc
        BY HandlerFrame DEF IInv
      <4>3. Main => Exit
        BY <3>1 DEF Main, StopServing, EmptyRegistry, CloseNext
      <4> QED
        BY <3>1, <4>1, <4>2, <4>3, NextCases DEF vars, mainVars
    <3> QED
      BY <2>1, <3>2 DEF Exit, IInv, RegistryInv
  <2> QED
    BY <2>2, <2>3
<1> QED
  BY <1>1, Inductive, PTL DEF Spec, EndLeavesOnly

=============================================================================
