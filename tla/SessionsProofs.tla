--------------------------- MODULE SessionsProofs ---------------------------
(***************************************************************************)
(* Proofs about the session registry, for any number of connections and    *)
(* sessions and any capacity of the event channel.                         *)
(***************************************************************************)
EXTENDS Sessions, TLAPS

\* A connection that has not said hello is stateless towards nobody: it has its
\* uuid.  Once it has, its client id is the uuid of a connection of its session.
BeforeHello ==
    \A k \in Conns :
        /\ pc[k] \in {"new", "accepted"} => sid[k] = NoSession
        /\ pc[k] = "joining" => id[k] = k /\ sid[k] # NoSession /\ sid[newID[k]] = sid[k]
        /\ sid[k] = NoSession => id[k] = k
IdOfItsSession == \A k \in Conns : sid[id[k]] = sid[k] \/ pc[k] = "joining"

\* The client id of a session is the uuid of the connection that created it
SessionCreated == \A s \in DOMAIN sessions : sid[sessions[s].client] = s

\* A client id about to be disconnected is no live session's, nor will be
Doomed(i) == i \in expired \/ \E n \in 1..Len(events) : events[n].op = "disconnect" /\ events[n].client = i
DoomedIsOver ==
    \A i \in Conns : Doomed(i) =>
        /\ pc[i] \notin {"new", "accepted"}
        /\ \A s \in DOMAIN sessions : sessions[s].client # i

RegistryInv == TypeOK /\ FiledUnderItsId /\ NoDeadEntries
SessionInv == TypeOK /\ BeforeHello /\ IdOfItsSession /\ SessionCreated /\ DoomedIsOver

-----------------------------------------------------------------------------
(* Type correctness.                                                        *)

\* Put and Without keep a partial function between two sets one.
LEMMA PutType ==
    ASSUME NEW D, NEW R, NEW f, DOMAIN f \subseteq D, \A x \in DOMAIN f : f[x] \in R,
           NEW x \in D, NEW y \in R
    PROVE  DOMAIN Put(f, x, y) \subseteq D /\ \A z \in DOMAIN Put(f, x, y) : Put(f, x, y)[z] \in R
BY DEF Put

LEMMA WithoutType ==
    ASSUME NEW D, NEW R, NEW f, DOMAIN f \subseteq D, \A x \in DOMAIN f : f[x] \in R, NEW S
    PROVE  DOMAIN Without(f, S) \subseteq D /\ \A z \in DOMAIN Without(f, S) : Without(f, S)[z] \in R
BY DEF Without

\* A send keeps the channel a bounded sequence of events.
LEMMA SendType ==
    ASSUME TypeOK, NEW op \in {"use", "disconnect"}, NEW i \in Conns, Send(op, i)
    PROVE  events' \in Seq(Event) /\ Len(events') <= QueueCap
BY SessionsAssumption DEF TypeOK, Send, Event

\* Every variable keeps its type in every step.
LEMMA TypeStep == TypeOK /\ [Next]_vars => TypeOK'
<1> SUFFICES ASSUME TypeOK, [Next]_vars PROVE TypeOK'
  OBVIOUS
<1> USE SessionsAssumption
<1>1. ASSUME NEW k \in Conns, Accept(k) PROVE TypeOK'
  BY <1>1 DEF Accept, TypeOK, Put, PCs
<1>2. ASSUME NEW k \in Conns, HelloStateful(k) PROVE TypeOK'
  BY <1>2 DEF HelloStateful, TypeOK, PCs
<1>3. ASSUME NEW k \in Conns, NEW s \in Sids, RegisterSession(k, s) PROVE TypeOK'
  <2>1. ClientOf(s, id[k]) \in Conns
    BY DEF TypeOK, ClientOf
  <2> QED
    BY <1>3, <2>1 DEF RegisterSession, TypeOK, PCs, Put, Session
<1>4. ASSUME NEW k \in Conns, UpdateClientID(k) PROVE TypeOK'
  <2>1. DOMAIN LeaveOldKey(k) \subseteq Conns /\ \A i \in DOMAIN LeaveOldKey(k) : LeaveOldKey(k)[i] \in Conns
    BY DEF LeaveOldKey, TypeOK, Without
  <2>2. DOMAIN clients' \subseteq Conns /\ \A i \in DOMAIN clients' : clients'[i] \in Conns
    BY <1>4, <2>1 DEF UpdateClientID, TypeOK, Put
  <2> QED
    BY <1>4, <2>2 DEF UpdateClientID, TypeOK, PCs
<1>5. ASSUME NEW k \in Conns, Use(k) PROVE TypeOK'
  <2>1. id[k] \in Conns
    BY DEF TypeOK
  <2> QED
    BY <1>5, <2>1, SendType DEF Use, TypeOK
<1>6. ASSUME NEW k \in Conns, HangUp(k) PROVE TypeOK'
  BY <1>6 DEF HangUp, TypeOK
<1>7. ASSUME NEW k \in Conns, RemoveClient(k) PROVE TypeOK'
  BY <1>7 DEF RemoveClient, TypeOK, Without, PCs
<1>8. ASSUME NEW k \in Conns, EndStateless(k) PROVE TypeOK'
  BY <1>8 DEF EndStateless, TypeOK, PCs, Session
<1>9. ASSUME NEW k \in Conns, Close(k) PROVE TypeOK'
  <2>1. id[k] \in Conns
    BY DEF TypeOK
  <2> QED
    BY <1>9, <2>1, SendType DEF Close, TypeOK, PCs
<1>10. ASSUME NEW k \in Conns, DisconnectExpired(k) PROVE TypeOK'
  BY <1>10, SendType DEF DisconnectExpired, TypeOK
<1>11. CASE TimePasses
  BY <1>11 DEF TimePasses, TypeOK, Session
<1>12. CASE Reap
  BY <1>12 DEF Reap, TypeOK, Without, ClientIds, Idle
<1>13. CASE Handle
  <2>1. Head(events) \in Event /\ Tail(events) \in Seq(Event) /\ Len(Tail(events)) <= QueueCap
    BY <1>13 DEF Handle, TypeOK
  <2> QED
    BY <1>13, <2>1 DEF Handle, TypeOK, Event
<1>14. CASE UNCHANGED vars
  BY <1>14 DEF vars, TypeOK
<1> QED
  BY <1>1, <1>2, <1>3, <1>4, <1>5, <1>6, <1>7, <1>8, <1>9, <1>10, <1>11, <1>12, <1>13, <1>14
     DEF Next, Goroutine

\* Every variable of the registry keeps its type.
THEOREM SessionsTypeCorrect == Spec => []TypeOK
<1>1. Init => TypeOK
  BY SessionsAssumption DEF Init, TypeOK, PCs
<1> QED
  BY <1>1, TypeStep, PTL DEF Spec

-----------------------------------------------------------------------------
(* The map of connections.                                                  *)

\* Registrations, takeovers and removals keep every live map entry under the
\* id of its connection.
LEMMA RegistryStep == RegistryInv /\ [Next]_vars => RegistryInv'
<1> SUFFICES ASSUME RegistryInv, [Next]_vars PROVE RegistryInv'
  OBVIOUS
<1> USE DEF RegistryInv
<1>1. TypeOK'
  BY TypeStep
<1>2. ASSUME NEW k \in Conns, Accept(k)
      PROVE  FiledUnderItsId' /\ NoDeadEntries'
  BY <1>2 DEF Accept, FiledUnderItsId, NoDeadEntries, TypeOK, Put
<1>3. ASSUME NEW k \in Conns, HelloStateful(k)
      PROVE  FiledUnderItsId' /\ NoDeadEntries'
  BY <1>3 DEF HelloStateful, FiledUnderItsId, NoDeadEntries, TypeOK
<1>4. ASSUME NEW k \in Conns, NEW s \in Sids, RegisterSession(k, s)
      PROVE  FiledUnderItsId' /\ NoDeadEntries'
  BY <1>4 DEF RegisterSession, FiledUnderItsId, NoDeadEntries, TypeOK
<1>5. ASSUME NEW k \in Conns, UpdateClientID(k)
      PROVE  FiledUnderItsId' /\ NoDeadEntries'
  <2>1. newID[k] \in Conns /\ id' = [id EXCEPT ![k] = newID[k]] /\ pc' = [pc EXCEPT ![k] = "open"]
    BY <1>5 DEF UpdateClientID, TypeOK
  <2>2. clients' = Put(Without(clients, {id[k]}), newID[k], k)
    BY <1>5 DEF UpdateClientID, LeaveOldKey
  <2>3. ASSUME NEW i \in DOMAIN clients'
        PROVE  id'[clients'[i]] = i /\ pc'[clients'[i]] \notin {"new", "closing", "gone"}
    <3>1. CASE i = newID[k]
      BY <2>1, <2>2, <3>1 DEF Put, TypeOK
    <3>2. CASE i # newID[k]
      <4>1. i \in DOMAIN clients /\ i # id[k] /\ clients'[i] = clients[i]
        BY <2>2, <3>2 DEF Put, Without
      <4>2. clients[i] # k /\ clients[i] \in Conns
        BY <4>1 DEF FiledUnderItsId, TypeOK
      <4> QED
        BY <2>1, <4>1, <4>2 DEF FiledUnderItsId, NoDeadEntries, TypeOK
    <3> QED
      BY <3>1, <3>2
  <2> QED
    BY <2>3 DEF FiledUnderItsId, NoDeadEntries
<1>6. ASSUME NEW k \in Conns, RemoveClient(k)
      PROVE  FiledUnderItsId' /\ NoDeadEntries'
  BY <1>6 DEF RemoveClient, RemovedKey, Without, FiledUnderItsId, NoDeadEntries, TypeOK
<1>7. ASSUME NEW k \in Conns, EndStateless(k) \/ Close(k)
      PROVE  FiledUnderItsId' /\ NoDeadEntries'
  <2>1. UNCHANGED <<clients, id>> /\ pc[k] = "closing" /\ pc' = [pc EXCEPT ![k] = "gone"]
    BY <1>7 DEF EndStateless, Close
  <2> QED
    BY <2>1 DEF FiledUnderItsId, NoDeadEntries, TypeOK
<1>8. ASSUME NEW k \in Conns, Use(k) \/ HangUp(k) \/ DisconnectExpired(k)
      PROVE  FiledUnderItsId' /\ NoDeadEntries'
  <2>1. UNCHANGED <<clients, id, pc>>
    BY <1>8 DEF Use, HangUp, DisconnectExpired
  <2> QED
    BY <2>1 DEF FiledUnderItsId, NoDeadEntries
<1>9. ASSUME UNCHANGED <<clients, id, pc>>
      PROVE  FiledUnderItsId' /\ NoDeadEntries'
  BY <1>9 DEF FiledUnderItsId, NoDeadEntries
<1>10. CASE TimePasses
  BY <1>1, <1>9, <1>10 DEF TimePasses
<1>11. CASE Reap
  BY <1>1, <1>9, <1>11 DEF Reap
<1>12. CASE Handle
  BY <1>1, <1>9, <1>12 DEF Handle
<1>13. CASE UNCHANGED vars
  BY <1>1, <1>9, <1>13 DEF vars
<1> QED
  BY <1>1, <1>2, <1>3, <1>4, <1>5, <1>6, <1>7, <1>8, <1>10, <1>11, <1>12, <1>13 DEF Next, Goroutine

\* The inductive invariant of the registry holds throughout.
THEOREM RegistryInvariant == Spec => []RegistryInv
<1>1. Init => RegistryInv
  BY SessionsAssumption DEF Init, RegistryInv, TypeOK, PCs, FiledUnderItsId, NoDeadEntries
<1> QED
  BY <1>1, RegistryStep, PTL DEF Spec

\* Every registered connection is filed under its present client id.
THEOREM MapIsKeyedById == Spec => []FiledUnderItsId
<1>1. RegistryInv => FiledUnderItsId
  BY DEF RegistryInv
<1> QED
  BY <1>1, RegistryInvariant, PTL

\* No connection whose goroutine left its serving loop stays registered.
THEOREM MapHoldsLiveConnections == Spec => []NoDeadEntries
<1>1. RegistryInv => NoDeadEntries
  BY DEF RegistryInv
<1> QED
  BY <1>1, RegistryInvariant, PTL

\* Every entry of the server's map is a live connection under its own id.
THEOREM MapIsLive == Spec => []ClientsAreLive
<1>1. RegistryInv => ClientsAreLive
  BY DEF RegistryInv, ClientsAreLive
<1> QED
  BY <1>1, RegistryInvariant, PTL

-----------------------------------------------------------------------------
(* Sessions and the state kept for them.                                    *)

\* A send makes an id doomed only if it is a disconnect of that id.
LEMMA DoomedBySend ==
    ASSUME TypeOK, NEW op \in {"use", "disconnect"}, NEW i \in Conns, Send(op, i),
           NEW j \in Conns, UNCHANGED expired, Doomed(j)'
    PROVE  Doomed(j) \/ (op = "disconnect" /\ j = i)
<1>1. events \in Seq(Event) /\ events' = Append(events, [op |-> op, client |-> i])
  BY DEF TypeOK, Send
<1> QED
  BY <1>1 DEF Doomed

\* A step that only moves goroutines along, none of them back before its hello
\* nor into or out of a hello, keeps what is known of ids and sessions.
LEMMA QuietStep ==
    ASSUME SessionInv, TypeOK', UNCHANGED <<id, newID, sid, sessions, expired, events>>,
           \A j \in Conns : /\ pc'[j] \in {"new", "accepted"} => pc[j] \in {"new", "accepted"}
                            /\ pc'[j] = "joining" <=> pc[j] = "joining"
    PROVE  SessionInv'
<1>1. BeforeHello'
  BY DEF SessionInv, BeforeHello
<1>2. IdOfItsSession' /\ SessionCreated'
  BY DEF SessionInv, IdOfItsSession, SessionCreated
<1>3. \A i \in Conns : Doomed(i)' <=> Doomed(i)
  BY DEF Doomed
<1>4. DoomedIsOver'
  BY <1>3 DEF SessionInv, DoomedIsOver
<1> QED
  BY <1>1, <1>2, <1>4 DEF SessionInv

\* A goroutine's and the reaper's steps keep ids and sessions apart.
LEMMA SessionStep == SessionInv /\ [Next]_vars => SessionInv'
<1> SUFFICES ASSUME SessionInv, [Next]_vars PROVE SessionInv'
  OBVIOUS
<1> USE DEF SessionInv
<1>1. TypeOK'
  BY TypeStep
<1>2. ASSUME NEW k \in Conns, Accept(k) \/ HelloStateful(k) PROVE SessionInv'
  <2>1. CASE Accept(k)
    BY <1>1, <2>1, QuietStep DEF Accept, TypeOK
  <2>2. CASE HelloStateful(k)
    BY <1>1, <2>2, QuietStep DEF HelloStateful, TypeOK
  <2> QED
    BY <1>2, <2>1, <2>2
<1>3. ASSUME NEW k \in Conns, NEW s \in Sids, RegisterSession(k, s) PROVE SessionInv'
  <2>1. /\ pc[k] = "accepted" /\ sid[k] = NoSession /\ id[k] = k /\ s # NoSession
        /\ pc' = [pc EXCEPT ![k] = "joining"]
        /\ sid' = [sid EXCEPT ![k] = s]
        /\ newID' = [newID EXCEPT ![k] = ClientOf(s, k)]
        /\ sessions' = Put(sessions, s, Session(ClientOf(s, k), FALSE))
        /\ UNCHANGED <<id, expired, events>>
    BY <1>3, SessionsAssumption DEF RegisterSession, BeforeHello
  <2>2. ClientOf(s, k) \in Conns /\ sid'[ClientOf(s, k)] = s
    BY <2>1 DEF ClientOf, SessionCreated, TypeOK
  <2>3. \A t \in DOMAIN sessions : sessions[t].client # k /\ sessions[t].client \in Conns
    BY <2>1, SessionsAssumption DEF SessionCreated, TypeOK
  <2>4. BeforeHello'
    <3>1. ASSUME NEW j \in Conns, j # k, pc[j] = "joining"
          PROVE  newID[j] # k
      BY <2>1, <3>1 DEF BeforeHello
    <3> QED
      BY <2>1, <2>2, <3>1 DEF BeforeHello, TypeOK
  <2>5. IdOfItsSession'
    <3>1. ASSUME NEW j \in Conns, j # k, id[j] = k
          PROVE  pc[j] = "joining"
      BY <2>1, <3>1 DEF BeforeHello, IdOfItsSession
    <3> QED
      BY <2>1, <3>1 DEF IdOfItsSession, TypeOK
  <2>6. SessionCreated'
    BY <2>1, <2>2, <2>3 DEF SessionCreated, Put, Session, TypeOK
  <2>7. DoomedIsOver'
    <3>1. ASSUME NEW i \in Conns, Doomed(i)
          PROVE  /\ pc'[i] \notin {"new", "accepted"}
                 /\ \A t \in DOMAIN sessions' : sessions'[t].client # i
      <4>1. i # k /\ pc[i] \notin {"new", "accepted"} /\ \A t \in DOMAIN sessions : sessions[t].client # i
        BY <2>1, <3>1 DEF DoomedIsOver
      <4>2. ClientOf(s, k) # i
        BY <4>1 DEF ClientOf
      <4> QED
        BY <2>1, <4>1, <4>2 DEF Put, Session, TypeOK
    <3>2. \A i \in Conns : Doomed(i)' <=> Doomed(i)
      BY <2>1 DEF Doomed
    <3> QED
      BY <3>1, <3>2 DEF DoomedIsOver
  <2> QED
    BY <1>1, <2>4, <2>5, <2>6, <2>7
<1>4. ASSUME NEW k \in Conns, UpdateClientID(k) PROVE SessionInv'
  <2>1. /\ pc[k] = "joining" /\ pc' = [pc EXCEPT ![k] = "open"]
        /\ id' = [id EXCEPT ![k] = newID[k]]
        /\ UNCHANGED <<newID, sid, sessions, expired, events>>
    BY <1>4 DEF UpdateClientID
  <2>2. BeforeHello' /\ IdOfItsSession' /\ SessionCreated'
    BY <2>1 DEF BeforeHello, IdOfItsSession, SessionCreated, TypeOK
  <2>3. \A i \in Conns : Doomed(i)' <=> Doomed(i)
    BY <2>1 DEF Doomed
  <2>4. DoomedIsOver'
    BY <2>1, <2>3 DEF DoomedIsOver, TypeOK
  <2> QED
    BY <1>1, <2>2, <2>4
<1>5. ASSUME NEW k \in Conns, Use(k) PROVE SessionInv'
  <2>1. \A i \in Conns : Doomed(i)' => Doomed(i)
    BY <1>5, DoomedBySend DEF Use, TypeOK
  <2> QED
    BY <1>1, <1>5, <2>1 DEF Use, BeforeHello, IdOfItsSession, SessionCreated, DoomedIsOver
<1>6. ASSUME NEW k \in Conns, HangUp(k) \/ RemoveClient(k) PROVE SessionInv'
  <2>1. CASE HangUp(k)
    BY <1>1, <2>1, QuietStep DEF HangUp, TypeOK
  <2>2. CASE RemoveClient(k)
    BY <1>1, <2>2, QuietStep DEF RemoveClient, TypeOK
  <2> QED
    BY <1>6, <2>1, <2>2
<1>7. ASSUME NEW k \in Conns, EndStateless(k) PROVE SessionInv'
  <2>1. /\ pc[k] = "closing" /\ pc' = [pc EXCEPT ![k] = "gone"]
        /\ UNCHANGED <<id, newID, sid, expired, events>>
        /\ DOMAIN sessions' = DOMAIN sessions
        /\ \A s \in DOMAIN sessions : sessions'[s].client = sessions[s].client
    BY <1>7 DEF EndStateless, Session, TypeOK
  <2>2. BeforeHello' /\ IdOfItsSession' /\ SessionCreated'
    BY <2>1 DEF BeforeHello, IdOfItsSession, SessionCreated, TypeOK
  <2>3. \A i \in Conns : Doomed(i)' <=> Doomed(i)
    BY <2>1 DEF Doomed
  <2>4. DoomedIsOver'
    BY <2>1, <2>3 DEF DoomedIsOver, TypeOK
  <2> QED
    BY <1>1, <2>2, <2>4
<1>8. ASSUME NEW k \in Conns, Close(k) PROVE SessionInv'
  <2>1. pc[k] = "closing" /\ sid[k] = NoSession /\ id[k] = k
    BY <1>8 DEF Close, CleansUp, BeforeHello
  <2>2. \A i \in Conns : Doomed(i)' => Doomed(i) \/ i = k
    BY <1>8, <2>1, DoomedBySend DEF Close
  <2>3. \A s \in DOMAIN sessions : sessions[s].client # k
    BY <2>1, SessionsAssumption DEF SessionCreated, TypeOK
  <2> QED
    BY <1>1, <1>8, <2>1, <2>2, <2>3 DEF Close, BeforeHello, IdOfItsSession, SessionCreated, DoomedIsOver, TypeOK
<1>9. ASSUME NEW i \in Conns, DisconnectExpired(i) PROVE SessionInv'
  <2>1. events \in Seq(Event) /\ events' = Append(events, [op |-> "disconnect", client |-> i])
    BY <1>9 DEF DisconnectExpired, Send, TypeOK
  <2>2. \A j \in Conns : Doomed(j)' => Doomed(j)
    BY <1>9, <2>1 DEF DisconnectExpired, Doomed
  <2> QED
    BY <1>1, <1>9, <2>2 DEF DisconnectExpired, BeforeHello, IdOfItsSession, SessionCreated, DoomedIsOver
<1>10. CASE TimePasses
  <2>1. /\ UNCHANGED <<pc, id, newID, sid, expired, events>>
        /\ DOMAIN sessions' = DOMAIN sessions
        /\ \A s \in DOMAIN sessions : sessions'[s].client = sessions[s].client
    BY <1>10 DEF TimePasses, Session
  <2>2. BeforeHello' /\ IdOfItsSession' /\ SessionCreated'
    BY <2>1 DEF BeforeHello, IdOfItsSession, SessionCreated
  <2>3. \A i \in Conns : Doomed(i)' <=> Doomed(i)
    BY <2>1 DEF Doomed
  <2>4. DoomedIsOver'
    BY <2>1, <2>3 DEF DoomedIsOver
  <2> QED
    BY <1>1, <2>2, <2>4
<1>11. CASE Reap
  <2>1. SessionCreated'
    BY <1>11 DEF Reap, Without, SessionCreated
  <2>2. ASSUME NEW i \in Conns, Doomed(i)'
        PROVE  pc[i] \notin {"new", "accepted"} /\ \A s \in DOMAIN sessions' : sessions'[s].client # i
    <3>1. CASE Doomed(i)
      BY <1>11, <3>1 DEF Reap, Without, DoomedIsOver
    <3>2. CASE i \in ClientIds(Idle)
      <4>1. PICK t \in Idle : i = sessions[t].client
        BY <3>2 DEF ClientIds
      <4>2. sid[i] = t /\ t # NoSession
        BY <4>1, SessionsAssumption DEF SessionCreated, Idle, TypeOK
      <4> QED
        BY <1>11, <4>1, <4>2 DEF Reap, Without, SessionCreated, BeforeHello
    <3> QED
      BY <1>11, <2>2, <3>1, <3>2 DEF Reap, Doomed
  <2> QED
    BY <1>1, <1>11, <2>1, <2>2 DEF Reap, BeforeHello, IdOfItsSession, DoomedIsOver
<1>12. CASE Handle
  <2>1. events \in Seq(Event) /\ events # << >> /\ events' = Tail(events)
    BY <1>12 DEF Handle, TypeOK
  <2>2. \A n \in 1..Len(events') : n + 1 \in 1..Len(events) /\ events'[n] = events[n + 1]
    BY <2>1
  <2>3. \A j \in Conns : Doomed(j)' => Doomed(j)
    BY <1>12, <2>2 DEF Handle, Doomed
  <2> QED
    BY <1>1, <1>12, <2>3 DEF Handle, BeforeHello, IdOfItsSession, SessionCreated, DoomedIsOver
<1>13. CASE UNCHANGED vars
  BY <1>1, <1>13, QuietStep DEF vars
<1> QED
  BY <1>2, <1>3, <1>4, <1>5, <1>6, <1>7, <1>8, <1>9, <1>10, <1>11, <1>12, <1>13 DEF Next, Goroutine

\* The inductive invariant of sessions holds throughout.
THEOREM SessionInvariant == Spec => []SessionInv
<1>1. Init => SessionInv
  BY SessionsAssumption
     DEF Init, SessionInv, TypeOK, PCs, BeforeHello, IdOfItsSession, SessionCreated, DoomedIsOver, Doomed
<1> QED
  BY <1>1, SessionStep, PTL DEF Spec

\* Connections that act under one client id belong to one session.
THEOREM SessionsStayApart == Spec => []SessionsDoNotMix
<1>1. SessionInv => SessionsDoNotMix
  BY DEF SessionInv, SessionsDoNotMix, BeforeHello, IdOfItsSession, TypeOK
<1> QED
  BY <1>1, SessionInvariant, PTL

\* No step drops the engine's state of a live session.
THEOREM StateOutlivesConnections == Spec => SessionKeepsItsState
<1>1. SessionInv /\ [Next]_vars =>
        [\A s \in DOMAIN sessions : sessions[s].client \in owned => sessions[s].client \in owned']_vars
  <2> SUFFICES ASSUME SessionInv, Next, NEW s \in DOMAIN sessions, sessions[s].client \in owned
               PROVE  sessions[s].client \in owned'
    OBVIOUS
  <2>1. CASE Handle
    <3>1. events \in Seq(Event) /\ events # << >> /\ 1 \in 1..Len(events) /\ Head(events) = events[1]
      BY <2>1 DEF Handle, SessionInv, TypeOK
    <3>2. sessions[s].client \in Conns
      BY DEF SessionInv, TypeOK
    <3>3. Head(events).op = "disconnect" => Head(events).client # sessions[s].client
      BY <3>1, <3>2 DEF SessionInv, DoomedIsOver, Doomed
    <3>4. Head(events) \in Event
      BY <3>1
    <3> QED
      BY <2>1, <3>3, <3>4 DEF Handle, Event
  <2>2. CASE ~Handle
    BY <2>2 DEF Next, Goroutine, Accept, HelloStateful, RegisterSession, UpdateClientID, Use, HangUp,
                RemoveClient, EndStateless, Close, DisconnectExpired, TimePasses, Reap
  <2> QED
    BY <2>1, <2>2
<1> QED
  BY <1>1, SessionInvariant, PTL DEF Spec, SessionKeepsItsState
=============================================================================
