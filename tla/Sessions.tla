------------------------------ MODULE Sessions ------------------------------
(***************************************************************************)
(* The connection and session registry of the RPC server                   *)
(* (internal/rpc/server.go, with Client.SetStateless, Client.Close and the *)
(* hello branch of Client.dispatch).  Three kinds of process share it      *)
(* under Server.mu: the goroutine of each connection, the session reaper   *)
(* and the engine, which broadcasts to the registered connections.         *)
(* Each critical section is one action.                                    *)
(*                                                                         *)
(* A connection stands for the uuid NewClient gives it.  Of the engine,    *)
(* only which client ids it keeps state for is modelled.  A client says    *)
(* hello once, first, as SPEC.md:436 asks and every client library does.   *)
(***************************************************************************)
EXTENDS Integers, Sequences, FiniteSets

CONSTANTS
    Conns,      \* connections, each standing for its uuid
    Sids,       \* session ids clients may give
    NoSession,  \* the empty session id
    QueueCap    \* capacity of Engine.Events (256 in the code)

ASSUME SessionsAssumption == NoSession \notin Sids /\ QueueCap \in Nat \ {0}

VARIABLES
    pc,         \* per connection: where its goroutine is
    wire,       \* per connection: the socket is open
    id,         \* per connection: Client.ID
    newID,      \* per connection: the id SetStateless was given
    sid,        \* per connection: Client.sessionID
    clients,    \* Server.clients: client id -> connection
    sessions,   \* Server.sessions: session id -> [client, idle]
    expired,    \* client ids the reaper has yet to disconnect
    events,     \* Engine.Events
    owned       \* client ids the engine keeps handles, placements or windows for

vars == <<pc, wire, id, newID, sid, clients, sessions, expired, events, owned>>

\* "new"       not accepted yet       "accepted"  serving, hello not read yet
\* "joining"   between RegisterSession and updateClientID
\* "open"      serving                "closing"   Serve returned, removed from the map
\* "gone"      the goroutine ended
PCs == {"new", "accepted", "joining", "open", "closing", "gone"}
Event == [op : {"use", "disconnect"}, client : Conns]

Without(f, S) == [x \in DOMAIN f \ S |-> f[x]]
Put(f, x, y) == [z \in DOMAIN f \cup {x} |-> IF z = x THEN y ELSE f[z]]

\* A send on Engine.Events blocks while the channel is full
Send(op, i) ==
    /\ Len(events) < QueueCap
    /\ events' = Append(events, [op |-> op, client |-> i])

Init ==
    /\ pc = [k \in Conns |-> "new"]
    /\ wire = [k \in Conns |-> FALSE]
    /\ id = [k \in Conns |-> k] /\ newID = [k \in Conns |-> k]
    /\ sid = [k \in Conns |-> NoSession]
    /\ clients = << >> /\ sessions = << >> /\ expired = {} /\ events = << >> /\ owned = {}

\* Run accepts a connection, addClient registers it under its uuid
Accept(k) ==
    /\ pc[k] = "new"
    /\ pc' = [pc EXCEPT ![k] = "accepted"]
    /\ wire' = [wire EXCEPT ![k] = TRUE]
    /\ clients' = Put(clients, id[k], k)
    /\ UNCHANGED <<id, newID, sid, sessions, expired, events, owned>>

\* hello without a session id
HelloStateful(k) ==
    /\ pc[k] = "accepted"
    /\ pc' = [pc EXCEPT ![k] = "open"]
    /\ UNCHANGED <<wire, id, newID, sid, clients, sessions, expired, events, owned>>

Session(i, idle) == [client |-> i, idle |-> idle]

\* The client id RegisterSession answers to a connection with id i
AnySession(s, i) ==   \* mutant: the lookup ignores the session id
    IF sessions = << >> THEN i ELSE sessions[CHOOSE t \in DOMAIN sessions : TRUE].client
ClientOf(s, i) == IF s \in DOMAIN sessions THEN sessions[s].client ELSE i

\* hello with session id s, first half: RegisterSession finds or creates the
\* session, and SetStateless marks the connection with it
RegisterSession(k, s) ==
    /\ pc[k] = "accepted"
    /\ pc' = [pc EXCEPT ![k] = "joining"]
    /\ sid' = [sid EXCEPT ![k] = s]
    /\ newID' = [newID EXCEPT ![k] = ClientOf(s, id[k])]
    /\ sessions' = Put(sessions, s, Session(ClientOf(s, id[k]), FALSE))
    /\ UNCHANGED <<wire, id, clients, expired, events, owned>>

\* Second half, updateClientID: delete the connection's own key, close another
\* connection found under the new id, take its place
KeepOldKey(k) == clients   \* mutant: delete(s.clients, c.ID) is missing
LeaveOldKey(k) == Without(clients, {id[k]})

UpdateClientID(k) ==
    LET left == LeaveOldKey(k)
        old == {left[i] : i \in {newID[k]} \cap DOMAIN left} \ {k}
    IN  /\ pc[k] = "joining"
        /\ pc' = [pc EXCEPT ![k] = "open"]
        /\ wire' = [j \in Conns |-> wire[j] /\ j \notin old]
        /\ id' = [id EXCEPT ![k] = newID[k]]
        /\ clients' = Put(left, newID[k], k)
        /\ UNCHANGED <<newID, sid, sessions, expired, events, owned>>

\* dispatch of a request that leaves state in the engine (upload, register_win).
\* The decoder is buffered: requests that arrived before the socket was closed
\* are still read afterwards.
Use(k) ==
    /\ pc[k] = "open"
    /\ Send("use", id[k])
    /\ UNCHANGED <<pc, wire, id, newID, sid, clients, sessions, expired, owned>>

\* The peer closes the connection, or dies
HangUp(k) ==
    /\ wire[k]
    /\ wire' = [wire EXCEPT ![k] = FALSE]
    /\ UNCHANGED <<pc, id, newID, sid, clients, sessions, expired, events, owned>>

\* Serve returns, handleClient's deferred removeClient deletes the map entry
\* under c.ID, whoever it belongs to
RemovedKey(k) == id[k]

RemoveClient(k) ==
    /\ pc[k] \in {"accepted", "open"}
    /\ ~wire[k]
    /\ pc' = [pc EXCEPT ![k] = "closing"]
    /\ clients' = Without(clients, {RemovedKey(k)})
    /\ UNCHANGED <<wire, id, newID, sid, sessions, expired, events, owned>>

\* The rest of handleClient's deferred function.  A stateless connection only
\* refreshes the session now registered under its session id, ...
EndStateless(k) ==
    /\ pc[k] = "closing"
    /\ sid[k] # NoSession
    /\ pc' = [pc EXCEPT ![k] = "gone"]
    /\ sessions' = [s \in DOMAIN sessions |->
                       IF s = sid[k] THEN Session(sessions[s].client, FALSE) ELSE sessions[s]]
    /\ UNCHANGED <<wire, id, newID, sid, clients, expired, events, owned>>

\* ... the others call Client.Close, which queues a ClientDisconnect
CloseAlways(k) == TRUE   \* mutant: c.Close in either mode
CleansUp(k) == sid[k] = NoSession
CloseSilently(k) ==   \* mutant: conn.Close instead of Client.Close
    /\ pc[k] = "closing"
    /\ CleansUp(k)
    /\ pc' = [pc EXCEPT ![k] = "gone"]
    /\ UNCHANGED <<wire, id, newID, sid, clients, sessions, expired, events, owned>>
Close(k) ==
    /\ pc[k] = "closing"
    /\ CleansUp(k)
    /\ Send("disconnect", id[k])
    /\ pc' = [pc EXCEPT ![k] = "gone"]
    /\ UNCHANGED <<wire, id, newID, sid, clients, sessions, expired, owned>>

\* Five minutes pass in which no session is registered and none is refreshed.
\* (A session registered later is fresh, so the order of lastSeen is kept.)
TimePasses ==
    /\ \E s \in DOMAIN sessions : ~sessions[s].idle
    /\ sessions' = [s \in DOMAIN sessions |-> Session(sessions[s].client, TRUE)]
    /\ UNCHANGED <<pc, wire, id, newID, sid, clients, expired, events, owned>>

\* reapSessions, on a tick: collect and delete the idle sessions under the lock, ...
Idle == {s \in DOMAIN sessions : sessions[s].idle}
NoIds(S) == {}   \* mutant: the sessions are deleted, their client ids forgotten
ClientIds(S) == {sessions[s].client : s \in S}

Reap ==
    /\ expired = {}
    /\ Idle # {}
    /\ expired' = ClientIds(Idle)
    /\ sessions' = Without(sessions, Idle)
    /\ UNCHANGED <<pc, wire, id, newID, sid, clients, events, owned>>

\* ... then queue one ClientDisconnect after the other, in map order
DisconnectExpired(i) ==
    /\ i \in expired
    /\ Send("disconnect", i)
    /\ expired' = expired \ {i}
    /\ UNCHANGED <<pc, wire, id, newID, sid, clients, sessions, owned>>

\* The engine handles the next event
Handle ==
    /\ events # << >>
    /\ events' = Tail(events)
    /\ owned' = IF Head(events).op = "use" THEN owned \cup {Head(events).client}
                ELSE owned \ {Head(events).client}
    /\ UNCHANGED <<pc, wire, id, newID, sid, clients, sessions, expired>>

Goroutine(k) == UpdateClientID(k) \/ RemoveClient(k) \/ EndStateless(k) \/ Close(k)

Next ==
    \/ \E k \in Conns :
          \/ Accept(k) \/ HelloStateful(k)
          \/ \E s \in Sids : RegisterSession(k, s)
          \/ Use(k) \/ HangUp(k) \/ Goroutine(k)
          \/ DisconnectExpired(k)
    \/ TimePasses \/ Reap \/ Handle

Spec == Init /\ [][Next]_vars

\* Every goroutine that can go on does.  A sender blocked on the full channel
\* gets its turn: Go serves blocked senders in order, hence strong fairness.
\* Nothing obliges a peer to connect, to call or to hang up, or time to pass.
Fairness ==
    /\ \A k \in Conns : SF_vars(Goroutine(k)) /\ SF_vars(DisconnectExpired(k))
    /\ WF_vars(Reap) /\ WF_vars(Handle)

FairSpec == Spec /\ Fairness

-----------------------------------------------------------------------------
TypeOK ==
    /\ pc \in [Conns -> PCs]
    /\ wire \in [Conns -> BOOLEAN]
    /\ id \in [Conns -> Conns] /\ newID \in [Conns -> Conns]
    /\ sid \in [Conns -> Sids \cup {NoSession}]
    /\ DOMAIN clients \subseteq Conns /\ \A i \in DOMAIN clients : clients[i] \in Conns
    /\ DOMAIN sessions \subseteq Sids
    /\ \A s \in DOMAIN sessions : sessions[s] \in [client : Conns, idle : BOOLEAN]
    /\ expired \subseteq Conns
    /\ events \in Seq(Event) /\ Len(events) <= QueueCap
    /\ owned \subseteq Conns

\* A connection is filed under its own id: every path that changes Client.ID or
\* the map changes both, so a notification for a client id is never written to
\* a connection with another id.
FiledUnderItsId == \A i \in DOMAIN clients : id[clients[i]] = i

\* No connection whose goroutine ended is left in the map, although removeClient
\* deletes by id and ids move between connections in takeovers.
NoDeadEntries == \A i \in DOMAIN clients : pc[clients[i]] \notin {"new", "closing", "gone"}

\* The map from client ids to connections, whoever takes over from whom, holds the
\* live connections' own ids only.
ClientsAreLive == FiledUnderItsId /\ NoDeadEntries

\* Two connections act under the same client id only if they said hello with
\* the same session id: the state of two sessions, or of a session and a
\* stateful client, is never mixed.
SessionsDoNotMix ==
    \A j, k \in Conns :
        pc[j] \in {"open", "closing"} /\ pc[k] \in {"open", "closing"} /\ id[j] = id[k]
            => sid[j] = sid[k] /\ (j # k => sid[k] # NoSession)

\* The engine drops the state of a live session's client id in no step: neither
\* a connection of that session that ends nor one it evicts, nor the reaper
\* working on an earlier session, disconnects the id.
SessionKeepsItsState ==
    [][\A s \in DOMAIN sessions :
          sessions[s].client \in owned => sessions[s].client \in owned']_vars

\* After a stateful connection is lost, the engine comes to keep nothing for it
\* and never does again: no request of the connection is handled after its
\* ClientDisconnect (handleClient, Client.Close).
StatefulIsCleanedUp ==
    \A k \in Conns :
        [](pc[k] # "new" /\ ~wire[k] => <>(sid[k] # NoSession \/ [](k \notin owned)))

Unused(i) == \A k \in Conns : id[k] = i => pc[k] \in {"new", "gone"}

\* A session left idle with no connection is reaped and its state dropped,
\* unless a client comes back first (reapSessions).
AbandonedIsReclaimed ==
    \A i \in Conns :
        (\E s \in Idle : sessions[s].client = i) /\ Unused(i)
            ~> i \notin owned \/ ~Unused(i) \/ (\E s \in DOMAIN sessions \ Idle : sessions[s].client = i)

-----------------------------------------------------------------------------
(* What the comments and SPEC.md say and the code does not do.              *)

\* server.go:211 "NotifyAll sends a notification to all connected clients":
\* it sends to the registered ones
ConnectedAreRegistered ==
    \A k \in Conns : pc[k] = "open" /\ wire[k] => \E i \in DOMAIN clients : clients[i] = k

\* server.go:155 "removes sessions that have been idle too long"
ReapsNoConnectedClient ==
    [][expired' \ expired # {}
         => \A k \in Conns : pc[k] = "open" /\ wire[k] => id[k] \notin expired' \ expired]_vars
=============================================================================
