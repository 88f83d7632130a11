------------------------------- MODULE Daemon -------------------------------
(***************************************************************************)
(* The goroutines of the daemon and how they stop (internal/daemon,        *)
(* Engine.Run and drain, sendEvent and sendAndWait of internal/rpc, the    *)
(* writer of internal/tty): one goroutine per connection, the session      *)
(* reaper, the tmux watcher, the engine, the TTY writer and Daemon.Run     *)
(* itself, joined by two bounded channels, two contexts and Engine.done.   *)
(*                                                                         *)
(* A select is the disjunction of the actions of its cases.  What requests *)
(* do is reduced to what shutdown depends on: a client has at most one     *)
(* placement, and a write to the terminal draws or erases it.              *)
(***************************************************************************)
EXTENDS Integers, Sequences, FiniteSets

CONSTANTS
    Clients,        \* connections, with their goroutines
    EventsCap,      \* capacity of Engine.Events (256 in the code)
    WritesCap,      \* capacity of Writer.Writes (256 in the code)
    MaxRequests,    \* bound: requests a client makes
    MaxTicks        \* bound: updates the watcher, and disconnects the reaper, send

ASSUME DaemonAssumption ==
    /\ EventsCap \in Nat \ {0} /\ WritesCap \in Nat \ {0}
    /\ MaxRequests \in Nat /\ MaxTicks \in Nat

VARIABLES
    ctx,        \* "live" or "cancelled": the context of server, engine and watcher
    main,       \* Daemon.Run: "serving", "joining", "waiting", "stopping", "exited"
    client,     \* per connection: where its goroutine is
    request,    \* per connection: the request being dispatched
    made,       \* per connection: requests so far
    reply,      \* per connection: the reply channel of the pending call
    watcher,    \* the tmux watcher: "idle", "sending", "gone"
    reaper,     \* the session reaper: "idle", "sending", "gone"
    ticks,      \* sends the watcher and the reaper began
    events,     \* Engine.Events
    engine,     \* "select", "handling", "cleanup", "drain", "done"
    out,        \* terminal writes the engine still has to make in this step
    owed,       \* clients the engine replies to at the end of this step
    rendered,   \* clients whose placement the engine counts as rendered
    writerCtx,  \* the writer's own context
    writer,     \* "running" or "stopped"
    writes,     \* Writer.Writes
    screen      \* clients whose placement the terminal displays

sources == <<watcher, reaper, ticks>>
calls == <<client, request, made>>
output == <<writerCtx, writer, writes, screen>>
vars == <<ctx, main, calls, reply, sources, events, engine, out, owed, rendered, output>>

Calls == {"place", "list"}                  \* answered: sendAndWait
Casts == {"unplace", "stop"}                \* not answered: sendEvent
NoRequest == "none"
Replies == {"none", "result", "error"}

Event == [op : Calls \cup Casts \cup {"disconnect"}, client : Clients]
           \cup [op : {"panes", "expire"}]
Write == [op : {"draw", "erase"}, client : Clients]

\* A send on Engine.Events proceeds when there is room
Post(ev) ==
    /\ Len(events) < EventsCap
    /\ events' = Append(events, ev)

EngineDone == engine = "done"

Init ==
    /\ ctx = "live" /\ main = "serving"
    /\ client = [c \in Clients |-> "absent"]
    /\ request = [c \in Clients |-> NoRequest]
    /\ made = [c \in Clients |-> 0]
    /\ reply = [c \in Clients |-> "none"]
    /\ watcher = "idle" /\ reaper = "idle" /\ ticks = 0
    /\ events = << >> /\ engine = "select" /\ out = {} /\ owed = {} /\ rendered = {}
    /\ writerCtx = "live" /\ writer = "running" /\ writes = << >> /\ screen = {}

-----------------------------------------------------------------------------
(* A connection's goroutine.                                                *)

\* Server.Run accepts and starts handleClient
Connect(c) ==
    /\ main = "serving"
    /\ client[c] = "absent"
    /\ client' = [client EXCEPT ![c] = "reading"]
    /\ UNCHANGED <<ctx, main, request, made, reply, sources, events, engine, out, owed,
                   rendered, output>>

\* Serve reads a request (the decoder may still hold one after the socket closed)
Read(c, op) ==
    /\ client[c] = "reading"
    /\ made[c] < MaxRequests
    /\ client' = [client EXCEPT ![c] = "sending"]
    /\ request' = [request EXCEPT ![c] = op]
    /\ made' = [made EXCEPT ![c] = @ + 1]
    /\ reply' = [reply EXCEPT ![c] = "none"]
    /\ UNCHANGED <<ctx, main, sources, events, engine, out, owed, rendered, output>>

\* The first select of sendAndWait and the only one of sendEvent: sent, ...
SendRequest(c) ==
    /\ client[c] = "sending"
    /\ Post([op |-> request[c], client |-> c])
    /\ client' = [client EXCEPT ![c] = IF request[c] \in Calls THEN "waiting" ELSE "reading"]
    /\ UNCHANGED <<ctx, main, request, made, reply, sources, engine, out, owed, rendered, output>>

\* ... or the engine has stopped: "engine stopped"
SendRefused(c) ==
    /\ client[c] = "sending"
    /\ EngineDone
    /\ client' = [client EXCEPT ![c] = "reading"]
    /\ UNCHANGED <<ctx, main, request, made, reply, sources, events, engine, out, owed,
                   rendered, output>>

\* The second select of sendAndWait: the reply, ...
TakeReply(c) ==
    /\ client[c] = "waiting"
    /\ reply[c] # "none"
    /\ client' = [client EXCEPT ![c] = "reading"]
    /\ UNCHANGED <<ctx, main, request, made, reply, sources, events, engine, out, owed,
                   rendered, output>>

\* ... or the engine has stopped
WaitForReplyOnly(c) == FALSE /\ UNCHANGED vars   \* mutant: no case <-c.engine.Done()
ReplyRefused(c) ==
    /\ client[c] = "waiting"
    /\ EngineDone
    /\ client' = [client EXCEPT ![c] = "reading"]
    /\ UNCHANGED <<ctx, main, request, made, reply, sources, events, engine, out, owed,
                   rendered, output>>

\* Serve returns because the peer hung up or, ctx cancelled, its socket was closed
ServeReturns(c) ==
    /\ client[c] = "reading"
    /\ client' = [client EXCEPT ![c] = "closing"]
    /\ UNCHANGED <<ctx, main, request, made, reply, sources, events, engine, out, owed,
                   rendered, output>>

\* Client.Close: Engine.ClientDisconnected, whose select has the same two cases
Disconnect(c) ==
    /\ client[c] = "closing"
    /\ \/ Post([op |-> "disconnect", client |-> c])
       \/ EngineDone /\ UNCHANGED events
    /\ client' = [client EXCEPT ![c] = "gone"]
    /\ UNCHANGED <<ctx, main, request, made, reply, sources, engine, out, owed, rendered, output>>

-----------------------------------------------------------------------------
(* The other senders.                                                       *)

\* The watcher has new pane geometry; queryAndUpdate's select sends it or gives
\* up with the context, and Run returns once that is cancelled
WatcherQueries ==
    /\ watcher = "idle" /\ ctx = "live" /\ ticks < MaxTicks
    /\ watcher' = "sending"
    /\ ticks' = ticks + 1
    /\ UNCHANGED <<ctx, main, calls, reply, reaper, events, engine, out, owed, rendered, output>>

WatcherSends ==
    /\ watcher = "sending"
    /\ Post([op |-> "panes"])
    /\ watcher' = "idle"
    /\ UNCHANGED <<ctx, main, calls, reply, reaper, ticks, engine, out, owed, rendered, output>>

OnlyIdleReturns ==   \* mutant: the send has no case <-ctx.Done()
    /\ watcher = "idle" /\ ctx = "cancelled"
    /\ watcher' = "gone"
    /\ UNCHANGED <<ctx, main, calls, reply, reaper, ticks, events, engine, out, owed,
                   rendered, output>>
WatcherReturns ==
    /\ watcher \in {"idle", "sending"} /\ ctx = "cancelled"
    /\ watcher' = "gone"
    /\ UNCHANGED <<ctx, main, calls, reply, reaper, ticks, events, engine, out, owed,
                   rendered, output>>

\* reapSessions has an expired session; ClientDisconnected sends or gives up
\* with the engine, and the reaper looks at the context between ticks only
ReaperTicks ==
    /\ reaper = "idle" /\ ticks < MaxTicks
    /\ reaper' = "sending"
    /\ ticks' = ticks + 1
    /\ UNCHANGED <<ctx, main, calls, reply, watcher, events, engine, out, owed, rendered, output>>

ReaperSends ==
    /\ reaper = "sending"
    /\ Post([op |-> "expire"]) \/ (EngineDone /\ UNCHANGED events)
    /\ reaper' = "idle"
    /\ UNCHANGED <<ctx, main, calls, reply, watcher, ticks, engine, out, owed, rendered, output>>

ReaperReturns ==
    /\ reaper = "idle" /\ ctx = "cancelled"
    /\ reaper' = "gone"
    /\ UNCHANGED <<ctx, main, calls, reply, watcher, ticks, events, engine, out, owed,
                   rendered, output>>

-----------------------------------------------------------------------------
(* The engine.                                                              *)

\* What a handler does: the writes it makes, whom it replies to and the
\* placements rendered afterwards.  New pane geometry hides every placement.
Erases(cs) == {[op |-> "erase", client |-> c] : c \in cs}
Draws(cs) == {[op |-> "draw", client |-> c] : c \in cs}

Handling(o, d, r) == out' = o /\ owed' = d /\ rendered' = r

\* Run takes an event and handles it; stop cancels the context
TakeEvent ==
    LET ev == Head(events)
        mine == IF ev.op \in {"panes", "expire"} THEN {} ELSE {ev.client} \cap rendered
    IN  /\ engine = "select"
        /\ events # << >>
        /\ events' = Tail(events)
        /\ engine' = "handling"
        /\ ctx' = IF ev.op = "stop" THEN "cancelled" ELSE ctx
        /\ \/ ev.op = "place" /\ Handling(Draws({ev.client}), {ev.client}, rendered \cup {ev.client})
           \/ ev.op = "list" /\ Handling({}, {ev.client}, rendered)
           \/ ev.op \in {"unplace", "disconnect"} /\ Handling(Erases(mine), {}, rendered \ mine)
           \/ ev.op = "panes" /\ Handling(Erases(rendered), {}, {})
           \/ ev.op \in {"stop", "expire"} /\ Handling({}, {}, rendered)
        /\ UNCHANGED <<main, calls, reply, sources, output>>

\* The blocking send on Writer.Writes, inside a handler or the cleanup
WriteOut ==
    /\ \E w \in out :
          /\ Len(writes) < WritesCap
          /\ writes' = Append(writes, w)
          /\ out' = out \ {w}
    /\ UNCHANGED <<ctx, main, calls, reply, sources, events, engine, owed, rendered,
                   writerCtx, writer, screen>>

\* The handler replies and returns to the select
FinishEvent ==
    /\ engine = "handling" /\ out = {}
    /\ engine' = "select"
    /\ reply' = [c \in Clients |-> IF c \in owed THEN "result" ELSE reply[c]]
    /\ owed' = {}
    /\ UNCHANGED <<ctx, main, calls, sources, events, out, rendered, output>>

\* Run returns on the cancelled context: cleanupRenderedPlacements, ...
CleanupWrites == Erases(rendered)

EngineStops ==
    /\ engine = "select" /\ ctx = "cancelled"
    /\ engine' = "cleanup"
    /\ out' = CleanupWrites
    /\ UNCHANGED <<ctx, main, calls, reply, sources, events, owed, rendered, output>>

CleanupDone ==
    /\ engine = "cleanup" /\ out = {}
    /\ engine' = "drain"
    /\ UNCHANGED <<ctx, main, calls, reply, sources, events, out, owed, rendered, output>>

\* ... drain, which answers the calls it finds with errors, ...
DrainHandlesPlace ==   \* mutant: drain calls e.handle
    /\ engine = "drain" /\ events # << >> /\ out = {}
    /\ events' = Tail(events)
    /\ out' = IF Head(events).op = "place" THEN Draws({Head(events).client}) ELSE {}
    /\ UNCHANGED <<ctx, main, calls, reply, sources, engine, owed, rendered, output>>
Drain ==
    /\ engine = "drain" /\ events # << >>
    /\ events' = Tail(events)
    /\ reply' = IF Head(events).op \in Calls
                THEN [reply EXCEPT ![Head(events).client] = "error"] ELSE reply
    /\ UNCHANGED <<ctx, main, calls, sources, engine, out, owed, rendered, output>>

\* ... until it finds the channel empty, ...
DrainDone ==
    /\ engine = "drain" /\ events = << >> /\ out = {}
    /\ engine' = "closing"
    /\ UNCHANGED <<ctx, main, calls, reply, sources, events, out, owed, rendered, output>>

\* ... and close(e.done), a step of its own after the last look at the channel
CloseDone ==
    /\ engine = "closing"
    /\ engine' = "done"
    /\ UNCHANGED <<ctx, main, calls, reply, sources, events, out, owed, rendered, output>>

-----------------------------------------------------------------------------
(* The TTY writer, the signal and Daemon.Run.                               *)

WriteTTY ==
    /\ writer = "running" /\ writes # << >>
    /\ writes' = Tail(writes)
    /\ screen' = IF Head(writes).op = "draw" THEN screen \cup {Head(writes).client}
                 ELSE screen \ {Head(writes).client}
    /\ UNCHANGED <<ctx, main, calls, reply, sources, events, engine, out, owed, rendered,
                   writerCtx, writer>>

WriterStops ==
    /\ writer = "running" /\ writerCtx = "cancelled"
    /\ writer' = "stopped"
    /\ UNCHANGED <<ctx, main, calls, reply, sources, events, engine, out, owed, rendered,
                   writerCtx, writes, screen>>

\* SIGINT or SIGTERM cancels the context Daemon.Run was given
Signal ==
    /\ ctx = "live"
    /\ ctx' = "cancelled"
    /\ UNCHANGED <<main, calls, reply, sources, events, engine, out, owed, rendered, output>>

\* Server.Run leaves its accept loop, ...
StopAccepting ==
    /\ main = "serving" /\ ctx = "cancelled"
    /\ main' = "joining"
    /\ UNCHANGED <<ctx, calls, reply, sources, events, engine, out, owed, rendered, output>>

\* ... returns when the connections' goroutines and the reaper have ended, ...
ServerReturns ==
    /\ main = "joining"
    /\ \A c \in Clients : client[c] \in {"absent", "gone"}
    /\ reaper = "gone"
    /\ main' = "waiting"
    /\ UNCHANGED <<ctx, calls, reply, sources, events, engine, out, owed, rendered, output>>

\* ... then engineWg is waited for and the writer's context cancelled, ...
ServerOnly == main = "waiting"   \* mutant: no engineWg.Wait()
EngineJoined == main = "waiting" /\ EngineDone /\ watcher = "gone"

StopWriter ==
    /\ EngineJoined
    /\ main' = "stopping"
    /\ writerCtx' = "cancelled"
    /\ UNCHANGED <<ctx, calls, reply, sources, events, engine, out, owed, rendered,
                   writer, writes, screen>>

\* ... and the writer waited for
RunReturns ==
    /\ main = "stopping" /\ writer = "stopped"
    /\ main' = "exited"
    /\ UNCHANGED <<ctx, calls, reply, sources, events, engine, out, owed, rendered, output>>

Sending(c) == SendRequest(c) \/ SendRefused(c)
Waiting(c) == TakeReply(c) \/ ReplyRefused(c)
Watching == WatcherSends \/ WatcherReturns
Engine == TakeEvent \/ FinishEvent \/ CleanupDone \/ Drain \/ DrainDone \/ CloseDone
Writer == WriteTTY \/ WriterStops
Main == StopAccepting \/ ServerReturns \/ StopWriter \/ RunReturns

Next ==
    \/ \E c \in Clients :
          \/ Connect(c) \/ \E op \in Calls \cup Casts : Read(c, op)
          \/ Sending(c) \/ Waiting(c) \/ ServeReturns(c) \/ Disconnect(c)
    \/ WatcherQueries \/ Watching
    \/ ReaperTicks \/ ReaperSends \/ ReaperReturns
    \/ Engine \/ EngineStops \/ WriteOut
    \/ Writer \/ Main \/ Signal

Spec == Init /\ [][Next]_vars

\* Nobody stands still: as long as some goroutine can go on, some goroutine does.
\* Requests, connections and the signal are free, but a connection whose socket
\* the cancelled context closed does stop being read.  Every cycle of the system
\* passes through a request or a tick, and those are bounded, so this weakest
\* form of fairness is enough; without the bounds, a select must also take a
\* ready case in the end (Go picks at random) and a blocked sender its turn.
Progress ==
    \/ \E c \in Clients :
          \/ Sending(c) \/ Waiting(c) \/ Disconnect(c)
          \/ ctx = "cancelled" /\ ServeReturns(c)
    \/ Watching \/ ReaperSends \/ ReaperReturns
    \/ Engine \/ EngineStops \/ WriteOut \/ Writer \/ Main

Fairness == WF_vars(Progress)

FairSpec == Spec /\ Fairness

-----------------------------------------------------------------------------
TypeOK ==
    /\ ctx \in {"live", "cancelled"} /\ writerCtx \in {"live", "cancelled"}
    /\ main \in {"serving", "joining", "waiting", "stopping", "exited"}
    /\ client \in [Clients -> {"absent", "reading", "sending", "waiting", "closing", "gone"}]
    /\ request \in [Clients -> Calls \cup Casts \cup {NoRequest}]
    /\ made \in [Clients -> 0..MaxRequests]
    /\ reply \in [Clients -> Replies]
    /\ watcher \in {"idle", "sending", "gone"} /\ reaper \in {"idle", "sending", "gone"}
    /\ ticks \in 0..MaxTicks
    /\ events \in Seq(Event) /\ Len(events) <= EventsCap
    /\ engine \in {"select", "handling", "cleanup", "drain", "closing", "done"}
    /\ out \subseteq Write /\ owed \subseteq Clients /\ rendered \subseteq Clients
    /\ writer \in {"running", "stopped"}
    /\ writes \in Seq(Write) /\ Len(writes) <= WritesCap
    /\ screen \subseteq Clients

\* Will the terminal display c's placement once the queued writes are made?
DrawnLast(c) ==
    \E n \in 1..Len(writes) :
        /\ writes[n] = [op |-> "draw", client |-> c]
        /\ \A m \in n + 1..Len(writes) : writes[m].client # c
Untouched(c) == \A n \in 1..Len(writes) : writes[n].client # c
WillShow(c) == DrawnLast(c) \/ (c \in screen /\ Untouched(c))

\* From the end of the cleanup on, the screen is clean as soon as the writer has
\* written what is queued: no event still in the channel, drained or left there,
\* puts anything on it again (cleanupRenderedPlacements, drain).
CleanupIsFinal ==
    engine \in {"drain", "closing", "done"} => \A c \in Clients : ~WillShow(c)

\* The writer runs as long as the engine may write: the engine's blocking sends
\* always find a receiver, a promise that depends on the order in Daemon.Run
\* (graphics/tty.go:14).
WriterOutlivesEngine == ~EngineDone => writer = "running" /\ writerCtx = "live"

\* Every call and every notification a connection dispatches comes back, with
\* the daemon running, stopping or stopped: a caller waits neither for the reply
\* to an event nobody handles nor for room in a channel nobody reads.
EveryDispatchReturns ==
    \A c \in Clients : client[c] \in {"sending", "waiting"} ~> client[c] = "reading"

\* Once its context is cancelled, the daemon exits: no goroutine waits for one
\* that waits for it, however the channels are filled at that moment.
CancelledExits == ctx = "cancelled" ~> main = "exited"

-----------------------------------------------------------------------------
(* What the comments say and the code does not do.                          *)

\* daemon.go:113 "it has drained all cleanup commands", of the writer when Run
\* cancels and joins it
ExitsWithACleanScreen == main = "exited" => screen = {}
=============================================================================
