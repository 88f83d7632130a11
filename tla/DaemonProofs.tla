---------------------------- MODULE DaemonProofs ----------------------------
(***************************************************************************)
(* Proofs about the daemon's shutdown, for any number of connections, any  *)
(* channel capacities and any number of requests.                          *)
(***************************************************************************)
EXTENDS Daemon, TLAPS

\* A connection sends only what it has read
Asked == \A c \in Clients : client[c] = "sending" => request[c] \in Calls \cup Casts

TypeInv == TypeOK /\ Asked

\* Who may stop the writer, and when
WriterInv ==
    /\ main \in {"stopping", "exited"} => EngineDone
    /\ writerCtx = "cancelled" => main \in {"stopping", "exited"}
    /\ writer = "stopped" => writerCtx = "cancelled"

Erasing(c) == [op |-> "erase", client |-> c] \in out
Drawing(c) == [op |-> "draw", client |-> c] \in out

\* The engine's record `rendered` and its pending writes bound what the terminal
\* will display, in every phase of the engine
PhaseInv ==
    /\ engine \in {"select", "drain", "closing", "done"} => out = {}
    /\ engine = "select" => \A c \in Clients : WillShow(c) => c \in rendered
    /\ engine = "handling" => \A c \in Clients :
          /\ WillShow(c) => c \in rendered \/ Erasing(c)
          /\ Drawing(c) => c \in rendered
    /\ engine = "cleanup" => \A c \in Clients :
          /\ WillShow(c) => Erasing(c)
          /\ ~Drawing(c)
    /\ engine \in {"drain", "closing", "done"} => \A c \in Clients : ~WillShow(c)

ShutdownInv == TypeInv /\ WriterInv /\ PhaseInv

-----------------------------------------------------------------------------
(* Type correctness.                                                        *)

\* A send keeps the event channel a bounded sequence of events.
LEMMA PostType ==
    ASSUME TypeOK, NEW ev \in Event, Post(ev)
    PROVE  events' \in Seq(Event) /\ Len(events') <= EventsCap
BY DaemonAssumption DEF TypeOK, Post

LEMMA EventsAre ==
    /\ \A c \in Clients, op \in Calls \cup Casts : [op |-> op, client |-> c] \in Event
    /\ \A c \in Clients : [op |-> "disconnect", client |-> c] \in Event
    /\ [op |-> "panes"] \in Event /\ [op |-> "expire"] \in Event
BY DEF Event

\* The engine's steps keep the types.
LEMMA EngineType ==
    ASSUME TypeOK, Engine \/ EngineStops \/ WriteOut
    PROVE  TypeOK'
<1> USE DaemonAssumption
<1>1. ASSUME events # << >>
      PROVE  Head(events) \in Event /\ Tail(events) \in Seq(Event) /\ Len(Tail(events)) <= EventsCap
  BY <1>1 DEF TypeOK
<1>2. ASSUME events # << >>, Head(events).op \notin {"panes", "expire"}
      PROVE  Head(events).client \in Clients
  BY <1>1, <1>2 DEF Event
<1>3. CASE TakeEvent
  <2> DEFINE ev == Head(events)
  <2>1. events # << >> /\ ev \in Event
    BY <1>1, <1>3 DEF TakeEvent
  <2>2. PICK mine : mine = IF ev.op \in {"panes", "expire"} THEN {} ELSE {ev.client} \cap rendered
    OBVIOUS
  <2>3. mine \subseteq Clients
    BY <2>2 DEF TypeOK
  <2>4. out' \subseteq Write /\ owed' \subseteq Clients /\ rendered' \subseteq Clients
    <3>1. CASE ev.op = "place" /\ Handling(Draws({ev.client}), {ev.client}, rendered \cup {ev.client})
      BY <1>2, <2>1, <3>1 DEF Handling, Draws, TypeOK, Write
    <3>2. CASE ev.op = "list" /\ Handling({}, {ev.client}, rendered)
      BY <1>2, <2>1, <3>2 DEF Handling, TypeOK
    <3>3. CASE Handling(Erases(mine), {}, rendered \ mine)
      BY <2>3, <3>3 DEF Handling, Erases, TypeOK, Write
    <3>4. CASE Handling(Erases(rendered), {}, {})
      BY <3>4 DEF Handling, Erases, TypeOK, Write
    <3>5. CASE Handling({}, {}, rendered)
      BY <3>5 DEF Handling, TypeOK
    <3> QED
      BY <1>3, <2>2, <3>1, <3>2, <3>3, <3>4, <3>5 DEF TakeEvent
  <2> QED
    BY <1>1, <1>3, <2>4 DEF TakeEvent, TypeOK, calls, sources, output
<1>4. CASE FinishEvent
  BY <1>4 DEF FinishEvent, TypeOK, calls, sources, output, Replies
<1>5. CASE CleanupDone \/ DrainDone \/ CloseDone
  BY <1>5 DEF CleanupDone, DrainDone, CloseDone, TypeOK, calls, sources, output
<1>6. CASE Drain
  <2>1. reply' \in [Clients -> Replies]
    BY <1>2, <1>6 DEF Drain, TypeOK, Replies, Calls
  <2> QED
    BY <1>1, <1>6, <2>1 DEF Drain, TypeOK, calls, sources, output
<1>7. CASE EngineStops
  BY <1>7 DEF EngineStops, CleanupWrites, Erases, Write, TypeOK, calls, sources, output
<1>8. CASE WriteOut
  BY <1>8 DEF WriteOut, TypeOK, calls, sources, output
<1> QED
  BY <1>3, <1>4, <1>5, <1>6, <1>7, <1>8 DEF Engine

\* A connection's steps keep the types.
LEMMA ClientType ==
    ASSUME TypeInv, NEW c \in Clients,
           Connect(c) \/ Sending(c) \/ Waiting(c) \/ ServeReturns(c) \/ Disconnect(c)
             \/ \E op \in Calls \cup Casts : Read(c, op)
    PROVE  TypeInv'
<1> USE DaemonAssumption DEF TypeInv
<1>1. CASE Connect(c)
  BY <1>1 DEF Connect, Asked, TypeOK, sources, output
<1>2. CASE SendRefused(c)
  BY <1>2 DEF SendRefused, Asked, TypeOK, sources, output
<1>3. CASE TakeReply(c)
  BY <1>3 DEF TakeReply, Asked, TypeOK, sources, output
<1>4. CASE ReplyRefused(c)
  BY <1>4 DEF ReplyRefused, Asked, TypeOK, sources, output
<1>5. CASE ServeReturns(c)
  BY <1>5 DEF ServeReturns, Asked, TypeOK, sources, output
<1>6. ASSUME NEW op \in Calls \cup Casts, Read(c, op)
      PROVE  TypeInv'
  BY <1>6 DEF Read, Asked, TypeOK, sources, output, Replies
<1>7. CASE SendRequest(c)
  <2>1. request[c] \in Calls \cup Casts
    BY <1>7 DEF SendRequest, Asked
  <2>2. events' \in Seq(Event) /\ Len(events') <= EventsCap
    BY <1>7, <2>1, EventsAre, PostType DEF SendRequest
  <2> QED
    BY <1>7, <2>2 DEF SendRequest, Asked, TypeOK, sources, output
<1>8. CASE Disconnect(c)
  <2>1. events' \in Seq(Event) /\ Len(events') <= EventsCap
    BY <1>8, EventsAre, PostType DEF Disconnect, TypeOK
  <2> QED
    BY <1>8, <2>1 DEF Disconnect, Asked, TypeOK, sources, output
<1> QED
  BY <1>1, <1>2, <1>3, <1>4, <1>5, <1>6, <1>7, <1>8 DEF Sending, Waiting

\* The watcher's and the reaper's steps keep the types.
LEMMA SourceType ==
    ASSUME TypeInv, WatcherQueries \/ Watching \/ ReaperTicks \/ ReaperSends \/ ReaperReturns
    PROVE  TypeInv'
<1> USE DaemonAssumption DEF TypeInv
<1>1. CASE WatcherQueries \/ ReaperTicks
  BY <1>1 DEF WatcherQueries, ReaperTicks, Asked, TypeOK, calls, output
<1>2. CASE WatcherReturns \/ ReaperReturns
  BY <1>2 DEF WatcherReturns, ReaperReturns, Asked, TypeOK, calls, output
<1>3. CASE WatcherSends
  <2>1. events' \in Seq(Event) /\ Len(events') <= EventsCap
    BY <1>3, EventsAre, PostType DEF WatcherSends
  <2> QED
    BY <1>3, <2>1 DEF WatcherSends, Asked, TypeOK, calls, output
<1>4. CASE ReaperSends
  <2>1. events' \in Seq(Event) /\ Len(events') <= EventsCap
    BY <1>4, EventsAre, PostType DEF ReaperSends, TypeOK
  <2> QED
    BY <1>4, <2>1 DEF ReaperSends, Asked, TypeOK, calls, output
<1> QED
  BY <1>1, <1>2, <1>3, <1>4 DEF Watching

\* The writer's, the signal's and Daemon.Run's steps keep the types.
LEMMA MainType ==
    ASSUME TypeInv, Writer \/ Main \/ Signal
    PROVE  TypeInv'
<1> USE DaemonAssumption DEF TypeInv
<1>1. CASE WriteTTY
  <2>1. Head(writes) \in Write /\ Tail(writes) \in Seq(Write) /\ Len(Tail(writes)) <= WritesCap
    BY <1>1 DEF WriteTTY, TypeOK
  <2> QED
    BY <1>1, <2>1 DEF WriteTTY, Asked, TypeOK, Write, calls, sources
<1>2. CASE WriterStops
  BY <1>2 DEF WriterStops, Asked, TypeOK, calls, sources
<1>3. CASE Signal
  BY <1>3 DEF Signal, Asked, TypeOK, calls, sources, output
<1>4. CASE StopAccepting \/ ServerReturns \/ RunReturns
  BY <1>4 DEF StopAccepting, ServerReturns, RunReturns, Asked, TypeOK, calls, sources, output
<1>5. CASE StopWriter
  BY <1>5 DEF StopWriter, Asked, TypeOK, calls, sources
<1> QED
  BY <1>1, <1>2, <1>3, <1>4, <1>5 DEF Writer, Main

\* Every variable keeps its type in every step.
LEMMA TypeStep == TypeInv /\ [Next]_vars => TypeInv'
<1> SUFFICES ASSUME TypeInv, [Next]_vars PROVE TypeInv'
  OBVIOUS
<1>1. CASE Engine \/ EngineStops \/ WriteOut
  <2>1. UNCHANGED <<client, request>>
    BY <1>1 DEF Engine, EngineStops, WriteOut, TakeEvent, FinishEvent, CleanupDone, Drain,
                DrainDone, CloseDone, calls
  <2> QED
    BY <1>1, <2>1, EngineType DEF TypeInv, Asked
<1>2. CASE UNCHANGED vars
  BY <1>2 DEF vars, TypeInv, Asked, TypeOK, calls, sources, output
<1> QED
  BY <1>1, <1>2, ClientType, SourceType, MainType DEF Next

\* Every variable of the daemon keeps its type.
THEOREM DaemonTypeCorrect == Spec => []TypeOK
<1>1. Init => TypeInv
  BY DaemonAssumption DEF Init, TypeInv, TypeOK, Asked, Replies
<1>2. TypeInv => TypeOK
  BY DEF TypeInv
<1> QED
  BY <1>1, <1>2, TypeStep, PTL DEF Spec

-----------------------------------------------------------------------------
(* The writer outlives the engine.                                          *)

\* Once done is closed it stays closed, and only then is the writer stopped.
LEMMA WriterStep == TypeInv /\ WriterInv /\ [Next]_vars => WriterInv'
<1> SUFFICES ASSUME TypeInv, WriterInv, [Next]_vars PROVE WriterInv'
  OBVIOUS
<1>1. CASE Engine \/ EngineStops \/ WriteOut
  <2>1. EngineDone => EngineDone'
    BY <1>1 DEF Engine, EngineStops, WriteOut, TakeEvent, FinishEvent, CleanupDone, Drain,
                DrainDone, CloseDone, EngineDone
  <2>2. UNCHANGED <<main, writerCtx, writer>>
    BY <1>1 DEF Engine, EngineStops, WriteOut, TakeEvent, FinishEvent, CleanupDone, Drain,
                DrainDone, CloseDone, output
  <2> QED
    BY <2>1, <2>2 DEF WriterInv
<1>2. ASSUME UNCHANGED <<main, engine, writerCtx, writer>>
      PROVE  WriterInv'
  BY <1>2 DEF WriterInv, EngineDone
<1>3. ASSUME NEW c \in Clients,
             Connect(c) \/ Sending(c) \/ Waiting(c) \/ ServeReturns(c) \/ Disconnect(c)
               \/ \E op \in Calls \cup Casts : Read(c, op)
      PROVE  WriterInv'
  BY <1>2, <1>3 DEF Connect, Sending, SendRequest, SendRefused, Waiting, TakeReply, ReplyRefused,
                    ServeReturns, Disconnect, Read, output
<1>4. CASE WatcherQueries \/ Watching \/ ReaperTicks \/ ReaperSends \/ ReaperReturns
  BY <1>2, <1>4 DEF WatcherQueries, Watching, WatcherSends, WatcherReturns, ReaperTicks,
                    ReaperSends, ReaperReturns, output
<1>5. CASE WriteTTY \/ Signal
  BY <1>2, <1>5 DEF WriteTTY, Signal, output
<1>6. CASE WriterStops
  BY <1>6 DEF WriterStops, WriterInv, EngineDone
<1>7. CASE Main
  BY <1>7 DEF Main, StopAccepting, ServerReturns, StopWriter, RunReturns, EngineJoined,
              WriterInv, EngineDone, output
<1>8. CASE UNCHANGED vars
  BY <1>2, <1>8 DEF vars, output
<1> QED
  BY <1>1, <1>3, <1>4, <1>5, <1>6, <1>7, <1>8 DEF Next, Writer

-----------------------------------------------------------------------------
(* The cleanup is final.                                                    *)

\* A write appended to the queue decides what its client's placement comes to.
LEMMA AppendShows ==
    ASSUME TypeOK, NEW w \in Write, writes' = Append(writes, w), UNCHANGED screen, NEW c \in Clients
    PROVE  WillShow(c)' <=> IF w.client = c THEN w.op = "draw" ELSE WillShow(c)
<1>1. writes \in Seq(Write) /\ Len(writes') = Len(writes) + 1 /\ writes'[Len(writes) + 1] = w
  BY DEF TypeOK
<1>2. \A n \in 1..Len(writes) : writes'[n] = writes[n]
  BY <1>1
<1>3. w.op \in {"draw", "erase"} /\ w = [op |-> w.op, client |-> w.client]
  BY DEF Write
<1>4. CASE w.client = c
  <2>1. ~Untouched(c)'
    BY <1>1, <1>4 DEF Untouched
  <2>2. w.op = "draw" => DrawnLast(c)'
    BY <1>1, <1>3, <1>4 DEF DrawnLast
  <2>3. DrawnLast(c)' => w.op = "draw"
    BY <1>1, <1>2, <1>4 DEF DrawnLast
  <2> QED
    BY <1>4, <2>1, <2>2, <2>3 DEF WillShow
<1>5. CASE w.client # c
  <2>1. Untouched(c)' <=> Untouched(c)
    BY <1>1, <1>2, <1>5 DEF Untouched
  <2>2. DrawnLast(c) => DrawnLast(c)'
    BY <1>1, <1>2, <1>5 DEF DrawnLast
  <2>3. DrawnLast(c)' => DrawnLast(c)
    BY <1>1, <1>2, <1>5 DEF DrawnLast
  <2> QED
    BY <1>5, <2>1, <2>2, <2>3 DEF WillShow
<1> QED
  BY <1>4, <1>5

\* A write that reaches the terminal changes nothing of what it comes to.
LEMMA WritingShows ==
    ASSUME TypeOK, WriteTTY, NEW c \in Clients
    PROVE  WillShow(c)' <=> WillShow(c)
<1> DEFINE w == Head(writes)
<1>1. /\ writes \in Seq(Write) /\ 1 \in 1..Len(writes) /\ w = writes[1] /\ w \in Write
      /\ Len(writes') = Len(writes) - 1
      /\ \A n \in 1..Len(writes') : writes'[n] = writes[n + 1]
  BY DEF TypeOK, WriteTTY
<1>2. w.op \in {"draw", "erase"} /\ w = [op |-> w.op, client |-> w.client]
  BY <1>1 DEF Write
<1>3. w.client # c => (c \in screen' <=> c \in screen)
  BY <1>2 DEF WriteTTY
<1>4. w.client = c => (c \in screen' <=> w.op = "draw")
  BY <1>2 DEF WriteTTY
<1>5. DrawnLast(c)' => DrawnLast(c)
  <2> SUFFICES ASSUME NEW n \in 1..Len(writes'), writes'[n] = [op |-> "draw", client |-> c],
                      \A m \in n + 1..Len(writes') : writes'[m].client # c
               PROVE  DrawnLast(c)
    BY DEF DrawnLast
  <2>1. n + 1 \in 1..Len(writes) /\ writes[n + 1] = [op |-> "draw", client |-> c]
    BY <1>1
  <2>2. ASSUME NEW m \in (n + 1) + 1..Len(writes)
        PROVE  writes[m].client # c
    <3>1. m - 1 \in n + 1..Len(writes') /\ m - 1 \in 1..Len(writes') /\ (m - 1) + 1 = m
      BY <1>1, <2>2
    <3> QED
      BY <1>1, <3>1
  <2> QED
    BY <2>1, <2>2 DEF DrawnLast
<1>6. Untouched(c) <=> w.client # c /\ Untouched(c)'
  <2>1. Untouched(c) => w.client # c /\ Untouched(c)'
    BY <1>1 DEF Untouched
  <2>2. ASSUME w.client # c, Untouched(c)', NEW n \in 1..Len(writes)
        PROVE  writes[n].client # c
    <3>1. CASE n = 1
      BY <1>1, <2>2, <3>1
    <3>2. CASE n # 1
      <4>1. n - 1 \in 1..Len(writes') /\ (n - 1) + 1 = n
        BY <1>1, <3>2
      <4> QED
        BY <1>1, <2>2, <4>1 DEF Untouched
    <3> QED
      BY <3>1, <3>2
  <2> QED
    BY <2>1, <2>2 DEF Untouched
<1>7. DrawnLast(c) => DrawnLast(c)' \/ (w.client = c /\ w.op = "draw" /\ Untouched(c)')
  <2> SUFFICES ASSUME NEW n \in 1..Len(writes), writes[n] = [op |-> "draw", client |-> c],
                      \A m \in n + 1..Len(writes) : writes[m].client # c
               PROVE  DrawnLast(c)' \/ (w.client = c /\ w.op = "draw" /\ Untouched(c)')
    BY DEF DrawnLast
  <2>1. \A m \in n..Len(writes') : writes'[m].client # c
    BY <1>1
  <2>2. CASE n = 1
    BY <1>1, <2>1, <2>2 DEF Untouched
  <2>3. CASE n # 1
    <3>1. n - 1 \in 1..Len(writes') /\ (n - 1) + 1 = n
      BY <1>1, <2>3
    <3> QED
      BY <1>1, <2>1, <3>1 DEF DrawnLast
  <2> QED
    BY <2>2, <2>3
<1>8. w.client = c /\ w.op = "draw" /\ Untouched(c)' => DrawnLast(c)
  <2> SUFFICES ASSUME w.client = c, w.op = "draw", Untouched(c)'
               PROVE  DrawnLast(c)
    OBVIOUS
  <2>1. ASSUME NEW m \in 1 + 1..Len(writes)
        PROVE  writes[m].client # c
    <3>1. m - 1 \in 1..Len(writes') /\ (m - 1) + 1 = m
      BY <1>1, <2>1
    <3> QED
      BY <1>1, <3>1 DEF Untouched
  <2> QED
    BY <1>1, <1>2, <2>1 DEF DrawnLast
<1> QED
  BY <1>3, <1>4, <1>5, <1>6, <1>7, <1>8 DEF WillShow

\* What the engine still has to write and keeps as rendered bounds, in each of
\* its phases, what the terminal will display.
LEMMA PhaseStep == TypeInv /\ PhaseInv /\ [Next]_vars => PhaseInv'
<1> SUFFICES ASSUME TypeInv, PhaseInv, [Next]_vars PROVE PhaseInv'
  OBVIOUS
<1>1. ASSUME UNCHANGED <<writes, screen>>
      PROVE  \A c \in Clients : WillShow(c)' <=> WillShow(c)
  BY <1>1 DEF WillShow, DrawnLast, Untouched
<1>2. ASSUME UNCHANGED <<engine, out, rendered, writes, screen>>
      PROVE  PhaseInv'
  BY <1>1, <1>2 DEF PhaseInv, Erasing, Drawing
<1>3. ASSUME NEW c \in Clients,
             Connect(c) \/ Sending(c) \/ Waiting(c) \/ ServeReturns(c) \/ Disconnect(c)
               \/ \E op \in Calls \cup Casts : Read(c, op)
      PROVE  PhaseInv'
  BY <1>2, <1>3 DEF Connect, Sending, SendRequest, SendRefused, Waiting, TakeReply, ReplyRefused,
                    ServeReturns, Disconnect, Read, output
<1>4. CASE WatcherQueries \/ Watching \/ ReaperTicks \/ ReaperSends \/ ReaperReturns
  BY <1>2, <1>4 DEF WatcherQueries, Watching, WatcherSends, WatcherReturns, ReaperTicks,
                    ReaperSends, ReaperReturns, output
<1>5. CASE WriterStops \/ Signal \/ Main
  BY <1>2, <1>5 DEF WriterStops, Signal, Main, StopAccepting, ServerReturns, StopWriter,
                    RunReturns, output
<1>6. CASE UNCHANGED vars
  BY <1>2, <1>6 DEF vars, output
<1>7. CASE WriteTTY
  <2>1. UNCHANGED <<engine, out, rendered>>
    BY <1>7 DEF WriteTTY
  <2>2. \A c \in Clients : WillShow(c)' <=> WillShow(c)
    BY <1>7, WritingShows DEF TypeInv
  <2> QED
    BY <2>1, <2>2 DEF PhaseInv, Erasing, Drawing
<1>8. CASE WriteOut
  <2>1. PICK w \in out : writes' = Append(writes, w) /\ out' = out \ {w}
    BY <1>8 DEF WriteOut
  <2>2. UNCHANGED <<engine, rendered, screen>> /\ engine \in {"handling", "cleanup"}
    BY <1>8, <2>1 DEF WriteOut, PhaseInv, TypeInv, TypeOK
  <2>3. w \in Write /\ w = [op |-> w.op, client |-> w.client] /\ w.op \in {"draw", "erase"}
    BY <2>1 DEF TypeInv, TypeOK, Write
  <2>4. ASSUME NEW c \in Clients
        PROVE  WillShow(c)' <=> IF w.client = c THEN w.op = "draw" ELSE WillShow(c)
    BY <2>1, <2>2, <2>3, AppendShows DEF TypeInv
  <2>5. ASSUME NEW c \in Clients
        PROVE  /\ Erasing(c)' <=> Erasing(c) /\ w # [op |-> "erase", client |-> c]
               /\ Drawing(c)' => Drawing(c)
    BY <2>1 DEF Erasing, Drawing
  <2>6. ASSUME NEW c \in Clients, w.client = c
        PROVE  (w.op = "draw" => Drawing(c)) /\ (w.op = "erase" => ~WillShow(c)')
    BY <2>1, <2>3, <2>4, <2>6 DEF Drawing
  <2>7. ASSUME NEW c \in Clients, w.client # c
        PROVE  (WillShow(c)' <=> WillShow(c)) /\ (Erasing(c)' <=> Erasing(c))
    BY <2>3, <2>4, <2>5, <2>7
  <2>8. CASE engine = "handling"
    <3>1. ASSUME NEW c \in Clients
          PROVE  /\ WillShow(c)' => c \in rendered \/ Erasing(c)'
                 /\ Drawing(c)' => c \in rendered
      <4>1. CASE w.client = c
        BY <2>3, <2>5, <2>6, <2>8, <4>1 DEF PhaseInv
      <4>2. CASE w.client # c
        BY <2>5, <2>7, <2>8, <4>2 DEF PhaseInv
      <4> QED
        BY <4>1, <4>2
    <3> QED
      BY <2>2, <2>8, <3>1 DEF PhaseInv
  <2>9. CASE engine = "cleanup"
    <3>1. ASSUME NEW c \in Clients
          PROVE  (WillShow(c)' => Erasing(c)') /\ ~Drawing(c)'
      <4>1. CASE w.client = c
        BY <2>3, <2>5, <2>6, <2>9, <4>1 DEF PhaseInv
      <4>2. CASE w.client # c
        BY <2>5, <2>7, <2>9, <4>2 DEF PhaseInv
      <4> QED
        BY <4>1, <4>2
    <3> QED
      BY <2>2, <2>9, <3>1 DEF PhaseInv
  <2> QED
    BY <2>2, <2>8, <2>9
<1>9. CASE TakeEvent
  <2> DEFINE ev == Head(events)
  <2>1. engine = "select" /\ engine' = "handling" /\ UNCHANGED <<writes, screen>>
    BY <1>9 DEF TakeEvent, output
  <2>2. PICK mine : mine = IF ev.op \in {"panes", "expire"} THEN {} ELSE {ev.client} \cap rendered
    OBVIOUS
  <2>3. ASSUME NEW c \in Clients
        PROVE  /\ c \in rendered => c \in rendered' \/ Erasing(c)'
               /\ Drawing(c)' => c \in rendered'
    <3>1. CASE Handling(Draws({ev.client}), {ev.client}, rendered \cup {ev.client})
      BY <3>1 DEF Handling, Draws, Drawing
    <3>2. CASE Handling({}, {ev.client}, rendered) \/ Handling({}, {}, rendered)
      BY <3>2 DEF Handling, Drawing
    <3>3. CASE Handling(Erases(mine), {}, rendered \ mine)
      BY <3>3 DEF Handling, Erases, Erasing, Drawing
    <3>4. CASE Handling(Erases(rendered), {}, {})
      BY <3>4 DEF Handling, Erases, Erasing, Drawing
    <3> QED
      BY <1>9, <2>2, <3>1, <3>2, <3>3, <3>4 DEF TakeEvent
  <2> QED
    BY <1>1, <2>1, <2>3 DEF PhaseInv
<1>10. CASE FinishEvent
  <2>1. UNCHANGED <<out, rendered, writes, screen>> /\ engine = "handling" /\ out = {} /\ engine' = "select"
    BY <1>10 DEF FinishEvent, output
  <2> QED
    BY <1>1, <2>1 DEF PhaseInv, Erasing
<1>11. CASE EngineStops
  <2>1. /\ UNCHANGED <<rendered, writes, screen>> /\ engine = "select"
        /\ out' = Erases(rendered) /\ engine' = "cleanup"
    BY <1>11 DEF EngineStops, CleanupWrites, output
  <2>2. \A c \in Clients : (c \in rendered => Erasing(c)') /\ ~Drawing(c)'
    BY <2>1 DEF Erases, Erasing, Drawing
  <2> QED
    BY <1>1, <2>1, <2>2 DEF PhaseInv
<1>12. CASE CleanupDone \/ Drain \/ DrainDone \/ CloseDone
  <2>1. UNCHANGED <<out, rendered, writes, screen>>
    BY <1>12 DEF CleanupDone, Drain, DrainDone, CloseDone, output
  <2>2. \/ engine = "cleanup" /\ out = {} /\ engine' = "drain"
        \/ engine \in {"drain", "closing"} /\ engine' \in {"drain", "closing", "done"}
    BY <1>12 DEF CleanupDone, Drain, DrainDone, CloseDone
  <2> QED
    BY <1>1, <2>1, <2>2 DEF PhaseInv, Erasing
<1> QED
  BY <1>3, <1>4, <1>5, <1>6, <1>7, <1>8, <1>9, <1>10, <1>11, <1>12 DEF Next, Engine, Writer

\* The inductive invariant of the daemon holds throughout.
THEOREM ShutdownInvariant == Spec => []ShutdownInv
<1>1. Init => ShutdownInv
  <2> SUFFICES ASSUME Init PROVE ShutdownInv
    OBVIOUS
  <2>1. TypeInv
    BY DaemonAssumption DEF Init, TypeInv, TypeOK, Asked, Replies
  <2>2. \A c \in Clients : ~WillShow(c)
    BY DEF Init, WillShow, DrawnLast
  <2> QED
    BY <2>1, <2>2 DEF Init, ShutdownInv, WriterInv, PhaseInv, EngineDone
<1>2. ShutdownInv /\ [Next]_vars => ShutdownInv'
  BY TypeStep, WriterStep, PhaseStep DEF ShutdownInv
<1> QED
  BY <1>1, <1>2, PTL DEF Spec

\* The engine's blocking writes always have a reader: the writer runs, with its
\* context live, until the engine is done.
THEOREM WriterIsThere == Spec => []WriterOutlivesEngine
<1>1. ShutdownInv => WriterOutlivesEngine
  BY DEF ShutdownInv, WriterInv, WriterOutlivesEngine, TypeInv, TypeOK
<1> QED
  BY <1>1, ShutdownInvariant, PTL

\* After the cleanup no event, wherever it was, puts a placement on the terminal.
THEOREM NothingComesBack == Spec => []CleanupIsFinal
<1>1. ShutdownInv => CleanupIsFinal
  BY DEF ShutdownInv, PhaseInv, CleanupIsFinal
<1> QED
  BY <1>1, ShutdownInvariant, PTL
=============================================================================
