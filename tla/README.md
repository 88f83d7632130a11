# kgd: a TLA+ verification project

kgd (the "kitty graphics daemon") is a Go daemon that owns the graphics output
of one terminal. Clients connect over a Unix socket, upload images and place
them relative to the screen, to a tmux pane or to a neovim window. kgd resolves
each placement to a screen position, draws it with kitty graphics escapes, and
redraws it whenever a pane, a window or the terminal changes.

The modules here model the daemon's own logic, the calls of the eleven client
libraries that come with it, and one of these libraries completely: the C client
with the MessagePack reader and writer it is built with, from a call's arguments
to the bytes and back. `PROJECT.json` names, for every definition that stands
for code, the source lines it is translated from.

## 1. Inventory

### The parts

| part | source | state | operations |
|---|---|---|---|
| placement engine | `internal/engine/engine.go` | placements, handles per client, panes, windows, terminal size, colours | one handler per event, `recomputePlacements`, `cleanupRenderedPlacements`, `drain` |
| position resolution | `internal/engine/placement.go` | none (a pure function) | `ScreenPos` |
| upload cache | `internal/upload/cache.go` | hash → entry, id → entry, LRU list, reference counts | `Lookup`, `Store`, `Release` |
| image ids | `internal/allocator/id.go` | next id | `Next` |
| RPC server | `internal/rpc/server.go` | client id → connection, session id → session | accept, register session, take over, remove, reap, notify |
| RPC connection | `internal/rpc/client.go`, `dispatch.go` | id, session id, shared encoder | serve, dispatch, `sendEvent`, `sendAndWait`, notifications |
| daemon | `internal/daemon/daemon.go`, `internal/cli/serve.go` | two contexts, two wait groups, the socket file | start, shutdown order, `checkSocket` |
| graphics backend | `internal/graphics/tty.go`, `internal/kitty/kitty.go` | batch buffer | transmit, place, delete, batch |
| TTY writer | `internal/tty/tty.go`, `colors.go` | write, size and colour channels | write, SIGWINCH, colour query |
| tmux watcher | `internal/topology/tmux.go` | debounce timer | query, control mode, polling |
| socket path, launch | `pkg/kgdsocket/socket.go` | none | `DefaultPath`, `EnsureDaemon` |
| command line | `internal/cli`, `cmd/kgd` | none | connect, one call, print |
| clients | `pkg/kgdclient`, `clients/*` (C, .NET, JVM, Lua, Node.js, OCaml, Python, Rust, Swift, Zig) | pending calls, callbacks, pushed state | connect, call, notify, read loop |
| C client | `clients/c/kgd.c`, `kgd.h` | slots and their mutexes, write lock, receive buffer, response buffers, callbacks, thread-local error text | connect, call, notify, read loop, `process_message`, close |
| MessagePack library of the C client | `clients/c/mpack.c`, `mpack.h` | a writer with its builder, a reader with its buffer, a tracking stack for each | write, build, flush, destroy; fill, read, skip, discard, expect |
| neovim plugin | `nvim/` | its own pipe and pending calls, registered windows | connect, register windows, report scrolling |

### How they interact

    clients --socket--> connection goroutines --Events(256)--> engine --Writes(256)--> TTY writer --> terminal
                        tmux watcher, reaper  --Events------->   |   <---Size(4), Colors(2)---
    clients <--socket-- notifications written by the engine -----+

    C client:  callers --slots, write lock--> frames --socket--> daemon
               callers <--slots-- reader thread <--recv_buf-- socket
               request = mpack writer over a growing buffer; reply = mpack reader over its bytes

Everything the engine owns is touched by its goroutine only; the other
goroutines talk to it through `Engine.Events` and wait for answers on a reply
channel per call, or for `Engine.done`. The server's two maps are shared
between the connections' goroutines, the reaper and the engine (which looks
connections up to notify them) under `Server.mu`. `Daemon.Run` joins them in a
fixed order: server, engine and watcher, writer.

### What is hard, and what makes each part correct

* **Engine, cache, terminal.** State is spread over the handle maps of all
  clients, the three indexes of the cache, and the terminal, which the engine
  cannot read back. Correct: reference counts equal handles, a handle's image
  is never evicted, the terminal stores what the cache holds, the screen shows
  what the engine thinks it shows, nothing of one client disturbs another.
* **Topology.** Positions are cached in placements and must follow panes,
  windows, scrolling and resizes in any order. Correct: recorded positions are
  those of the present topology, visibility notices are up to date, a placement
  is displayed exactly while the cell its anchor names is on show.
* **Sessions.** A connection changes its id while others look it up under it,
  and the session, its connections and the engine's state for it have separate
  lives. Correct: the map stays keyed by id, sessions never mix, a live session
  keeps its state, what nobody can reach again is dropped.
* **Shutdown.** Bounded channels in both directions, blocking sends, joins.
  Correct: nobody waits for ever, nothing is drawn after the cleanup.
* **Notifications** (not modelled, see 6). The engine writes to client sockets
  itself, and replies and broadcasts travel through different goroutines.
* **tmux watcher** (not modelled). Overlapping queries, missed and failed ones.
* **Start-up** (not modelled). Two daemons, one path.
* **Clients.** Callers, a reader and timeouts share a table; the reader also runs
  the callbacks, and either end may close. Correct: a call reports the answer to
  its own request, an answer that arrived is not reported as a loss, every call
  returns, the table is empty when nobody calls.
* **C client.** The same with threads and memory: writes and reads cut frames
  anywhere, a slot is left outside its mutex, buffers pass from the reader to a
  caller, and `kgd_close` ends all of it. Correct: the daemon receives whole
  frames, each buffer has one owner, each message is handled once and in order,
  and the whole is no more than calls that take a slot, end once, and end with an
  answer only if one was given.
* **MessagePack.** The writer builds maps of unknown size in pages and copies
  them later, and each allocation may fail; the reader refills its buffer in
  the middle of anything. Correct: what is handed over is the message, no page
  leaks and nothing is written past one, what is read is the stream, a number is what was written.
  (Two cases the code gets wrong are named in 3.)

`PROJECT.json` lists the individual hazards, each at its line, with the property
that covers it or the reason none does.

## 2. Modules

| module | models | proofs |
|---|---|---|
| `ScreenPos` | `Placement.ScreenPos`, a pure operator `Resolve` | (in `EngineProofs`) |
| `UploadCache` | the cache, as operators on a cache value | (in `EngineProofs`) |
| `Engine` | the placement engine with the terminal it drives; extends the two above | `EngineProofs` |
| `Sessions` | connections, sessions, takeover, reaper | `SessionsProofs` |
| `Daemon` | goroutines, channels, contexts, shutdown | `DaemonProofs` |
| `Client` | the calls of a client library, with the library's decisions as a parameter | `ClientProofs` |
| `ClientLibraries` | the decisions of each of the eleven libraries | |
| `CClient` | the C client: threads, reader, slots, locks, frames, heap | `CClientProofs` |
| `Calls` | what its calls promise; `CClient` implements it (`RefinesCalls`) | (in `CClientProofs`) |
| `MpackTrack` | element tracking, as operators on a stack | |
| `MpackWriter` | the MessagePack writer and its builder; extends `MpackTrack` | `MpackWriterProofs` |
| `CRequests` | the requests `kgd.c` writes, composed with `MpackWriter` | (in `MpackWriterProofs`) |
| `MpackCodec` | the forms of values: which are written, which are accepted | |
| `MpackValues` | one value written by one side and read by the other, over `MpackCodec` | `MpackValuesProofs` |
| `MpackText` | the UTF-8 check | (in `MpackValuesProofs`) |
| `MpackReader` | the reader's buffer, fill and skip, `mpack_read_*`, `mpack_discard` | (in `MpackReaderProofs`) |
| `MpackExpect` | `mpack_expect_*` and a caller that may use all of them | (in `MpackReaderProofs`) |
| `CReplies` | framing, `process_message` and the parsing of results, composed with `MpackExpect` | `MpackReaderProofs` |
| `EngineMC`, `SessionsMC`, `DaemonMC`, `ClientMC`, `CClientMC`, `CRequestsMC`, `MpackValuesMC`, `CRepliesMC` | values for TLC | |

### Engine, ScreenPos, UploadCache

One action is one handler of `Engine.handle`, run to completion: only the
engine goroutine touches this state, so a handler is atomic. The escape
sequences a handler sends are applied to the model's terminal (`termImages`:
image ids whose data it stores; `screen`: placements it displays) in the same
step; that they queue in a channel in between is the subject of `Daemon`.

| code | model |
|---|---|
| `e.placements` | `placements`, id → record with owner, handle, image, anchor, position, visible, rendered |
| `e.clientImages` (map of maps) | `images`, ⟨client, handle⟩ → image id |
| `upload.Cache` | `cache`, a record of `byHash`, `byID`, `lru` |
| `e.panes`, `e.wins`, `e.termSize` | `panes`, `wins`, `termSize` |
| `allocator.next`, `e.nextPlacement` | `nextImage`, `nextPlacement` |
| the last `visibility_changed` per placement | `told` |
| `handlePlace` … `handleUpdatePanes` | `Place` … `UpdatePanes`, each with its trailing recomputation |
| `handleUpload` | `UploadHit`, `UploadMiss`; the eviction loop is `EvictsExactly(c, n)`: n is the number of entries it removes |
| `Run`, `writer.Size` | `Resize` |
| `Run` returns | `Stop` = `cleanupRenderedPlacements` |

`handleList`, `handleStatus` and `handleHello` only read. A request the engine
answers with an error, or ignores, is a stuttering step. The loop over a Go map
in `recomputePlacements` visits placements in any order; they do not influence
each other, so the model treats them at once. `Draw` follows the serializer: a
negative row or column produces no sequence, and the terminal refuses to place
an image it does not store. `ScreenPos` looks at one cell, the upper left of the
image, and never at the image's width and height, so neither does the model: an
image whose cell is in its pane may cover the pane's neighbour. `Release` can never
find a count of zero, which `ReferencesAreHandles` proves; the comparison of the code is
kept (`refs <= 0`).

### Sessions

Each section under `Server.mu` is one action, since everything in it is
invisible to the others until the unlock. `RegisterSession` and
`updateClientID`, two sections of one hello, are two actions with other
goroutines in between; so are `removeClient` and the rest of `handleClient`'s
deferred function, and the reaper's collection and each of its
`ClientDisconnected` calls. `wire[k]` says that the socket is open: the peer
(`HangUp`) or a takeover closes it. Requests read before the close can still be
dispatched after it, because the decoder is buffered. `lastSeen` is reduced to
"idle for longer than the timeout or not". Of the engine, only the set of
client ids it keeps something for (`owned`) remains.

### Daemon

A `select` is the disjunction of the actions of its cases: `SendRequest` and
`SendRefused` are the first select of `sendAndWait`, `TakeReply` and
`ReplyRefused` the second. A blocked send is an action that is not enabled. The
engine's handlers are cut into steps here: `TakeEvent` computes the writes a
handler makes (`out`), `WriteOut` sends them one by one into the bounded
`writes`, `FinishEvent` replies. A client has at most one placement, and only
the draw and erase commands of images are kept: the image data and the frees
travel through the same channel and add nothing to the order of events.
`drain` and `close(e.done)` are separate steps, as they are in `Engine.Run`.

### Client, ClientLibraries

The libraries are one design: a call takes a message id, enters a table, writes
its request and waits; a reader matches responses to the table and runs
notification callbacks; when the connection ends the reader wakes everybody.
They differ in decisions, and `Profile` names these. A step is a section between
two points where another thread, task or coroutine can run.

A write to a full socket waits, under the write lock and before the timeout of its
call starts (kgd.c:849, client.py:368, client.go:300): `Send` of this call and of
every other is then not enabled until the daemon reads, the daemon's end closes, or
`close` is called here (`WriteFails`). The profile's `write` says what differs: in
Swift the waiting write also holds the actor that new calls and the reader run on
(`Stalled`); Lua gives up a write of which nothing is taken in ten seconds; Node.js
buffers and never waits.

| code | model |
|---|---|
| `pending`, `_pending`, `_events`, … | `pending`, key → caller; the key is the id, or `id % slots` |
| a `Future`, channel, promise, condition of a call | `reply`, `replyTo` of its caller |
| a call up to its write; the write; waking up; the timeout | `Register`; `Send`; `Return`; `Expire` |
| the socket to the daemon, full while the daemon does not read | `requests`, at most `Room`; `Unread` |
| the read loop | `Receive`, `Callback`, `CallbackReturns`, `CallbackRaises`, `ReaderEnds`, `ReaderCancelled` |
| `close`, `Dispose`, `disconnect` | `Close` |
| the daemon (`Client.Serve`) | `Answer` in order, `Notify`, `PeerCloses` |
| what the call returned to the application | `outcome`, `source` (whose response it was) |

`ClientLibraries` has one profile per library, a few words from `Common`:

* **Go** waits on the caller's context, the reader's `done` channel and the
  reply at once, so a call that is answered as the connection ends may report
  either. It has no timeout of its own.
* **Python** and **OCaml** look at "closed" before the result. Python stores
  every response before it looks for a waiter, and so keeps late ones. OCaml's
  reader survives only the exceptions it names.
* **Rust** removes an entry when it is answered, and only then: a timeout or a
  failed write leaves it. A panic in a callback ends the reader silently.
* **Node.js** has one thread; a call is registered and written in one turn.
* **Lua** polls while it waits, callbacks run inside calls and may call. A read
  that meets the end drops what it read with it, and a callback that raises ends
  the call that was polling.
* **JVM** cancels its reader in `close`; a cancelled coroutine may not get the
  lock of the table, and then wakes nobody.
* **.NET** reports the loss of the connection as a timeout.
* **Swift** has a timeout whose task group waits for the continuation, so the
  call returns only when the reader resumes it.
* **C** and **Zig** have 64 slots keyed by `id % 64`, and fail a call whose slot is
  in use. A call woken by the end of the connection finds no error and no data,
  and reports success (client.zig:650, kgd.c:1250). `Close` waits here until no call
  is in progress; `CClient` has the close that does not.

Left out: encoding, connecting and launching the daemon, SIGPIPE, futures that
are dropped before they complete, spurious wake-ups, more than one callback
at a time (`inCallback` is one caller), and notifications to the daemon, which wait at
the same lock. In Python, OCaml and Swift `close` does not wake a write it finds
waiting, which the model lets it do; a Lua write of which a part was taken goes
on without end. For C, `CClient` goes further.

### CClient, Calls

| code | model |
|---|---|
| `pending[64]`: active, done, has_error, data | `slot`, with `from`: whose response it has |
| `write_lock`, `recv_buf`, `recv_cap`, `closed`, `next_id` | `lock`, `recv`, `capacity`, `client`, `nextId` |
| the two directions of the socket | `toDaemon`, `fromDaemon`, sequences of frame parts |
| `tls_error` | `lastError`, per thread: the call it is about |
| blocks from `malloc` for responses | `live`, `twice` |
| socket, memory and thread of `kgd_connect` | `held` |
| `kgd_connect` | `OpenSocket`, `Connect`, `StartReader`, `Refused`, then a call (the hello) |
| a call: id and request; `do_call` up to the unlock; `send_all`; the wait | `Encode`, `EncodingFails`; `Claim`; `WriteLock`, `Write`, `WriteFails`, `Unsent`; `ReturnResult`, `ReturnError`, `ReturnClosed`, `Leave`, `Expire` |
| `kgd_unplace_all` and the other notifications | `EncodeOneway`, then the same writes |
| `reader_thread`, `process_message` | `Read`, `ReadIsLost`, `Misread`, `Respond`, `Ignore`, `Notified`, `CallbackReturns`, `ReaderStops`, `Wake` |
| `kgd_close` | `Close`, `Free` |
| the daemon | `Serve`, `ServeOneway`, `Notify`, `PeerCloses` |

A critical section of a slot's mutex is one step. What the code does outside
the mutex is a step of its own: an error response and the end of the connection
leave the mutex before they free the slot (`Leave`). The write lock is held over
several writes, so it is a variable and others meet it taken. Faults
(`Fault`: connect, encode, write interrupted, read interrupted, malformed
response, malloc, realloc) happen at most `MaxFaults` times in a run, at any moment.
When `recv_buf` cannot grow, or its size would overflow, what it held and what was
read are dropped (`ReadIsLost`), and the next read may begin inside a frame. There
the decoder finds a value of some length and `process_message` returns early
(`Misread` drops any number of parts), or an incomplete one, and waits.

`kgd_close` may be called by any thread of the application at any moment, calls of
other threads on their way or not: it joins the reader and nobody else, and `Free`
then destroys the mutexes and frees. What such a call does with the memory that is
gone is undefined; it stays where it is. `Callers` only bounds who makes calls; the
other threads of `Threads` may close.

`Calls` has neither threads nor bytes: a call takes a free slot, ends once, and
ends with an answer only if the daemon answered a call of that slot, each answer
ending one call at most. The refinement mapping computes a call's phase from
its thread's place and what it returned, and takes "ended" from the reader.

### MpackTrack, MpackWriter, CRequests

The record `w` is the `mpack_writer_t` with its builder. A byte knows which
thing written it belongs to and its place in it, so a byte lost, doubled or put
in the wrong place makes another message. A call of the writer is one action;
`mpack_builder_resolve`, which walks pages while it frees them, takes one turn
of its loops at a time (`ResolveTag`, `ResolveCopy`, `ResolveNext`).

| code | model |
|---|---|
| buffer, size, error | `w.buffer`, `w.size`, `w.error` |
| pages, the page written to, the open and the latest build | `w.pages`, `w.page`, `w.live`, `w.builds`, `w.build`, `w.latest` |
| growable, fixed and file writers; their flush and teardown | `w.sink`; `Grow`, `WriteToFile`, `Flush`, `Destroyed` |
| the tracking stack, doubled when it is full | `w.track`, `w.capacity`, from `TrackCapacity`; `InitWriter`, `TrackPush` |
| `malloc`, `realloc`, the tracking stack's included | the k-th allocation of a run fails if k is in `failing` |
| `mpack_write_*`, `_start_*`, `_finish_*`, `_build_*`, `_complete_*`, `_writer_flush_message`, `_writer_destroy` | `WriteScalar`, `StartContainer`, `FinishContainer`, `BuildContainer`, `CompleteNested`, `CompleteOutermost`, `CompleteMisused`, `FlushMessage`, `Destroy` |

`SizesAssumption` has the relations of the sizes that the code relies on: the
page of `mpack_builder_check_sizes`; `Alignment <= MinBuffer <= BuildSize` (8, 32
and 32 bytes where a pointer has 8), of which nothing in the code asks for the second,
although `mpack_builder_resolve` looks for the next header by what is left of a page
(mpack.c:2705) and would stop a page early without it; and that a tag, or a short
string with its tag, fits the minimum buffer.

Tracking is part of a debug build (mpack.h:734). The release build that CMake makes has
none; as the requests of `kgd.c` never misuse the writer, they do the same there, and have
fewer allocations to fail. A failing `mpack_assert` ends a debug build and is undefined in a
release build; the model goes on with the code behind it, and section 3 has the two
assertions that a failed allocation contradicts.

The caller of `MpackWriter` may call anything in any order, legal or not.
`CRequests` composes it with the writer's real callers: each function of `kgd.c`
is a program, the sequence of writer calls it makes with the options given, with
`kgd_place`'s nested optional maps as the richest. `WrittenSizesAssumption`: the
tag of what they write, a short string or an integer with its data, fits the minimum buffer.

### MpackCodec, MpackValues, MpackText

`MpackCodec` is pure: `EncodeInt`, `EncodeStr`, … choose a form (a code, a
width, the stored number), `Parse` reads one, `Expect…` accepts or refuses. How
many numbers half a width has is a constant (`Half`: 2^7, 2^15, 2^31, 2^63), so
small widths have the same boundaries as 8 to 64 bits: fixint, sign, each width's
end, truncation modulo 2^w.
`MpackValues` sends one value through it: written by this library or by another
encoder, which may choose any form that holds the value
(`vmihailenco/msgpack` in the daemon), then read by any expect function.
`MpackText` is the loop of `mpack_utf8_check_impl`, compared with the table of
the Unicode standard: a string is well formed if it can be cut, at some set of
places, into sequences of the table.

### MpackReader, MpackExpect, CReplies

The record `r` is the `mpack_reader_t`; the functions are operators that give
the reader afterwards and the value. The source is memory, a fill function that
gives a few bytes at a time, or a file, seekable or not, that may end anywhere;
`malloc` may refuse, as may the `realloc` of a full tracking stack (`starved`,
`CannotTrack`). In `MpackExpect` a caller uses all functions in
any order the tracking allows. `CReplies` is the reader's real caller, built
without tracking: received bytes in pieces (`Receive`, `Frame`),
`process_message` step by step (`ProcessArray` … `ProcessResult`,
`ProcessMethod` … `CallBack`), and the loops over the fields of a result or a
notification, one key per step (`ReadField`, `SkipField`, `OpenEntries`,
`NextEntry`, `OpenColor`). Most of the functions clear what they fill in; `kgd_upload`
and `kgd_place` do not, and their out parameter begins as "unwritten"
(`LeftByCaller`). The harness of `fuzz_msgpack.c`, which gives
`process_message` any bytes, is the driver "fuzz".

## 3. Runs

Passing runs:

| run | instance | distinct states | question |
|---|---|---|---|
| `engine_images` | 2 clients, 3 data, cache of 2, 3 uploads, 2 placements, 2 handles per client | 332 000 | reference counts, evictions, terminal memory, the screen |
| `engine_topology` | 2 clients, 1 image, 2 placements at 6 anchors, a pane in 4 states, a window in and outside tmux, 2 scroll positions, 2 sizes | 236 000 | positions, visibility, clipping, notices |
| `sessions` | 2 connections, 2 sessions, event queue of 2 | 59 000 | registry, takeover, reaping, reclaiming |
| `daemon` | 2 connections with 1 request each, 1 tick, both channels of capacity 1 | 471 000 | shutdown at any moment |
| `client` | all libraries; 2 callers, 3 calls, 1 notification, 1 or 2 slots, a socket of 2 requests | 495 000 | answers, losses, timeouts and callbacks of calls |
| `c_client` | a thread that calls, the reader's callbacks and a thread that may close, 1 slot, 3 calls, 1 notification each way, frames of 2 parts, 1 fault | 1 619 000 | frames, buffers, order, the end, and that the calls implement `Calls` |
| `mpack_writer` | every request of `kgd.c` with 1 + 2^6 sets of options; any caller of up to 4 things; 3 sinks; a tracking stack of 2; one of the first 8 allocations fails, or none | 2 088 000 | messages, memory, tracking |
| `mpack_values` | widths of 3, 4, 5 and 6 bits, every value, form and expect function; strings of up to 4 bytes at the class boundaries | 248 000 | numbers, tags and text |
| `mpack_reader` | 6 streams for any caller, 18 kinds of source ending anywhere; the daemon's messages of each kind, cut by reads of 5 and 80 bytes | 354 000 | bytes, framing, fields |

Why these bounds are enough to be interesting. *Images:* three data over a
cache of two forces evictions and re-uploads; two clients with two handles
share images, hold several handles on one image, and free them in any order.
Two placements let one placement of an image survive another. *Topology:* the
anchors are chosen so that each becomes visible, hidden and moved: the absolute
one falls off a 1 × 2 screen, those of the pane stand in it, one row below it and one
column left of it, those of the window on a line that is scrolled out and in, one of
them a column left of the window. So the left, right and lower borders each have a
cell on them and one beyond.
Client ids and image contents are interchangeable
(symmetry), as no property or handler treats them apart. *Sessions:* two
connections suffice for a takeover with both ends interleaved; two sessions
suffice to mix them up. *Daemon:* capacity 1 makes every blocking send block;
in the code the capacity is 256 and the same waits need longer bursts. *Client:*
three calls over one or two slots let a slot be taken again after a timeout,
and once more after the call that took another's answer; one notification lets
a callback block the reader, call, raise, or outlive the connection; of three calls
the third finds a socket of two requests full, if the daemon has read none.
*C client:* with the thread in a call and the reader in a callback that calls,
two callers meet in the one slot and at the write lock, and the second thread closes
and frees around both; three calls let a
response reach a slot that was taken again; frames of two parts in a socket of
three, a buffer that begins with four parts and has to grow, and reads of up to four
parts cut frames in every way; one fault at any moment.
*Writer:* pages of 14 bytes with headers of 2 and builds of 4 are left after
three or four things, so messages of `kgd_place` take several pages and builds
begin at, before and after a page's end; a buffer of 4 grows several times; the
first eight allocations are those of the buffer, the tracking stack and its growth
(a stack of 2 doubles at the third open container), the pages and the buffer's growth.
*Values:* any value of 8 to 64 bits stands at, next to or between boundaries,
and so does one of 3 to 6. *Reader:* buffers of 5 and 8 bytes refill inside tags,
texts and skips; messages have each field alone, each two, all, doubled,
unknown, or of a wrong type.

Deadlock is not checked where the system stops: after `Stop` in the engine, at
exit in the daemon, in `Sessions` when every connection has ended, in
`Client` and `CClient` when the calls are spent and the connection is closed, and
in the MessagePack modules when the message is done.

Violation runs. Each shows a sentence of the repository to which the code has a
counterexample:

| run | sentence | what happens |
|---|---|---|
| `sessions_broadcast` | server.go:211, notifies all connected clients | after a takeover, the evicted connection's `removeClient` deletes the entry of its successor (server.go:130) |
| `daemon_writer_drain` | daemon.go:113, the writer has drained the cleanup | the writer's `select` may choose the cancelled context over queued deletes (tty.go:146) |
| `c_ok_without_answer` | kgd.h:121, upload returns a handle | a call woken by the end of the connection returns `KGD_OK` with nothing (kgd.c:1250) |

### Known disagreements

More sentences of the repository have counterexamples. Each is a definition in
its module, and TLC refutes it when it is added to the configuration named:

| definition | configuration | sentence | what happens |
|---|---|---|---|
| `Engine.EveryPositionCurrent` | `EngineTopology.cfg` | SPEC.md:638, every event recomputes affected placements | a disconnect deletes the client's windows and leaves other clients' placements in them drawn (engine.go:374) |
| `Engine.PlacedImagesAreCached` | `EngineImages.cfg` | SPEC.md:707, images with active placements are not evicted | `free` releases the image of a live placement, the next upload evicts it (engine.go:314) |
| `Engine.StopFreesEveryImage` | `EngineImages.cfg` | engine.go:426, frees all uploaded images | images without a handle are still cached and are not freed (engine.go:442) |
| `Sessions.ReapsNoConnectedClient` (a PROPERTY) | `SessionsRegistry.cfg` | server.go:155, reaps sessions that have been idle | `lastSeen` is not refreshed by requests; a busy client's state is dropped after five minutes (server.go:169) |
| `Client.AnswersMatch` | `ClientCalls.cfg` | client.zig:583, waits for the matching response | the late answer to a call that timed out is given to the call that has taken its slot, whose own answer goes to the next (client.zig:760, kgd.c:1000) |
| `CClient.LastErrorIsMine` | `CClient.cfg` | kgd.h:114, call `kgd_last_error` for details | the text of an error response is written to the reader's own thread-local buffer (kgd.c:969); the caller finds an older one or none |

Four more show as the exceptions of a property of a passing run; without the exception
TLC refutes it:

| exception | in | sentence | what happens |
|---|---|---|---|
| `Freed` | `CClient`'s `MemoryIsOwned`, `CallsReturn` | kgd.h:4, all functions are thread-safe except where noted, and nothing is noted at `kgd_close` (kgd.h:160) | `kgd_close` joins only the reader and frees the client under the calls of other threads (kgd.c:814-822) |
| `Uncleared` | `CReplies`' `FieldsAreSent` | kgd.h:121, upload returns a handle via `out_handle`; place returns an id likewise | a result without the key gives `KGD_OK` and leaves the caller's memory unwritten (kgd.c:292-300, 425-433) |
| `HeaderPastPage` | `MpackWriter`'s `InsideMemory` | mpack.c:2560, asserts that the build's header fits its page | `mpack_builder_build` does not look whether it got another page (mpack.c:2546-2552); with no memory for one, the header is written past the end of the full page |
| `FirstPageForgotten` | `MpackWriter`'s `NoPageLeaks` | mpack.c:2492, asserts that a builder begins on a writer without an error | `mpack_builder_build` goes on after tracking has flagged one (mpack.c:2529-2540), and the first page it then allocates is freed by nobody |

The properties of the passing runs are stated so as to say what does hold
around the others: `PositionsCurrent` excepts windows that are gone,
`RenderedIsShown` speaks of images the terminal still stores,
`CleanupIsFinal` of what the queued writes will have made of the screen,
and `AnswerIsMine` allows a library with slots the answer to an earlier call of
the slot that missed it. `EveryDispatchReturns` holds although an event sent
after `drain`'s last look stays in the channel: its sender returns through
`Done`. `AnswerBeatsTheEnd` is about the libraries that read to the end of the
stream and prefer the answer; Go, Python, OCaml and Lua decide otherwise.
In `CClient`, `FramesWhole` and `WokenAtTheEnd` except interrupted system calls,
`BuffersHaveOneOwner` a response that overtakes a caller, `EveryMessageHandled` a
`recv_buf` that could not grow, and `CallsReturn` (as in `Client`) a
daemon that leaves the socket full for ever; section 6 says what happens then.
`TakesOneValue` excepts a seek past the end of a file.

Several properties are conjunctions of named parts, which can be checked one by
one: `CountsAgree`, `ClientsAreLive`, `MemoryIsOwned`, `InsideMemory`,
`Understood`, `EncodesFaithfully`, `DeliversTheStream`, `TakesOneValue` and
`HandledInOrder`.

## 4. Fairness

`Engine` has no liveness property: its handlers terminate and it serves whatever
arrives.

`Sessions`: weak fairness of the reaper (a ticker) and the engine (its loop
always takes an event), strong fairness of each connection's goroutine and of
the reaper's sends, because these can block on a full channel again and again
and Go serves blocked senders in order. Nothing obliges a peer to connect, to
send, or to hang up, and time need not pass.

`Daemon`: weak fairness of the disjunction of all goroutines' steps, which only
says that the process is not suspended. It leaves the choice among ready
goroutines entirely open. It is enough because every cycle of the system goes
through a new request or tick, and these are bounded in the model. Requests,
connections, ticks and the signal are not fair. A connection's read does return
once the context is cancelled, as `Serve` closes the socket then.

`Client`: weak fairness of each caller's own steps and of the return from a
callback, that is, threads are scheduled and callbacks terminate. Neither the
daemon nor the reader is fair: `CallsReturn` says that calls return although the
daemon is silent or the reader is blocked. It excepts the libraries whose
timeout does not return by itself (Go, Swift) while the reader has not ended, and a
daemon that stays connected and leaves the socket full: the write has no timeout
(kgd.c:849, client.py:368, client.go:300).

`CClient`: weak fairness of each thread's own steps and of the reader thread,
which includes that callbacks return. That they run is all it says: which of two
waiting threads gets a lock stays open. Neither the application nor the daemon
owes anything, so `CallsReturn` has to except a daemon that leaves the socket
full, and a call under which another thread has freed the client.
A call whose slot is free of an answer returns by `Expire`.

The MessagePack modules and `Calls` have no fairness. That the writer's walk over
its pages ends follows from its safety: each turn consumes a build or a page,
and `WalkFindsHeaders` says that it is never lost.

## 5. Proofs

All theorems hold for every value of the constants that satisfies the named
assumptions: any number of clients, images, panes, connections, sessions,
callers and threads, any capacities and bounds. The assumptions only give types to the inputs
(`InputsAssumption`, `NoPaneAssumption`), make bounds natural numbers and
capacities positive (`TrackAssumption` that of the tracking stack; `CClientAssumption` also
sets the reader apart from the application's threads; `SizesAssumption` and `WidthsAssumption` relate sizes; `ReadersAssumption`
says that a reader's buffer is not empty and holds what is preloaded). `EngineProofs` needs no finiteness of the clients:
`TypeOK` states that the set of handles held at any time is finite.

* **`EngineProofs`** begins with the cache: its operators preserve type and coherence.
  `StoreMiss` is the one with substance: after n entries leave the back of the
  list and one enters at the front, the three indexes still describe one set.
  Then the engine. `CountsAlwaysAgree` is the run's `CountsAgree`. `CacheInv` joins coherence, "references = handles",
  "handles name cached images" and "the terminal stores the cached images", and
  the bound of ids by `nextImage`: each alone is not inductive. That an evicted
  image has no handle needs the reference counts; that the counts stay right
  through an eviction needs that evicted images have no handles; that a new
  entry starts with the right count needs that the new id is unused. The
  counting lemmas (`HandlesOfFinite`, `ReleaseCounts`, `HandleAdded`) rest on
  the library's cardinality theorems. `ScreenInv` joins `NoGhosts` with
  "placement ids are at most `nextPlacement`" (a new placement cannot adopt a
  leftover) and with the empty screen after `Stop`. The properties of positions
  and of the screen are proved over a few kinds of steps (`StepKinds`: a placement
  is made, some are removed, everything is recomputed, an image is stored, the
  engine stops, or nothing of this happens). `TopologyInv`
  joins "rendered = visible" with `PositionsCurrent` and `ToldIsCurrent`: a
  recompute renders and tells by comparing with the old visibility, so each needs
  the others to be right before. `PlacementsShowWhereAnchored` follows from it and
  `ScreenInv`: what is on the screen is exactly what a cell of its pane or window names,
  a cell given by the borders and not by the code's comparisons (`CellNamed`).
  `ShownInv` adds that the image of a placement has an id that was
  given out, so that a new image cannot be taken for that of an old placement;
  the lemmas about `Display` and `Showable` say which orders a recompute gives the
  terminal. `NoClientPaysForAnother` needs `CacheInv`: an eviction takes nobody's
  handle because the evicted image has none.
* **`SessionsProofs`**. `MapIsLive` is the run's `ClientsAreLive`. `RegistryInv`: the map is keyed by id and holds only
  connections inside their loop. A connection deletes *some* entry under its id
  when it leaves; the invariant shows that if that entry is its own it is gone
  for good, and if it is a successor's the key invariant survives (what is lost
  is registration, see `sessions_broadcast`). `SessionInv` adds that a
  connection has its own uuid until it joins (`BeforeHello`), that the id it has
  afterwards is the uuid of a connection of its session (`IdOfItsSession`), that
  a session's client id is the uuid of a connection that gave its session id
  (`SessionCreated`), and that a disconnect on its way, in `events` or in
  `expired`, names neither the id of a live session nor one a session could
  still be created with (`DoomedIsOver`). From the last, `SessionKeepsItsState`.
* **`DaemonProofs`**. `ShutdownInv`: the writer's context is cancelled only
  once the engine is done and the writer stops only then (`WriterInv`), and
  from `drain` on nothing is left to write and the last write queued for each
  client is an erase, or it has none and is not on screen (`PhaseInv`). The
  core is how appending to and consuming from `writes` changes what the screen
  *will* show (`AppendShows`, `WritingShows`).

* **`ClientProofs`** holds for every profile at once, with two assumptions about
  profiles (`ClientAssumption`): in a library with slots the caller frees its slot
  and nobody else does, and no late response is kept; where a callback raises in
  the caller that polls, what was read with it is lost, so such a library neither
  reads to the end nor keeps responses. `TableInv`: two calls in progress have different
  ids, and while the reader runs, a call without a reply is in the table; for
  this the id of a call must be one that was given out (`TypeInv`). `EndInv`
  carries it over the end: everybody in the table is woken, and who was not yet
  waiting meets a closed socket. Hence `NobodyIsForgotten`. For
  `AnswersAreMine`, a request is sent once and answered once (`OnceInv`), what a
  call reports is recorded once (`OutcomeInv`), and what a caller was given is
  its own or a missed one (`AnswerInv`). With slots the last needs `SlotInv`: a
  slot belongs to the latest call of its residue that was let in (`Latest`), and
  a response on its way is to a call that waits for it or to one that missed it
  (`Expected`). So a response that meets another call's slot is older than that
  call, and its own call timed out or took a still older one.
  `LeftInv` adds four parts, proved over six kinds of steps (`KindOfStep`): an
  entry is of a call in progress or was left by a call that ended early
  (`TableLeft`); nobody is told of the end while the reader runs (`LostInv`);
  where responses are kept, one on its way or kept is for a call that waits or for
  one that gave up (`KeptInv`); while the reader of a library that reads to the end
  runs, the answer to a call that has none yet is still on its way, and once it has
  ended who was told so has not been answered (`LateInv`). Hence
  `NothingIsLeftBehind` and `NoAnswerIsLost`: at the end of the stream nothing is
  on its way, so a call that is woken without an answer had none.
* **`CClientProofs`** first says what each action does to one thread and one slot
  (`CallEffect`, `ClaimEffect`, `GiveEffect`, …), so that the invariants are proved
  over a few kinds of steps (`CallerKind`, `ReaderKind`, `DaemonKind`) and not over
  30 actions. `CallsHaveSlots` joins the types, "until the reader runs one
  thread does" (`ConnectInv`), "a call has an id of its own that has not returned"
  (`CallInv`) and "a slot is active while exactly one call has it" (`SlotInv`): a
  slot is freed outside its mutex, and only the third shows that nobody else
  can have taken it. `FramesInv`: the writer holds the lock, and the last part
  in the socket is the last part of a frame or was written by the holder
  (`DaemonReceivesWholeFrames`). `WakingInv`: behind the slot the reader's last
  loop has reached, every call whose request was written is done, and a call
  that takes a slot the loop has passed cannot write (`TheEndWakesTheCalls`).
  `CallsAreRefined` is the refinement of `Calls`. It needs that an answer is in
  one place only: the daemon takes each request once, before which nobody
  has the answer (`RequestInv`); an answer's parts are in the stream once, and
  one that is in the stream is in no slot and with no call, nor is one in two slots
  or in a slot and with a call (`AnswerInv`); an answer a call has belongs to
  its slot and to no other call, and a call that left the mutex to report an error
  has one (`SourceInv`); a slot done without an answer was woken by the end of
  the connection (`DoneInv`), the only way to `KGD_OK` without one.
  `MemoryStaysOwned`: the client's block is held from the success of `kgd_connect`
  to `kgd_close` (`HeldInv`), and the live buffers are those in the slots, each in
  the slot of its response, none in a slot that is not done and none beside an error
  (`BufferInv`); so a response that is stored drops no buffer and a free is the
  only one; what is received fits `recv_cap`, which one doubling makes large enough
  (`RecvInv`). A call under which the client was freed is excepted, and no other.
  `MessagesAreHandledInOrder`, as long as the buffer could grow: what is in the socket and in `recv_buf` is
  a stream of whole messages with consecutive numbers, beginning with the first one
  that has not been handled (`MessagesInOrder`); a read moves parts from one to the
  other, a handled message leaves at the front, the daemon adds at the end
  (`HandledInOrder`, `SentInOrder`).
* **`MpackValuesProofs`**: `ValuesSurviveTheWire`. Assumed (`WidthsAssumption`): each
  width has at least twice the numbers of the one before, and the fixed forms end
  within theirs. `GoodForm` says what a form and the tag parsed from it have in
  common, among it that the form's width has room for the number (`Room`), and holds of every
  form any encoder may choose (`AllGood`). `Stores`: each write function stores a
  form that stands for the value, and none with room for it is narrower. The expect
  functions are then functions of the value alone (`Expects`), and so is the comparison
  of two tags (`Compared`); the lemma `Bits` is that a negative number comes back from
  its bits. `ValueInv` carries these facts from the writing to the reading.
  Of `MpackText`, `Utf8IsChecked`. For each length, the lead byte, the
  continuation bytes and the limits on the code point that the code computes are
  one row of the table (`TwoBytes`, `ThreeBytes`, `FourBytes`, `Rows`). `TextInv`: what
  the loop has stepped over can be cut (`Decoded`), and no sequence that begins at
  a cut before the loop's place goes beyond it, wherever else the string is cut
  (`NoneAcross`). The second is what a refusal needs: a loop that takes the first
  sequence it finds could have missed a different way of cutting. Its step is an
  induction over the cuts, by the least cut beyond the loop's place
  (`LeastNatural`, `FirstBeyond`). Assumed: the strings are of bytes
  (`StringsAssumption`).
* **`MpackWriterProofs`**, first of any caller of the writer. `BugsAreMisuses`: the stack of
  the tracking stands, element by element, for the containers that are open in what
  was written (`Stack`): what an element has left, whether a key waits for its value
  and how many things were written in the container are three counts of the same
  thing (`Counted`). Whatever else a call does (write, flush, grow, add pages, fail) is
  `Silent`: it leaves the stack alone and flags an error that is no bug. A value
  longer than a page is put there byte by byte, a recursive function
  over an induction (`Bytewise`).
  `MemoryIsSafe` and `PagesAreFreed`: everything written while builds are open has a
  *position* in one line of bytes, which the pages cut (`Starts`). `Laid` says that the builds
  lie one behind the other on that line, each header where the code puts it after the end of the build
  before; an end is at one place of one page only (`OneEnd`), since no build ends at the
  header of a page (`Ends`). The walk of `mpack_builder_resolve` carries no more than a page,
  an offset and what is left: `Walk` says what each of its steps knows of the line, and that
  the pages before it are free and the others allocated. It stops where
  the next header would not fit what is used of the page; that it is then at the last
  page, none left behind, is `Filled`: an empty last page follows
  only one without room for a header. The size assumption is what makes that so: a page
  is added when less than a minimum buffer is left of the last, and then
  there is no room for a header either. Each operation of the writer is
  shown to keep this (`Sound`), and to leave the builder alone when no build is
  open (`Written`). The bounds of buffer and pages hold after an error as well
  (`Bounded`), but for the one header for which there was no page: that it is one, and which,
  is part of the invariant. Of the positions an error promises nothing, since the builder
  is not used again but to free its pages.

  Then of `kgd.c`'s functions on that writer, the specification that the run `mpack_writer`
  checks: the same three (`RequestsAreTracked`, `RequestsAreSafe`, `RequestsFreePages`)
  and `RequestsNeverMisuse`, the half of `Understood` that is about the writer's state:
  whatever options a function is given and whatever allocations fail, it opens, counts
  and closes as it announced, and meets no error but a failed allocation. A
  function is a program; `Does` says which stack of the tracking it leaves when the
  tracking lets each of its steps pass, and composes, so each function, with any set
  of its optional fields, leaves none (`ProgramsAre`). That the writer refuses nothing
  else is `Lacks`: where the buffer grows, an error can only be an allocation that failed, since
  the grown buffer is twice as long and so has room for any tag. The programs also
  complete the builds they opened: an element of the stack that stands for a build names
  the one open when it was pushed (`Nest`, `Linked`), so with the stack empty
  no build is open when the writer is destroyed. `RequestInv` is all this beside
  the two invariants above.

* **`MpackReaderProofs`**: `StreamIsDelivered`, for every document, well formed or not, every source
  (memory, a fill function, a file that seeks or not), every size of the buffer and every
  way the stream is cut, for the free caller and for `kgd.c`. A reader (`IsReader`)
  holds in its buffer what the stream has just before the place the source has reached
  (`From`), and nothing once it has met an error. Each function
  makes of a reader another one (`Reads`), and the bytes it gives are the stream's
  up to where the reader is then (`Gives`): both compose, so that the functions that fill
  (`FillRangeGives`, `EnsureReads`), copy past the buffer
  (`ReadStraddleGives`), skip whole buffers or seek (`SkipUsingFillReads`,
  `FileSkipReads`) carry everything above them, up to the keys of a map (`KeyReads`).
  A straddling read shows what `Reads` needs of an error: the buffer is emptied before
  more is asked for, so what was in it does not count again when the source ends. Loops are recursive functions, and each is
  an induction over its rounds (`RoundsChain`, `BytesRounds`); `mpack_discard` calls
  itself, and is the loop of its rounds here. `ReplyInv` adds what `kgd.c` keeps between the
  functions: a message it looks at ends in the stream, the result it copies is the stream's at
  the place it remembers (`SlotInv`), and a loop looks for the fields of a known list (`IsLoop`).
  Assumed: the inputs are documents (`DocumentsAssumption`, `BufferAssumption`).

Type correctness is proved for each module with proofs but `MpackValues` and `MpackText` (`TypeCorrect`
and the like; for the C client in `CallsHaveTheirSlots`, for the writer in `MemoryIsSafe`,
for what the reader's code relies on in `ReplyInvariant`); `StopClearsTheScreen` and `Client`'s
`NobodyIsForgotten` are proved as well and not checked separately.

Only model-checked: that the message delivered is the one written, and that one
that fits is not refused (`Delivered`, `FitsIsWritten`: the message is the
concatenation of a sequence of sequences, a definition by recursion over data);
what the daemon finds in it (the half `Dispatchable` of `Understood`:
it selects from sequences by a condition, again a recursion over data); where a value ends and what
kgd.c makes of it (`TakesOneValue`, `HandledInOrder`, `FieldsAreSent`: the end of a nested value,
the messages processed and the meaning of a map are sums and selections over the document, once more
recursions over data); and everything about
liveness (`StatefulIsCleanedUp`, `AbandonedIsReclaimed`,
`EveryDispatchReturns`, `CancelledExits`, `CallsReturn`): the prover handles
neither fairness nor ENABLED.

## 6. Not modelled

* Bytes, in the daemon: MessagePack, base64, escape sequences, the tmux
  passthrough wrapping, the hash (a datum stands for its hash, so collisions do
  not happen). Image format, size, source rectangle and z-order are data no
  decision depends on, so what an image larger than its pane covers is not seen
  (placement.go decides by one cell). The cache is keyed by the data alone, so the same bytes
  uploaded again with another format or size return the first image
  (engine.go:271).
* Numbers: `nextImage`, `nextPlacement` and handles are `uint32`. The bounds
  stand below the wrap, after which an id would come back while in use
  (id.go:21).
* Window ids are unique within one editor only, and the map is shared: two
  editors can overwrite each other's windows (engine.go:326). The model's
  windows are owned by whoever registered last, as the code's are.
* Failures of the terminal: writes succeed. A failed write would lose the rest
  of its buffer (tty.go:158) and leave the engine's `rendered` wrong.
* Notifications: a client that does not read blocks the engine in a write to its
  socket (client.go:249); a hello answered just before a resize may arrive after
  the notice of it (engine.go:174); a burst of resizes fills the size channel
  and the newest is dropped (tty.go:172). One module of its own, in the plan.
* The tmux watcher's overlapping, missed and failed queries, and two daemons that
  start on one path: in the plan.
* Logging, the command line other than `serve`, the colour query and the neovim
  plugin.

Of the C client:

* What a call does after the client was freed under it; `kgd_close` called twice, or
  from a callback, where the reader would join itself. It closes the
  descriptor (kgd.c:812) while the reader or a writer may still be about to use that
  number. The setters of callbacks assign two fields without a lock (kgd.h:169).
* What happens in the cases the properties except: a second response that meets
  a slot before the caller of the first has run replaces its buffer, which leaks
  (kgd.c:1006), or is freed under it (kgd.c:911); an interrupted write leaves
  half a frame and the daemon closes the connection; an interrupted read ends
  the reader while the connection stays open (kgd.c:1194); a write has no timeout
  and keeps the lock, so every call waits for a daemon that does not read.
* After `recv_buf` could not grow (kgd.c:1215), bytes from inside a frame that look
  like a message of their own: `Misread` lets `process_message` return early from
  all of them. Of `malloc`, only the copy of a result (kgd.c:1007) fails in the
  model: `KGD_OK` with nothing.
* An error whose key is long or no string ends `process_message` with nobody
  woken (kgd.c:960); an error that is itself a string has its text read as a tag
  (kgd.c:976). `CReplies` has both. A byte that begins no message (0xc1) is taken
  for an incomplete one, and framing waits for ever (kgd.c:1229); the daemon
  does not send it. `KGD_ERR_DECODE` is never returned, and the colours of the
  hello's answer are not read.

Of the MessagePack library, the parts the client is built with are modelled. Left
out: floating point, timestamps and extension types, the Node API
(mpack.c:4925-7304, not compiled in), printing and debugging output, and the
teardown of readers. `mpack_writer_destroy` ignores what tracking says at the end
(mpack.c:1489), which `TrackingIsExact` therefore excepts; a seek past the end of
a file is no error (mpack.c:2872); `mpack_expect_bool` returns the low bit of the
byte even when it flags an error (mpack.c:4362).

## 7. Plan

Done, in this order: `ScreenPos`, `UploadCache`, `Engine` and their proofs;
`Sessions` and its proofs; `Daemon` and its proofs; `Client` with the profiles of
the libraries and its proofs; `CClient` and `Calls`; `MpackTrack`, `MpackWriter`
and `CRequests`; `MpackCodec`, `MpackValues` and `MpackText`; `MpackReader`,
`MpackExpect` and `CReplies`; the proofs about the C client's calls; those
about positions, the screen and what a client loses, about what calls leave behind
and late answers, about the C client's memory and messages, and about the
encoding of values and the check of text, about the writer's tracking and
memory, and about what the C client's functions ask of the writer.

1. What reaches the socket (`Delivered`, `FitsIsWritten`): the real buffer
   and the pages hold the message so far, an induction over the things written
   on top of `MemoryInvariant`.
2. `Notify`: the size channel with its drop on overflow, the engine's
   broadcasts, the hello reply and the socket of each client with a bounded
   buffer. Does a client end up with the present terminal size? Can a client
   that does not read stop the others?
3. `TmuxWatcher`: tmux's layout history, control mode, the debounce timer and
   its overlapping queries, polling. Does the engine end up with the present
   layout?
4. `Nvim`: the plugin's own client and tracker (`nvim/lua/kgd`): windows
   registered before and after the connection is there, reconnecting, pending
   calls when the pipe closes.
5. `Startup`: the socket file, `checkSocket`, `Listen`, the deferred removal,
   `EnsureDaemon` run by several clients.
6. `PlacementService`: what a client may rely on (handles, placements, the
   screen), an abstract specification that `Engine` refines.
