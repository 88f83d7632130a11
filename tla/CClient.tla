------------------------------- MODULE CClient -------------------------------
(***************************************************************************)
(* The C client, src/clients/c/kgd.c: callers' threads, the reader thread, *)
(* the pending slots with their mutexes, the write lock, the byte streams  *)
(* in both directions, the response buffers on the heap, the callbacks and *)
(* the thread-local error text, from kgd_connect's hello to kgd_close.     *)
(*                                                                         *)
(* A critical section of a slot's mutex is one step; the write lock is     *)
(* held over several writes and is a variable.  A frame is a message cut   *)
(* into Parts parts, which read and write may separate.  The daemon        *)
(* handles the frames of a connection in order and answers a request       *)
(* before it reads the next one (internal/rpc/client.go).                  *)
(***************************************************************************)
EXTENDS Integers, Sequences, FiniteSets

CONSTANTS
    Threads,        \* the application's threads
    Reader,         \* the client's reader thread, on which callbacks run
    NoThread,
    Slots,          \* MAX_PENDING
    Parts,          \* parts of a frame
    Room,           \* parts the socket to the daemon holds
    Chunk,          \* RECV_BUF_SIZE, in parts
    Callers,        \* bound: the threads that make calls; any may close the client
    MaxCalls,       \* bound: calls made, the hello included
    MaxOneway,      \* bound: notifications sent to the daemon
    MaxNotes,       \* bound: notifications the daemon sends
    MaxFaults       \* bound: faults in one run

ASSUME CClientAssumption ==
    /\ Reader \notin Threads /\ NoThread \notin Threads \cup {Reader} /\ Callers \subseteq Threads
    /\ {Slots, Parts, Room, Chunk, MaxCalls} \subseteq Nat \ {0}
    /\ {MaxOneway, MaxNotes, MaxFaults} \subseteq Nat

VARIABLES
    th,         \* per thread: where it is, its call, and the parts it has written
    nextId,     \* next_id
    slot,       \* per slot: active, done, has_error, data, and whose response it has
    lock,       \* the holder of write_lock
    toDaemon,   \* parts written and not yet read by the daemon
    oneways,    \* notifications begun
    fromDaemon, \* parts the daemon sent that the reader has not read
    recv,       \* recv_buf, up to recv_len
    capacity,   \* recv_cap
    reader,     \* "none", "reading", "callback", "waking", "ended"
    wake,       \* the slot the reader's last loop has reached
    notes,      \* notifications the daemon has sent
    callbacks,  \* the application has set its callbacks
    client,     \* "none", "refused", "connecting", "open", "closing", "freed"
    held,       \* what kgd_connect has acquired: its socket, memory and reader
    peer,       \* "open" or "closed": the daemon's end
    live,       \* response buffers allocated and not freed, named by their call
    twice,      \* a buffer was freed that was not allocated
    lastError,  \* per thread: the call that tls_error is about, or NoCall
    faults,     \* what has gone wrong so far
    answered,   \* history: calls the daemon has answered
    verdict,    \* history: per call, what it returned
    source,     \* history: per call, whose answer it returned
    overtaken,  \* history: a second response came to a slot before its caller ran
    handled     \* history: how many messages of the daemon process_message was given

io == <<lock, toDaemon, oneways>>
daemon == <<fromDaemon, peer, answered, notes>>
receiving == <<recv, capacity, reader, wake, overtaken, handled>>
heap == <<live, twice>>
told == <<verdict, source, lastError>>
application == <<callbacks, client, held>>
vars == <<th, nextId, slot, io, daemon, receiving, application, heap, told, faults>>

Ids == 0..MaxCalls - 1
NoCall == -1
All == Threads \cup {Reader}
Null == -1   \* no buffer

SlotOf(id) == id % Slots
Closed == client \in {"closing", "freed"}

\* Parts of a frame, in order
FrameOf(message) == [i \in 1..Parts |-> [message |-> message, part |-> i]]
Whole(s) == Len(s) >= Parts /\ SubSeq(s, 1, Parts) = FrameOf(s[1].message)
AfterRead(s) == << >>   \* mutant: the buffer is emptied after a message
AfterFrame(s) == SubSeq(s, Parts + 1, Len(s))

Call(id) == [type |-> "call", id |-> id, as |-> "request"]
Oneway(n) == [type |-> "oneway", id |-> n, as |-> "request"]
\* as: a result, an error, or a message process_message returns early from
Sent == Cardinality(answered) + notes
Response(id, as) == [type |-> "response", id |-> id, as |-> as, serial |-> Sent]
Note == [type |-> "note", id |-> NoCall, as |-> "note", serial |-> Sent]

Fault(f) == f \notin faults /\ Cardinality(faults) < MaxFaults /\ faults' = faults \cup {f}

\* One thread is in kgd_connect
Init ==
    /\ \E t \in Callers : th = [s \in All |-> IF s = t THEN [pc |-> "connect", id |-> 0, sent |-> 0]
                                             ELSE [pc |-> "idle", id |-> NoCall, sent |-> 0]]
    /\ nextId = 0
    /\ slot = [i \in 0..Slots - 1 |->
                  [active |-> FALSE, done |-> FALSE, error |-> FALSE, data |-> Null, from |-> NoCall]]
    /\ lock = NoThread /\ toDaemon = << >> /\ oneways = 0
    /\ fromDaemon = << >> /\ recv = << >> /\ capacity = 0 /\ reader = "none" /\ wake = 0
    /\ notes = 0 /\ handled = 0
    /\ callbacks = FALSE /\ client = "none" /\ held = {} /\ peer = "open"
    /\ live = {} /\ twice = FALSE
    /\ lastError = [t \in All |-> NoCall]
    /\ faults = {}
    /\ answered = {}
    /\ verdict = [id \in Ids |-> "none"] /\ source = [id \in Ids |-> NoCall]
    /\ overtaken = FALSE

-----------------------------------------------------------------------------
(* Calls *)

\* Application threads run once kgd_connect has returned; the reader, in a callback
MayCall(t) ==
    /\ th[t].pc = "idle"
    /\ IF t = Reader THEN reader = "callback" ELSE t \in Callers /\ client = "open"

Go(t, pc) == th' = [th EXCEPT ![t].pc = pc]
SetError(t, id) == lastError' = [lastError EXCEPT ![t] = id]

OpenSocket(t) ==
    /\ th[t].pc = "connect"
    /\ Go(t, "socket")
    /\ held' = {"socket"}
    /\ UNCHANGED <<nextId, slot, io, daemon, receiving, callbacks, client, heap, told, faults>>

\* The daemon accepts the connection, and there is memory for the client
Connect(t) ==
    /\ th[t].pc = "socket" /\ peer = "open"
    /\ Go(t, "memory")
    /\ held' = held \cup {"memory"}
    /\ UNCHANGED <<nextId, slot, io, daemon, receiving, callbacks, client, heap, told, faults>>

\* The reader runs before the hello is encoded
StartReader(t) ==
    /\ th[t].pc = "memory"
    /\ held' = held \cup {"reader"} /\ reader' = "reading"
    /\ client' = "connecting"
    /\ nextId' = 1
    /\ Go(t, "encoded")
    /\ UNCHANGED <<slot, io, daemon, recv, capacity, wake, overtaken, handled, callbacks, heap, told, faults>>

\* No socket path, no socket, nobody listening, no memory or no thread: kgd_connect
\* gives back what it holds and returns NULL
Refused(t) ==
    /\ th[t].pc \in {"connect", "socket", "memory"}
    /\ \/ th[t].pc = "socket" /\ peer = "closed" /\ UNCHANGED faults
       \/ Fault("connect")
    /\ held' = {} /\ client' = "refused"
    /\ SetError(t, 0)
    /\ Go(t, "idle")
    /\ UNCHANGED <<nextId, slot, io, daemon, receiving, callbacks, heap, verdict, source>>

\* A failed hello is followed by kgd_close, before anybody else has the client
Returned(t) == IF client = "connecting" THEN "close" ELSE "idle"
Report(t, what) ==
    /\ verdict' = [verdict EXCEPT ![th[t].id] = what]
    /\ IF what = "ok"
       THEN Go(t, "idle") /\ client' = IF client = "connecting" THEN "open" ELSE client
       ELSE Go(t, Returned(t)) /\ UNCHANGED client

\* kgd_upload, _place, _unplace, _free_handle, _list, _status: the id, the request
Encode(t) ==
    /\ MayCall(t) /\ nextId < MaxCalls
    /\ nextId' = nextId + 1
    /\ th' = [th EXCEPT ![t] = [pc |-> "encoded", id |-> nextId, sent |-> 0]]
    /\ UNCHANGED <<slot, io, daemon, receiving, application, heap, told, faults>>

\* The writer's error is KGD_ERR_NOMEM; only kgd_connect says so in the error text
EncodingFails(t) ==
    /\ th[t].pc = "encoded" /\ Fault("encode")
    /\ Report(t, "nomem")
    /\ IF client = "connecting" THEN SetError(t, th[t].id) ELSE UNCHANGED lastError
    /\ UNCHANGED <<nextId, slot, io, daemon, receiving, callbacks, held, heap, source>>

\* free(): NULL, or a buffer that should be allocated
FreeAll(buffers) ==
    /\ live' = live \ buffers
    /\ twice' = (twice \/ ~(buffers \subseteq live \cup {Null}))

ClaimBusy(t) ==   \* mutant: the slot is not looked at before it is taken
    LET s == SlotOf(th[t].id) IN
    /\ th[t].pc = "encoded"
    /\ slot' = [slot EXCEPT ![s] =
           [active |-> TRUE, done |-> FALSE, error |-> FALSE, data |-> Null, from |-> NoCall]]
    /\ FreeAll({slot[s].data})
    /\ Go(t, "claimed")
    /\ UNCHANGED <<nextId, io, daemon, receiving, application, told, faults>>
\* do_call takes the slot, and frees what a response to nobody may have left there
Claim(t) ==
    LET s == SlotOf(th[t].id) IN
    /\ th[t].pc = "encoded"
    /\ IF slot[s].active
       THEN Report(t, "send") /\ SetError(t, th[t].id) /\ UNCHANGED <<slot, heap>>
       ELSE /\ slot' = [slot EXCEPT ![s] =
                   [active |-> TRUE, done |-> FALSE, error |-> FALSE, data |-> Null, from |-> NoCall]]
            /\ FreeAll({slot[s].data})
            /\ Go(t, "claimed")
            /\ UNCHANGED <<client, verdict, lastError>>
    /\ UNCHANGED <<nextId, io, daemon, receiving, callbacks, held, source, faults>>

\* kgd_unplace_all, _register_win, _update_scroll, _unregister_win, _stop
EncodeOneway(t) ==
    /\ MayCall(t) /\ oneways < MaxOneway
    /\ oneways' = oneways + 1
    /\ th' = [th EXCEPT ![t] = [pc |-> "oneway", id |-> MaxCalls + oneways, sent |-> 0]]
    /\ UNCHANGED <<nextId, slot, lock, toDaemon, daemon, receiving, application, heap, told, faults>>

-----------------------------------------------------------------------------
(* send_all, under the write lock *)

WriteLockUnheeded(t) ==   \* mutant: a thread writes while another one does
    /\ th[t].pc \in {"claimed", "oneway"}
    /\ lock' = t
    /\ th' = [th EXCEPT ![t].pc = IF @ = "claimed" THEN "writing" ELSE "telling", ![t].sent = 0]
    /\ UNCHANGED <<nextId, slot, toDaemon, oneways, daemon, receiving, application, heap, told, faults>>
WriteLock(t) ==
    /\ th[t].pc \in {"claimed", "oneway"} /\ lock = NoThread
    /\ lock' = t
    /\ th' = [th EXCEPT ![t].pc = IF @ = "claimed" THEN "writing" ELSE "telling", ![t].sent = 0]
    /\ UNCHANGED <<nextId, slot, toDaemon, oneways, daemon, receiving, application, heap, told, faults>>

Writing(t) == th[t].pc \in {"writing", "telling"}
Message(t) == IF th[t].pc = "writing" THEN Call(th[t].id) ELSE Oneway(th[t].id)
Writable == peer = "open" /\ ~Closed

\* One write, of what there is room for; the last one is followed by the unlock
Write(t) ==
    /\ Writing(t) /\ Writable /\ Len(toDaemon) < Room
    /\ toDaemon' = Append(toDaemon, FrameOf(Message(t))[th[t].sent + 1])
    /\ IF th[t].sent + 1 < Parts
       THEN th' = [th EXCEPT ![t].sent = @ + 1] /\ UNCHANGED lock
       ELSE /\ lock' = NoThread
            /\ Go(t, IF th[t].pc = "writing" THEN "written" ELSE "idle")
    /\ UNCHANGED <<nextId, slot, oneways, daemon, receiving, application, heap, told, faults>>

FailHoldingLock(t) ==   \* mutant: the error path returns with the lock held
    /\ Writing(t)
    /\ \/ ~Writable /\ UNCHANGED faults
       \/ Fault("write")
    /\ SetError(t, IF th[t].pc = "writing" THEN th[t].id ELSE NoCall)
    /\ Go(t, IF th[t].pc = "writing" THEN "unsent" ELSE "idle")
    /\ UNCHANGED <<nextId, slot, io, daemon, receiving, application, heap, verdict, source>>
\* A write fails: the connection is gone, or a signal interrupted it (EINTR)
WriteFails(t) ==
    /\ Writing(t)
    /\ \/ ~Writable /\ UNCHANGED faults
       \/ Fault("write")
    /\ lock' = NoThread
    /\ SetError(t, IF th[t].pc = "writing" THEN th[t].id ELSE NoCall)
    /\ Go(t, IF th[t].pc = "writing" THEN "unsent" ELSE "idle")
    /\ UNCHANGED <<nextId, slot, toDaemon, oneways, daemon, receiving, application, heap,
                   verdict, source>>

Release(t) == slot' = [slot EXCEPT ![SlotOf(th[t].id)].active = FALSE]

Unsent(t) ==
    /\ th[t].pc = "unsent"
    /\ Release(t)
    /\ Report(t, "send")
    /\ UNCHANGED <<nextId, io, daemon, receiving, callbacks, held, heap, source, lastError, faults>>

-----------------------------------------------------------------------------
(* The wait for the response *)

Mine(t) == slot[SlotOf(th[t].id)]
Sourced(t) == source' = [source EXCEPT ![th[t].id] = Mine(t).from]

\* The response is the caller's, which frees it once it has been parsed
KeepData(t) ==   \* mutant: the slot keeps its pointer to the caller's buffer
    /\ th[t].pc = "written" /\ Mine(t).done /\ ~Mine(t).error
    /\ Release(t)
    /\ FreeAll({Mine(t).data})
    /\ Sourced(t)
    /\ Report(t, "ok")
    /\ UNCHANGED <<nextId, io, daemon, receiving, callbacks, held, lastError, faults>>
ReturnResult(t) ==
    /\ th[t].pc = "written" /\ Mine(t).done /\ ~Mine(t).error
    /\ slot' = [slot EXCEPT ![SlotOf(th[t].id)].active = FALSE, ![SlotOf(th[t].id)].data = Null]
    /\ FreeAll({Mine(t).data})
    /\ Sourced(t)
    /\ Report(t, "ok")
    /\ UNCHANGED <<nextId, io, daemon, receiving, callbacks, held, lastError, faults>>

\* An error response and the end of the connection leave the critical section first
ReturnError(t) ==
    /\ th[t].pc = "written" /\ Mine(t).done /\ Mine(t).error
    /\ FreeAll({Mine(t).data})
    /\ Sourced(t)
    /\ Go(t, "rpc")
    /\ UNCHANGED <<nextId, slot, io, daemon, receiving, application, verdict, lastError, faults>>

ReturnClosed(t) ==
    /\ th[t].pc = "written" /\ ~Mine(t).done /\ Closed
    /\ Go(t, "recv")
    /\ UNCHANGED <<nextId, slot, io, daemon, receiving, application, heap, told, faults>>

\* pe->active = 0, without the mutex
Leave(t) ==
    /\ th[t].pc \in {"rpc", "recv"}
    /\ Release(t)
    /\ Report(t, th[t].pc)
    /\ IF th[t].pc = "recv" THEN SetError(t, th[t].id) ELSE UNCHANGED lastError
    /\ UNCHANGED <<nextId, io, daemon, receiving, callbacks, held, heap, source, faults>>

\* Ten seconds after the request was written
Expire(t) ==
    /\ th[t].pc = "written" /\ ~Mine(t).done
    /\ Release(t)
    /\ Report(t, "timeout")
    /\ SetError(t, th[t].id)
    /\ UNCHANGED <<nextId, io, daemon, receiving, callbacks, held, heap, source, faults>>

-----------------------------------------------------------------------------
(* The reader thread *)

\* A read returns at most Chunk parts of what has arrived.  One doubling makes
\* room for it: the buffer held what was kept, and holds a whole read.
Need(n) == Len(recv) + n
Grown == IF capacity = 0 THEN Chunk ELSE 2 * capacity
Take(n) ==
    /\ reader = "reading" /\ ~Whole(recv) /\ ~Closed
    /\ n <= Len(fromDaemon)
    /\ fromDaemon' = SubSeq(fromDaemon, n + 1, Len(fromDaemon))

Read ==
    /\ \E n \in 1..Chunk :
          /\ Take(n)
          /\ recv' = recv \o SubSeq(fromDaemon, 1, n)
          /\ capacity' = IF Need(n) > capacity THEN Grown ELSE capacity
    /\ UNCHANGED <<th, nextId, slot, io, answered, notes, peer, reader, wake, overtaken, handled, application, heap, told, faults>>

\* No memory for the larger buffer (or a size that overflows): recv_len = 0, and
\* what was just read is lost with what was kept
ReadIsLost ==
    /\ \E n \in 1..Chunk : Take(n) /\ Need(n) > capacity
    /\ recv' = << >>
    /\ Fault("realloc")
    /\ UNCHANGED <<th, nextId, slot, io, answered, notes, peer, capacity, reader, wake, overtaken, handled, application, heap, told>>

\* After a loss the buffer may begin inside a frame.  The decoder takes what it
\* finds there for a value of some length, which process_message returns early
\* from, or waits for more of it.
Misread ==
    /\ reader = "reading" /\ recv # << >> /\ recv[1].part # 1
    /\ \E n \in 1..Len(recv) : recv' = SubSeq(recv, n + 1, Len(recv))
    /\ UNCHANGED <<th, nextId, slot, io, daemon, capacity, reader, wake, overtaken, handled, application, heap, told, faults>>

Arrived(type) == reader = "reading" /\ Whole(recv) /\ recv[1].message.type = type
Processed == recv' = AfterFrame(recv) /\ handled' = handled + 1

GiveToActive(message, data) ==
    LET s == SlotOf(message.id)
    IN  slot' = [slot EXCEPT ![s] =
            IF ~slot[s].active THEN slot[s]
            ELSE [slot[s] EXCEPT !.done = TRUE, !.error = (message.as = "error"),
                                 !.data = data, !.from = message.id]]

\* The slot of a response gets it if a call has the slot, whichever call; the
\* result is copied to a new buffer, and there is none without the memory for it.
\* An error's text goes to the reader's own tls_error.
Respond ==
    LET message == recv[1].message
        s == SlotOf(message.id)
        copies == slot[s].active /\ message.as = "result"
    IN  /\ Arrived("response") /\ message.as # "malformed"
        /\ Processed
        /\ IF message.as = "error" THEN SetError(Reader, message.id) ELSE UNCHANGED lastError
        /\ overtaken' = (overtaken \/ (slot[s].active /\ slot[s].done))
        /\ \/ /\ ~copies
              /\ GiveToActive(message, slot[s].data)
              /\ UNCHANGED <<live, faults>>
           \/ /\ copies
              /\ GiveToActive(message, message.id)
              /\ live' = live \cup {message.id}
              /\ UNCHANGED faults
           \/ /\ copies /\ Fault("malloc")
              /\ GiveToActive(message, Null)
              /\ UNCHANGED live
        /\ UNCHANGED <<th, nextId, io, daemon, capacity, reader, wake, application, twice, verdict, source>>

\* process_message returns early: nobody is woken
Ignore ==
    /\ Arrived("response") /\ recv[1].message.as = "malformed"
    /\ Processed
    /\ UNCHANGED <<th, nextId, slot, io, daemon, capacity, reader, wake, overtaken, application, heap, told, faults>>

\* A notification without a callback is skipped
Notified ==
    /\ Arrived("note")
    /\ Processed
    /\ reader' = IF callbacks THEN "callback" ELSE reader
    /\ UNCHANGED <<th, nextId, slot, io, daemon, capacity, wake, overtaken, application, heap, told, faults>>

CallbackReturns ==
    /\ reader = "callback" /\ th[Reader].pc = "idle"
    /\ reader' = "reading"
    /\ UNCHANGED <<th, nextId, slot, io, daemon, recv, capacity, wake, overtaken, handled, application, heap, told, faults>>

\* The end of the stream once it has been read, the client closed, or a read
\* interrupted by a signal
ReaderStops ==
    /\ reader = "reading" /\ ~Whole(recv)
    /\ \/ (Closed \/ (peer = "closed" /\ fromDaemon = << >>)) /\ UNCHANGED faults
       \/ Fault("read")
    /\ reader' = "waking"
    /\ UNCHANGED <<th, nextId, slot, io, daemon, recv, capacity, wake, overtaken, handled, application, heap, told>>

WakeBySignal ==   \* mutant: the calls are signalled and find nothing done
    /\ reader = "waking"
    /\ IF wake + 1 < Slots THEN wake' = wake + 1 /\ UNCHANGED reader
                           ELSE reader' = "ended" /\ UNCHANGED wake
    /\ UNCHANGED <<th, nextId, slot, io, daemon, recv, capacity, overtaken, handled, application, heap, told, faults>>
Wake ==
    /\ reader = "waking"
    /\ slot' = [slot EXCEPT ![wake].done = @ \/ slot[wake].active]
    /\ IF wake + 1 < Slots THEN wake' = wake + 1 /\ UNCHANGED reader
                           ELSE reader' = "ended" /\ UNCHANGED wake
    /\ UNCHANGED <<th, nextId, io, daemon, recv, capacity, overtaken, handled, application, heap, told, faults>>

-----------------------------------------------------------------------------
(* kgd_set_..._cb, one for all, and kgd_close *)

SetCallback ==
    /\ client = "open" /\ ~callbacks
    /\ callbacks' = TRUE
    /\ UNCHANGED <<th, nextId, slot, io, daemon, receiving, client, held, heap, told, faults>>

\* closed = 1 and the socket shut down and closed, by an application thread
Close(t) ==
    /\ \/ th[t].pc = "close" /\ client = "connecting"
       \/ t \in Threads /\ th[t].pc = "idle" /\ client = "open"
    /\ client' = "closing" /\ held' = held \ {"socket"}
    /\ Go(t, "joining")
    /\ UNCHANGED <<nextId, slot, io, daemon, receiving, callbacks, heap, told, faults>>

\* The reader has been joined; the mutexes are destroyed and everything is freed,
\* though calls of other threads may still be on their way
Free(t) ==
    /\ th[t].pc = "joining" /\ reader = "ended"
    /\ client' = "freed" /\ held' = {}
    /\ FreeAll({slot[i].data : i \in DOMAIN slot})
    /\ Go(t, "idle")
    /\ UNCHANGED <<nextId, slot, io, daemon, receiving, callbacks, told, faults>>

-----------------------------------------------------------------------------
(* The daemon's end *)

TakesFrame == peer = "open" /\ Whole(toDaemon) /\ toDaemon' = AfterFrame(toDaemon)

Serve ==
    LET message == toDaemon[1].message IN
    /\ TakesFrame /\ message.type = "call"
    /\ \/ \E as \in {"result", "error"} :
              fromDaemon' = fromDaemon \o FrameOf(Response(message.id, as)) /\ UNCHANGED faults
       \/ Fault("malformed") /\ fromDaemon' = fromDaemon \o FrameOf(Response(message.id, "malformed"))
    /\ answered' = answered \cup {message.id}
    /\ UNCHANGED <<th, nextId, slot, lock, oneways, peer, notes, receiving, application, heap, told>>

ServeOneway ==
    /\ TakesFrame /\ toDaemon[1].message.type = "oneway"
    /\ UNCHANGED <<th, nextId, slot, lock, oneways, daemon, receiving, application, heap, told, faults>>

Notify ==
    /\ peer = "open" /\ client \notin {"none", "refused"} /\ notes < MaxNotes
    /\ notes' = notes + 1
    /\ fromDaemon' = fromDaemon \o FrameOf(Note)
    /\ UNCHANGED <<th, nextId, slot, io, peer, answered, receiving, application, heap, told, faults>>

\* It stops, evicts the client, or meets a frame it cannot decode
PeerCloses ==
    /\ peer = "open"
    /\ peer' = "closed"
    /\ UNCHANGED <<th, nextId, slot, io, fromDaemon, notes, answered, receiving, application, heap, told, faults>>

-----------------------------------------------------------------------------
\* What a call does after its client was freed is undefined: it stays where it is
Caller(t) ==
    /\ client # "freed"
    /\ \/ OpenSocket(t) \/ Connect(t) \/ StartReader(t) \/ Refused(t)
       \/ EncodingFails(t) \/ Claim(t) \/ WriteLock(t) \/ Write(t) \/ WriteFails(t) \/ Unsent(t)
       \/ ReturnResult(t) \/ ReturnError(t) \/ ReturnClosed(t) \/ Leave(t) \/ Expire(t)
       \/ Free(t)
ReaderThread ==
    Read \/ ReadIsLost \/ Respond \/ Ignore \/ Notified \/ CallbackReturns \/ ReaderStops \/ Wake
Daemon == Serve \/ ServeOneway \/ Notify \/ PeerCloses
Next ==
    \/ \E t \in All : Caller(t) \/ Encode(t) \/ EncodeOneway(t) \/ Close(t)
    \/ SetCallback
    \/ ReaderThread \/ Misread
    \/ Daemon

\* Threads run when they can; the application and the daemon owe nothing
Fairness ==
    /\ \A t \in All : WF_vars(Caller(t) \/ (Close(t) /\ th[t].pc = "close"))
    /\ WF_vars(ReaderThread)
Spec == Init /\ [][Next]_vars /\ Fairness

-----------------------------------------------------------------------------
Verdicts == {"none", "ok", "rpc", "send", "recv", "timeout", "nomem"}
Places == {"idle", "connect", "socket", "memory", "encoded", "claimed", "oneway", "writing", "telling", "unsent", "written", "rpc", "recv",
           "close", "joining"}

TypeOK ==
    /\ th \in [All -> [pc : Places, id : {NoCall} \cup Nat, sent : 0..Parts - 1]]
    /\ nextId \in 0..MaxCalls /\ oneways \in 0..MaxOneway /\ notes \in 0..MaxNotes
    /\ slot \in [0..Slots - 1 -> [active : BOOLEAN, done : BOOLEAN, error : BOOLEAN,
                                  data : Ids \cup {Null}, from : Ids \cup {NoCall}]]
    /\ lock \in All \cup {NoThread}
    /\ reader \in {"none", "reading", "callback", "waking", "ended"} /\ wake \in 0..Slots - 1
    /\ callbacks \in BOOLEAN /\ handled \in Nat /\ capacity \in Nat
    /\ client \in {"none", "refused", "connecting", "open", "closing", "freed"}
    /\ held \subseteq {"socket", "memory", "reader"}
    /\ peer \in {"open", "closed"}
    /\ live \subseteq Ids /\ twice \in BOOLEAN
    /\ lastError \in [All -> Ids \cup {NoCall}]
    /\ answered \subseteq Ids
    /\ verdict \in [Ids -> Verdicts] /\ source \in [Ids -> Ids \cup {NoCall}]

(* The calls of the client are those of module Calls.  A call whose error
   response was taken keeps its slot until it has left it. *)
Pending(id) == \E t \in All : th[t].id = id /\ th[t].pc \in
                   {"claimed", "writing", "unsent", "written", "rpc", "recv"}
Phase ==
    [id \in Ids |-> IF verdict[id] # "none" THEN "over" ELSE IF Pending(id) THEN "pending" ELSE "new"]
Told == [id \in Ids |-> IF verdict[id] = "none" THEN NoCall ELSE source[id]]

Abstract == INSTANCE Calls WITH phase <- Phase, source <- Told, ended <- reader \in {"waking", "ended"}

\* However threads, reader and daemon interleave, whatever fails and whenever the
\* client is closed: a slot has one call at a time, a call ends once, and only an
\* answer of the daemon to a call of that slot, given to nobody else, or the end
\* of the connection makes it return KGD_OK
RefinesCalls == Abstract!Spec

\* The daemon receives whole frames, one after the other, whoever writes them and
\* wherever a write is cut, unless a signal interrupted a write half-way
FramesWhole ==
    "write" \notin faults =>
        \A i \in DOMAIN toDaemon :
            IF toDaemon[i].part = 1 THEN i = 1 \/ toDaemon[i - 1].part = Parts
            ELSE i > 1 /\ toDaemon[i - 1] = [toDaemon[i] EXCEPT !.part = @ - 1]

\* Each response buffer belongs to one slot until its call takes it or the client
\* is freed: none is freed twice and none is left.  A second response that comes
\* before the caller of the first has run breaks this (kgd.c:1006, 911).
BuffersHaveOneOwner ==
    ~overtaken =>
        /\ ~twice
        /\ live = IF client = "freed" THEN {} ELSE {slot[i].data : i \in DOMAIN slot} \ {Null}

\* kgd_close has freed the client of an application thread
Freed(t) == t \in Threads /\ client = "freed"

\* However kgd_connect fails and whenever kgd_close is called, nothing of the client is
\* kept once it is gone, and until then the reader, its callbacks and every call have
\* the memory they use: only a call of another thread that kgd_close, which joins the
\* reader alone, finds on its way is left without (kgd.c:814-822)
HeldWhileUsed ==
    /\ client \in {"refused", "freed"} => held = {}
    /\ reader \in {"reading", "callback", "waking"} => {"memory", "reader"} \subseteq held
    /\ \A t \in All : th[t].pc \notin {"idle", "connect", "socket"} =>
           "memory" \in held \/ Freed(t)

\* What is kept of the stream between reads is within recv_buf
FitsBuffer == Len(recv) <= capacity

\* What the client has acquired is used while it has it and within its bounds, and
\* given back once
MemoryIsOwned == TypeOK /\ BuffersHaveOneOwner /\ HeldWhileUsed /\ FitsBuffer

\* process_message is given every message of the daemon once and in order, however
\* reads cut the stream and several messages fill the buffer: what has been sent and
\* not handled is in the buffer or the socket, whole, from its first message on.  A
\* buffer that cannot grow loses what it held, and the frames lose their beginnings
\* (kgd.c:1216).
EveryMessageHandled ==
    "realloc" \notin faults =>
        LET stream == recv \o fromDaemon
            left == Sent - handled
        IN  /\ Len(stream) = left * Parts
            /\ \A m \in 0..left - 1, p \in 1..Parts :
                   LET q == stream[m * Parts + p]
                   IN  q.part = p /\ q.message.serial = handled + m

\* When the reader has ended with the connection, a call whose request was written
\* is not left to its timeout.  (It is after an interrupted read: the connection
\* stays open and nobody reads it, kgd.c:1194.)
WokenAtTheEnd ==
    (reader = "ended" /\ "read" \notin faults) => \A t \in All : th[t].pc = "written" => Mine(t).done

\* Every call, notification and close of a thread returns, callbacks' own included,
\* so that in the end, when the bounded calls have been made, no thread is in one;
\* unless the daemon stops reading while the socket is full (the timeout only covers
\* the wait for the response) or kgd_close frees the client under the call
Full == Len(toDaemon) = Room
CallsReturn == <>[](\A t \in All : th[t].pc = "idle" \/ Freed(t)) \/ <>[]Full

-----------------------------------------------------------------------------
(* What the header says and the code does not do *)

\* kgd.h:121 "Upload image data. Returns handle via out_handle."
OkMeansAnswered == \A id \in Ids : verdict[id] = "ok" => source[id] # NoCall

\* kgd.h:114 "Returns NULL on failure; call kgd_last_error() for details."
FailedLast(t) == /\ th[t].pc \in {"idle", "close"} /\ th[t].id \in Ids
                 /\ verdict[th[t].id] \notin {"none", "ok"}
LastErrorIsMine == \A t \in Threads : FailedLast(t) => lastError[t] = th[t].id
=============================================================================
