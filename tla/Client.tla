------------------------------- MODULE Client -------------------------------
(***************************************************************************)
(* The remote calls of a kgd client library (pkg/kgdclient and clients):   *)
(* callers' threads or tasks, the table of pending calls, the reader that  *)
(* matches responses and runs notification callbacks, timeouts, and the    *)
(* end of the connection from either side.                                 *)
(*                                                                         *)
(* The eleven libraries are one design with different decisions.  Profile  *)
(* names the decisions; ClientLibraries has the profile of each library.   *)
(* The initial state picks one.  The daemon answers the requests of a      *)
(* connection in order, as Client.Serve does, or never.                    *)
(***************************************************************************)
EXTENDS Integers, Sequences

CONSTANTS
    Libraries,      \* the profiles to consider
    Callers,        \* threads, tasks or coroutines that make calls
    NoCaller,       \* not a caller
    MaxPending,     \* the most slots a library has for its calls (64 in C and Zig)
    Room,           \* requests the socket holds while the daemon does not read
    MaxCalls,       \* bound: calls made on the connection
    MaxNotes        \* bound: notifications the daemon sends

Profile ==
    [slots    : 0..MaxPending,      \* the table is keyed by id % slots, or by the id if 0
     takes    : BOOLEAN,            \* the reader removes the entry it answers
     cleans   : BOOLEAN,            \* a call that gives up removes its entry
     clears   : BOOLEAN,            \* the reader empties the table when it ends
     keeps    : BOOLEAN,            \* responses nobody waits for are kept
     refuses  : BOOLEAN,            \* no call is begun once the connection is known to be closed
     threads  : BOOLEAN,            \* others run between a call's registration and its write
     write    : {"blocks", "stalls", "times", "buffers"},    \* while the daemon does not read
                                    \* a write waits, and the other writers with it; and the
                                    \* reader too; or fails in the end; what the socket
                                    \* does not take is kept, and nobody waits
    timer    : {"returns", "waits", "context"}, \* after the timeout the call returns; still
                                    \* waits to be woken; there is only a caller's context
     both     : {"answer", "end", "either"},     \* reported if answered and the reader has ended
     lost     : {"closed", "timeout", "success"},\* reported if the reader ended first
     tail     : BOOLEAN,            \* what arrived before the daemon closed is still read
     callback : {"blocks", "nests", "cannot"},   \* a callback that makes a call and waits for it
                                    \* blocks the reader; reads on by itself; is impossible
     failure  : SUBSET {"wakes", "silent", "caller"}, \* a callback that raises ends the reader
                                    \* as the connection's end does; ends it, waking
                                    \* nobody; raises in the caller that polls
     close    : {"wakes", "ends", "cancels", "alone"}] \* close wakes the calls; leaves it to the
                                    \* reader; the same, but may cancel it before it
                                    \* does; is not allowed during a call

Ids == 0..MaxCalls - 1
Slots == 0..MaxPending - 1

ASSUME ClientAssumption ==
    /\ Libraries \subseteq Profile
    /\ \A l \in Libraries : l.slots > 0 =>   \* callers free their slots, and nobody else
          ~l.takes /\ ~l.clears /\ l.cleans /\ ~l.keeps /\ l.failure = {} /\ l.close = "alone"
    /\ \A l \in Libraries : "caller" \in l.failure =>   \* what was read with the callback is lost
          ~l.tail /\ ~l.keeps
    /\ NoCaller \notin Callers
    /\ Room \in Nat \ {0}
    /\ MaxPending \in Nat /\ MaxCalls \in Nat /\ MaxNotes \in Nat

VARIABLES
    lib,        \* the profile of the library
    nextId,     \* the next message id
    pc,         \* per caller: "idle", "registered", "waiting"
    cur,        \* per caller: the id of its call
    reply,      \* per caller: "none", "answer", "lost"
    replyTo,    \* per caller: the id of the response it was given
    expired,    \* callers whose timeout has passed but who still wait
    pending,    \* the table: key -> caller
    results,    \* responses kept by id (the _results of Python)
    requests,   \* ids on their way to the daemon
    responses,  \* messages on their way to the client
    answered,   \* ids the daemon has answered
    notes,      \* notifications sent
    peer,       \* "open" or "closed": the daemon's end
    closing,    \* close was called
    reader,     \* "running", "ended" with the connection, "failed" in a callback, or
                \* "died" without waking anybody
    inCallback, \* the caller whose code runs as a callback of the reader
    outcome,    \* per id: what the call reported
    source      \* per id: the id of the response it reported

table == <<pending, results>>
callers == <<pc, cur, reply, replyTo, expired>>
wire == <<requests, responses, answered, notes, peer>>
told == <<outcome, source>>
vars == <<lib, nextId, callers, table, wire, closing, reader, inCallback, told>>

Outcomes == {"none", "answer", "closed", "success", "timeout", "failed", "refused", "raised"}
Note == [type |-> "notification", id |-> 0]
Response(id) == [type |-> "response", id |-> id]

Slotted == lib.slots > 0
Key(id) == IF Slotted THEN id % lib.slots ELSE id
Keys == Ids \cup Slots

\* In C, Zig and the id-keyed libraries alike: c's call is the one its entry is for
Listed(c) == pc[c] # "idle" /\ pending[Key(cur[c])] = c

\* A single-threaded library is between the registration and the write of a call
Calm == lib.threads \/ \A c \in Callers : pc[c] # "registered"

\* The daemon does not read, and the socket is full
Unread == peer = "open" /\ Len(requests) >= Room

\* A write that waits, and holds the actor that the rest of the library runs on
Stalled ==
    lib.write = "stalls" /\ ~closing /\ Unread /\ \E c \in Callers : pc[c] = "registered"

\* Where callbacks nest, the innermost call runs and the others wait for it
MayRun(c) ==
    lib.callback = "nests" =>
        IF inCallback # NoCaller THEN c = inCallback
        ELSE \A d \in Callers \ {c} : pc[d] = "idle"

\* What the library knows of the end of the connection
Closed == closing \/ reader \in {"ended", "failed"}

Init ==
    /\ lib \in Libraries
    /\ nextId = 0
    /\ pc = [c \in Callers |-> "idle"]
    /\ cur = [c \in Callers |-> 0]
    /\ reply = [c \in Callers |-> "none"]
    /\ replyTo = [c \in Callers |-> 0]
    /\ expired = {}
    /\ pending = [k \in Keys |-> NoCaller]
    /\ results = {}
    /\ requests = << >> /\ responses = << >> /\ answered = {} /\ notes = 0
    /\ peer = "open" /\ closing = FALSE
    /\ reader = "running" /\ inCallback = NoCaller
    /\ outcome = [id \in Ids |-> "none"]
    /\ source = [id \in Ids |-> 0]

-----------------------------------------------------------------------------
(* Callers                                                                  *)

\* A call takes the next id and enters the table.  A slot still in use fails the
\* call and the id is spent.
Register(c) ==
    /\ pc[c] = "idle" /\ nextId < MaxCalls /\ MayRun(c) /\ Calm /\ ~Stalled
    /\ ~(lib.refuses /\ Closed) /\ ~(lib.close = "alone" /\ closing)
    /\ ~(inCallback = c /\ lib.callback = "cannot")
    /\ nextId' = nextId + 1
    /\ IF pending[Key(nextId)] # NoCaller
       THEN /\ outcome' = [outcome EXCEPT ![nextId] = "refused"]
            /\ UNCHANGED <<pc, cur, pending>>
       ELSE /\ pc' = [pc EXCEPT ![c] = "registered"]
            /\ cur' = [cur EXCEPT ![c] = nextId]
            /\ pending' = [pending EXCEPT ![Key(nextId)] = c]
            /\ UNCHANGED outcome
    /\ UNCHANGED <<lib, reply, replyTo, expired, results, wire, closing, reader, inCallback, source>>

\* The end of c's call
Finish(c, what) ==
    /\ pc' = [pc EXCEPT ![c] = "idle"]
    /\ reply' = [reply EXCEPT ![c] = "none"]
    /\ expired' = expired \ {c}
    /\ outcome' = [outcome EXCEPT ![cur[c]] = what]
    /\ source' = IF what = "answer" THEN [source EXCEPT ![cur[c]] = replyTo[c]] ELSE source
    /\ results' = IF what = "answer" THEN results \ {cur[c]} ELSE results
    /\ UNCHANGED <<cur, replyTo>>

Forget(c) == pending' = [pending EXCEPT ![Key(cur[c])] = NoCaller]

GiveUpLeaves(c, what) ==   \* mutant: only a call that is answered removes its entry
    Finish(c, what) /\ UNCHANGED pending

GiveUp(c, what) ==
    /\ Finish(c, what)
    /\ IF lib.cleans THEN Forget(c) ELSE UNCHANGED pending

\* The write fails if either end is closed.  A write that meets a full socket may be
\* given up, or wait until the daemon reads, one of the two.
WriteFails == peer = "closed" \/ closing \/ (lib.write = "times" /\ Unread)

\* The request is written, under a lock: while one write waits, for which no timer runs
\* yet, those behind it do.
Send(c) ==
    /\ pc[c] = "registered"
    /\ ~closing /\ Unread => lib.write \in {"times", "buffers"}
    /\ IF WriteFails
       THEN GiveUp(c, "failed") /\ UNCHANGED requests
       ELSE /\ requests' = Append(requests, cur[c])
            /\ pc' = [pc EXCEPT ![c] = "waiting"]
            /\ UNCHANGED <<cur, reply, replyTo, expired, table, told>>
    /\ UNCHANGED <<lib, nextId, responses, answered, notes, peer, closing, reader, inCallback>>

\* What a waiting call that runs again may report
Reports(c) ==
    IF c \in expired THEN {"timeout"}
    ELSE IF reply[c] = "lost" THEN {IF closing THEN "closed" ELSE lib.lost}
    ELSE (IF reply[c] = "answer" /\ ~(lib.both = "end" /\ Closed) THEN {"answer"} ELSE {})
         \cup (IF \/ lib.both = "either" /\ reader = "ended"
                  \/ lib.both = "end" /\ Closed /\ reply[c] = "answer"
               THEN {"closed"} ELSE {})

Return(c) ==
    /\ pc[c] = "waiting" /\ MayRun(c) /\ Calm
    /\ c \in expired => reply[c] # "none"
    /\ \E what \in Reports(c) : Finish(c, what)
    /\ Forget(c)
    /\ UNCHANGED <<lib, nextId, wire, closing, reader, inCallback>>

ExpireByReader(c) ==   \* mutant: timeouts are looked after by the reader's loop
    /\ pc[c] = "waiting" /\ reply[c] = "none" /\ c \notin expired
    /\ reader = "running" /\ inCallback = NoCaller /\ Calm
    /\ IF lib.timer = "waits"
       THEN /\ expired' = expired \cup {c}
            /\ UNCHANGED <<pc, cur, reply, replyTo, table, told>>
       ELSE GiveUp(c, "timeout")
    /\ UNCHANGED <<lib, nextId, wire, closing, reader, inCallback>>

\* The timeout of a call that nothing has woken
Expire(c) ==
    /\ pc[c] = "waiting" /\ reply[c] = "none" /\ c \notin expired /\ MayRun(c) /\ Calm
    /\ IF lib.timer = "waits"
       THEN /\ expired' = expired \cup {c}
            /\ UNCHANGED <<pc, cur, reply, replyTo, table, told>>
       ELSE GiveUp(c, "timeout")
    /\ UNCHANGED <<lib, nextId, wire, closing, reader, inCallback>>

-----------------------------------------------------------------------------
(* The reader                                                               *)

Reading ==
    /\ reader = "running" /\ (inCallback = NoCaller \/ lib.callback = "nests")
    /\ Calm /\ ~Stalled

ReceiveForCaller ==   \* mutant: one reply channel per caller instead of per call
    /\ Reading
    /\ responses # << >> /\ Head(responses).type = "response"
    /\ LET id == Head(responses).id
           p == pending[Key(id)]
       IN /\ reply' = IF p # NoCaller THEN [reply EXCEPT ![p] = "answer"] ELSE reply
          /\ replyTo' = IF p # NoCaller THEN [replyTo EXCEPT ![p] = id] ELSE replyTo
          /\ pending' = IF lib.takes THEN [pending EXCEPT ![Key(id)] = NoCaller] ELSE pending
          /\ results' = IF lib.keeps THEN results \cup {id} ELSE results
    /\ responses' = Tail(responses)
    /\ UNCHANGED <<lib, nextId, pc, cur, expired, requests, answered, notes, peer, closing,
                   reader, inCallback, told>>

\* The response at the head goes to the caller its key names.  An entry left by a
\* call that gave up leads nowhere.
Receive ==
    /\ Reading
    /\ responses # << >> /\ Head(responses).type = "response"
    /\ LET id == Head(responses).id
           p == pending[Key(id)]
           waits == p # NoCaller /\ (Slotted \/ (pc[p] # "idle" /\ cur[p] = id))
       IN /\ reply' = IF waits THEN [reply EXCEPT ![p] = "answer"] ELSE reply
          /\ replyTo' = IF waits THEN [replyTo EXCEPT ![p] = id] ELSE replyTo
          /\ pending' = IF lib.takes THEN [pending EXCEPT ![Key(id)] = NoCaller] ELSE pending
          /\ results' = IF lib.keeps THEN results \cup {id} ELSE results
    /\ responses' = Tail(responses)
    /\ UNCHANGED <<lib, nextId, pc, cur, expired, requests, answered, notes, peer, closing,
                   reader, inCallback, told>>

\* The notification at the head runs a callback: c's code, on the reader
Callback(c) ==
    /\ Reading
    /\ responses # << >> /\ Head(responses).type = "notification"
    /\ inCallback = NoCaller /\ pc[c] = "idle"
    /\ inCallback' = c
    /\ responses' = Tail(responses)
    /\ UNCHANGED <<lib, nextId, callers, table, requests, answered, notes, peer, closing, reader, told>>

CallbackReturns ==
    /\ inCallback # NoCaller /\ pc[inCallback] = "idle"
    /\ inCallback' = NoCaller
    /\ UNCHANGED <<lib, nextId, callers, table, wire, closing, reader, told>>

\* Everybody in the table is woken, unless already answered
WakeAll ==
    /\ reply' = [c \in Callers |-> IF Listed(c) /\ reply[c] = "none" /\ lib.both # "either"
                                   THEN "lost" ELSE reply[c]]
    /\ pending' = IF lib.clears THEN [k \in Keys |-> NoCaller] ELSE pending
    /\ UNCHANGED <<pc, cur, replyTo, expired, results>>

\* The callback raises.  Where it is the polling caller's code that raises, that
\* call ends, its entry stays, and the rest of what was read with it is lost.
CallbackRaises ==
    /\ inCallback # NoCaller /\ pc[inCallback] = "idle" /\ Calm
    /\ inCallback' = NoCaller
    /\ \/ /\ "wakes" \in lib.failure /\ reader' = "failed" /\ WakeAll
          /\ UNCHANGED <<responses, told>>
       \/ /\ "silent" \in lib.failure /\ reader' = "died"
          /\ UNCHANGED <<callers, table, responses, told>>
       \/ /\ "caller" \in lib.failure
          /\ IF \E c \in Callers : pc[c] = "waiting"
             THEN \E c \in Callers : pc[c] = "waiting" /\ Finish(c, "raised")
             ELSE UNCHANGED <<callers, results, told>>
          /\ \E n \in 0..Len(responses) :
                responses' = SubSeq(responses, n + 1, Len(responses))
          /\ UNCHANGED <<pending, reader>>
    /\ UNCHANGED <<lib, nextId, requests, answered, notes, peer, closing>>

EndsAtOnce ==   \* mutant: what arrived before the end is not read
    /\ Reading /\ (peer = "closed" \/ closing)
    /\ reader' = "ended"
    /\ responses' = << >>
    /\ WakeAll
    /\ UNCHANGED <<lib, nextId, requests, answered, notes, peer, closing, inCallback, told>>

\* The reader meets the end: of the stream, once it has read it, or of the socket
\* closed under it
ReaderEnds ==
    /\ Reading
    /\ \/ peer = "closed" /\ (responses = << >> \/ ~lib.tail)
       \/ closing
    /\ reader' = "ended"
    /\ responses' = << >>
    /\ WakeAll
    /\ UNCHANGED <<lib, nextId, requests, answered, notes, peer, closing, inCallback, told>>

\* Cancelled by close, the reader may find the table locked, and give up on it
ReaderCancelled ==
    /\ Reading /\ closing /\ lib.close = "cancels"
    /\ reader' = "died"
    /\ responses' = << >>
    /\ UNCHANGED <<lib, nextId, callers, table, requests, answered, notes, peer, closing,
                   inCallback, told>>

\* The application closes the client
Close ==
    /\ ~closing /\ Calm
    /\ lib.close = "alone" => inCallback = NoCaller /\ \A c \in Callers : pc[c] = "idle"
    /\ closing' = TRUE
    /\ IF lib.close = "wakes"
       THEN /\ WakeAll
            /\ reader' = IF reader = "running" THEN "ended" ELSE reader
            /\ responses' = << >>
       ELSE UNCHANGED <<callers, table, reader, responses>>
    /\ UNCHANGED <<lib, nextId, requests, answered, notes, peer, inCallback, told>>

-----------------------------------------------------------------------------
(* The daemon                                                               *)

Answer ==
    /\ peer = "open" /\ requests # << >>
    /\ requests' = Tail(requests)
    /\ responses' = Append(responses, Response(Head(requests)))
    /\ answered' = answered \cup {Head(requests)}
    /\ UNCHANGED <<lib, nextId, callers, table, notes, peer, closing, reader, inCallback, told>>

Notify ==
    /\ peer = "open" /\ notes < MaxNotes
    /\ notes' = notes + 1
    /\ responses' = Append(responses, Note)
    /\ UNCHANGED <<lib, nextId, callers, table, requests, answered, peer, closing, reader,
                   inCallback, told>>

PeerCloses ==
    /\ peer = "open"
    /\ peer' = "closed"
    /\ requests' = << >>
    /\ UNCHANGED <<lib, nextId, callers, table, responses, answered, notes, closing, reader,
                   inCallback, told>>

Next ==
    \/ \E c \in Callers : Register(c) \/ Send(c) \/ Return(c) \/ Expire(c) \/ Callback(c)
    \/ Receive \/ CallbackReturns \/ CallbackRaises \/ ReaderEnds \/ ReaderCancelled \/ Close
    \/ Answer \/ Notify \/ PeerCloses

Spec == Init /\ [][Next]_vars

\* A caller's thread runs when it can, and a callback comes back.  The daemon owes
\* nothing, and the reader may never get to what has arrived.
Fairness ==
    /\ \A c \in Callers : WF_vars(Send(c) \/ Return(c) \/ Expire(c))
    /\ WF_vars(CallbackReturns)

FairSpec == Spec /\ Fairness

-----------------------------------------------------------------------------
TypeOK ==
    /\ lib \in Libraries
    /\ nextId \in 0..MaxCalls
    /\ pc \in [Callers -> {"idle", "registered", "waiting"}]
    /\ cur \in [Callers -> Nat]
    /\ reply \in [Callers -> {"none", "answer", "lost"}]
    /\ replyTo \in [Callers -> Nat]
    /\ expired \subseteq Callers
    /\ pending \in [Keys -> Callers \cup {NoCaller}]
    /\ results \subseteq Ids /\ answered \subseteq Ids
    /\ requests \in Seq(Ids)
    /\ responses \in Seq({Note} \cup {Response(id) : id \in Ids})
    /\ notes \in 0..MaxNotes
    /\ peer \in {"open", "closed"} /\ closing \in BOOLEAN
    /\ reader \in {"running", "ended", "failed", "died"}
    /\ inCallback \in Callers \cup {NoCaller}
    /\ outcome \in [Ids -> Outcomes] /\ source \in [Ids -> Nat]

\* A call reports the daemon's answer to its own request, whatever timed out, was
\* late or was overtaken before.  Where responses are matched by slot (kgd.c:1000,
\* client.zig:760) it may report the answer to an earlier call of that slot, but only
\* to one that timed out, or that itself reported the answer to one still earlier.
AnswerIsMine ==
    \A id \in Ids : outcome[id] = "answer" =>
        LET s == source[id] IN
        s # id => /\ Slotted /\ s < id /\ Key(s) = Key(id)
                  /\ outcome[s] = "timeout" \/ (outcome[s] = "answer" /\ source[s] < s)

\* The table holds the calls in progress and nothing else, whichever way calls
\* ended; Rust leaves calls that timed out or could not be sent, Lua one whose
\* callback raised, and Python keeps every response that came too late.
NothingLeftBehind ==
    /\ \A k \in Keys : pending[k] # NoCaller =>
          \/ pc[pending[k]] # "idle" /\ Key(cur[pending[k]]) = k
          \/ ~lib.cleans /\ outcome[k] \in {"timeout", "failed"}
          \/ "caller" \in lib.failure /\ outcome[k] = "raised"
    /\ \A id \in results :
          \/ \E c \in Callers : pc[c] = "waiting" /\ cur[c] = id
          \/ lib.keeps /\ outcome[id] \in {"timeout", "closed"}

\* When the reader has ended with the connection, no call is left to its timeout:
\* it was in the table when everybody was woken, or its write fails.
Woken(c) == reply[c] # "none" \/ lib.both = "either"
WokenAtTheEnd ==
    reader = "ended" => \A c \in Callers : pc[c] = "waiting" => Woken(c)

\* A call that the daemon answered before it closed the connection is not reported
\* as lost, in the libraries that read to the end of the stream and prefer the
\* answer to the end.
AnswerBeatsTheEnd ==
    reader = "ended" /\ ~closing /\ lib.both = "answer" /\ lib.tail =>
        \A id \in Ids : outcome[id] \in {"closed", "success"} => id \notin answered

\* A call returns by its timeout, with the daemon silent and the reader blocked in
\* a callback, this call's own included; and in every library, with or without a
\* timeout that works, once the reader has ended.  Unless the daemon, connected, stays
\* with a full socket: the write has no timeout (kgd.c:849, client.py:368,
\* client.go:300), and whoever writes waits, its own timeout not yet begun.
CallsReturn ==
    \A c \in Callers :
        (pc[c] # "idle" /\ (lib.timer = "returns" \/ reader = "ended"))
            ~> (pc[c] = "idle" \/ []Unread)

-----------------------------------------------------------------------------
(* What the repository says and two of the libraries do not do               *)

\* client.zig:583 "Send a request and wait for the matching response"
AnswersMatch == \A id \in Ids : outcome[id] = "answer" => source[id] = id
=============================================================================
