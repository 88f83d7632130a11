--------------------------- MODULE CClientProofs ---------------------------
(***************************************************************************)
(* Proofs about the C client, for any number of threads, slots, parts of a *)
(* frame, calls and faults: its types, that the daemon receives whole      *)
(* frames, that the end of the connection wakes the calls, that memory is  *)
(* freed by who holds it, that messages are handled in the order in which  *)
(* they were sent, and that its calls are those of module Calls.           *)
(***************************************************************************)
EXTENDS CClient, TLAPS, FiniteSetTheorems, SequenceTheorems

\* Where a thread is on its way through kgd_connect, and through a call; in which
\* part of a call it has a slot, and in which it may be given an answer
Starting == {"connect", "socket", "memory"}
InCall == {"encoded", "claimed", "writing", "unsent", "written", "rpc", "recv"}
Holding == InCall \ {"encoded"}
Waiting == {"claimed", "writing", "unsent", "written"}

Calling(t) == th[t].pc \in InCall
Holds(t) == th[t].pc \in Holding
Waits(t) == th[t].pc \in Waiting

Requests == {Call(id) : id \in Ids} \cup [type : {"oneway"}, id : {NoCall} \cup Nat, as : {"request"}]
Messages ==
    [type : {"response"}, id : Ids, as : {"result", "error", "malformed"}, serial : Nat]
    \cup [type : {"note"}, id : {NoCall}, as : {"note"}, serial : Nat]
PartsOf(messages) == [message : messages, part : 1..Parts]

Types ==
    /\ TypeOK
    /\ toDaemon \in Seq(PartsOf(Requests))
    /\ recv \in Seq(PartsOf(Messages)) /\ fromDaemon \in Seq(PartsOf(Messages))

\* Until the reader runs only one thread does
ConnectInv ==
    /\ client = "none" =>
           /\ reader = "none" /\ nextId = 0
           /\ \A t \in All : th[t].pc \in Starting \cup {"idle"}
    /\ \A t \in All : th[t].pc \in Starting => client = "none" /\ th[t].id = 0
    /\ \A t, u \in All : th[t].pc \in Starting /\ th[u].pc \in Starting => t = u

\* A call has an id of its own that was given out, and has not returned
CallInv ==
    /\ \A t \in All : Calling(t) =>
           th[t].id \in Ids /\ th[t].id < nextId /\ verdict[th[t].id] = "none"
    /\ \A t, u \in All : Calling(t) /\ Calling(u) /\ th[t].id = th[u].id => t = u
    /\ \A id \in Ids : id >= nextId => verdict[id] = "none"

\* A slot is active while one call has it
SlotInv ==
    /\ \A i \in 0..Slots - 1 :
           slot[i].active <=> \E t \in All : Holds(t) /\ SlotOf(th[t].id) = i
    /\ \A t, u \in All : Holds(t) /\ Holds(u) /\ SlotOf(th[t].id) = SlotOf(th[u].id) => t = u

\* A slot is done with an answer, or because the reader has ended
DoneInv ==
    \A i \in 0..Slots - 1 :
        /\ slot[i].error => slot[i].from # NoCall
        /\ slot[i].done /\ slot[i].from = NoCall => reader \in {"waking", "ended"}

\* The parts of a request are written once, and before it is answered
RequestInv ==
    /\ \A id \in answered : id < nextId
    /\ \A i \in DOMAIN toDaemon : toDaemon[i].message.type = "call" =>
           LET id == toDaemon[i].message.id IN
           id \notin answered /\ id < nextId /\ (verdict[id] # "none" \/ Pending(id))
    /\ \A i, j \in DOMAIN toDaemon :
           toDaemon[i] = toDaemon[j] /\ toDaemon[i].message.type = "call" => i = j
    /\ \A t \in All : th[t].pc \in {"encoded", "claimed", "writing"} =>
           /\ th[t].id \notin answered
           /\ \A i \in DOMAIN toDaemon : toDaemon[i].message = Call(th[t].id) =>
                  th[t].pc = "writing" /\ toDaemon[i].part <= th[t].sent

\* What is on its way to process_message
Stream == recv \o fromDaemon
IsAnswer(part) == part.message.type = "response"

\* An answer is on its way, in a slot, or with a call
AnswerInv ==
    /\ \A i \in DOMAIN Stream : IsAnswer(Stream[i]) =>
           LET s == Stream[i].message.id IN
           /\ s \in answered
           /\ \A id \in Ids : source[id] # s
           /\ \A t \in All : Waits(t) => slot[SlotOf(th[t].id)].from # s
    /\ \A i, j \in DOMAIN Stream :
           IsAnswer(Stream[i]) /\ IsAnswer(Stream[j]) /\ Stream[i].part = Stream[j].part
               /\ Stream[i].message.id = Stream[j].message.id => i = j
    /\ \A t \in All :
           LET s == slot[SlotOf(th[t].id)].from IN
           Waits(t) /\ s # NoCall =>
               s \in answered /\ SlotOf(s) = SlotOf(th[t].id) /\ \A id \in Ids : source[id] # s

\* A call has the answer to a call of its slot, which nobody else has, and returns it
SourceInv ==
    /\ \A id \in Ids : source[id] # NoCall =>
           /\ source[id] \in answered /\ SlotOf(source[id]) = SlotOf(id)
           /\ verdict[id] # "none" \/ \E t \in All : th[t].pc = "rpc" /\ th[t].id = id
    /\ \A id, j \in Ids : source[id] # NoCall /\ source[id] = source[j] => id = j
    /\ \A t \in All : th[t].pc = "rpc" => source[th[t].id] # NoCall

CallsInv == Types /\ ConnectInv /\ CallInv /\ SlotInv /\ DoneInv /\ RequestInv /\ AnswerInv /\ SourceInv

\* Unless a write was interrupted, the last frame is whole, or its writer has the lock,
\* or nobody will write any more
LockInv == \A t \in All : Writing(t) <=> lock = t
FramesInv ==
    /\ LockInv
    /\ FramesWhole
    /\ "write" \notin faults /\ Writable /\ toDaemon # << >> /\ toDaemon[Len(toDaemon)].part < Parts =>
           \E t \in All : /\ Writing(t) /\ th[t].sent > 0
    /\ "write" \notin faults => \A t \in All : Writing(t) /\ Writable =>
           IF th[t].sent = 0 THEN toDaemon = << >> \/ toDaemon[Len(toDaemon)].part = Parts
           ELSE toDaemon # << >> /\ toDaemon[Len(toDaemon)] = [message |-> Message(t), part |-> th[t].sent]

\* The reader ends when nobody can write any more; it has woken the slots behind it
WakingInv ==
    "read" \notin faults =>
        /\ reader \in {"waking", "ended"} => ~Writable
        /\ reader \notin {"waking", "ended"} => wake = 0
        /\ \A t \in All :
               th[t].pc = "written" /\ (reader = "ended" \/ (reader = "waking" /\ SlotOf(th[t].id) < wake)) =>
                   Mine(t).done

-----------------------------------------------------------------------------
(* Slots, frames and sequences                                             *)

LEMMA Constants ==
    /\ Slots \in Nat \ {0} /\ Parts \in Nat \ {0} /\ Room \in Nat \ {0} /\ Chunk \in Nat \ {0}
    /\ MaxCalls \in Nat \ {0} /\ MaxOneway \in Nat /\ MaxNotes \in Nat /\ MaxFaults \in Nat
    /\ Reader \notin Threads /\ NoThread \notin All /\ Reader \in All /\ Threads \subseteq All
BY CClientAssumption DEF CClientAssumption, All

\* Every id has a slot.
LEMMA SlotOfType ==
    ASSUME NEW id \in Nat
    PROVE  SlotOf(id) \in 0..Slots - 1
BY Constants DEF SlotOf

LEMMA IdsAreNats == Ids \subseteq Nat /\ NoCall \notin Ids /\ Null \notin Ids
BY Constants DEF Ids, NoCall, Null

\* What is left of a sequence without its first n elements.
LEMMA SuffixType ==
    ASSUME NEW S, NEW s \in Seq(S), NEW n \in Nat, n <= Len(s)
    PROVE  LET rest == SubSeq(s, n + 1, Len(s)) IN
           /\ rest \in Seq(S)
           /\ Len(rest) = Len(s) - n
           /\ DOMAIN rest = 1..Len(s) - n
           /\ \A i \in DOMAIN rest : i + n \in DOMAIN s /\ rest[i] = s[i + n]
<1> DEFINE rest == SubSeq(s, n + 1, Len(s))
<1>1. Len(s) \in Nat /\ DOMAIN s = 1..Len(s)
  OBVIOUS
<1>2. \A i \in n + 1..Len(s) : s[i] \in S
  BY <1>1
<1>3. /\ rest \in Seq(S)
      /\ Len(rest) = IF n + 1 <= Len(s) THEN Len(s) - (n + 1) + 1 ELSE 0
      /\ \A i \in 1..Len(s) - (n + 1) + 1 : rest[i] = s[n + 1 + i - 1]
  BY <1>1, <1>2, SubSeqProperties
<1> HIDE DEF rest
<1>4. Len(rest) = Len(s) - n
  <2>1. ASSUME NEW k \in Nat, k >= n
        PROVE  (IF n + 1 <= k THEN k - (n + 1) + 1 ELSE 0) = k - n
    BY <2>1
  <2> QED
    BY <1>1, <1>3, <2>1, Zenon
<1>5. DOMAIN rest = 1..Len(s) - n
  BY <1>3, <1>4
<1>6. ASSUME NEW i \in 1..Len(s) - n
      PROVE  i + n \in DOMAIN s /\ rest[i] = s[i + n]
  <2>1. n + 1 + i - 1 = i + n /\ i \in 1..Len(s) - (n + 1) + 1 /\ i + n \in 1..Len(s)
    BY <1>1
  <2> QED
    BY <2>1, <1>1, <1>3
<1> QED
  BY <1>3, <1>4, <1>5, <1>6 DEF rest

\* What is left when the first frame has been taken.
LEMMA AfterFrameType ==
    ASSUME NEW S, NEW s \in Seq(S), Len(s) >= Parts
    PROVE  /\ AfterFrame(s) \in Seq(S)
           /\ Len(AfterFrame(s)) = Len(s) - Parts
           /\ DOMAIN AfterFrame(s) = 1..Len(s) - Parts
           /\ \A i \in DOMAIN AfterFrame(s) : i + Parts \in DOMAIN s /\ AfterFrame(s)[i] = s[i + Parts]
<1>1. Parts \in Nat /\ Parts <= Len(s)
  BY Constants
<1> QED
  BY <1>1, SuffixType DEF AfterFrame

\* The parts of a whole frame are those of one message.
LEMMA WholeFrame ==
    ASSUME NEW S, NEW s \in Seq(S), Whole(s)
    PROVE  /\ Len(s) >= Parts
           /\ \A p \in 1..Parts : p \in DOMAIN s /\ s[p] = [message |-> s[1].message, part |-> p]
<1>1. Parts \in Nat \ {0} /\ Len(s) \in Nat /\ Len(s) >= Parts /\ DOMAIN s = 1..Len(s)
  BY Constants DEF Whole
<1>2. \A i \in 1..Parts - 1 + 1 : SubSeq(s, 1, Parts)[i] = s[1 + i - 1]
  <2>1. \A i \in 1..Parts : s[i] \in S
    BY <1>1
  <2> QED
    BY <1>1, <2>1, SubSeqProperties
<1>3. ASSUME NEW p \in 1..Parts
      PROVE  p \in DOMAIN s /\ s[p] = [message |-> s[1].message, part |-> p]
  <2>1. SubSeq(s, 1, Parts)[p] = s[p]
    <3>1. p \in 1..Parts - 1 + 1 /\ 1 + p - 1 = p
      BY <1>1
    <3> QED
      BY <1>2, <3>1
  <2>2. SubSeq(s, 1, Parts) = FrameOf(s[1].message)
    BY DEF Whole
  <2>3. FrameOf(s[1].message)[p] = [message |-> s[1].message, part |-> p]
    BY DEF FrameOf
  <2> QED
    BY <1>1, <2>1, <2>2, <2>3
<1> QED
  BY <1>1, <1>3

\* A message is cut into its parts.
LEMMA FrameType ==
    ASSUME NEW M, NEW m \in M
    PROVE  /\ FrameOf(m) \in Seq(PartsOf(M))
           /\ Len(FrameOf(m)) = Parts
           /\ \A p \in 1..Parts : FrameOf(m)[p] = [message |-> m, part |-> p]
<1>1. Parts \in Nat
  BY Constants
<1>2. \A p \in 1..Parts : [message |-> m, part |-> p] \in PartsOf(M)
  BY DEF PartsOf
<1> QED
  BY <1>1, <1>2 DEF FrameOf

-----------------------------------------------------------------------------
(* What the parts of a step do                                             *)

Thread == [pc : Places, id : {NoCall} \cup Nat, sent : 0..Parts - 1]
Slot == [active : BOOLEAN, done : BOOLEAN, error : BOOLEAN,
         data : Ids \cup {Null}, from : Ids \cup {NoCall}]
Numbers == 0..Slots - 1

\* TypeOK without the threads and the slots
OtherTypes ==
    /\ nextId \in 0..MaxCalls /\ oneways \in 0..MaxOneway /\ notes \in 0..MaxNotes
    /\ lock \in All \cup {NoThread}
    /\ reader \in {"none", "reading", "callback", "waking", "ended"} /\ wake \in Numbers
    /\ callbacks \in BOOLEAN /\ handled \in Nat /\ capacity \in Nat
    /\ client \in {"none", "refused", "connecting", "open", "closing", "freed"}
    /\ held \subseteq {"socket", "memory", "reader"}
    /\ peer \in {"open", "closed"}
    /\ live \subseteq Ids /\ twice \in BOOLEAN
    /\ lastError \in [All -> Ids \cup {NoCall}]
    /\ answered \subseteq Ids
    /\ verdict \in [Ids -> Verdicts] /\ source \in [Ids -> Ids \cup {NoCall}]

LEMMA TypeParts ==
    TypeOK <=> th \in [All -> Thread] /\ slot \in [Numbers -> Slot] /\ OtherTypes
BY DEF TypeOK, OtherTypes, Thread, Slot, Numbers

\* Only t moves
Others(t) == \A u \in All : u # t => th'[u] = th[u]
Moves(t, p) ==
    th' \in [All -> Thread] /\ th'[t].pc = p /\ th'[t].id = th[t].id /\ Others(t)
\* Only slot i changes
OtherSlots(i) == \A j \in Numbers : j # i => slot'[j] = slot[j]

LEMMA ThreadUpdate ==
    ASSUME TypeOK, NEW t \in All, NEW state \in Thread, th' = [th EXCEPT ![t] = state]
    PROVE  th' \in [All -> Thread] /\ th'[t] = state /\ Others(t)
<1>1. th \in [All -> Thread]
  BY TypeParts
<1> QED
  BY <1>1 DEF Others

LEMMA SlotUpdate ==
    ASSUME TypeOK, NEW i \in Numbers, NEW new \in Slot, slot' = [slot EXCEPT ![i] = new]
    PROVE  slot' \in [Numbers -> Slot] /\ slot'[i] = new /\ OtherSlots(i)
<1>1. slot \in [Numbers -> Slot]
  BY TypeParts
<1> QED
  BY <1>1 DEF OtherSlots

LEMMA GoMoves ==
    ASSUME TypeOK, NEW t \in All, NEW p \in Places, Go(t, p)
    PROVE  Moves(t, p) /\ th'[t].sent = th[t].sent
<1>1. th[t] \in Thread
  BY TypeParts
<1>2. [th[t] EXCEPT !.pc = p] \in Thread
  BY <1>1 DEF Thread
<1>3. th' = [th EXCEPT ![t] = [th[t] EXCEPT !.pc = p]]
  BY DEF Go
<1>4. th' \in [All -> Thread] /\ th'[t] = [th[t] EXCEPT !.pc = p] /\ Others(t)
  BY <1>2, <1>3, ThreadUpdate
<1> QED
  BY <1>1, <1>4 DEF Thread, Moves

LEMMA CallSlot ==
    ASSUME TypeOK, CallInv, NEW t \in All, Calling(t)
    PROVE  /\ th[t].id \in Ids /\ th[t].id \in Nat /\ th[t].id \in 0..nextId - 1
           /\ SlotOf(th[t].id) \in Numbers
           /\ verdict[th[t].id] = "none"
<1>1. th[t].id \in Ids /\ th[t].id < nextId /\ verdict[th[t].id] = "none"
  BY DEF CallInv
<1>2. th[t].id \in Nat /\ nextId \in Nat
  <2>1. nextId \in 0..MaxCalls /\ MaxCalls \in Nat
    BY Constants, TypeParts DEF OtherTypes
  <2>2. nextId \in Nat
    BY <2>1
  <2>3. th[t].id \in Nat
    BY <1>1, IdsAreNats
  <2> QED
    BY <2>2, <2>3
<1>3. th[t].id \in 0..nextId - 1
  BY <1>1, <1>2
<1>4. SlotOf(th[t].id) \in Numbers
  BY <1>2, SlotOfType DEF Numbers
<1> QED
  BY <1>1, <1>2, <1>3, <1>4

\* A call returns.
LEMMA ReportEffect ==
    ASSUME TypeOK, CallInv, NEW t \in All, Calling(t), NEW what \in Verdicts, Report(t, what)
    PROVE  /\ \E p \in {"idle", "close"} : Moves(t, p) 
           /\ verdict' \in [Ids -> Verdicts] /\ verdict'[th[t].id] = what
           /\ \A id \in Ids : id # th[t].id => verdict'[id] = verdict[id]
           /\ client' = client \/ (client = "connecting" /\ client' = "open")
<1>1. verdict \in [Ids -> Verdicts] /\ th[t].id \in Ids
  BY TypeParts, CallSlot DEF OtherTypes
<1>2. /\ verdict' \in [Ids -> Verdicts] /\ verdict'[th[t].id] = what
      /\ \A id \in Ids : id # th[t].id => verdict'[id] = verdict[id]
  BY <1>1 DEF Report
<1>3. \E p \in {"idle", "close"} : Go(t, p)
  BY DEF Report, Returned
<1>4. \E p \in {"idle", "close"} : Moves(t, p)
  BY <1>3, GoMoves DEF Places
<1>5. client' = client \/ (client = "connecting" /\ client' = "open")
  BY DEF Report
<1> QED
  BY <1>2, <1>4, <1>5

\* A call gives its slot back.
LEMMA ReleaseEffect ==
    ASSUME TypeOK, CallInv, NEW t \in All, Calling(t), Release(t)
    PROVE  LET i == SlotOf(th[t].id) IN
           /\ slot' \in [Numbers -> Slot] /\ OtherSlots(i)
           /\ slot'[i] = [slot[i] EXCEPT !.active = FALSE]
           /\ slot'[i].active = FALSE /\ slot'[i].done = slot[i].done
           /\ slot'[i].error = slot[i].error /\ slot'[i].from = slot[i].from
<1> DEFINE i == SlotOf(th[t].id)
<1>1. i \in Numbers /\ slot[i] \in Slot
  BY CallSlot, TypeParts
<1>2. [slot[i] EXCEPT !.active = FALSE] \in Slot
  BY <1>1 DEF Slot
<1>3. slot' = [slot EXCEPT ![i] = [slot[i] EXCEPT !.active = FALSE]]
  BY DEF Release
<1>4. slot' \in [Numbers -> Slot] /\ slot'[i] = [slot[i] EXCEPT !.active = FALSE] /\ OtherSlots(i)
  BY <1>1, <1>2, <1>3, SlotUpdate
<1> QED
  BY <1>1, <1>4 DEF Slot

LEMMA FreeAllType ==
    ASSUME TypeOK, NEW buffers, FreeAll(buffers)
    PROVE  live' \subseteq Ids /\ twice' \in BOOLEAN
BY TypeParts DEF FreeAll, OtherTypes

\* What each step of a thread does to the threads, the slots and the calls.
LEMMA ConnectEffect ==
    ASSUME TypeOK, NEW t \in All
    PROVE  /\ OpenSocket(t) => Moves(t, "socket")
           /\ Connect(t) => Moves(t, "memory")
           /\ StartReader(t) => Moves(t, "encoded")
           /\ Refused(t) => Moves(t, "idle")
           /\ Close(t) => Moves(t, "joining")
           /\ Free(t) => Moves(t, "idle")
BY GoMoves DEF Places, OpenSocket, Connect, StartReader, Refused, Close, Free

LEMMA EncodeEffect ==
    ASSUME TypeOK, NEW t \in All
    PROVE  /\ Encode(t) => /\ th' \in [All -> Thread] /\ Others(t)
                           /\ th'[t] = [pc |-> "encoded", id |-> nextId, sent |-> 0]
                           /\ nextId \in Ids /\ nextId' = nextId + 1
           /\ EncodeOneway(t) => /\ th' \in [All -> Thread] /\ Others(t)
                                 /\ th'[t] = [pc |-> "oneway", id |-> MaxCalls + oneways, sent |-> 0]
<1>1. nextId \in Nat /\ oneways \in Nat /\ 0 \in 0..Parts - 1 /\ MaxCalls + oneways \in Nat
  BY Constants, TypeParts DEF OtherTypes
<1>2. /\ [pc |-> "encoded", id |-> nextId, sent |-> 0] \in Thread
      /\ [pc |-> "oneway", id |-> MaxCalls + oneways, sent |-> 0] \in Thread
  BY <1>1 DEF Thread, Places
<1>3. nextId < MaxCalls => nextId \in Ids
  BY <1>1, Constants DEF Ids
<1> QED
  BY <1>2, <1>3, ThreadUpdate DEF Encode, EncodeOneway

LEMMA ClaimEffect ==
    ASSUME TypeOK, CallInv, NEW t \in All, Claim(t)
    PROVE  LET i == SlotOf(th[t].id) IN
           \/ /\ slot[i].active /\ slot' = slot /\ Report(t, "send")
           \/ /\ ~slot[i].active /\ Moves(t, "claimed") /\ verdict' = verdict /\ client' = client
              /\ slot' \in [Numbers -> Slot] /\ OtherSlots(i)
              /\ slot'[i] = [active |-> TRUE, done |-> FALSE, error |-> FALSE, data |-> Null, from |-> NoCall]
<1> DEFINE i == SlotOf(th[t].id)
<1>1. i \in Numbers
  BY CallSlot DEF Claim, Calling, InCall
<1>2. CASE slot[i].active
  BY <1>2 DEF Claim
<1>3. CASE ~slot[i].active
  <2>1. [active |-> TRUE, done |-> FALSE, error |-> FALSE, data |-> Null, from |-> NoCall] \in Slot
    BY DEF Slot
  <2>2. Moves(t, "claimed")
    BY <1>3, GoMoves DEF Claim, Places
  <2>3. slot' = [slot EXCEPT ![i] =
                    [active |-> TRUE, done |-> FALSE, error |-> FALSE, data |-> Null, from |-> NoCall]]
    BY <1>3 DEF Claim
  <2> QED
    BY <1>1, <1>3, <2>1, <2>2, <2>3, SlotUpdate DEF Claim
<1> QED
  BY <1>2, <1>3

LEMMA LockEffect ==
    ASSUME TypeOK, NEW t \in All, WriteLock(t)
    PROVE  /\ Moves(t, IF th[t].pc = "claimed" THEN "writing" ELSE "telling")
           /\ th'[t].sent = 0
<1> DEFINE p == IF th[t].pc = "claimed" THEN "writing" ELSE "telling"
           state == [[th[t] EXCEPT !.pc = p] EXCEPT !.sent = 0]
<1>1. th[t] \in Thread /\ p \in Places /\ 0 \in 0..Parts - 1
  BY TypeParts, Constants DEF Places
<1>2. state \in Thread /\ state.pc = p /\ state.id = th[t].id /\ state.sent = 0
  BY <1>1 DEF Thread
<1>3. th' = [th EXCEPT ![t] = state]
  <2>1. th \in [All -> Thread]
    BY TypeParts
  <2> QED
    BY <2>1, <1>1 DEF WriteLock, Thread
<1> QED
  BY <1>2, <1>3, ThreadUpdate DEF Moves

LEMMA WriteEffect ==
    ASSUME TypeOK, NEW t \in All, Write(t)
    PROVE  \/ /\ th[t].sent + 1 < Parts /\ Moves(t, th[t].pc) /\ th'[t].sent = th[t].sent + 1 /\ lock' = lock
           \/ /\ th[t].sent + 1 = Parts /\ lock' = NoThread
              /\ Moves(t, IF th[t].pc = "writing" THEN "written" ELSE "idle")
<1>1. th[t] \in Thread /\ th[t].sent \in 0..Parts - 1 /\ Parts \in Nat
  BY TypeParts, Constants DEF Thread
<1>2. CASE th[t].sent + 1 < Parts
  <2>1. th' = [th EXCEPT ![t] = [th[t] EXCEPT !.sent = th[t].sent + 1]]
    BY <1>2 DEF Write
  <2>2. th[t].sent + 1 \in 0..Parts - 1
    BY <1>1, <1>2
  <2>3. [th[t] EXCEPT !.sent = th[t].sent + 1] \in Thread
    BY <1>1, <2>2 DEF Thread
  <2>4. /\ th' \in [All -> Thread] /\ th'[t] = [th[t] EXCEPT !.sent = th[t].sent + 1] /\ Others(t)
    BY <2>1, <2>3, ThreadUpdate
  <2> QED
    BY <1>1, <1>2, <2>4 DEF Thread, Moves, Write
<1>3. CASE ~(th[t].sent + 1 < Parts)
  <2>1. th[t].sent + 1 = Parts
    BY <1>1, <1>3
  <2> QED
    BY <1>3, <2>1, GoMoves DEF Write, Places
<1> QED
  BY <1>2, <1>3

LEMMA CallEffect ==
    ASSUME TypeOK, NEW t \in All
    PROVE  /\ WriteFails(t) => Moves(t, IF th[t].pc = "writing" THEN "unsent" ELSE "idle")
           /\ ReturnError(t) => Moves(t, "rpc")
           /\ ReturnClosed(t) => Moves(t, "recv")
BY GoMoves DEF Places, WriteFails, ReturnError, ReturnClosed

LEMMA ReturnResultEffect ==
    ASSUME TypeOK, CallInv, NEW t \in All, ReturnResult(t)
    PROVE  LET i == SlotOf(th[t].id) IN
           /\ slot' \in [Numbers -> Slot] /\ OtherSlots(i)
           /\ slot'[i].active = FALSE /\ slot'[i].done = slot[i].done
           /\ slot'[i].error = slot[i].error /\ slot'[i].from = slot[i].from
<1> DEFINE i == SlotOf(th[t].id)
           new == [[slot[i] EXCEPT !.active = FALSE] EXCEPT !.data = Null]
<1>1. i \in Numbers /\ slot[i] \in Slot /\ slot \in [Numbers -> Slot]
  BY CallSlot, TypeParts DEF ReturnResult, Calling, InCall
<1>2. /\ new \in Slot
      /\ new.active = FALSE /\ new.done = slot[i].done
      /\ new.error = slot[i].error /\ new.from = slot[i].from
  BY <1>1 DEF Slot
<1>3. slot' = [slot EXCEPT ![i] = new]
  BY <1>1 DEF ReturnResult, Slot
<1> QED
  BY <1>1, <1>2, <1>3, SlotUpdate

\* What the reader's steps do to the slots.
LEMMA FirstMessage ==
    ASSUME Types, Whole(recv)
    PROVE  recv # << >> /\ recv[1] \in PartsOf(Messages) /\ recv[1].message \in Messages
<1>1. recv \in Seq(PartsOf(Messages)) /\ Len(recv) >= 1 /\ Len(recv) \in Nat
  BY Constants DEF Types, Whole
<1>2. recv[1] \in PartsOf(Messages)
  BY <1>1
<1> QED
  BY <1>1, <1>2 DEF PartsOf

LEMMA FirstResponse ==
    ASSUME Types, Arrived("response")
    PROVE  /\ recv[1].message.id \in Ids /\ recv[1].message.id \in Nat
           /\ SlotOf(recv[1].message.id) \in Numbers
           /\ recv[1].message.as \in {"result", "error", "malformed"}
<1>1. recv[1].message \in Messages /\ recv[1].message.type = "response"
  BY FirstMessage DEF Arrived
<1>2. recv[1].message.id \in Ids /\ recv[1].message.as \in {"result", "error", "malformed"}
  BY <1>1 DEF Messages
<1> QED
  BY <1>2, IdsAreNats, SlotOfType DEF Numbers

LEMMA GiveEffect ==
    ASSUME TypeOK, NEW message, message.id \in Ids, SlotOf(message.id) \in Numbers,
           NEW data \in Ids \cup {Null}, GiveToActive(message, data)
    PROVE  LET i == SlotOf(message.id) IN
           /\ slot' \in [Numbers -> Slot] /\ OtherSlots(i)
           /\ slot'[i].active = slot[i].active
           /\ ~slot[i].active => slot'[i] = slot[i]
           /\ slot[i].active => slot'[i].done = TRUE /\ slot'[i].from = message.id
<1> DEFINE i == SlotOf(message.id)
           given(e) == [slot[i] EXCEPT !.done = TRUE, !.error = e, !.data = data, !.from = message.id]
           new(e) == IF ~slot[i].active THEN slot[i] ELSE given(e)
<1>1. slot[i] \in Slot /\ slot \in [Numbers -> Slot]
  BY TypeParts
<1>3. PICK e \in BOOLEAN : e = (message.as = "error")
  OBVIOUS
<1>4. /\ given(e) \in Slot /\ given(e).active = slot[i].active
      /\ given(e).done = TRUE /\ given(e).from = message.id
  BY <1>1 DEF Slot
<1>5. slot' = [slot EXCEPT ![i] = new(e)]
  <2>1. slot' = [slot EXCEPT ![i] = new(message.as = "error")]
    BY DEF GiveToActive
  <2> QED
    BY <1>3, <2>1, Zenon
<1>6. slot' \in [Numbers -> Slot] /\ slot'[i] = new(e) /\ OtherSlots(i)
  <2>1. new(e) \in Slot
    BY <1>1, <1>4
  <2> QED
    BY <2>1, <1>5, SlotUpdate
<1> QED
  BY <1>1, <1>4, <1>6

LEMMA RespondEffect ==
    ASSUME Types, Respond
    PROVE  LET id == recv[1].message.id
               i == SlotOf(id)
           IN  /\ slot' \in [Numbers -> Slot] /\ OtherSlots(i)
               /\ slot'[i].active = slot[i].active
               /\ ~slot[i].active => slot'[i] = slot[i]
               /\ slot[i].active => slot'[i].done = TRUE /\ slot'[i].from = id
<1> DEFINE message == recv[1].message
<1>1. TypeOK /\ message.id \in Ids /\ SlotOf(message.id) \in Numbers
  BY FirstResponse DEF Respond, Types
<1>2. slot[SlotOf(message.id)].data \in Ids \cup {Null}
  BY <1>1, TypeParts DEF Slot
<1>3. \E data \in Ids \cup {Null} : GiveToActive(message, data)
  BY <1>1, <1>2 DEF Respond
<1> QED
  BY <1>1, <1>3, GiveEffect

LEMMA WakeEffect ==
    ASSUME TypeOK, Wake
    PROVE  /\ slot' \in [Numbers -> Slot] /\ OtherSlots(wake)
           /\ slot'[wake].active = slot[wake].active /\ slot'[wake].error = slot[wake].error
           /\ slot'[wake].from = slot[wake].from
           /\ slot'[wake].done = (slot[wake].done \/ slot[wake].active)
<1> DEFINE done == slot[wake].done \/ slot[wake].active
<1>1. wake \in Numbers /\ slot[wake] \in Slot /\ slot \in [Numbers -> Slot]
  BY TypeParts DEF OtherTypes
<1>2. slot[wake].done \in BOOLEAN /\ slot[wake].active \in BOOLEAN
  BY <1>1 DEF Slot
<1>3. done \in BOOLEAN
  BY <1>2
<1>4. slot' = [slot EXCEPT ![wake] = [slot[wake] EXCEPT !.done = done]]
  BY <1>1 DEF Wake
<1>5. [slot[wake] EXCEPT !.done = done] \in Slot
  BY <1>1, <1>3 DEF Slot
<1>6. slot' \in [Numbers -> Slot] /\ slot'[wake] = [slot[wake] EXCEPT !.done = done] /\ OtherSlots(wake)
  BY <1>1, <1>4, <1>5, SlotUpdate
<1> QED
  BY <1>1, <1>6 DEF Slot

-----------------------------------------------------------------------------
(* Types                                                                   *)

Sequences ==
    /\ toDaemon \in Seq(PartsOf(Requests))
    /\ recv \in Seq(PartsOf(Messages)) /\ fromDaemon \in Seq(PartsOf(Messages))

Typed == th \in [All -> Thread] /\ slot \in [Numbers -> Slot] /\ OtherTypes /\ Sequences

LEMMA TypedTypes == Typed <=> Types
BY TypeParts DEF Types, Typed, Sequences

\* A step of kgd_connect.
LEMMA ConnectTyped ==
    ASSUME Types, ConnectInv, NEW t \in All,
           OpenSocket(t) \/ Connect(t) \/ StartReader(t) \/ Refused(t)
    PROVE  Typed'
<1> USE DEF io, daemon, receiving, heap, told, application
<1>1. TypeOK /\ Typed
  BY TypedTypes DEF Types
<1>2. /\ slot \in [Numbers -> Slot] /\ OtherTypes /\ Sequences /\ 0 \in Ids
      /\ th' \in [All -> Thread]
  BY <1>1, ConnectEffect, Constants DEF Typed, Moves, Ids
<1>3. CASE OpenSocket(t)
  BY <1>2, <1>3 DEF OpenSocket, Typed, OtherTypes, Sequences
<1>4. CASE Connect(t)
  BY <1>2, <1>4 DEF Connect, Typed, OtherTypes, Sequences
<1>5. CASE StartReader(t)
  <2>1. 1 \in 0..MaxCalls
    BY Constants
  <2> QED
    BY <1>2, <1>5, <2>1 DEF StartReader, Typed, OtherTypes, Sequences
<1>6. CASE Refused(t)
  BY <1>2, <1>6 DEF Refused, SetError, Typed, OtherTypes, Sequences
<1> QED
  BY <1>3, <1>4, <1>5, <1>6

LEMMA MessageType ==
    ASSUME Types, CallInv, NEW t \in All, Writing(t)
    PROVE  /\ Message(t) \in Requests
           /\ FrameOf(Message(t))[th[t].sent + 1] = [message |-> Message(t), part |-> th[t].sent + 1]
           /\ th[t].sent + 1 \in 1..Parts
           /\ [message |-> Message(t), part |-> th[t].sent + 1] \in PartsOf(Requests)
<1>1. th[t] \in Thread /\ Parts \in Nat
  BY TypeParts, Constants DEF Types
<1>2. th[t].sent \in 0..Parts - 1 /\ th[t].id \in {NoCall} \cup Nat
  BY <1>1 DEF Thread
<1>3. th[t].sent + 1 \in 1..Parts
  BY <1>1, <1>2
<1>4. Message(t) \in Requests
  <2>1. CASE th[t].pc = "writing"
    <3>1. th[t].id \in Ids
      BY <2>1, CallSlot DEF Types, Calling, InCall
    <3> QED
      BY <2>1, <3>1 DEF Message, Requests
  <2>2. CASE th[t].pc # "writing"
    <3>1. Message(t) = Oneway(th[t].id)
      BY <2>2 DEF Message
    <3> QED
      BY <1>2, <3>1 DEF Oneway, Requests
  <2> QED
    BY <2>1, <2>2
<1> QED
  BY <1>3, <1>4 DEF FrameOf, PartsOf

\* A step of a call up to its last write.
LEMMA RequestTyped ==
    ASSUME Types, CallInv, NEW t \in All,
           Encode(t) \/ EncodeOneway(t) \/ EncodingFails(t) \/ Claim(t) \/ WriteLock(t)
           \/ Write(t) \/ WriteFails(t)
    PROVE  Typed'
<1> USE DEF io, daemon, receiving, heap, told, application
<1>1. TypeOK /\ Typed
  BY TypedTypes DEF Types
<1>2. slot \in [Numbers -> Slot] /\ OtherTypes /\ Sequences
  BY <1>1 DEF Typed
<1>3. CASE Encode(t)
  <2>1. th' \in [All -> Thread] /\ nextId \in Ids /\ nextId' = nextId + 1
    BY <1>1, <1>3, EncodeEffect
  <2>2. nextId' \in 0..MaxCalls
    BY <2>1, Constants DEF Ids
  <2> QED
    BY <1>2, <1>3, <2>1, <2>2 DEF Encode, Typed, OtherTypes, Sequences
<1>4. CASE EncodeOneway(t)
  <2>1. th' \in [All -> Thread] /\ oneways \in 0..MaxOneway /\ oneways < MaxOneway /\ oneways' = oneways + 1
    BY <1>1, <1>2, <1>4, EncodeEffect DEF OtherTypes, EncodeOneway
  <2>2. oneways' \in 0..MaxOneway
    BY <2>1, Constants
  <2> QED
    BY <1>2, <1>4, <2>1, <2>2 DEF EncodeOneway, Typed, OtherTypes, Sequences
<1>5. CASE EncodingFails(t)
  <2>1. Calling(t) /\ th[t].id \in Ids
    BY <1>1, <1>5, CallSlot DEF EncodingFails, Calling, InCall
  <2>2. /\ th' \in [All -> Thread] /\ verdict' \in [Ids -> Verdicts]
        /\ client' \in {"none", "refused", "connecting", "open", "closing", "freed"}
    BY <1>1, <1>2, <1>5, <2>1, ReportEffect DEF EncodingFails, Moves, Verdicts, OtherTypes
  <2> QED
    BY <1>2, <1>5, <2>1, <2>2 DEF EncodingFails, SetError, Typed, OtherTypes, Sequences
<1>6. CASE Claim(t)
  <2>1. Calling(t) /\ th[t].id \in Ids
    BY <1>1, <1>6, CallSlot DEF Claim, Calling, InCall
  <2>2. CASE slot[SlotOf(th[t].id)].active
    <3>1. /\ th' \in [All -> Thread] /\ verdict' \in [Ids -> Verdicts]
          /\ client' \in {"none", "refused", "connecting", "open", "closing", "freed"}
      BY <1>1, <1>2, <1>6, <2>1, <2>2, ReportEffect DEF Claim, Moves, Verdicts, OtherTypes
    <3> QED
      BY <1>2, <1>6, <2>1, <2>2, <3>1 DEF Claim, SetError, Typed, OtherTypes, Sequences
  <2>3. CASE ~slot[SlotOf(th[t].id)].active
    <3>1. th' \in [All -> Thread] /\ slot' \in [Numbers -> Slot]
      BY <1>1, <1>6, <2>3, ClaimEffect DEF Moves
    <3>2. live' \subseteq Ids /\ twice' \in BOOLEAN
      BY <1>1, <1>6, <2>3, FreeAllType DEF Claim
    <3> QED
      BY <1>2, <1>6, <2>3, <3>1, <3>2 DEF Claim, Typed, OtherTypes, Sequences
  <2> QED
    BY <2>2, <2>3
<1>7. CASE WriteLock(t)
  BY <1>1, <1>2, <1>7, LockEffect DEF WriteLock, Moves, Typed, OtherTypes, Sequences
<1>8. CASE Write(t)
  <2>1. th' \in [All -> Thread] /\ lock' \in All \cup {NoThread}
    BY <1>1, <1>2, <1>8, WriteEffect DEF Moves, OtherTypes
  <2>2. toDaemon' \in Seq(PartsOf(Requests))
    <3>1. Writing(t) /\ toDaemon' = Append(toDaemon, FrameOf(Message(t))[th[t].sent + 1])
      BY <1>8 DEF Write
    <3>2. FrameOf(Message(t))[th[t].sent + 1] \in PartsOf(Requests)
      BY <3>1, MessageType
    <3> QED
      BY <1>2, <3>1, <3>2 DEF Sequences
  <2> QED
    BY <1>2, <1>8, <2>1, <2>2 DEF Write, Typed, OtherTypes, Sequences
<1>9. CASE WriteFails(t)
  <2>1. th' \in [All -> Thread]
    BY <1>1, <1>9, CallEffect DEF Moves
  <2>2. th[t].pc = "writing" => th[t].id \in Ids
    BY <1>1, CallSlot DEF Calling, InCall
  <2>3. lastError' \in [All -> Ids \cup {NoCall}]
    BY <1>2, <1>9, <2>2 DEF WriteFails, SetError, OtherTypes
  <2> QED
    BY <1>2, <1>9, <2>1, <2>3 DEF WriteFails, Typed, OtherTypes, Sequences
<1> QED
  BY <1>3, <1>4, <1>5, <1>6, <1>7, <1>8, <1>9

\* A step of a call that waits for its response or returns, and of kgd_close.
LEMMA ReturnTyped ==
    ASSUME Types, CallInv, NEW t \in All,
           Unsent(t) \/ ReturnResult(t) \/ ReturnError(t) \/ ReturnClosed(t) \/ Leave(t)
           \/ Expire(t) \/ Close(t) \/ Free(t)
    PROVE  Typed'
<1> USE DEF io, daemon, receiving, heap, told, application
<1> DEFINE Clients == {"none", "refused", "connecting", "open", "closing", "freed"}
<1>1. TypeOK /\ Typed
  BY TypedTypes DEF Types
<1>2. slot \in [Numbers -> Slot] /\ OtherTypes /\ Sequences
  BY <1>1 DEF Typed
<1>3. ASSUME Calling(t), NEW what \in Verdicts, Report(t, what)
      PROVE  th' \in [All -> Thread] /\ verdict' \in [Ids -> Verdicts] /\ client' \in Clients
  BY <1>1, <1>2, <1>3, ReportEffect DEF Moves, OtherTypes
<1>4. ASSUME Calling(t), Sourced(t)
      PROVE  source' \in [Ids -> Ids \cup {NoCall}]
  <2>1. slot[SlotOf(th[t].id)] \in Slot
    BY <1>1, <1>2, <1>4, CallSlot
  <2> QED
    BY <1>2, <1>4, <2>1 DEF Sourced, Mine, Slot, OtherTypes
<1>5. CASE Unsent(t)
  <2>1. Calling(t) /\ "send" \in Verdicts /\ Report(t, "send") /\ Release(t)
    BY <1>5 DEF Unsent, Calling, InCall, Verdicts
  <2> QED
    BY <1>1, <1>2, <1>3, <1>5, <2>1, ReleaseEffect DEF Unsent, Typed, OtherTypes, Sequences
<1>6. CASE ReturnResult(t)
  <2>1. Calling(t) /\ "ok" \in Verdicts /\ Report(t, "ok") /\ Sourced(t)
    BY <1>6 DEF ReturnResult, Calling, InCall, Verdicts
  <2>2. live' \subseteq Ids /\ twice' \in BOOLEAN /\ slot' \in [Numbers -> Slot]
    BY <1>1, <1>6, FreeAllType, ReturnResultEffect DEF ReturnResult
  <2> QED
    BY <1>2, <1>3, <1>4, <1>6, <2>1, <2>2 DEF ReturnResult, Typed, OtherTypes, Sequences
<1>7. CASE ReturnError(t)
  <2>1. Calling(t) /\ Sourced(t) /\ th' \in [All -> Thread]
    BY <1>1, <1>7, CallEffect DEF ReturnError, Calling, InCall, Moves
  <2>2. live' \subseteq Ids /\ twice' \in BOOLEAN
    BY <1>1, <1>7, FreeAllType DEF ReturnError
  <2> QED
    BY <1>2, <1>4, <1>7, <2>1, <2>2 DEF ReturnError, Typed, OtherTypes, Sequences
<1>8. CASE ReturnClosed(t)
  BY <1>1, <1>2, <1>8, CallEffect DEF ReturnClosed, Moves, Typed, OtherTypes, Sequences
<1>9. CASE Leave(t)
  <2>1. Calling(t) /\ th[t].pc \in Verdicts /\ Report(t, th[t].pc) /\ Release(t)
    BY <1>9 DEF Leave, Calling, InCall, Verdicts
  <2>2. lastError' \in [All -> Ids \cup {NoCall}]
    BY <1>1, <1>2, <1>9, <2>1, CallSlot DEF Leave, SetError, OtherTypes
  <2> QED
    BY <1>1, <1>2, <1>3, <1>9, <2>1, <2>2, ReleaseEffect DEF Leave, Typed, OtherTypes, Sequences
<1>10. CASE Expire(t)
  <2>1. Calling(t) /\ "timeout" \in Verdicts /\ Report(t, "timeout") /\ Release(t)
    BY <1>10 DEF Expire, Calling, InCall, Verdicts
  <2>2. lastError' \in [All -> Ids \cup {NoCall}]
    BY <1>1, <1>2, <1>10, <2>1, CallSlot DEF Expire, SetError, OtherTypes
  <2> QED
    BY <1>1, <1>2, <1>3, <1>10, <2>1, <2>2, ReleaseEffect DEF Expire, Typed, OtherTypes, Sequences
<1>11. CASE Close(t)
  BY <1>1, <1>2, <1>11, ConnectEffect DEF Close, Moves, Typed, OtherTypes, Sequences
<1>12. CASE Free(t)
  <2>1. live' \subseteq Ids /\ twice' \in BOOLEAN /\ th' \in [All -> Thread]
    BY <1>1, <1>12, FreeAllType, ConnectEffect DEF Free, Moves
  <2> QED
    BY <1>2, <1>12, <2>1 DEF Free, Typed, OtherTypes, Sequences
<1> QED
  BY <1>5, <1>6, <1>7, <1>8, <1>9, <1>10, <1>11, <1>12

LEMMA SentType ==
    ASSUME TypeOK
    PROVE  Sent \in Nat
<1>1. answered \subseteq 0..MaxCalls - 1 /\ notes \in 0..MaxNotes
  BY TypeParts DEF OtherTypes, Ids
<1>2. IsFiniteSet(0..MaxCalls - 1)
  BY FS_Interval, Constants
<1>3. IsFiniteSet(answered)
  BY <1>1, <1>2, FS_Subset
<1>4. Cardinality(answered) \in Nat
  BY <1>3, FS_CardinalityType
<1> QED
  BY <1>1, <1>4, Constants DEF Sent

\* A step of the reader, which takes what has arrived from the stream.
LEMMA ReaderTyped ==
    ASSUME Types, ReaderThread \/ Misread
    PROVE  Typed'
<1> USE DEF io, daemon, receiving, heap, told, application
<1>1. TypeOK /\ Typed
  BY TypedTypes DEF Types
<1>2. slot \in [Numbers -> Slot] /\ th \in [All -> Thread] /\ OtherTypes /\ Sequences
  BY <1>1 DEF Typed
<1>3. ASSUME Processed, Whole(recv)
      PROVE  recv' \in Seq(PartsOf(Messages)) /\ handled' \in Nat
  BY <1>2, <1>3, AfterFrameType DEF Processed, Whole, Sequences, OtherTypes
<1>4. ASSUME NEW n \in 1..Chunk, Take(n)
      PROVE  n \in Nat /\ n <= Len(fromDaemon) /\ fromDaemon' \in Seq(PartsOf(Messages))
  <2>1. n \in Nat /\ n <= Len(fromDaemon) /\ fromDaemon' = SubSeq(fromDaemon, n + 1, Len(fromDaemon))
    BY <1>4, Constants DEF Take
  <2> QED
    BY <1>2, <2>1, SuffixType DEF Sequences
<1>11. CASE Read
  <2>1. PICK n \in 1..Chunk :
            /\ Take(n)
            /\ recv' = recv \o SubSeq(fromDaemon, 1, n)
            /\ capacity' = IF Need(n) > capacity THEN Grown ELSE capacity
    BY <1>11 DEF Read
  <2>2. n \in Nat /\ n >= 1 /\ n <= Len(fromDaemon) /\ Len(fromDaemon) \in Nat
        /\ fromDaemon' \in Seq(PartsOf(Messages))
    BY <1>2, <1>4, <2>1 DEF Sequences
  <2>3. SubSeq(fromDaemon, 1, n) \in Seq(PartsOf(Messages))
    <3>1. \A i \in 1..n : fromDaemon[i] \in PartsOf(Messages)
      BY <1>2, <2>2 DEF Sequences
    <3> QED
      BY <2>2, <3>1, SubSeqProperties
  <2>4. recv' \in Seq(PartsOf(Messages))
    BY <1>2, <2>1, <2>3 DEF Sequences
  <2>5. capacity' \in Nat
    <3>1. Grown \in Nat /\ capacity \in Nat
      BY <1>2, Constants DEF Grown, OtherTypes
    <3> QED
      BY <2>1, <3>1
  <2> QED
    BY <1>2, <1>11, <2>2, <2>4, <2>5 DEF Read, Typed, OtherTypes, Sequences
<1>12. CASE ReadIsLost
  <2>1. fromDaemon' \in Seq(PartsOf(Messages)) /\ recv' = << >>
    BY <1>4, <1>12 DEF ReadIsLost
  <2> QED
    BY <1>2, <1>12, <2>1 DEF ReadIsLost, Typed, OtherTypes, Sequences
<1>13. CASE Misread
  <2>1. PICK n \in 1..Len(recv) : recv' = SubSeq(recv, n + 1, Len(recv))
    BY <1>13 DEF Misread
  <2>2. recv' \in Seq(PartsOf(Messages))
    BY <1>2, <2>1, SuffixType DEF Sequences
  <2> QED
    BY <1>2, <1>13, <2>2 DEF Misread, Typed, OtherTypes, Sequences
<1>5. CASE Respond
  <2>1. recv[1].message.id \in Ids /\ Whole(recv) /\ Processed
    BY <1>5, FirstResponse DEF Respond, Arrived
  <2>2. slot' \in [Numbers -> Slot]
    BY <1>5, RespondEffect
  <2>3. recv' \in Seq(PartsOf(Messages)) /\ handled' \in Nat
    BY <1>3, <2>1
  <2>4. lastError' \in [All -> Ids \cup {NoCall}]
    BY <1>2, <1>5, <2>1 DEF Respond, SetError, OtherTypes
  <2>5. live' \subseteq Ids
    BY <1>2, <1>5, <2>1 DEF Respond, OtherTypes
  <2> QED
    BY <1>2, <1>5, <2>2, <2>3, <2>4, <2>5 DEF Respond, Typed, OtherTypes, Sequences
<1>6. CASE Ignore
  <2>1. recv' \in Seq(PartsOf(Messages)) /\ handled' \in Nat
    BY <1>3, <1>6 DEF Ignore, Arrived
  <2> QED
    BY <1>2, <1>6, <2>1 DEF Ignore, Typed, OtherTypes, Sequences
<1>7. CASE Notified
  <2>1. recv' \in Seq(PartsOf(Messages)) /\ handled' \in Nat
    BY <1>3, <1>7 DEF Notified, Arrived
  <2> QED
    BY <1>2, <1>7, <2>1 DEF Notified, Typed, OtherTypes, Sequences
<1>8. CASE CallbackReturns
  BY <1>2, <1>8 DEF CallbackReturns, Typed, OtherTypes, Sequences
<1>9. CASE ReaderStops
  BY <1>2, <1>9 DEF ReaderStops, Typed, OtherTypes, Sequences
<1>10. CASE Wake
  <2>1. slot' \in [Numbers -> Slot]
    BY <1>1, <1>10, WakeEffect
  <2>2. wake' \in Numbers
    <3>1. wake \in 0..Slots - 1 /\ Slots \in Nat
      BY <1>2, Constants DEF OtherTypes, Numbers
    <3>2. wake' = wake \/ (wake + 1 < Slots /\ wake' = wake + 1)
      BY <1>10 DEF Wake
    <3> QED
      BY <3>1, <3>2 DEF Numbers
  <2> QED
    BY <1>2, <1>10, <2>1, <2>2 DEF Wake, Typed, OtherTypes, Sequences
<1> QED
  BY <1>5, <1>6, <1>7, <1>8, <1>9, <1>10, <1>11, <1>12, <1>13 DEF ReaderThread

LEMMA FirstRequest ==
    ASSUME Types, Whole(toDaemon)
    PROVE  /\ toDaemon # << >> /\ toDaemon[1] \in PartsOf(Requests)
           /\ toDaemon[1].message.type = "call" => toDaemon[1].message.id \in Ids
           /\ AfterFrame(toDaemon) \in Seq(PartsOf(Requests))
<1>1. toDaemon \in Seq(PartsOf(Requests)) /\ Len(toDaemon) >= Parts /\ Len(toDaemon) \in Nat
  BY DEF Types, Whole
<1>2. Len(toDaemon) >= 1
  BY <1>1, Constants
<1>3. toDaemon[1] \in PartsOf(Requests)
  BY <1>1, <1>2
<1>4. toDaemon[1].message.type = "call" => toDaemon[1].message.id \in Ids
  BY <1>3 DEF PartsOf, Requests, Call
<1> QED
  BY <1>1, <1>2, <1>3, <1>4, AfterFrameType

\* A step of the daemon.
LEMMA DaemonTyped ==
    ASSUME Types, Daemon
    PROVE  Typed'
<1> USE DEF io, daemon, receiving, heap, told, application
<1>1. TypeOK /\ Typed
  BY TypedTypes DEF Types
<1>2. slot \in [Numbers -> Slot] /\ th \in [All -> Thread] /\ OtherTypes /\ Sequences
  BY <1>1 DEF Typed
<1>3. ASSUME NEW message \in Messages, fromDaemon' = fromDaemon \o FrameOf(message)
      PROVE  fromDaemon' \in Seq(PartsOf(Messages))
  BY <1>2, <1>3, FrameType DEF Sequences
<1>4. CASE Serve
  <2>1. Whole(toDaemon) /\ toDaemon[1].message.type = "call" /\ toDaemon' = AfterFrame(toDaemon)
    BY <1>4 DEF Serve, TakesFrame
  <2>2. toDaemon[1].message.id \in Ids /\ toDaemon' \in Seq(PartsOf(Requests))
    BY <2>1, FirstRequest
  <2>3. \E as \in {"result", "error", "malformed"} :
            fromDaemon' = fromDaemon \o FrameOf(Response(toDaemon[1].message.id, as))
    BY <1>4 DEF Serve
  <2>4. \A as \in {"result", "error", "malformed"} : Response(toDaemon[1].message.id, as) \in Messages
    BY <1>1, <2>2, SentType DEF Response, Messages
  <2>5. fromDaemon' \in Seq(PartsOf(Messages))
    BY <1>3, <2>3, <2>4
  <2> QED
    BY <1>2, <1>4, <2>2, <2>5 DEF Serve, Typed, OtherTypes, Sequences
<1>5. CASE ServeOneway
  <2>1. toDaemon' \in Seq(PartsOf(Requests))
    BY <1>5, FirstRequest DEF ServeOneway, TakesFrame
  <2> QED
    BY <1>2, <1>5, <2>1 DEF ServeOneway, Typed, OtherTypes, Sequences
<1>6. CASE Notify
  <2>1. Note \in Messages
    BY <1>1, SentType DEF Note, Messages
  <2>2. fromDaemon' \in Seq(PartsOf(Messages))
    BY <1>3, <1>6, <2>1 DEF Notify
  <2>3. notes' \in 0..MaxNotes
    BY <1>2, <1>6, Constants DEF Notify, OtherTypes
  <2> QED
    BY <1>2, <1>6, <2>2, <2>3 DEF Notify, Typed, OtherTypes, Sequences
<1>7. CASE PeerCloses
  BY <1>2, <1>7 DEF PeerCloses, Typed, OtherTypes, Sequences
<1> QED
  BY <1>4, <1>5, <1>6, <1>7 DEF Daemon

LEMMA TypesStep ==
    ASSUME Types, ConnectInv, CallInv, [Next]_vars
    PROVE  Types'
<1> SUFFICES Typed'
  BY TypedTypes, PTL
<1>1. Typed
  BY TypedTypes
<1>2. CASE UNCHANGED vars
  BY <1>1, <1>2 DEF vars, io, daemon, receiving, heap, told, application, Typed, OtherTypes, Sequences
<1>3. CASE SetCallback
  BY <1>1, <1>3 DEF SetCallback, io, daemon, receiving, heap, told, Typed, OtherTypes, Sequences
<1>4. CASE \E t \in All : Caller(t) \/ Encode(t) \/ EncodeOneway(t) \/ Close(t)
  BY <1>4, ConnectTyped, RequestTyped, ReturnTyped DEF Caller
<1> QED
  BY <1>2, <1>3, <1>4, ReaderTyped, DaemonTyped DEF Next

LEMMA TypesInit ==
    ASSUME Init
    PROVE  Types
<1>1. 0 \in 0..Parts - 1 /\ 0 \in Numbers /\ 0 \in 0..MaxCalls /\ 0 \in 0..MaxOneway /\ 0 \in 0..MaxNotes
  BY Constants DEF Numbers
<1>2. th \in [All -> Thread]
  BY <1>1 DEF Init, Thread, Places
<1>3. slot \in [Numbers -> Slot]
  BY DEF Init, Slot, Numbers
<1>4. Sequences
  BY DEF Init, Sequences
<1>5. OtherTypes
  BY <1>1 DEF Init, OtherTypes, Verdicts
<1> QED
  BY <1>2, <1>3, <1>4, <1>5, TypedTypes DEF Typed

-----------------------------------------------------------------------------
(* Calls and slots                                                         *)

\* What a step is to the calls: no thread moves; one moves within its call or
\* outside of calls; one begins a call, takes its slot, or returns and gives it back
ActiveAsBefore == \A i \in Numbers : slot'[i].active = slot[i].active
Still == th' = th /\ verdict' = verdict /\ nextId' = nextId /\ ActiveAsBefore
Keeps(t) ==
    /\ Others(t)
    /\ th'[t].pc \in InCall => Calling(t) /\ th'[t].id = th[t].id
    /\ th'[t].pc \in Holding <=> Holds(t)
    /\ verdict' = verdict /\ nextId' = nextId /\ ActiveAsBefore
Begins(t) ==
    /\ Others(t) /\ ~Calling(t)
    /\ th'[t].pc = "encoded" /\ th'[t].id = nextId
    /\ nextId \in Ids /\ nextId' = nextId + 1
    /\ verdict' = verdict /\ ActiveAsBefore
Claims(t) ==
    LET i == SlotOf(th[t].id) IN
    /\ Moves(t, "claimed") /\ th[t].pc = "encoded"
    /\ ~slot[i].active /\ slot'[i].active /\ OtherSlots(i)
    /\ verdict' = verdict /\ nextId' = nextId
Returns(t) ==
    LET i == SlotOf(th[t].id) IN
    /\ Calling(t) /\ \E p \in {"idle", "close"} : Moves(t, p)
    /\ \A id \in Ids : id # th[t].id => verdict'[id] = verdict[id]
    /\ nextId' = nextId
    /\ \/ ~Holds(t) /\ ActiveAsBefore
       \/ Holds(t) /\ OtherSlots(i) /\ ~slot'[i].active

LEMMA CallerShape ==
    ASSUME Types, ConnectInv, CallInv, NEW t \in All,
           Caller(t) \/ Encode(t) \/ EncodeOneway(t) \/ Close(t)
    PROVE  Keeps(t) \/ Begins(t) \/ Claims(t) \/ Returns(t)
<1> USE DEF Calling, Holds, InCall, Holding, ActiveAsBefore, told
<1>1. TypeOK /\ nextId \in Nat
  BY Constants, TypeParts DEF Types, OtherTypes
<1>2. ASSUME Calling(t), NEW what \in Verdicts, Report(t, what), nextId' = nextId,
             \/ ~Holds(t) /\ slot' = slot
             \/ Holds(t) /\ OtherSlots(SlotOf(th[t].id)) /\ ~slot'[SlotOf(th[t].id)].active
      PROVE  Returns(t)
  <2>1. /\ \E p \in {"idle", "close"} : Moves(t, p)
        /\ \A id \in Ids : id # th[t].id => verdict'[id] = verdict[id]
    BY <1>1, <1>2, ReportEffect
  <2> QED
    BY <1>2, <2>1 DEF Returns
<1>3. CASE OpenSocket(t)
  BY <1>1, <1>3, ConnectEffect DEF OpenSocket, Moves, Keeps
<1>4. CASE Connect(t)
  BY <1>1, <1>4, ConnectEffect DEF Connect, Moves, Keeps
<1>5. CASE StartReader(t)
  <2>1. client = "none" /\ th[t].id = 0 /\ nextId = 0
    BY <1>5 DEF StartReader, ConnectInv, Starting
  <2>2. 0 \in Ids /\ 1 = 0 + 1
    BY Constants DEF Ids
  <2>3. Moves(t, "encoded") /\ th[t].pc = "memory" /\ nextId' = 1 /\ slot' = slot /\ verdict' = verdict
    BY <1>1, <1>5, ConnectEffect DEF StartReader
  <2> QED
    BY <2>1, <2>2, <2>3 DEF Moves, Begins
<1>6. CASE Refused(t)
  BY <1>1, <1>6, ConnectEffect DEF Refused, Moves, Keeps
<1>7. CASE EncodingFails(t)
  BY <1>2, <1>7 DEF EncodingFails, Verdicts
<1>8. CASE Claim(t)
  <2>1. th[t].pc = "encoded"
    BY <1>8 DEF Claim
  <2>2. CASE slot[SlotOf(th[t].id)].active
    <3>1. Report(t, "send") /\ slot' = slot /\ nextId' = nextId
      BY <1>8, <2>2 DEF Claim
    <3> QED
      BY <1>2, <2>1, <3>1 DEF Verdicts
  <2>3. CASE ~slot[SlotOf(th[t].id)].active
    <3>1. nextId' = nextId
      BY <1>8 DEF Claim
    <3> QED
      BY <1>1, <1>8, <2>1, <2>3, <3>1, ClaimEffect DEF Claims
  <2> QED
    BY <2>2, <2>3
<1>9. CASE WriteLock(t)
  <2>1. Moves(t, IF th[t].pc = "claimed" THEN "writing" ELSE "telling")
    BY <1>1, <1>9, LockEffect
  <2>2. th[t].pc \in {"claimed", "oneway"} /\ slot' = slot /\ verdict' = verdict /\ nextId' = nextId
    BY <1>9 DEF WriteLock
  <2> QED
    BY <2>1, <2>2 DEF Moves, Keeps
<1>10. CASE Write(t)
  <2>1. \/ Moves(t, th[t].pc)
        \/ Moves(t, IF th[t].pc = "writing" THEN "written" ELSE "idle")
    BY <1>1, <1>10, WriteEffect
  <2>2. th[t].pc \in {"writing", "telling"} /\ slot' = slot /\ verdict' = verdict /\ nextId' = nextId
    BY <1>10 DEF Write, Writing
  <2> QED
    BY <2>1, <2>2 DEF Moves, Keeps
<1>11. CASE WriteFails(t)
  BY <1>1, <1>11, CallEffect DEF WriteFails, Writing, Moves, Keeps
<1>12. CASE Unsent(t)
  BY <1>1, <1>2, <1>12, ReleaseEffect DEF Unsent, Verdicts
<1>13. CASE ReturnResult(t)
  BY <1>1, <1>2, <1>13, ReturnResultEffect DEF ReturnResult, Verdicts
<1>14. CASE ReturnError(t)
  BY <1>1, <1>14, CallEffect DEF ReturnError, Moves, Keeps
<1>15. CASE ReturnClosed(t)
  BY <1>1, <1>15, CallEffect DEF ReturnClosed, Moves, Keeps
<1>16. CASE Leave(t)
  BY <1>1, <1>2, <1>16, ReleaseEffect DEF Leave, Verdicts
<1>17. CASE Expire(t)
  BY <1>1, <1>2, <1>17, ReleaseEffect DEF Expire, Verdicts
<1>18. CASE Close(t)
  BY <1>1, <1>18, ConnectEffect DEF Close, Moves, Keeps
<1>19. CASE Free(t)
  BY <1>1, <1>19, ConnectEffect DEF Free, Moves, Keeps
<1>20. CASE Encode(t)
  <2>1. Others(t) /\ th'[t].pc = "encoded" /\ th'[t].id = nextId /\ nextId \in Ids /\ nextId' = nextId + 1
    BY <1>1, <1>20, EncodeEffect
  <2> QED
    BY <1>20, <2>1 DEF Encode, MayCall, Begins
<1>21. CASE EncodeOneway(t)
  <2>1. Others(t) /\ th'[t].pc = "oneway"
    BY <1>1, <1>21, EncodeEffect
  <2> QED
    BY <1>21, <2>1 DEF EncodeOneway, MayCall, Keeps
<1> QED
  BY <1>3, <1>4, <1>5, <1>6, <1>7, <1>8, <1>9, <1>10, <1>11, <1>12, <1>13, <1>14, <1>15,
     <1>16, <1>17, <1>18, <1>19, <1>20, <1>21 DEF Caller

LEMMA StepShape ==
    ASSUME Types, ConnectInv, CallInv, [Next]_vars
    PROVE  Still \/ \E t \in All : Keeps(t) \/ Begins(t) \/ Claims(t) \/ Returns(t)
<1> USE DEF ActiveAsBefore, told, Still
<1>1. TypeOK
  BY DEF Types
<1>2. CASE UNCHANGED vars
  BY <1>2 DEF vars
<1>3. CASE SetCallback
  BY <1>3 DEF SetCallback
<1>4. CASE \E t \in All : Caller(t) \/ Encode(t) \/ EncodeOneway(t) \/ Close(t)
  BY <1>4, CallerShape
<1>5. CASE Respond
  <2>1. ActiveAsBefore
    BY <1>5, RespondEffect DEF OtherSlots
  <2> QED
    BY <1>5, <2>1 DEF Respond
<1>6. CASE Wake
  BY <1>1, <1>6, WakeEffect DEF Wake, OtherSlots
<1>7. CASE Read \/ ReadIsLost \/ Misread \/ Ignore \/ Notified \/ CallbackReturns \/ ReaderStops
  BY <1>7 DEF Read, ReadIsLost, Misread, Ignore, Notified, CallbackReturns, ReaderStops
<1>8. CASE Daemon
  BY <1>8 DEF Daemon, Serve, ServeOneway, Notify, PeerCloses
<1> QED
  BY <1>2, <1>3, <1>4, <1>5, <1>6, <1>7, <1>8 DEF Next, ReaderThread

\* The calls keep their ids, one each.
LEMMA CallStep ==
    ASSUME Types, ConnectInv, CallInv, [Next]_vars
    PROVE  CallInv'
<1> USE DEF Calling
<1>1. nextId \in Nat /\ th \in [All -> Thread] /\ Ids \subseteq Nat
  BY Constants, TypeParts DEF Types, OtherTypes, Ids
<1>2. CASE Still
  BY <1>2 DEF Still, CallInv
<1>3. ASSUME NEW t \in All, Keeps(t)
      PROVE  CallInv'
  BY <1>3 DEF Keeps, Others, CallInv
<1>4. ASSUME NEW t \in All, Claims(t)
      PROVE  CallInv'
  BY <1>4 DEF Claims, Moves, Others, CallInv, InCall
<1>5. ASSUME NEW t \in All, Begins(t)
      PROVE  CallInv'
  <2>1. \A u \in All \ {t} : th'[u] = th[u]
    BY <1>5 DEF Begins, Others
  <2>2. ASSUME NEW u \in All, Calling(u)
        PROVE  th[u].id \in Ids /\ th[u].id # nextId /\ th[u].id < nextId + 1
    <3>1. th[u].id \in Ids /\ th[u].id < nextId
      BY <2>2 DEF CallInv
    <3>2. th[u].id \in Nat
      BY <1>1, <3>1
    <3> QED
      BY <1>1, <3>1, <3>2
  <2>3. verdict[nextId] = "none"
    BY <1>1, <1>5 DEF Begins, CallInv
  <2>4. \A id \in Ids : id >= nextId + 1 => verdict[id] = "none"
    BY <1>1 DEF CallInv
  <2> QED
    BY <1>1, <1>5, <2>1, <2>2, <2>3, <2>4 DEF Begins, CallInv
<1>6. ASSUME NEW t \in All, Returns(t)
      PROVE  CallInv'
  <2>1. \A u \in All : th'[u].pc \in InCall => u # t
    BY <1>6 DEF Returns, Moves, InCall
  <2>2. \A u \in All : Calling(u) /\ u # t => th[u].id # th[t].id
    BY <1>6 DEF Returns, CallInv
  <2>3. \A u \in All \ {t} : th'[u] = th[u]
    BY <1>6 DEF Returns, Moves, Others
  <2>4. \A id \in Ids : id >= nextId => id # th[t].id
    BY <1>1, <1>6 DEF Returns, CallInv
  <2> QED
    BY <1>6, <2>1, <2>2, <2>3, <2>4 DEF Returns, CallInv
<1> QED
  BY <1>2, <1>3, <1>4, <1>5, <1>6, StepShape

\* A slot is active while one call has it.
LEMMA SlotStep ==
    ASSUME Types, ConnectInv, CallInv, SlotInv, [Next]_vars
    PROVE  SlotInv'
<1> USE DEF Holds, Numbers, ActiveAsBefore
<1>1. th \in [All -> Thread]
  BY TypeParts DEF Types
<1>2. CASE Still
  BY <1>2 DEF Still, SlotInv
<1>3. ASSUME ActiveAsBefore,
             \A u \in All : /\ th'[u].pc \in Holding <=> Holds(u)
                            /\ Holds(u) => th'[u].id = th[u].id
      PROVE  SlotInv'
  BY <1>3 DEF SlotInv
<1>4. ASSUME NEW t \in All, Keeps(t)
      PROVE  SlotInv'
  <2>1. \A u \in All : /\ th'[u].pc \in Holding <=> Holds(u)
                       /\ Holds(u) => th'[u].id = th[u].id
    BY <1>4 DEF Keeps, Others, InCall, Holding
  <2> QED
    BY <1>3, <1>4, <2>1 DEF Keeps
<1>5. ASSUME NEW t \in All, Begins(t)
      PROVE  SlotInv'
  <2>1. \A u \in All : /\ th'[u].pc \in Holding <=> Holds(u)
                       /\ Holds(u) => th'[u].id = th[u].id
    BY <1>5 DEF Begins, Calling, Others, InCall, Holding
  <2> QED
    BY <1>3, <1>5, <2>1 DEF Begins
<1>6. ASSUME NEW t \in All, Claims(t)
      PROVE  SlotInv'
  <2> DEFINE i == SlotOf(th[t].id)
  <2>1. i \in Numbers
    BY <1>6, CallSlot DEF Types, Claims, Calling, InCall
  <2>2. /\ th'[t].pc \in Holding /\ th'[t].id = th[t].id
        /\ \A u \in All \ {t} : th'[u] = th[u]
        /\ ~Holds(t)
    BY <1>6 DEF Claims, Moves, Others, InCall, Holding
  <2>3. \A u \in All : Holds(u) => SlotOf(th[u].id) # i
    BY <1>6, <2>1 DEF Claims, SlotInv
  <2>4. slot'[i].active /\ \A j \in Numbers : j # i => slot'[j] = slot[j]
    BY <1>6 DEF Claims, OtherSlots
  <2> QED
    BY <2>1, <2>2, <2>3, <2>4 DEF SlotInv
<1>7. ASSUME NEW t \in All, Returns(t)
      PROVE  SlotInv'
  <2> DEFINE i == SlotOf(th[t].id)
  <2>1. /\ th'[t].pc \notin Holding /\ \A u \in All \ {t} : th'[u] = th[u]
    BY <1>7 DEF Returns, Moves, Others, InCall, Holding
  <2>2. CASE ~Holds(t) /\ ActiveAsBefore
    BY <1>3, <2>1, <2>2
  <2>3. CASE Holds(t) /\ OtherSlots(i) /\ ~slot'[i].active
    <3>1. i \in Numbers
      BY <1>7, CallSlot DEF Types, Returns
    <3>2. \A u \in All : Holds(u) /\ u # t => SlotOf(th[u].id) # i
      BY <2>3 DEF SlotInv
    <3> QED
      BY <2>1, <2>3, <3>1, <3>2 DEF SlotInv, OtherSlots
  <2> QED
    BY <1>7, <2>2, <2>3 DEF Returns
<1> QED
  BY <1>2, <1>4, <1>5, <1>6, <1>7, StepShape

\* Once the reader runs, nobody goes back to before that.
LEMMA LateConnect ==
    ASSUME ConnectInv, client # "none", client' # "none",
           \A u \in All : th'[u].pc \in Starting => th'[u].pc = th[u].pc
    PROVE  ConnectInv'
BY DEF ConnectInv

LEMMA ConnectStep ==
    ASSUME Types, ConnectInv, CallInv, [Next]_vars
    PROVE  ConnectInv'
<1> USE DEF Starting, application
<1>1. TypeOK
  BY DEF Types
<1>2. CASE UNCHANGED vars
  BY <1>2 DEF vars, receiving, ConnectInv
<1>3. CASE SetCallback
  BY <1>3 DEF SetCallback, receiving, ConnectInv
<1>4. ASSUME NEW t \in All, OpenSocket(t) \/ Connect(t)
      PROVE  ConnectInv'
  <2>1. /\ th[t].pc \in Starting
        /\ th'[t].pc \in Starting /\ th'[t].id = th[t].id /\ \A u \in All : u # t => th'[u] = th[u]
    BY <1>1, <1>4, ConnectEffect DEF OpenSocket, Connect, Moves, Others
  <2>2. reader' = reader /\ nextId' = nextId /\ client' = client
    BY <1>4 DEF OpenSocket, Connect, receiving
  <2> QED
    BY <2>1, <2>2 DEF ConnectInv
<1>5. ASSUME NEW t \in All, StartReader(t) \/ Refused(t)
      PROVE  ConnectInv'
  <2>1. /\ th[t].pc \in Starting
        /\ th'[t].pc \notin Starting /\ \A u \in All : u # t => th'[u] = th[u]
    BY <1>1, <1>5, ConnectEffect DEF StartReader, Refused, Moves, Others
  <2>2. client' # "none"
    BY <1>5 DEF StartReader, Refused
  <2>3. \A u \in All : th'[u].pc \notin Starting
    BY <2>1 DEF ConnectInv
  <2> QED
    BY <2>2, <2>3 DEF ConnectInv
<1>6. ASSUME NEW t \in All, Others(t), th'[t].pc \notin Starting,
             th[t].pc \notin Starting, th[t].pc # "idle" \/ client # "none",
             client' = client \/ client' \in {"open", "closing", "freed"}
      PROVE  ConnectInv'
  <2>1. client # "none" /\ client' # "none"
    BY <1>6 DEF ConnectInv
  <2> QED
    BY <1>6, <2>1, LateConnect DEF Others
<1>7. ASSUME NEW t \in All, Calling(t), NEW what \in Verdicts, Report(t, what)
      PROVE  ConnectInv'
  <2>1. /\ \E p \in {"idle", "close"} : Moves(t, p)
        /\ client' = client \/ client' = "open"
    BY <1>1, <1>7, ReportEffect
  <2> QED
    BY <1>6, <1>7, <2>1 DEF Moves, Calling, InCall
<1>8. ASSUME NEW t \in All,
             EncodingFails(t) \/ Unsent(t) \/ ReturnResult(t) \/ Leave(t) \/ Expire(t)
      PROVE  ConnectInv'
  <2>1. Calling(t) /\ \E what \in Verdicts : Report(t, what)
    BY <1>8 DEF EncodingFails, Unsent, ReturnResult, Leave, Expire, Calling, InCall, Verdicts
  <2> QED
    BY <1>7, <2>1
<1>9. ASSUME NEW t \in All, Claim(t)
      PROVE  ConnectInv'
  <2>1. th[t].pc = "encoded"
    BY <1>9 DEF Claim
  <2>2. CASE slot[SlotOf(th[t].id)].active
    BY <1>7, <1>9, <2>1, <2>2 DEF Claim, Calling, InCall, Verdicts
  <2>3. CASE ~slot[SlotOf(th[t].id)].active
    <3>1. Moves(t, "claimed") /\ client' = client
      BY <1>1, <1>9, <2>3, ClaimEffect
    <3> QED
      BY <1>6, <2>1, <3>1 DEF Moves
  <2> QED
    BY <2>2, <2>3
<1>10. ASSUME NEW t \in All, WriteLock(t) \/ Write(t) \/ WriteFails(t) \/ ReturnError(t) \/ ReturnClosed(t)
       PROVE  ConnectInv'
  <2>1. \E p \in Places \ Starting : Moves(t, p)
    <3>1. CASE WriteLock(t)
      <4>1. Moves(t, IF th[t].pc = "claimed" THEN "writing" ELSE "telling")
        BY <1>1, <3>1, LockEffect
      <4> QED
        BY <4>1 DEF Places
    <3>2. CASE Write(t)
      <4>1. \/ Moves(t, th[t].pc)
            \/ Moves(t, IF th[t].pc = "writing" THEN "written" ELSE "idle")
        BY <1>1, <3>2, WriteEffect
      <4> QED
        BY <3>2, <4>1 DEF Places, Write, Writing
    <3>3. CASE WriteFails(t) \/ ReturnError(t) \/ ReturnClosed(t)
      BY <1>1, <3>3, CallEffect DEF Places
    <3> QED
      BY <1>10, <3>1, <3>2, <3>3
  <2>2. th[t].pc \in {"claimed", "oneway", "writing", "telling", "written"} /\ client' = client
    BY <1>10 DEF WriteLock, Write, WriteFails, Writing, ReturnError, ReturnClosed
  <2> QED
    BY <1>6, <2>1, <2>2 DEF Moves
<1>11. ASSUME NEW t \in All, Close(t) \/ Free(t)
       PROVE  ConnectInv'
  <2>1. /\ \E p \in {"joining", "idle"} : Moves(t, p)
        /\ client' \in {"closing", "freed"}
        /\ th[t].pc \in {"close", "joining"} \/ (th[t].pc = "idle" /\ client = "open")
    BY <1>1, <1>11, ConnectEffect DEF Close, Free
  <2> QED
    BY <1>6, <2>1 DEF Moves
<1>12. ASSUME NEW t \in All, Encode(t) \/ EncodeOneway(t)
       PROVE  ConnectInv'
  <2>1. th'[t].pc \in {"encoded", "oneway"} /\ Others(t) /\ client' = client /\ MayCall(t)
    BY <1>1, <1>12, EncodeEffect DEF Encode, EncodeOneway
  <2>2. th[t].pc = "idle" /\ client # "none"
    BY <2>1 DEF MayCall, ConnectInv
  <2> QED
    BY <1>6, <2>1, <2>2
<1>13. CASE ReaderThread \/ Misread
  <2>1. reader # "none" /\ th' = th /\ client' = client
    BY <1>13 DEF ReaderThread, Read, ReadIsLost, Misread, Take, Respond, Ignore, Notified, CallbackReturns,
                 ReaderStops, Wake, Arrived
  <2> QED
    BY <2>1, LateConnect DEF ConnectInv
<1>14. CASE Daemon
  <2>1. reader' = reader /\ th' = th /\ client' = client /\ nextId' = nextId
    BY <1>14 DEF Daemon, Serve, ServeOneway, Notify, PeerCloses, receiving
  <2> QED
    BY <2>1 DEF ConnectInv
<1> QED
  BY <1>2, <1>3, <1>4, <1>5, <1>8, <1>9, <1>10, <1>11, <1>12, <1>13, <1>14 DEF Next, Caller

CallsHaveSlots == Types /\ ConnectInv /\ CallInv /\ SlotInv

LEMMA SlotsInit ==
    ASSUME Init
    PROVE  CallsHaveSlots
<1>1. Types
  BY TypesInit
<1>2. PICK t \in Callers : th = [s \in All |-> IF s = t THEN [pc |-> "connect", id |-> 0, sent |-> 0]
                                              ELSE [pc |-> "idle", id |-> NoCall, sent |-> 0]]
  BY DEF Init
<1>3. \A u \in All : /\ th[u].pc \in {"connect", "idle"}
                     /\ th[u].pc = "connect" => u = t /\ th[u].id = 0
  BY <1>2
<1>4. ConnectInv
  BY <1>3 DEF Init, ConnectInv, Starting
<1>5. CallInv
  BY <1>3 DEF Init, CallInv, Calling, InCall
<1>6. SlotInv
  BY <1>3 DEF Init, SlotInv, Holds, Holding, InCall
<1> QED
  BY <1>1, <1>4, <1>5, <1>6 DEF CallsHaveSlots

\* Every variable of the C client has its type, every call has an id of its own,
\* and every active slot one call.
THEOREM CallsHaveTheirSlots == Spec => []CallsHaveSlots
<1>1. Init => CallsHaveSlots
  BY SlotsInit
<1>2. CallsHaveSlots /\ [Next]_vars => CallsHaveSlots'
  BY TypesStep, ConnectStep, CallStep, SlotStep DEF CallsHaveSlots
<1> QED
  BY <1>1, <1>2, PTL DEF Spec

-----------------------------------------------------------------------------
(* Frames                                                                  *)

FramesAndSlots == CallsHaveSlots /\ FramesInv

\* A step that neither writes nor reads the socket to the daemon.
LEMMA FramesKept ==
    ASSUME FramesInv, toDaemon' = toDaemon, lock' = lock, faults \subseteq faults',
           Writable' => Writable,
           \A u \in All : /\ th'[u].pc \in {"writing", "telling"} <=> Writing(u)
                          /\ Writing(u) => th'[u] = th[u]
    PROVE  FramesInv'
<1> USE DEF Writing
<1>1. LockInv'
  BY DEF FramesInv, LockInv
<1>2. FramesWhole'
  BY DEF FramesInv, FramesWhole
<1>3. "write" \notin faults' => "write" \notin faults
  OBVIOUS
<1>4. \A u \in All : Writing(u) => Message(u)' = Message(u)
  BY DEF Message, Call, Oneway
<1>5. ASSUME "write" \notin faults', Writable', toDaemon' # << >>, toDaemon'[Len(toDaemon')].part < Parts
      PROVE  \E t \in All : Writing(t)' /\ th'[t].sent > 0
  BY <1>3, <1>5 DEF FramesInv
<1>6. ASSUME "write" \notin faults', NEW t \in All, Writing(t)', Writable'
      PROVE  IF th'[t].sent = 0 THEN toDaemon' = << >> \/ toDaemon'[Len(toDaemon')].part = Parts
             ELSE /\ toDaemon' # << >>
                  /\ toDaemon'[Len(toDaemon')] = [message |-> Message(t)', part |-> th'[t].sent]
  BY <1>3, <1>4, <1>6 DEF FramesInv
<1> QED
  BY <1>1, <1>2, <1>5, <1>6 DEF FramesInv

\* The last part of the stream.
LEMMA LastPart ==
    ASSUME Types, toDaemon # << >>
    PROVE  /\ Len(toDaemon) \in DOMAIN toDaemon
           /\ toDaemon[Len(toDaemon)] \in PartsOf(Requests)
           /\ toDaemon[Len(toDaemon)].part \in 1..Parts
<1>1. toDaemon \in Seq(PartsOf(Requests))
  BY DEF Types
<1>2. Len(toDaemon) \in DOMAIN toDaemon /\ toDaemon[Len(toDaemon)] \in PartsOf(Requests)
  BY <1>1
<1>3. toDaemon[Len(toDaemon)].part \in 1..Parts
  BY <1>2 DEF PartsOf
<1> QED
  BY <1>2, <1>3

LEMMA LockFrames ==
    ASSUME Types, FramesInv, NEW t \in All, WriteLock(t)
    PROVE  FramesInv'
<1> USE DEF Writing
<1>1. NoThread \notin All /\ TypeOK
  BY Constants DEF Types
<1>2. /\ lock = NoThread /\ lock' = t /\ toDaemon' = toDaemon /\ faults' = faults /\ Writable' = Writable
      /\ th[t].pc \in {"claimed", "oneway"}
  BY DEF WriteLock, daemon, application, Writable, Closed
<1>3. th'[t].pc \in {"writing", "telling"} /\ th'[t].sent = 0 /\ Others(t)
  BY <1>1, LockEffect DEF Moves
<1>4. \A u \in All : ~Writing(u)
  BY <1>1, <1>2 DEF FramesInv, LockInv
<1>5. LockInv'
  BY <1>1, <1>2, <1>3, <1>4 DEF LockInv, Others
<1>6. FramesWhole'
  BY <1>2 DEF FramesInv, FramesWhole
<1>7. "write" \notin faults /\ Writable => toDaemon = << >> \/ toDaemon[Len(toDaemon)].part = Parts
  <2>1. "write" \notin faults /\ Writable => toDaemon = << >> \/ ~(toDaemon[Len(toDaemon)].part < Parts)
    BY <1>4 DEF FramesInv
  <2>2. toDaemon # << >> => toDaemon[Len(toDaemon)].part \in 1..Parts
    BY LastPart
  <2> QED
    BY <2>1, <2>2, Constants
<1>8. "write" \notin faults' /\ Writable' /\ toDaemon' # << >> => ~(toDaemon'[Len(toDaemon')].part < Parts)
  BY <1>2, <1>7, Constants
<1>9. \A u \in All : Writing(u)' => th'[u].sent = 0
  BY <1>3, <1>4 DEF Others
<1>10. ASSUME "write" \notin faults', NEW u \in All, Writing(u)', Writable'
       PROVE  th'[u].sent = 0 /\ (toDaemon' = << >> \/ toDaemon'[Len(toDaemon')].part = Parts)
  BY <1>2, <1>7, <1>9, <1>10
<1> QED
  BY <1>5, <1>6, <1>8, <1>10 DEF FramesInv

LEMMA FailFrames ==
    ASSUME Types, FramesInv, NEW t \in All, WriteFails(t)
    PROVE  FramesInv'
<1> USE DEF Writing
<1>1. NoThread \notin All /\ TypeOK
  BY Constants DEF Types
<1>2. /\ Writing(t) /\ lock' = NoThread /\ toDaemon' = toDaemon /\ Writable' = Writable
      /\ (~Writable /\ faults' = faults) \/ "write" \in faults'
  BY DEF WriteFails, daemon, application, Fault, Writable, Closed
<1>3. th'[t].pc \notin {"writing", "telling"} /\ Others(t)
  BY <1>1, CallEffect DEF Moves
<1>4. \A u \in All : Writing(u) => u = t
  BY <1>2 DEF FramesInv, LockInv
<1>5. LockInv'
  BY <1>1, <1>2, <1>3, <1>4 DEF LockInv, Others
<1>6. FramesWhole'
  BY <1>2 DEF FramesInv, FramesWhole
<1> QED
  BY <1>2, <1>5, <1>6 DEF FramesInv

LEMMA PartBefore ==
    ASSUME NEW message, NEW k \in Nat, NEW part, part = [message |-> message, part |-> k + 1]
    PROVE  [part EXCEPT !.part = @ - 1] = [message |-> message, part |-> k]
<1>1. k + 1 - 1 = k
  OBVIOUS
<1> QED
  BY <1>1

LEMMA WriteFrames ==
    ASSUME Types, CallInv, FramesInv, NEW t \in All, Write(t)
    PROVE  FramesInv'
<1> USE DEF Writing
<1> DEFINE n == Len(toDaemon)
           sent == th[t].sent
           new == [message |-> Message(t), part |-> sent + 1]
<1>1. /\ NoThread \notin All /\ TypeOK /\ Parts \in Nat \ {0}
      /\ toDaemon \in Seq(PartsOf(Requests)) /\ n \in Nat /\ DOMAIN toDaemon = 1..n
      /\ th[t] \in Thread
  BY Constants, TypeParts DEF Types
<1>2. sent \in 0..Parts - 1
  BY <1>1 DEF Thread
<1>3. Writing(t) /\ Writable /\ Writable' = Writable /\ faults' = faults
  BY DEF Write, daemon, application, Writable, Closed
<1>4. toDaemon' = Append(toDaemon, new) /\ new \in PartsOf(Requests)
  BY <1>3, MessageType DEF Write
<1>5. /\ Len(toDaemon') = n + 1 /\ DOMAIN toDaemon' = 1..n + 1
      /\ \A i \in 1..n : toDaemon'[i] = toDaemon[i]
      /\ toDaemon'[n + 1] = new /\ toDaemon' # << >>
  BY <1>1, <1>4
<1>6. \A u \in All : Writing(u) <=> u = t
  BY <1>3 DEF FramesInv, LockInv
<1>7. "write" \notin faults =>
          IF sent = 0 THEN toDaemon = << >> \/ toDaemon[n].part = Parts
          ELSE toDaemon # << >> /\ toDaemon[n] = [message |-> Message(t), part |-> sent]
  BY <1>3 DEF FramesInv
<1>8. FramesWhole'
  <2>1. SUFFICES ASSUME "write" \notin faults, NEW i \in 1..n + 1
                 PROVE  IF toDaemon'[i].part = 1 THEN i = 1 \/ toDaemon'[i - 1].part = Parts
                        ELSE i > 1 /\ toDaemon'[i - 1] = [toDaemon'[i] EXCEPT !.part = @ - 1]
    BY <1>3, <1>5 DEF FramesWhole
  <2>2. CASE i # n + 1
    <3>1. i \in 1..n /\ (i > 1 => i - 1 \in 1..n)
      BY <1>1, <2>2
    <3>2. toDaemon'[i] = toDaemon[i] /\ (i > 1 => toDaemon'[i - 1] = toDaemon[i - 1])
      BY <1>5, <3>1
    <3>3. IF toDaemon[i].part = 1 THEN i = 1 \/ toDaemon[i - 1].part = Parts
          ELSE i > 1 /\ toDaemon[i - 1] = [toDaemon[i] EXCEPT !.part = @ - 1]
      BY <1>1, <2>1, <3>1 DEF FramesInv, FramesWhole
    <3>4. i = 1 \/ i > 1
      BY <3>1
    <3> QED
      BY <3>2, <3>3, <3>4
  <2>3. CASE i = n + 1
    <3>1. toDaemon'[i] = new /\ new.part = sent + 1
      BY <1>5, <2>3
    <3>2. CASE sent = 0
      <4>1. toDaemon = << >> \/ toDaemon[n].part = Parts
        BY <1>7, <2>1, <3>2
      <4>2. new.part = 1
        BY <3>1, <3>2
      <4>3. CASE toDaemon = << >>
        BY <2>3, <3>1, <4>2, <4>3
      <4>4. CASE toDaemon # << >>
        <5>1. n \in 1..n /\ i - 1 = n
          BY <1>1, <2>3, <4>4
        <5>2. toDaemon'[i - 1] = toDaemon[n]
          BY <1>5, <5>1
        <5> QED
          BY <3>1, <4>1, <4>2, <4>4, <5>2
      <4> QED
        BY <4>3, <4>4
    <3>3. CASE sent # 0
      <4>1. toDaemon # << >> /\ toDaemon[n] = [message |-> Message(t), part |-> sent]
        BY <1>7, <2>1, <3>3
      <4>2. n \in 1..n /\ i - 1 = n /\ i > 1
        BY <1>1, <2>3, <4>1
      <4>3. toDaemon'[i - 1] = [message |-> Message(t), part |-> sent]
        BY <1>5, <4>1, <4>2
      <4>4. sent + 1 # 1 /\ sent + 1 - 1 = sent
        BY <1>2, <3>3
      <4>5. [toDaemon'[i] EXCEPT !.part = @ - 1] = [message |-> Message(t), part |-> sent]
        BY <1>2, <3>1, PartBefore
      <4>6. toDaemon'[i - 1] = [toDaemon'[i] EXCEPT !.part = @ - 1]
        BY <4>3, <4>5
      <4> QED
        BY <3>1, <4>2, <4>4, <4>6
    <3> QED
      BY <3>2, <3>3
  <2> QED
    BY <2>2, <2>3
<1>9. CASE sent + 1 < Parts
  <2>1. Moves(t, th[t].pc) /\ th'[t].sent = sent + 1 /\ lock' = lock
    BY <1>1, <1>2, <1>9, WriteEffect
  <2>2. th'[t].pc = th[t].pc /\ th'[t].id = th[t].id /\ \A u \in All : u # t => th'[u] = th[u]
    BY <2>1 DEF Moves, Others
  <2>3. \A u \in All : Writing(u)' <=> u = t
    BY <1>6, <2>2
  <2>4. LockInv'
    BY <1>3, <2>1, <2>3 DEF FramesInv, LockInv
  <2>5. Message(t)' = Message(t)
    BY <2>2 DEF Message, Call, Oneway
  <2>6. th'[t].sent # 0 /\ th'[t].sent > 0
    BY <1>2, <2>1
  <2>7. toDaemon'[Len(toDaemon')] = [message |-> Message(t)', part |-> th'[t].sent]
    BY <1>5, <2>1, <2>5
  <2> QED
    BY <1>5, <1>8, <2>3, <2>4, <2>6, <2>7 DEF FramesInv
<1>10. CASE ~(sent + 1 < Parts)
  <2>1. lock' = NoThread /\ sent + 1 = Parts /\ Others(t) /\ th'[t].pc \notin {"writing", "telling"}
    BY <1>1, <1>2, <1>10, WriteEffect DEF Moves
  <2>2. \A u \in All : ~Writing(u)'
    BY <1>6, <2>1 DEF Others
  <2>3. LockInv'
    BY <1>1, <2>1, <2>2 DEF LockInv
  <2>4. ~(toDaemon'[Len(toDaemon')].part < Parts)
    BY <1>1, <1>5, <2>1
  <2> QED
    BY <1>8, <2>2, <2>3, <2>4 DEF FramesInv
<1> QED
  BY <1>9, <1>10

\* The daemon takes a frame.
LEMMA TakeFrames ==
    ASSUME Types, FramesInv, TakesFrame,
           th' = th, lock' = lock, faults \subseteq faults', Writable' => Writable
    PROVE  FramesInv'
<1> USE DEF Writing
<1> DEFINE n == Len(toDaemon)
<1>1. /\ Parts \in Nat \ {0} /\ toDaemon \in Seq(PartsOf(Requests)) /\ n \in Nat /\ DOMAIN toDaemon = 1..n
      /\ Whole(toDaemon) /\ toDaemon' = AfterFrame(toDaemon) /\ n >= Parts
  BY Constants DEF Types, TakesFrame, Whole
<1>2. /\ Len(toDaemon') = n - Parts /\ DOMAIN toDaemon' = 1..n - Parts
      /\ \A i \in 1..n - Parts : toDaemon'[i] = toDaemon[i + Parts]
      /\ toDaemon' \in Seq(PartsOf(Requests))
  BY <1>1, AfterFrameType
<1>3. toDaemon[Parts].part = Parts
  <2>1. Parts \in 1..Parts
    BY <1>1
  <2>2. toDaemon[Parts] = [message |-> toDaemon[1].message, part |-> Parts]
    BY <1>1, <2>1, WholeFrame
  <2> QED
    BY <2>2
<1>4. LockInv'
  BY DEF FramesInv, LockInv
<1>5. FramesWhole'
  <2>1. SUFFICES ASSUME "write" \notin faults, NEW i \in 1..n - Parts
                 PROVE  IF toDaemon'[i].part = 1 THEN i = 1 \/ toDaemon'[i - 1].part = Parts
                        ELSE i > 1 /\ toDaemon'[i - 1] = [toDaemon'[i] EXCEPT !.part = @ - 1]
    BY <1>2 DEF FramesWhole
  <2>2. i + Parts \in 1..n /\ i + Parts > 1 /\ i \in Nat
    BY <1>1
  <2>3. toDaemon'[i] = toDaemon[i + Parts]
    BY <1>2
  <2>4. IF toDaemon[i + Parts].part = 1 THEN toDaemon[i + Parts - 1].part = Parts
        ELSE toDaemon[i + Parts - 1] = [toDaemon[i + Parts] EXCEPT !.part = @ - 1]
    <3>1. IF toDaemon[i + Parts].part = 1 THEN i + Parts = 1 \/ toDaemon[i + Parts - 1].part = Parts
          ELSE i + Parts > 1 /\ toDaemon[i + Parts - 1] = [toDaemon[i + Parts] EXCEPT !.part = @ - 1]
      BY <1>1, <2>1, <2>2 DEF FramesInv, FramesWhole
    <3>2. i + Parts # 1
      BY <1>1, <2>2
    <3> QED
      BY <3>1, <3>2
  <2>5. CASE i = 1
    <3>1. i + Parts - 1 = Parts
      BY <1>1, <2>5
    <3>2. toDaemon[i + Parts].part = 1
      <4>1. SUFFICES ASSUME toDaemon[i + Parts].part # 1
                     PROVE  FALSE
        OBVIOUS
      <4>2. toDaemon[Parts] = [toDaemon[i + Parts] EXCEPT !.part = @ - 1]
        BY <2>4, <3>1, <4>1
      <4>3. toDaemon[i + Parts] \in PartsOf(Requests)
        BY <1>1, <2>2
      <4>4. toDaemon[Parts].part = toDaemon[i + Parts].part - 1 /\ toDaemon[i + Parts].part \in 1..Parts
        BY <4>2, <4>3 DEF PartsOf
      <4> QED
        BY <1>1, <1>3, <4>4
    <3> QED
      BY <2>3, <2>5, <3>2
  <2>6. CASE i # 1
    <3>1. i - 1 \in 1..n - Parts /\ i - 1 + Parts = i + Parts - 1 /\ i > 1
      BY <1>1, <2>2, <2>6
    <3>2. toDaemon'[i - 1] = toDaemon[i + Parts - 1]
      BY <1>2, <3>1
    <3> QED
      BY <2>3, <2>4, <3>1, <3>2
  <2> QED
    BY <2>5, <2>6
<1>6. ASSUME toDaemon' # << >>
      PROVE  toDaemon # << >> /\ toDaemon'[Len(toDaemon')] = toDaemon[n]
  <2>1. n - Parts \in 1..n - Parts /\ n - Parts + Parts = n /\ n # 0
    BY <1>1, <1>2, <1>6
  <2> QED
    BY <1>2, <2>1
<1>7. ASSUME toDaemon' = << >>
      PROVE  toDaemon # << >> /\ toDaemon[n].part = Parts
  <2>1. n - Parts = 0
    BY <1>2, <1>7
  <2>2. n = Parts
    <3>1. \A x, y \in Nat : x - y = 0 => x = y
      OBVIOUS
    <3>2. n \in Nat /\ Parts \in Nat
      BY <1>1
    <3> QED
      BY <2>1, <3>1, <3>2, Zenon
  <2> QED
    BY <1>1, <1>3, <2>2
<1>8. ASSUME "write" \notin faults', Writable', toDaemon' # << >>, toDaemon'[Len(toDaemon')].part < Parts
      PROVE  \E t \in All : Writing(t)' /\ th'[t].sent > 0
  BY <1>6, <1>8 DEF FramesInv
<1>9. ASSUME "write" \notin faults', NEW t \in All, Writing(t)', Writable'
      PROVE  IF th'[t].sent = 0 THEN toDaemon' = << >> \/ toDaemon'[Len(toDaemon')].part = Parts
             ELSE /\ toDaemon' # << >>
                  /\ toDaemon'[Len(toDaemon')] = [message |-> Message(t)', part |-> th'[t].sent]
  <2>1. IF th[t].sent = 0 THEN toDaemon = << >> \/ toDaemon[n].part = Parts
        ELSE toDaemon # << >> /\ toDaemon[n] = [message |-> Message(t), part |-> th[t].sent]
    BY <1>9 DEF FramesInv
  <2>2. Message(t)' = Message(t)
    BY DEF Message, Call, Oneway
  <2>3. th[t].sent \in 0..Parts - 1
    BY TypeParts DEF Types, Thread
  <2>4. CASE toDaemon' # << >>
    BY <1>6, <2>1, <2>2, <2>4
  <2>5. CASE toDaemon' = << >>
    <3>1. th[t].sent # 0 => toDaemon[n].part = th[t].sent
      BY <2>1
    <3>2. th[t].sent = 0
      BY <1>1, <1>7, <2>3, <2>5, <3>1
    <3> QED
      BY <2>5, <3>2
  <2> QED
    BY <2>4, <2>5
<1> QED
  BY <1>4, <1>5, <1>8, <1>9 DEF FramesInv

\* What the other steps leave alone.
LEMMA QuietCaller ==
    ASSUME CallsHaveSlots, FramesInv, NEW t \in All,
           Caller(t) \/ Encode(t) \/ EncodeOneway(t) \/ Close(t),
           ~WriteLock(t), ~Write(t), ~WriteFails(t)
    PROVE  FramesInv'
<1> USE DEF Writing
<1>1. TypeOK /\ CallInv /\ ConnectInv
  BY DEF CallsHaveSlots, Types
<1>2. ASSUME th[t].pc \notin {"writing", "telling"}, th'[t].pc \notin {"writing", "telling"}, Others(t),
             toDaemon' = toDaemon, lock' = lock, faults \subseteq faults', peer' = peer,
             client' \in {"closing", "freed"} \/ client \notin {"closing", "freed"} \/ client' = client
      PROVE  FramesInv'
  <2>1. Writable' => Writable
    BY <1>2 DEF Writable, Closed
  <2>2. \A u \in All : /\ th'[u].pc \in {"writing", "telling"} <=> Writing(u)
                       /\ Writing(u) => th'[u] = th[u]
    BY <1>2 DEF Others
  <2> QED
    BY <1>2, <2>1, <2>2, FramesKept
<1>3. ASSUME Calling(t), NEW what \in Verdicts, Report(t, what)
      PROVE  /\ th'[t].pc \notin {"writing", "telling"} /\ Others(t)
             /\ client \notin {"closing", "freed"} \/ client' = client
  <2>1. /\ \E p \in {"idle", "close"} : Moves(t, p)
        /\ client' = client \/ (client = "connecting" /\ client' = "open")
    BY <1>1, <1>3, ReportEffect
  <2> QED
    BY <2>1 DEF Moves
<1>4. CASE OpenSocket(t) \/ Connect(t) \/ StartReader(t) \/ Refused(t)
  <2>1. /\ \E p \in {"socket", "memory", "encoded", "idle"} : Moves(t, p)
        /\ th[t].pc \in Starting
    BY <1>1, <1>4, ConnectEffect DEF OpenSocket, Connect, StartReader, Refused, Starting
  <2>2. client = "none"
    BY <1>1, <2>1 DEF ConnectInv
  <2> QED
    BY <1>2, <1>4, <2>1, <2>2 DEF Moves, Starting, OpenSocket, Connect, StartReader, Refused, io, daemon, Fault
<1>5. CASE EncodingFails(t)
  BY <1>2, <1>3, <1>5 DEF EncodingFails, Calling, InCall, Verdicts, io, daemon, Fault
<1>6. CASE Claim(t)
  <2>1. CASE slot[SlotOf(th[t].id)].active
    BY <1>2, <1>3, <1>6, <2>1 DEF Claim, Calling, InCall, Verdicts, io, daemon
  <2>2. CASE ~slot[SlotOf(th[t].id)].active
    <3>1. Moves(t, "claimed") /\ client' = client
      BY <1>1, <1>6, <2>2, ClaimEffect
    <3> QED
      BY <1>2, <1>6, <3>1 DEF Claim, Moves, io, daemon
  <2> QED
    BY <2>1, <2>2
<1>7. CASE Unsent(t)
  BY <1>2, <1>3, <1>7 DEF Unsent, Calling, InCall, Verdicts, io, daemon
<1>8. CASE ReturnResult(t)
  BY <1>2, <1>3, <1>8 DEF ReturnResult, Calling, InCall, Verdicts, io, daemon
<1>9. CASE ReturnError(t) \/ ReturnClosed(t)
  BY <1>1, <1>2, <1>9, CallEffect DEF ReturnError, ReturnClosed, Moves, io, daemon, application
<1>10. CASE Leave(t)
  BY <1>2, <1>3, <1>10 DEF Leave, Calling, InCall, Verdicts, io, daemon
<1>11. CASE Expire(t)
  BY <1>2, <1>3, <1>11 DEF Expire, Calling, InCall, Verdicts, io, daemon
<1>12. CASE Close(t) \/ Free(t)
  BY <1>1, <1>2, <1>12, ConnectEffect DEF Close, Free, Moves, io, daemon
<1>13. CASE Encode(t) \/ EncodeOneway(t)
  <2>1. th'[t].pc \in {"encoded", "oneway"} /\ Others(t)
    BY <1>1, <1>13, EncodeEffect
  <2> QED
    BY <1>2, <1>13, <2>1 DEF Encode, EncodeOneway, MayCall, io, daemon, application
<1> QED
  BY <1>4, <1>5, <1>6, <1>7, <1>8, <1>9, <1>10, <1>11, <1>12, <1>13 DEF Caller

LEMMA FramesStep ==
    ASSUME CallsHaveSlots, FramesInv, [Next]_vars
    PROVE  FramesInv'
<1>1. Types /\ CallInv
  BY DEF CallsHaveSlots
<1>2. ASSUME th' = th, toDaemon' = toDaemon, lock' = lock, faults \subseteq faults', Writable' => Writable
      PROVE  FramesInv'
  BY <1>2, FramesKept DEF Writing
<1>3. CASE UNCHANGED vars
  BY <1>2, <1>3 DEF vars, io, daemon, application, Writable, Closed
<1>4. CASE SetCallback
  BY <1>2, <1>4 DEF SetCallback, io, daemon, Writable, Closed
<1>5. CASE \E t \in All : Caller(t) \/ Encode(t) \/ EncodeOneway(t) \/ Close(t)
  BY <1>1, <1>5, QuietCaller, LockFrames, WriteFrames, FailFrames
<1>6. CASE ReaderThread \/ Misread
  <2>1. /\ th' = th /\ toDaemon' = toDaemon /\ lock' = lock /\ faults \subseteq faults'
        /\ peer' = peer /\ client' = client
    BY <1>6 DEF ReaderThread, Read, ReadIsLost, Misread, Take, Respond, Ignore, Notified, CallbackReturns, ReaderStops, Wake,
                io, daemon, application, Fault
  <2> QED
    BY <1>2, <2>1 DEF Writable, Closed
<1>7. CASE Serve \/ ServeOneway
  <2>1. /\ TakesFrame /\ th' = th /\ lock' = lock /\ faults \subseteq faults'
        /\ peer' = peer /\ client' = client
    BY <1>7 DEF Serve, ServeOneway, daemon, application, Fault
  <2> QED
    BY <1>1, <2>1, TakeFrames DEF Writable, Closed
<1>8. CASE Notify \/ PeerCloses
  <2>1. /\ th' = th /\ toDaemon' = toDaemon /\ lock' = lock /\ faults' = faults
        /\ (peer' = peer \/ peer' = "closed") /\ client' = client
    BY <1>8 DEF Notify, PeerCloses, io, application
  <2> QED
    BY <1>2, <2>1 DEF Writable, Closed
<1> QED
  BY <1>3, <1>4, <1>5, <1>6, <1>7, <1>8 DEF Next, Daemon

\* The daemon receives whole frames one after the other, whichever of any number of
\* threads write them and wherever their writes are cut: send_all holds write_lock
\* from a frame's first part to its last.
THEOREM DaemonReceivesWholeFrames == Spec => []FramesWhole
<1>1. Init => FramesAndSlots
  <2> SUFFICES ASSUME Init
               PROVE  FramesAndSlots
    OBVIOUS
  <2>1. toDaemon = << >> /\ lock = NoThread /\ NoThread \notin All
    BY Constants DEF Init
  <2>2. \A t \in All : ~Writing(t)
    BY DEF Init, Writing
  <2>3. LockInv
    BY <2>1, <2>2 DEF LockInv
  <2>4. FramesWhole
    BY <2>1 DEF FramesWhole
  <2>5. FramesInv
    BY <2>1, <2>2, <2>3, <2>4 DEF FramesInv
  <2> QED
    BY <2>5, SlotsInit DEF FramesAndSlots
<1>2. FramesAndSlots /\ [Next]_vars => FramesAndSlots'
  BY FramesStep, TypesStep, ConnectStep, CallStep, SlotStep DEF FramesAndSlots, CallsHaveSlots
<1>3. FramesAndSlots => FramesWhole
  BY DEF FramesAndSlots, FramesInv
<1> QED
  BY <1>1, <1>2, <1>3, PTL DEF Spec

-----------------------------------------------------------------------------
(* The end of the connection                                               *)

WokenAndSlots == CallsHaveSlots /\ WakingInv

\* A step of a caller takes no wake-up back, and only a write that succeeds
\* adds a call that waits.
LEMMA CallerKeepsDone ==
    ASSUME CallsHaveSlots, NEW t \in All,
           Caller(t) \/ Encode(t) \/ EncodeOneway(t) \/ Close(t)
    PROVE  \A u \in All : th'[u].pc = "written" =>
               \/ Writable
               \/ /\ th[u].pc = "written" /\ th'[u].id = th[u].id
                  /\ slot[SlotOf(th[u].id)].done => slot'[SlotOf(th[u].id)].done
<1>1. TypeOK /\ CallInv /\ ConnectInv /\ SlotInv
  BY DEF CallsHaveSlots, Types
<1>2. \A u \in All : th[u].pc = "written" => SlotOf(th[u].id) \in Numbers
  BY <1>1, CallSlot DEF Calling, InCall
<1> DEFINE Done == \A u \in All : th'[u].pc = "written" =>
                       \/ Writable
                       \/ /\ th[u].pc = "written" /\ th'[u].id = th[u].id
                          /\ slot[SlotOf(th[u].id)].done => slot'[SlotOf(th[u].id)].done
<1>3. ASSUME Others(t), th'[t].pc # "written", slot' = slot
      PROVE  Done
  BY <1>3 DEF Others
<1>4. ASSUME Others(t), th'[t].pc # "written", Calling(t), OtherSlots(SlotOf(th[t].id)),
             slot'[SlotOf(th[t].id)].done = slot[SlotOf(th[t].id)].done
      PROVE  Done
  BY <1>2, <1>4 DEF Others, OtherSlots
<1>5. ASSUME Calling(t), NEW what \in Verdicts, Report(t, what)
      PROVE  th'[t].pc # "written" /\ Others(t)
  BY <1>1, <1>5, ReportEffect DEF Moves
<1> HIDE DEF Done
<1>6. CASE OpenSocket(t) \/ Connect(t) \/ StartReader(t) \/ Refused(t) \/ Close(t) \/ Free(t)
  BY <1>1, <1>3, <1>6, ConnectEffect DEF OpenSocket, Connect, StartReader, Refused, Close, Free, Moves, Done
<1>7. CASE EncodingFails(t)
  BY <1>3, <1>5, <1>7 DEF EncodingFails, Calling, InCall, Verdicts, Done
<1>8. CASE Claim(t)
  <2> DEFINE i == SlotOf(th[t].id)
  <2>1. CASE slot[i].active
    BY <1>3, <1>5, <1>8, <2>1 DEF Claim, Calling, InCall, Verdicts, Done
  <2>2. CASE ~slot[i].active
    <3>1. Moves(t, "claimed") /\ OtherSlots(i)
      BY <1>1, <1>8, <2>2, ClaimEffect
    <3>2. i \in Numbers
      BY <1>1, <1>8, CallSlot DEF Claim, Calling, InCall
    <3>3. \A u \in All : th[u].pc = "written" => SlotOf(th[u].id) # i
      BY <1>1, <2>2, <3>2 DEF SlotInv, Holds, Holding, InCall, Numbers
    <3> QED
      BY <1>2, <3>1, <3>3 DEF Moves, Others, OtherSlots
  <2> QED
    BY <2>1, <2>2
<1>9. CASE WriteLock(t)
  <2>1. Moves(t, IF th[t].pc = "claimed" THEN "writing" ELSE "telling") /\ slot' = slot
    BY <1>1, <1>9, LockEffect DEF WriteLock
  <2>2. Others(t) /\ th'[t].pc # "written"
    BY <2>1 DEF Moves
  <2> QED
    BY <1>3, <2>1, <2>2 DEF Done
<1>10. CASE Write(t)
  BY <1>10 DEF Write
<1>11. CASE WriteFails(t) \/ ReturnError(t) \/ ReturnClosed(t)
  BY <1>1, <1>3, <1>11, CallEffect DEF WriteFails, ReturnError, ReturnClosed, Moves, Done
<1>12. CASE Unsent(t)
  <2>1. Calling(t) /\ Release(t) /\ Report(t, "send")
    BY <1>12 DEF Unsent, Calling, InCall
  <2> QED
    BY <1>1, <1>4, <1>5, <2>1, ReleaseEffect DEF Verdicts, Done
<1>13. CASE ReturnResult(t)
  <2>1. Calling(t) /\ Report(t, "ok")
    BY <1>13 DEF ReturnResult, Calling, InCall
  <2> QED
    BY <1>1, <1>4, <1>5, <1>13, <2>1, ReturnResultEffect DEF Verdicts, Done
<1>14. CASE Leave(t)
  <2>1. Calling(t) /\ Release(t) /\ Report(t, th[t].pc) /\ th[t].pc \in Verdicts
    BY <1>14 DEF Leave, Calling, InCall, Verdicts
  <2> QED
    BY <1>1, <1>4, <1>5, <2>1, ReleaseEffect DEF Done
<1>15. CASE Expire(t)
  <2>1. Calling(t) /\ Release(t) /\ Report(t, "timeout")
    BY <1>15 DEF Expire, Calling, InCall
  <2> QED
    BY <1>1, <1>4, <1>5, <2>1, ReleaseEffect DEF Verdicts, Done
<1>16. CASE Encode(t) \/ EncodeOneway(t)
  <2>1. th'[t].pc \in {"encoded", "oneway"} /\ Others(t) /\ slot' = slot
    BY <1>1, <1>16, EncodeEffect DEF Encode, EncodeOneway
  <2> QED
    BY <1>3, <2>1 DEF Done
<1> QED
  BY <1>6, <1>7, <1>8, <1>9, <1>10, <1>11, <1>12, <1>13, <1>14, <1>15, <1>16 DEF Caller, Done

\* What a step that is not the reader's leaves of the end of the connection.
LEMMA WakingKept ==
    ASSUME WakingInv, faults \subseteq faults', Writable' => Writable, wake' = wake,
           reader' = reader \/ (reader = "none" /\ reader' = "reading"),
           \A u \in All : th'[u].pc = "written" =>
               \/ Writable
               \/ /\ th[u].pc = "written" /\ th'[u].id = th[u].id
                  /\ slot[SlotOf(th[u].id)].done => slot'[SlotOf(th[u].id)].done
    PROVE  WakingInv'
<1> SUFFICES ASSUME "read" \notin faults'
             PROVE  /\ reader' \in {"waking", "ended"} => ~Writable'
                    /\ reader' \notin {"waking", "ended"} => wake' = 0
                    /\ \A t \in All :
                           th'[t].pc = "written"
                               /\ (reader' = "ended" \/ (reader' = "waking" /\ SlotOf(th'[t].id) < wake')) =>
                           slot'[SlotOf(th'[t].id)].done
  BY DEF WakingInv, Mine, SlotOf
<1> QED
  BY DEF WakingInv, Mine

LEMMA CallerKeepsWaking ==
    ASSUME CallsHaveSlots, WakingInv, NEW t \in All,
           Caller(t) \/ Encode(t) \/ EncodeOneway(t) \/ Close(t)
    PROVE  WakingInv'
<1>1. TypeOK /\ CallInv /\ ConnectInv
  BY DEF CallsHaveSlots, Types
<1>2. ASSUME NEW what \in Verdicts, Calling(t), Report(t, what)
      PROVE  client' = client \/ (client = "connecting" /\ client' = "open")
  BY <1>1, <1>2, ReportEffect
<1>3. client \in {"closing", "freed"} => client' \in {"closing", "freed"}
  <2>1. CASE \E what \in Verdicts : Calling(t) /\ Report(t, what)
    BY <1>2, <2>1
  <2>2. CASE Caller(t) /\ ~(\E what \in Verdicts : Calling(t) /\ Report(t, what))
    <3>1. client' = client \/ client' = "freed" \/ th[t].pc \in Starting
      BY <2>2 DEF Caller, OpenSocket, Connect, StartReader, Refused, EncodingFails, Claim, WriteLock, Write,
                  WriteFails, Unsent, ReturnResult, ReturnError, ReturnClosed, Leave, Expire, Free,
                  Starting, Calling, InCall, Verdicts, application
    <3> QED
      BY <1>1, <3>1 DEF ConnectInv
  <2>3. CASE Encode(t) \/ EncodeOneway(t) \/ Close(t)
    BY <2>3 DEF Encode, EncodeOneway, Close, application
  <2> QED
    BY <2>1, <2>2, <2>3
<1>4. /\ faults \subseteq faults' /\ peer' = peer /\ wake' = wake
      /\ reader' = reader \/ (th[t].pc = "memory" /\ reader' = "reading")
  <2>1. CASE Caller(t)
    BY <2>1 DEF Caller, OpenSocket, Connect, StartReader, Refused, EncodingFails, Claim, WriteLock, Write,
                WriteFails, Unsent, ReturnResult, ReturnError, ReturnClosed, Leave, Expire, Free,
                Fault, daemon, receiving
  <2>2. CASE Encode(t) \/ EncodeOneway(t) \/ Close(t)
    BY <2>2 DEF Encode, EncodeOneway, Close, daemon, receiving
  <2> QED
    BY <2>1, <2>2
<1>5. Writable' => Writable
  BY <1>3, <1>4 DEF Writable, Closed
<1>6. reader' = reader \/ (reader = "none" /\ reader' = "reading")
  BY <1>1, <1>4 DEF ConnectInv, Starting
<1> QED
  BY <1>4, <1>5, <1>6, CallerKeepsDone, WakingKept

LEMMA WakeStep ==
    ASSUME CallsHaveSlots, WakingInv, Wake
    PROVE  WakingInv'
<1>1. TypeOK /\ CallInv /\ SlotInv
  BY DEF CallsHaveSlots, Types
<1>2. /\ reader = "waking" /\ th' = th /\ faults' = faults /\ Writable' = Writable
      /\ \/ wake + 1 < Slots /\ wake' = wake + 1 /\ reader' = reader
         \/ ~(wake + 1 < Slots) /\ reader' = "ended" /\ wake' = wake
  BY DEF Wake, daemon, application, Writable, Closed
<1>3. /\ OtherSlots(wake)
      /\ slot'[wake].done = (slot[wake].done \/ slot[wake].active)
  BY <1>1, WakeEffect
<1>4. wake \in Numbers /\ wake \in Nat /\ Slots \in Nat
  BY <1>1, TypeParts, Constants DEF OtherTypes, Numbers
<1>5. ASSUME "read" \notin faults, NEW t \in All, th[t].pc = "written",
             reader' = "ended" \/ (reader' = "waking" /\ SlotOf(th[t].id) < wake')
      PROVE  slot'[SlotOf(th[t].id)].done
  <2> DEFINE i == SlotOf(th[t].id)
  <2>1. i \in Numbers /\ i \in 0..Slots - 1
    BY <1>1, <1>5, CallSlot DEF Calling, InCall, Numbers
  <2>2. i <= wake
    <3>1. i \in Nat /\ i < Slots
      BY <1>4, <2>1
    <3>2. \/ wake + 1 < Slots /\ i < wake + 1
          \/ ~(wake + 1 < Slots)
      BY <1>2, <1>5
    <3> HIDE DEF i
    <3> QED
      BY <1>4, <3>1, <3>2
  <2>3. CASE i = wake
    <3>1. slot[i].active
      BY <1>1, <1>5, <2>1 DEF SlotInv, Holds, Holding, InCall, Numbers
    <3> QED
      BY <1>3, <2>3, <3>1
  <2>4. CASE i # wake
    <3>1. i < wake
      <4>1. \A x, y \in Nat : x <= y /\ x # y => x < y
        OBVIOUS
      <4>2. i \in Nat
        BY <1>4, <2>1
      <4> QED
        BY <1>4, <2>2, <2>4, <4>1, <4>2, Zenon
    <3>2. slot[i].done
      BY <1>2, <1>5, <3>1 DEF WakingInv, Mine
    <3> QED
      BY <1>3, <2>1, <2>4, <3>2 DEF OtherSlots
  <2> QED
    BY <2>3, <2>4
<1>6. "read" \notin faults => ~Writable
  BY <1>2 DEF WakingInv
<1> SUFFICES ASSUME "read" \notin faults
             PROVE  /\ reader' \in {"waking", "ended"} => ~Writable'
                    /\ reader' \notin {"waking", "ended"} => wake' = 0
                    /\ \A t \in All :
                           th'[t].pc = "written"
                               /\ (reader' = "ended" \/ (reader' = "waking" /\ SlotOf(th'[t].id) < wake')) =>
                           slot'[SlotOf(th'[t].id)].done
  BY <1>2 DEF WakingInv, Mine, SlotOf
<1> QED
  BY <1>2, <1>5, <1>6

LEMMA WakingStep ==
    ASSUME CallsHaveSlots, WakingInv, [Next]_vars
    PROVE  WakingInv'
<1>1. ASSUME th' = th, slot' = slot, faults \subseteq faults', Writable' => Writable,
             wake' = wake, reader' = reader
      PROVE  WakingInv'
  BY <1>1, WakingKept
<1>2. CASE UNCHANGED vars
  BY <1>1, <1>2 DEF vars, daemon, receiving, application, Writable, Closed
<1>3. CASE SetCallback
  BY <1>1, <1>3 DEF SetCallback, daemon, receiving, Writable, Closed
<1>4. CASE \E t \in All : Caller(t) \/ Encode(t) \/ EncodeOneway(t) \/ Close(t)
  BY <1>4, CallerKeepsWaking
<1>5. CASE Wake
  BY <1>5, WakeStep
<1>6. CASE Read \/ ReadIsLost \/ Misread \/ Respond \/ Ignore \/ Notified \/ CallbackReturns
  <2>1. /\ reader \in {"reading", "callback"} /\ reader' \in {"reading", "callback"}
        /\ wake' = wake /\ faults \subseteq faults'
    BY <1>6 DEF Read, ReadIsLost, Misread, Take, Respond, Ignore, Notified, CallbackReturns, Arrived, Fault
  <2> QED
    BY <2>1 DEF WakingInv
<1>7. CASE ReaderStops
  <2>1. /\ reader = "reading" /\ reader' = "waking" /\ wake' = wake
        /\ peer' = peer /\ client' = client /\ faults \subseteq faults'
        /\ Closed \/ peer = "closed" \/ "read" \in faults'
    BY <1>7 DEF ReaderStops, Fault, daemon, application
  <2>2. "read" \notin faults' => ~Writable' /\ wake' = 0
    BY <2>1 DEF WakingInv, Writable, Closed
  <2>3. \A t \in All : th'[t].pc = "written" => SlotOf(th'[t].id) \in Numbers
    <3>1. th' = th /\ TypeOK /\ CallInv
      BY <1>7 DEF ReaderStops, CallsHaveSlots, Types
    <3> QED
      BY <3>1, CallSlot DEF Calling, InCall
  <2>4. \A i \in Numbers : ~(i < 0)
    BY Constants DEF Numbers
  <2>5. "read" \notin faults' => \A t \in All : th'[t].pc = "written" => ~(SlotOf(th'[t].id) < wake')
    BY <2>2, <2>3, <2>4
  <2> SUFFICES ASSUME "read" \notin faults'
               PROVE  /\ reader' \in {"waking", "ended"} => ~Writable'
                      /\ reader' \notin {"waking", "ended"} => wake' = 0
                      /\ \A t \in All :
                             th'[t].pc = "written"
                                 /\ (reader' = "ended" \/ (reader' = "waking" /\ SlotOf(th'[t].id) < wake')) =>
                             slot'[SlotOf(th'[t].id)].done
    BY DEF WakingInv, Mine, SlotOf
  <2> QED
    BY <2>1, <2>2, <2>5
<1>8. CASE Daemon
  <2>1. /\ th' = th /\ slot' = slot /\ faults \subseteq faults' /\ client' = client
        /\ (peer' = peer \/ peer' = "closed") /\ wake' = wake /\ reader' = reader
    <3>1. CASE Serve \/ ServeOneway \/ Notify
      BY <3>1 DEF Serve, ServeOneway, Notify, daemon, receiving, application, Fault
    <3>2. CASE PeerCloses
      BY <3>2 DEF PeerCloses, receiving, application
    <3> QED
      BY <1>8, <3>1, <3>2 DEF Daemon
  <2> QED
    BY <1>1, <2>1 DEF Writable, Closed
<1> QED
  BY <1>2, <1>3, <1>4, <1>5, <1>6, <1>7, <1>8 DEF Next, ReaderThread

\* Whatever interleaves, a call whose request was written when the connection ends
\* is woken by the reader's last loop: none is written behind the loop, and none
\* before it is missed.
THEOREM TheEndWakesTheCalls == Spec => []WokenAtTheEnd
<1>1. Init => WokenAndSlots
  <2>1. Init => WakingInv
    BY DEF Init, WakingInv
  <2> QED
    BY <2>1, SlotsInit DEF WokenAndSlots
<1>2. WokenAndSlots /\ [Next]_vars => WokenAndSlots'
  BY WakingStep, TypesStep, ConnectStep, CallStep, SlotStep DEF WokenAndSlots, CallsHaveSlots
<1>3. WokenAndSlots => WokenAtTheEnd
  BY DEF WokenAndSlots, WakingInv, WokenAtTheEnd
<1> QED
  BY <1>1, <1>2, <1>3, PTL DEF Spec

-----------------------------------------------------------------------------
(* Requests, answers and what the calls return                             *)

\* A step of a caller: it passes on outside of calls or in a call that keeps its
\* answer, begins a call, takes its slot, writes, takes an error response, or ends
Aside == answered' = answered /\ recv' = recv /\ fromDaemon' = fromDaemon
ReaderAsBefore == reader' = reader \/ (reader = "none" /\ reader' = "reading")
Passes(t) ==
    /\ Others(t)
    /\ th'[t].pc \in InCall => Calling(t) /\ th'[t].id = th[t].id
    /\ th'[t].pc \in Holding <=> Holds(t)
    /\ th'[t].pc \notin {"encoded", "claimed", "rpc"} /\ th[t].pc # "rpc"
    /\ th'[t].pc = "writing" => th[t].pc = "claimed"
    /\ th'[t].pc \in Waiting => Waits(t)
    /\ slot' = slot /\ verdict' = verdict /\ nextId' = nextId /\ source' = source
    /\ toDaemon' = toDaemon /\ Aside /\ ReaderAsBefore
Starts(t) ==
    /\ Begins(t)
    /\ slot' = slot /\ source' = source /\ toDaemon' = toDaemon /\ Aside /\ ReaderAsBefore
Takes(t) ==
    LET i == SlotOf(th[t].id) IN
    /\ Claims(t)
    /\ ~slot'[i].done /\ ~slot'[i].error /\ slot'[i].from = NoCall
    /\ source' = source /\ toDaemon' = toDaemon /\ Aside /\ reader' = reader
Writes(t) ==
    /\ Writing(t) /\ Others(t)
    /\ toDaemon' = Append(toDaemon, [message |-> Message(t), part |-> th[t].sent + 1])
    /\ \/ th'[t].pc = th[t].pc /\ th'[t].id = th[t].id /\ th'[t].sent = th[t].sent + 1
       \/ th[t].pc = "writing" /\ th'[t].pc = "written" /\ th'[t].id = th[t].id
       \/ th[t].pc = "telling" /\ th'[t].pc = "idle"
    /\ slot' = slot /\ verdict' = verdict /\ nextId' = nextId /\ source' = source
    /\ Aside /\ reader' = reader
TakesError(t) ==
    /\ th[t].pc = "written" /\ Moves(t, "rpc") /\ Mine(t).error /\ Sourced(t)
    /\ slot' = slot /\ verdict' = verdict /\ nextId' = nextId
    /\ toDaemon' = toDaemon /\ Aside /\ reader' = reader
SameAnswer(i) ==
    slot'[i].done = slot[i].done /\ slot'[i].error = slot[i].error /\ slot'[i].from = slot[i].from
EndsAs(t, what) ==
    /\ \/ /\ th[t].pc = "encoded" /\ source' = source
          /\ what = "nomem" \/ (what = "send" /\ slot[SlotOf(th[t].id)].active)
       \/ /\ th[t].pc \in {"unsent", "written", "recv"} /\ source' = source
          /\ what \in {"send", "timeout", "recv"}
       \/ th[t].pc = "rpc" /\ source' = source /\ what = "rpc"
       \/ th[t].pc = "written" /\ Mine(t).done /\ Sourced(t) /\ what = "ok"
    /\ verdict' = [verdict EXCEPT ![th[t].id] = what]
Ends(t) ==
    /\ Calling(t) /\ \E p \in {"idle", "close"} : Moves(t, p)
    /\ \E what \in Verdicts \ {"none"} : EndsAs(t, what)
    /\ \A i \in Numbers : SameAnswer(i)
    /\ nextId' = nextId /\ toDaemon' = toDaemon /\ Aside /\ reader' = reader

LEMMA CallerKind ==
    ASSUME CallsHaveSlots, NEW t \in All,
           Caller(t) \/ Encode(t) \/ EncodeOneway(t) \/ Close(t)
    PROVE  Passes(t) \/ Starts(t) \/ Takes(t) \/ Writes(t) \/ TakesError(t) \/ Ends(t)
<1> USE DEF Calling, Holds, Waits, InCall, Holding, Waiting, Aside, io, daemon, receiving, told
<1>1. Types /\ TypeOK /\ CallInv /\ ConnectInv
  BY DEF CallsHaveSlots, Types
<1>2. \A i \in Numbers : slot[i] = slot'[i] => SameAnswer(i)
  BY DEF SameAnswer
<1>3. ASSUME Calling(t), NEW what \in Verdicts, what # "none", Report(t, what), EndsAs(t, what),
             nextId' = nextId, toDaemon' = toDaemon, Aside, reader' = reader,
             \A i \in Numbers : SameAnswer(i)
      PROVE  Ends(t)
  <2>1. \E p \in {"idle", "close"} : Moves(t, p)
    BY <1>1, <1>3, ReportEffect
  <2>2. \E w \in Verdicts \ {"none"} : EndsAs(t, w)
    BY <1>3
  <2> QED
    BY <1>3, <2>1, <2>2 DEF Ends
<1>4. ASSUME Calling(t), Release(t)
      PROVE  \A i \in Numbers : SameAnswer(i)
  BY <1>1, <1>4, ReleaseEffect DEF OtherSlots, SameAnswer
<1>5. CASE OpenSocket(t) \/ Connect(t) \/ Refused(t) \/ Close(t) \/ Free(t)
  <2>1. /\ \E p \in {"socket", "memory", "idle", "joining"} : Moves(t, p)
        /\ th[t].pc \in {"connect", "socket", "memory", "idle", "close", "joining"}
    BY <1>1, <1>5, ConnectEffect DEF OpenSocket, Connect, Refused, Close, Free
  <2>2. /\ slot' = slot /\ verdict' = verdict /\ nextId' = nextId /\ source' = source
        /\ toDaemon' = toDaemon /\ Aside /\ reader' = reader
    BY <1>5 DEF OpenSocket, Connect, Refused, Close, Free
  <2> QED
    BY <2>1, <2>2 DEF Moves, Passes, ReaderAsBefore
<1>6. CASE WriteLock(t) \/ WriteFails(t) \/ ReturnClosed(t)
  <2>1. \/ th[t].pc = "claimed" /\ Moves(t, "writing")
        \/ th[t].pc = "oneway" /\ Moves(t, "telling")
        \/ th[t].pc = "writing" /\ Moves(t, "unsent")
        \/ th[t].pc = "telling" /\ Moves(t, "idle")
        \/ th[t].pc = "written" /\ Moves(t, "recv")
    <3>1. CASE WriteLock(t)
      <4>1. Moves(t, IF th[t].pc = "claimed" THEN "writing" ELSE "telling")
        BY <1>1, <3>1, LockEffect
      <4> QED
        BY <3>1, <4>1 DEF WriteLock
    <3>2. CASE WriteFails(t)
      BY <1>1, <3>2, CallEffect DEF WriteFails, Writing
    <3>3. CASE ReturnClosed(t)
      BY <1>1, <3>3, CallEffect DEF ReturnClosed
    <3> QED
      BY <1>6, <3>1, <3>2, <3>3
  <2>2. /\ slot' = slot /\ verdict' = verdict /\ nextId' = nextId /\ source' = source
        /\ toDaemon' = toDaemon /\ Aside /\ reader' = reader
    BY <1>6 DEF WriteLock, WriteFails, ReturnClosed
  <2> QED
    BY <2>1, <2>2 DEF Moves, Passes, ReaderAsBefore
<1>7. CASE EncodeOneway(t)
  <2>1. Others(t) /\ th'[t].pc = "oneway" /\ th[t].pc = "idle"
    BY <1>1, <1>7, EncodeEffect DEF EncodeOneway, MayCall
  <2>2. /\ slot' = slot /\ verdict' = verdict /\ nextId' = nextId /\ source' = source
        /\ toDaemon' = toDaemon /\ Aside /\ reader' = reader
    BY <1>7 DEF EncodeOneway
  <2> QED
    BY <2>1, <2>2 DEF Passes, ReaderAsBefore
<1>8. CASE StartReader(t) \/ Encode(t)
  <2>1. Begins(t)
    <3>1. th'[t].pc = "encoded" /\ th[t].pc \in {"memory", "idle"}
      <4>1. CASE StartReader(t)
        BY <1>1, <4>1, ConnectEffect DEF Moves, StartReader
      <4>2. CASE Encode(t)
        <5>1. th'[t].pc = "encoded"
          BY <1>1, <4>2, EncodeEffect
        <5> QED
          BY <4>2, <5>1 DEF Encode, MayCall
      <4> QED
        BY <1>8, <4>1, <4>2
    <3>2. Keeps(t) \/ Begins(t) \/ Claims(t) \/ Returns(t)
      BY <1>1, <1>8, CallerShape DEF Caller
    <3> QED
      BY <3>1, <3>2 DEF Keeps, Claims, Returns
  <2>2. /\ slot' = slot /\ source' = source /\ toDaemon' = toDaemon /\ Aside
    BY <1>8 DEF StartReader, Encode
  <2>3. ReaderAsBefore
    <3>1. th[t].pc = "memory" => reader = "none"
      BY <1>1 DEF ConnectInv, Starting
    <3> QED
      BY <1>8, <3>1 DEF StartReader, Encode, ReaderAsBefore
  <2> QED
    BY <2>1, <2>2, <2>3 DEF Starts
<1>9. CASE EncodingFails(t)
  <2>1. EndsAs(t, "nomem") /\ Report(t, "nomem")
    BY <1>9 DEF EncodingFails, EndsAs, Report
  <2> QED
    BY <1>2, <1>3, <1>9, <2>1 DEF EncodingFails, Verdicts
<1>10. CASE Claim(t)
  <2> DEFINE i == SlotOf(th[t].id)
  <2>1. th[t].pc = "encoded" /\ source' = source /\ toDaemon' = toDaemon /\ Aside /\ reader' = reader /\ nextId' = nextId
    BY <1>10 DEF Claim
  <2>2. CASE slot[i].active
    <3>1. Report(t, "send") /\ slot' = slot
      BY <1>10, <2>2 DEF Claim
    <3>2. EndsAs(t, "send")
      BY <2>1, <2>2, <3>1 DEF EndsAs, Report
    <3> QED
      BY <1>2, <1>3, <2>1, <3>1, <3>2 DEF Verdicts
  <2>3. CASE ~slot[i].active
    <3>1. /\ Moves(t, "claimed") /\ verdict' = verdict /\ OtherSlots(i)
          /\ slot'[i] = [active |-> TRUE, done |-> FALSE, error |-> FALSE, data |-> Null, from |-> NoCall]
      BY <1>1, <1>10, <2>3, ClaimEffect
    <3>2. slot'[i].active /\ ~slot'[i].done /\ ~slot'[i].error /\ slot'[i].from = NoCall
      BY <3>1
    <3> QED
      BY <2>1, <2>3, <3>1, <3>2 DEF Takes, Claims
  <2> QED
    BY <2>2, <2>3
<1>11. CASE Write(t)
  <2>1. /\ Writing(t) /\ toDaemon' = Append(toDaemon, [message |-> Message(t), part |-> th[t].sent + 1])
        /\ slot' = slot /\ verdict' = verdict /\ nextId' = nextId /\ source' = source
        /\ Aside /\ reader' = reader
    BY <1>1, <1>11, MessageType DEF Write
  <2>2. \/ Moves(t, th[t].pc) /\ th'[t].sent = th[t].sent + 1
        \/ Moves(t, IF th[t].pc = "writing" THEN "written" ELSE "idle")
    BY <1>1, <1>11, WriteEffect
  <2> QED
    BY <2>1, <2>2 DEF Moves, Writes, Writing
<1>12. CASE Unsent(t)
  <2>1. EndsAs(t, "send") /\ Report(t, "send") /\ Release(t) /\ Calling(t)
    BY <1>12 DEF Unsent, EndsAs, Report
  <2> QED
    BY <1>3, <1>4, <1>12, <2>1 DEF Unsent, Verdicts
<1>13. CASE ReturnResult(t)
  <2>1. EndsAs(t, "ok") /\ Report(t, "ok") /\ Calling(t)
    BY <1>13 DEF ReturnResult, EndsAs, Report
  <2>2. \A i \in Numbers : SameAnswer(i)
    BY <1>1, <1>13, ReturnResultEffect DEF OtherSlots, SameAnswer
  <2> QED
    BY <1>3, <1>13, <2>1, <2>2 DEF ReturnResult, Verdicts
<1>14. CASE ReturnError(t)
  BY <1>1, <1>14, CallEffect DEF ReturnError, TakesError
<1>15. CASE Leave(t)
  <2>1. EndsAs(t, th[t].pc) /\ Report(t, th[t].pc) /\ Release(t) /\ Calling(t) /\ th[t].pc \in {"rpc", "recv"}
    BY <1>15 DEF Leave, EndsAs, Report
  <2> QED
    BY <1>3, <1>4, <1>15, <2>1 DEF Leave, Verdicts
<1>16. CASE Expire(t)
  <2>1. EndsAs(t, "timeout") /\ Report(t, "timeout") /\ Release(t) /\ Calling(t)
    BY <1>16 DEF Expire, EndsAs, Report
  <2> QED
    BY <1>3, <1>4, <1>16, <2>1 DEF Expire, Verdicts
<1> QED
  BY <1>5, <1>6, <1>7, <1>8, <1>9, <1>10, <1>11, <1>12, <1>13, <1>14, <1>15, <1>16 DEF Caller

\* The stream of what is on its way to process_message: reads move it, a message
\* handled is taken from its front, one sent is added at its end.
LEMMA StreamType ==
    ASSUME Types
    PROVE  /\ Stream \in Seq(PartsOf(Messages)) /\ Len(Stream) = Len(recv) + Len(fromDaemon)
           /\ Len(Stream) \in Nat /\ DOMAIN Stream = 1..Len(Stream)
           /\ Len(recv) \in Nat /\ DOMAIN recv = 1..Len(recv) /\ Len(fromDaemon) \in Nat
           /\ \A i \in 1..Len(recv) : Stream[i] = recv[i]
           /\ \A i \in 1..Len(fromDaemon) : Stream[Len(recv) + i] = fromDaemon[i]
<1>1. recv \in Seq(PartsOf(Messages)) /\ fromDaemon \in Seq(PartsOf(Messages))
  BY DEF Types
<1> QED
  BY <1>1 DEF Stream

LEMMA ReadStream ==
    ASSUME Types, Read
    PROVE  Stream' = Stream
<1>1. PICK n \in 1..Chunk :
          /\ n <= Len(fromDaemon)
          /\ recv' = recv \o SubSeq(fromDaemon, 1, n)
          /\ fromDaemon' = SubSeq(fromDaemon, n + 1, Len(fromDaemon))
  BY DEF Read, Take
<1>2. /\ recv \in Seq(PartsOf(Messages)) /\ fromDaemon \in Seq(PartsOf(Messages))
      /\ n \in Nat /\ Len(fromDaemon) \in Nat
  BY Constants DEF Types
<1> DEFINE a == SubSeq(fromDaemon, 1, n)
           b == SubSeq(fromDaemon, n + 1, Len(fromDaemon))
<1>3. a \o b = fromDaemon
  <2>1. 1 \in 1..Len(fromDaemon) + 1 /\ n \in 1 - 1..Len(fromDaemon) /\ Len(fromDaemon) \in n..Len(fromDaemon)
    BY <1>1, <1>2
  <2>2. a \o b = SubSeq(fromDaemon, 1, Len(fromDaemon))
    BY <1>2, <2>1, ConcatAdjacentSubSeq
  <2> QED
    BY <1>2, <2>2, SubSeqFull
<1>4. a \in Seq(PartsOf(Messages)) /\ b \in Seq(PartsOf(Messages))
  <2>1. \A i \in 1..n : fromDaemon[i] \in PartsOf(Messages)
    BY <1>1, <1>2
  <2>2. \A i \in n + 1..Len(fromDaemon) : fromDaemon[i] \in PartsOf(Messages)
    BY <1>1, <1>2
  <2> QED
    BY <1>1, <1>2, <2>1, <2>2, SubSeqProperties
<1> HIDE DEF a, b
<1>5. (recv \o a) \o b = recv \o (a \o b)
  BY <1>2, <1>4, ConcatAssociative
<1>6. recv' = recv \o a /\ fromDaemon' = b
  BY <1>1 DEF a, b
<1> QED
  BY <1>3, <1>5, <1>6 DEF Stream

LEMMA ConcatParts ==
    ASSUME NEW S, NEW q \in Seq(S), NEW r \in Seq(S)
    PROVE  /\ DOMAIN (q \o r) = 1..Len(q) + Len(r)
           /\ \A i \in 1..Len(q) : (q \o r)[i] = q[i]
           /\ \A i \in 1..Len(r) : (q \o r)[Len(q) + i] = r[i]
OBVIOUS

\* n parts are gone from the front of the stream
Dropped(n) ==
    /\ DOMAIN Stream' = 1..Len(Stream) - n
    /\ \A i \in DOMAIN Stream' : i + n \in DOMAIN Stream /\ Stream'[i] = Stream[i + n]

\* Parts that leave the front of the buffer leave the front of the stream.
LEMMA DropStream ==
    ASSUME Types, NEW n \in Nat, n <= Len(recv),
           recv' = SubSeq(recv, n + 1, Len(recv)), fromDaemon' = fromDaemon
    PROVE  Dropped(n)
<1>1. /\ recv \in Seq(PartsOf(Messages)) /\ fromDaemon \in Seq(PartsOf(Messages))
      /\ Len(recv) \in Nat /\ Len(fromDaemon) \in Nat /\ n \in Nat
      /\ DOMAIN recv = 1..Len(recv) /\ DOMAIN fromDaemon = 1..Len(fromDaemon)
  BY DEF Types
<1>3. /\ recv' \in Seq(PartsOf(Messages)) /\ Len(recv') = Len(recv) - n
      /\ \A i \in 1..Len(recv) - n : recv'[i] = recv[i + n]
  BY <1>1, SuffixType
<1>4. /\ Len(Stream) = Len(recv) + Len(fromDaemon) /\ DOMAIN Stream = 1..Len(recv) + Len(fromDaemon)
      /\ \A i \in 1..Len(recv) : Stream[i] = recv[i]
      /\ \A i \in 1..Len(fromDaemon) : Stream[Len(recv) + i] = fromDaemon[i]
  BY StreamType
<1>5. /\ DOMAIN Stream' = 1..Len(recv) - n + Len(fromDaemon)
      /\ \A i \in 1..Len(recv) - n : Stream'[i] = recv'[i]
      /\ \A i \in 1..Len(fromDaemon) : Stream'[Len(recv) - n + i] = fromDaemon[i]
  <2>1. Stream' = recv' \o fromDaemon
    BY Zenon DEF Stream
  <2>2. /\ DOMAIN (recv' \o fromDaemon) = 1..Len(recv') + Len(fromDaemon)
        /\ \A i \in 1..Len(recv') : (recv' \o fromDaemon)[i] = recv'[i]
        /\ \A i \in 1..Len(fromDaemon) : (recv' \o fromDaemon)[Len(recv') + i] = fromDaemon[i]
    <3>1. recv' \in Seq(PartsOf(Messages)) /\ fromDaemon \in Seq(PartsOf(Messages))
      BY <1>1, <1>3
    <3> DEFINE T == PartsOf(Messages)
               rest == recv'
    <3>2. rest \in Seq(T) /\ fromDaemon \in Seq(T)
      BY <3>1
    <3> HIDE DEF T, rest
    <3>3. /\ DOMAIN (rest \o fromDaemon) = 1..Len(rest) + Len(fromDaemon)
          /\ \A i \in 1..Len(rest) : (rest \o fromDaemon)[i] = rest[i]
          /\ \A i \in 1..Len(fromDaemon) : (rest \o fromDaemon)[Len(rest) + i] = fromDaemon[i]
      BY <3>2, ConcatParts
    <3> QED
      BY <3>3 DEF rest
  <2> QED
    BY <1>3, <2>1, <2>2, Zenon
<1>6. DOMAIN Stream' = 1..Len(Stream) - n
  <2>1. \A x, y, z \in Nat : x - z + y = (x + y) - z
    OBVIOUS
  <2>2. Len(recv) - n + Len(fromDaemon) = (Len(recv) + Len(fromDaemon)) - n
    BY <1>1, <2>1, Zenon
  <2>3. Len(Stream) = Len(recv) + Len(fromDaemon)
    BY <1>4
  <2>4. DOMAIN Stream' = 1..Len(recv) - n + Len(fromDaemon)
    BY <1>5
  <2> QED
    BY <2>2, <2>3, <2>4, Zenon
<1>7. ASSUME NEW i \in 1..Len(recv) - n + Len(fromDaemon)
      PROVE  i + n \in DOMAIN Stream /\ Stream'[i] = Stream[i + n]
  <2>1. i + n \in 1..Len(recv) + Len(fromDaemon)
    BY <1>1
  <2>2. CASE i <= Len(recv) - n
    <3>1. i \in 1..Len(recv) - n /\ i + n \in 1..Len(recv)
      BY <1>1, <2>2
    <3> QED
      BY <1>3, <1>4, <1>5, <2>1, <3>1
  <2>3. CASE ~(i <= Len(recv) - n)
    <3> DEFINE k == i - (Len(recv) - n)
    <3>1. k \in 1..Len(fromDaemon) /\ Len(recv) - n + k = i /\ Len(recv) + k = i + n
      BY <1>1, <2>3
    <3> QED
      BY <1>4, <1>5, <2>1, <3>1
  <2> QED
    BY <2>2, <2>3
<1> QED
  BY <1>5, <1>6, <1>7 DEF Dropped

\* What the buffer held and what a read brings are lost: the front of the stream is.
LEMMA LoseStream ==
    ASSUME Types, NEW k \in Nat, k <= Len(fromDaemon),
           recv' = << >>, fromDaemon' = SubSeq(fromDaemon, k + 1, Len(fromDaemon))
    PROVE  Dropped(Len(recv) + k)
<1> DEFINE n == Len(recv) + k
<1>1. /\ Len(recv) \in Nat /\ Len(fromDaemon) \in Nat /\ fromDaemon \in Seq(PartsOf(Messages))
      /\ Len(Stream) = Len(recv) + Len(fromDaemon) /\ DOMAIN Stream = 1..Len(Stream)
      /\ \A i \in 1..Len(fromDaemon) : Stream[Len(recv) + i] = fromDaemon[i]
  BY StreamType DEF Types
<1>2. /\ fromDaemon' \in Seq(PartsOf(Messages))
      /\ DOMAIN fromDaemon' = 1..Len(fromDaemon) - k
      /\ \A i \in DOMAIN fromDaemon' : i + k \in DOMAIN fromDaemon /\ fromDaemon'[i] = fromDaemon[i + k]
  BY <1>1, SuffixType
<1>3. Stream' = fromDaemon'
  <2>1. Stream' = << >> \o fromDaemon'
    BY Zenon DEF Stream
  <2>2. << >> \o fromDaemon' = fromDaemon'
    BY <1>2, ConcatEmptySeq
  <2> QED
    BY <2>1, <2>2
<1> HIDE DEF Stream
<1>4. Len(fromDaemon) - k = Len(Stream) - n
  BY <1>1
<1>5. ASSUME NEW i \in DOMAIN Stream'
      PROVE  i + n \in DOMAIN Stream /\ Stream'[i] = Stream[i + n]
  <2>1. i \in 1..Len(fromDaemon) - k
    BY <1>2, <1>3, <1>5
  <2>2. i + k \in 1..Len(fromDaemon) /\ Len(recv) + (i + k) = i + n /\ i + n \in 1..Len(Stream)
    BY <1>1, <2>1
  <2>3. Stream'[i] = fromDaemon[i + k]
    BY <1>2, <1>3, <1>5
  <2> HIDE DEF n
  <2> QED
    BY <1>1, <2>2, <2>3
<1> QED
  BY <1>2, <1>3, <1>4, <1>5 DEF Dropped

LEMMA HandleStream ==
    ASSUME Types, Whole(recv), Processed, fromDaemon' = fromDaemon
    PROVE  /\ Dropped(Parts)
           /\ \A p \in 1..Parts :
                  p \in DOMAIN Stream /\ Stream[p] = [message |-> recv[1].message, part |-> p]
<1>1. /\ recv \in Seq(PartsOf(Messages)) /\ fromDaemon \in Seq(PartsOf(Messages))
      /\ Len(recv) \in Nat /\ Len(fromDaemon) \in Nat /\ Len(recv) >= Parts /\ Parts \in Nat
  BY Constants DEF Types, Whole
<1>2. /\ DOMAIN Stream = 1..Len(Stream) /\ Len(Stream) = Len(recv) + Len(fromDaemon)
      /\ \A i \in 1..Len(recv) : Stream[i] = recv[i]
  BY StreamType
<1>3. Dropped(Parts)
  BY <1>1, DropStream DEF Processed, AfterFrame
<1>4. ASSUME NEW p \in 1..Parts
      PROVE  p \in DOMAIN Stream /\ Stream[p] = [message |-> recv[1].message, part |-> p]
  <2>1. p \in 1..Len(recv) /\ p \in 1..Len(Stream)
    BY <1>1, <1>2
  <2>2. recv[p] = [message |-> recv[1].message, part |-> p]
    BY <1>1, WholeFrame
  <2> QED
    BY <1>2, <2>1, <2>2
<1> QED
  BY <1>3, <1>4

LEMMA SendStream ==
    ASSUME Types, NEW message \in Messages, recv' = recv, fromDaemon' = fromDaemon \o FrameOf(message)
    PROVE  /\ DOMAIN Stream' = 1..Len(Stream) + Parts
           /\ \A i \in DOMAIN Stream : Stream'[i] = Stream[i]
           /\ \A p \in 1..Parts : Stream'[Len(Stream) + p] = [message |-> message, part |-> p]
<1>1. /\ recv \in Seq(PartsOf(Messages)) /\ fromDaemon \in Seq(PartsOf(Messages))
      /\ FrameOf(message) \in Seq(PartsOf(Messages)) /\ Len(FrameOf(message)) = Parts /\ Parts \in Nat
      /\ \A p \in 1..Parts : FrameOf(message)[p] = [message |-> message, part |-> p]
  BY FrameType, Constants DEF Types
<1>2. Stream' = Stream \o FrameOf(message)
  <2>1. (recv \o fromDaemon) \o FrameOf(message) = recv \o (fromDaemon \o FrameOf(message))
    BY <1>1, ConcatAssociative
  <2> QED
    BY <2>1 DEF Stream
<1>3. Stream \in Seq(PartsOf(Messages)) /\ DOMAIN Stream = 1..Len(Stream) /\ Len(Stream) \in Nat
  BY StreamType
<1> HIDE DEF Stream
<1>4. /\ DOMAIN (Stream \o FrameOf(message)) = 1..Len(Stream) + Len(FrameOf(message))
      /\ \A i \in 1..Len(Stream) : (Stream \o FrameOf(message))[i] = Stream[i]
      /\ \A i \in 1..Len(FrameOf(message)) :
             (Stream \o FrameOf(message))[Len(Stream) + i] = FrameOf(message)[i]
  <2> DEFINE T == PartsOf(Messages)
             frame == FrameOf(message)
  <2>1. Stream \in Seq(T) /\ frame \in Seq(T)
    BY <1>1, <1>3
  <2> HIDE DEF T, frame
  <2>2. /\ DOMAIN (Stream \o frame) = 1..Len(Stream) + Len(frame)
        /\ \A i \in 1..Len(Stream) : (Stream \o frame)[i] = Stream[i]
        /\ \A i \in 1..Len(frame) : (Stream \o frame)[Len(Stream) + i] = frame[i]
    BY <2>1, ConcatParts
  <2> QED
    BY <2>2 DEF frame
<1> QED
  BY <1>1, <1>2, <1>3, <1>4, Zenon

\* A step of the reader: it leaves stream and answers alone, skips a message, gives a
\* response to the call that has its slot, or loses the front of the stream
Untouched == th' = th /\ verdict' = verdict /\ nextId' = nextId /\ source' = source
Handled(message) ==
    /\ Dropped(Parts)
    /\ \A p \in 1..Parts : p \in DOMAIN Stream /\ Stream[p] = [message |-> message, part |-> p]
ReaderGoesOn == reader \in {"waking", "ended"} => reader' \in {"waking", "ended"}
Rests ==
    /\ Stream' = Stream
    /\ \A i \in Numbers : /\ slot'[i].from = slot[i].from /\ slot'[i].error = slot[i].error
                          /\ slot'[i].done = slot[i].done \/ reader' \in {"waking", "ended"}
Skips == \E message \in Messages : Handled(message) /\ slot' = slot
Delivers ==
    \E message \in Messages :
        LET i == SlotOf(message.id) IN
        /\ Handled(message) /\ message.type = "response" /\ message.id \in Ids /\ i \in Numbers
        /\ OtherSlots(i)
        /\ ~slot[i].active => slot'[i] = slot[i]
        /\ slot[i].active => slot'[i].done = TRUE /\ slot'[i].from = message.id
Loses == slot' = slot /\ \E n \in Nat : Dropped(n)

LEMMA ReaderKind ==
    ASSUME Types, ReaderThread \/ Misread
    PROVE  /\ Untouched /\ toDaemon' = toDaemon /\ answered' = answered /\ ReaderGoesOn
           /\ Rests \/ Skips \/ Delivers \/ Loses
<1> USE DEF io, daemon, receiving, told
<1>1. TypeOK
  BY DEF Types
<1>2. /\ Untouched /\ toDaemon' = toDaemon /\ answered' = answered /\ ReaderGoesOn
  BY DEF ReaderThread, Read, ReadIsLost, Misread, Take, Respond, Ignore, Notified, CallbackReturns, ReaderStops, Wake, Arrived,
         Untouched, ReaderGoesOn
<1>3. ASSUME Whole(recv), Processed, fromDaemon' = fromDaemon
      PROVE  recv[1].message \in Messages /\ Handled(recv[1].message)
  BY <1>3, FirstMessage, HandleStream DEF Handled
<1>4. CASE Read
  <2>1. Stream' = Stream /\ slot' = slot
    BY <1>4, ReadStream DEF Read
  <2> QED
    BY <1>2, <2>1 DEF Rests
<1>5. CASE Respond
  <2> DEFINE message == recv[1].message
  <2>1. Whole(recv) /\ Processed /\ fromDaemon' = fromDaemon /\ Arrived("response")
    BY <1>5 DEF Respond, Arrived
  <2>2. message \in Messages /\ Handled(message) /\ message.type = "response"
    BY <1>3, <2>1 DEF Arrived
  <2>3. message.id \in Ids /\ SlotOf(message.id) \in Numbers
    BY <2>1, FirstResponse
  <2>4. /\ OtherSlots(SlotOf(message.id))
        /\ ~slot[SlotOf(message.id)].active => slot'[SlotOf(message.id)] = slot[SlotOf(message.id)]
        /\ slot[SlotOf(message.id)].active =>
               slot'[SlotOf(message.id)].done = TRUE /\ slot'[SlotOf(message.id)].from = message.id
    BY <1>5, RespondEffect
  <2> HIDE DEF message
  <2> QED
    BY <1>2, <2>2, <2>3, <2>4 DEF Delivers
<1>6. CASE Ignore
  <2>1. Whole(recv) /\ Processed /\ fromDaemon' = fromDaemon /\ slot' = slot
    BY <1>6 DEF Ignore, Arrived
  <2> QED
    BY <1>2, <1>3, <2>1 DEF Skips
<1>7. CASE Notified
  <2>1. Whole(recv) /\ Processed /\ fromDaemon' = fromDaemon /\ slot' = slot
    BY <1>7 DEF Notified, Arrived
  <2> QED
    BY <1>2, <1>3, <2>1 DEF Skips
<1>8. CASE CallbackReturns \/ ReaderStops
  <2>1. recv' = recv /\ fromDaemon' = fromDaemon /\ slot' = slot
    BY <1>8 DEF CallbackReturns, ReaderStops
  <2>2. Stream' = Stream
    BY <2>1 DEF Stream
  <2> QED
    BY <1>2, <2>1, <2>2 DEF Rests
<1>9. CASE Wake
  <2>1. recv' = recv /\ fromDaemon' = fromDaemon /\ reader' \in {"waking", "ended"}
    BY <1>9 DEF Wake
  <2>2. Stream' = Stream
    BY <2>1 DEF Stream
  <2>3. OtherSlots(wake) /\ slot'[wake].error = slot[wake].error /\ slot'[wake].from = slot[wake].from
    BY <1>1, <1>9, WakeEffect
  <2> QED
    BY <1>2, <2>1, <2>2, <2>3 DEF Rests, OtherSlots
<1>10. CASE ReadIsLost
  <2>1. PICK k \in 1..Chunk : Take(k)
    BY <1>10 DEF ReadIsLost
  <2>2. k \in Nat /\ k <= Len(fromDaemon) /\ fromDaemon' = SubSeq(fromDaemon, k + 1, Len(fromDaemon))
    BY <2>1, Constants DEF Take
  <2>3. recv' = << >> /\ slot' = slot
    BY <1>10 DEF ReadIsLost
  <2>4. Dropped(Len(recv) + k) /\ Len(recv) + k \in Nat
    BY <2>2, <2>3, LoseStream, StreamType
  <2> QED
    BY <1>2, <2>3, <2>4 DEF Loses
<1>11. CASE Misread
  <2>1. PICK n \in 1..Len(recv) : recv' = SubSeq(recv, n + 1, Len(recv))
    BY <1>11 DEF Misread
  <2>2. n \in Nat /\ n <= Len(recv) /\ slot' = slot /\ fromDaemon' = fromDaemon
    BY <1>11, <2>1, StreamType DEF Misread
  <2>3. Dropped(n)
    BY <2>1, <2>2, DropStream
  <2> QED
    BY <1>2, <2>2, <2>3 DEF Loses
<1> QED
  BY <1>4, <1>5, <1>6, <1>7, <1>8, <1>9, <1>10, <1>11 DEF ReaderThread

\* A step of the daemon: it answers a request, takes a notification, or sends one or ends
SendsFrame(message) ==
    /\ DOMAIN Stream' = 1..Len(Stream) + Parts
    /\ \A i \in DOMAIN Stream : Stream'[i] = Stream[i]
    /\ \A p \in 1..Parts : Stream'[Len(Stream) + p] = [message |-> message, part |-> p]
TakesFrameOf(message) ==
    /\ DOMAIN toDaemon' = 1..Len(toDaemon) - Parts
    /\ \A i \in DOMAIN toDaemon' : i + Parts \in DOMAIN toDaemon /\ toDaemon'[i] = toDaemon[i + Parts]
    /\ \A p \in 1..Parts : p \in DOMAIN toDaemon /\ toDaemon[p] = [message |-> message, part |-> p]
Serves ==
    \E id \in Ids :
        /\ TakesFrameOf(Call(id))
        /\ answered' = answered \cup {id}
        /\ \E message \in Messages :
               message.type = "response" /\ message.id = id /\ SendsFrame(message)
ServesOneway ==
    \E message \in Requests :
        message.type # "call" /\ TakesFrameOf(message) /\ answered' = answered /\ Stream' = Stream
SendsOrEnds ==
    /\ toDaemon' = toDaemon /\ answered' = answered
    /\ Stream' = Stream \/ \E message \in Messages : message.type = "note" /\ SendsFrame(message)

LEMMA DaemonKind ==
    ASSUME Types, Daemon
    PROVE  Untouched /\ slot' = slot /\ reader' = reader /\ (Serves \/ ServesOneway \/ SendsOrEnds)
<1> USE DEF io, daemon, receiving, told
<1>1. TypeOK
  BY DEF Types
<1>2. Untouched /\ slot' = slot /\ reader' = reader /\ recv' = recv
  <2>1. CASE Serve \/ ServeOneway \/ Notify
    BY <2>1 DEF Serve, ServeOneway, Notify, Untouched
  <2>2. CASE PeerCloses
    BY <2>2 DEF PeerCloses, Untouched
  <2> QED
    BY <2>1, <2>2 DEF Daemon
<1>3. ASSUME TakesFrame
      PROVE  /\ toDaemon[1].message \in Requests /\ TakesFrameOf(toDaemon[1].message)
             /\ toDaemon[1].message.type = "call" =>
                    toDaemon[1].message.id \in Ids /\ toDaemon[1].message = Call(toDaemon[1].message.id)
  <2>1. /\ toDaemon \in Seq(PartsOf(Requests)) /\ Whole(toDaemon) /\ Len(toDaemon) >= Parts
        /\ toDaemon' = AfterFrame(toDaemon)
    BY <1>3 DEF Types, TakesFrame, Whole
  <2>2. toDaemon[1].message \in Requests
    BY <2>1, FirstRequest DEF PartsOf
  <2>3. TakesFrameOf(toDaemon[1].message)
    BY <2>1, AfterFrameType, WholeFrame DEF TakesFrameOf
  <2>4. toDaemon[1].message.type = "call" =>
            toDaemon[1].message.id \in Ids /\ toDaemon[1].message = Call(toDaemon[1].message.id)
    BY <2>2 DEF Requests, Call
  <2> QED
    BY <2>2, <2>3, <2>4
<1>4. CASE Serve
  <2> DEFINE id == toDaemon[1].message.id
  <2>1. id \in Ids /\ TakesFrameOf(Call(id)) /\ answered' = answered \cup {id}
    BY <1>3, <1>4 DEF Serve
  <2>2. \E as \in {"result", "error", "malformed"} : fromDaemon' = fromDaemon \o FrameOf(Response(id, as))
    BY <1>4 DEF Serve
  <2>3. \A as \in {"result", "error", "malformed"} :
            Response(id, as) \in Messages /\ Response(id, as).type = "response" /\ Response(id, as).id = id
    BY <1>1, <2>1, SentType DEF Response, Messages
  <2>4. PICK message \in Messages :
            message.type = "response" /\ message.id = id /\ fromDaemon' = fromDaemon \o FrameOf(message)
    BY <2>2, <2>3
  <2>5. SendsFrame(message)
    BY <1>2, <2>4, SendStream DEF SendsFrame
  <2> QED
    BY <1>2, <2>1, <2>4, <2>5 DEF Serves
<1>5. CASE ServeOneway
  <2>1. /\ TakesFrame /\ answered' = answered /\ fromDaemon' = fromDaemon
        /\ toDaemon[1].message.type # "call"
    BY <1>5 DEF ServeOneway
  <2>2. Stream' = Stream
    BY <1>2, <2>1 DEF Stream
  <2> QED
    BY <1>2, <1>3, <2>1, <2>2 DEF ServesOneway
<1>6. CASE Notify
  <2>1. Note \in Messages /\ Note.type = "note"
    BY <1>1, SentType DEF Note, Messages
  <2>2. fromDaemon' = fromDaemon \o FrameOf(Note) /\ toDaemon' = toDaemon /\ answered' = answered
    BY <1>6 DEF Notify
  <2>3. SendsFrame(Note)
    BY <1>2, <2>1, <2>2, SendStream DEF SendsFrame
  <2> QED
    BY <1>2, <2>1, <2>2, <2>3 DEF SendsOrEnds
<1>7. CASE PeerCloses
  <2>1. fromDaemon' = fromDaemon /\ toDaemon' = toDaemon /\ answered' = answered
    BY <1>7 DEF PeerCloses
  <2>2. Stream' = Stream
    BY <1>2, <2>1 DEF Stream
  <2> QED
    BY <1>2, <2>1, <2>2 DEF SendsOrEnds
<1> QED
  BY <1>4, <1>5, <1>6, <1>7 DEF Daemon

\* The stream of requests, typed.
LEMMA RequestParts ==
    ASSUME Types, NEW i \in DOMAIN toDaemon
    PROVE  /\ toDaemon[i].message \in Requests /\ toDaemon[i].part \in 1..Parts
           /\ toDaemon[i] = [message |-> toDaemon[i].message, part |-> toDaemon[i].part]
           /\ toDaemon[i].message.type = "call" =>
                  /\ toDaemon[i].message.id \in Ids
                  /\ toDaemon[i].message = Call(toDaemon[i].message.id)
<1>1. toDaemon[i] \in PartsOf(Requests)
  BY DEF Types
<1>2. toDaemon[i].message \in Requests /\ toDaemon[i].part \in 1..Parts
      /\ toDaemon[i] = [message |-> toDaemon[i].message, part |-> toDaemon[i].part]
  BY <1>1 DEF PartsOf
<1>3. toDaemon[i].message.type = "call" =>
          toDaemon[i].message.id \in Ids /\ toDaemon[i].message = Call(toDaemon[i].message.id)
  BY <1>2 DEF Requests, Call
<1> QED
  BY <1>2, <1>3

Unanswered(t) == th[t].pc \in {"encoded", "claimed", "writing"}
WillBePending(id) == \E t \in All : th'[t].pc \in Holding /\ th'[t].id = id

LEMMA RequestNext ==
    ASSUME \A id \in answered' : id < nextId',
           \A i \in DOMAIN toDaemon' : toDaemon'[i].message.type = "call" =>
               /\ toDaemon'[i].message.id \notin answered'
               /\ toDaemon'[i].message.id < nextId'
               /\ verdict'[toDaemon'[i].message.id] # "none" \/ WillBePending(toDaemon'[i].message.id),
           \A i, j \in DOMAIN toDaemon' :
               toDaemon'[i] = toDaemon'[j] /\ toDaemon'[i].message.type = "call" => i = j,
           \A t \in All : th'[t].pc \in {"encoded", "claimed", "writing"} =>
               /\ th'[t].id \notin answered'
               /\ \A i \in DOMAIN toDaemon' : toDaemon'[i].message = Call(th'[t].id) =>
                      th'[t].pc = "writing" /\ toDaemon'[i].part <= th'[t].sent
    PROVE  RequestInv'
<1>1. \A id : WillBePending(id) =>
          \E t \in All : th'[t].id = id /\ th'[t].pc \in
              {"claimed", "writing", "unsent", "written", "rpc", "recv"}
  BY DEF WillBePending, Holding, InCall
<1> HIDE DEF WillBePending
<1> QED
  BY <1>1 DEF RequestInv, Pending, Call

\* A slot is done with an answer, or because the reader has ended.
LEMMA DoneStep ==
    ASSUME CallsHaveSlots, DoneInv, [Next]_vars
    PROVE  DoneInv'
<1> USE DEF Numbers
<1>1. Types
  BY DEF CallsHaveSlots
<1>2. ASSUME \A i \in Numbers : SameAnswer(i), ReaderGoesOn
      PROVE  DoneInv'
  BY <1>2 DEF DoneInv, SameAnswer, ReaderGoesOn
<1>3. CASE UNCHANGED vars \/ SetCallback
  BY <1>2, <1>3 DEF vars, SetCallback, receiving, SameAnswer, ReaderGoesOn
<1>4. ASSUME NEW t \in All, Caller(t) \/ Encode(t) \/ EncodeOneway(t) \/ Close(t)
      PROVE  DoneInv'
  <2>1. CASE Passes(t)
    BY <1>2, <2>1 DEF Passes, ReaderAsBefore, SameAnswer, ReaderGoesOn
  <2>2. CASE Starts(t)
    BY <1>2, <2>2 DEF Starts, ReaderAsBefore, SameAnswer, ReaderGoesOn
  <2>3. CASE Takes(t)
    BY <2>3 DEF Takes, Claims, OtherSlots, DoneInv
  <2>4. CASE Writes(t)
    BY <1>2, <2>4 DEF Writes, SameAnswer, ReaderGoesOn
  <2>5. CASE TakesError(t)
    BY <1>2, <2>5 DEF TakesError, SameAnswer, ReaderGoesOn
  <2>6. CASE Ends(t)
    BY <1>2, <2>6 DEF Ends, ReaderGoesOn
  <2> QED
    BY <1>4, <2>1, <2>2, <2>3, <2>4, <2>5, <2>6, CallerKind
<1>5. CASE ReaderThread \/ Misread
  <2>1. ReaderGoesOn /\ (Rests \/ Skips \/ Delivers \/ Loses)
    BY <1>1, <1>5, ReaderKind
  <2>2. CASE Rests
    BY <2>1, <2>2 DEF Rests, ReaderGoesOn, DoneInv
  <2>3. CASE Skips \/ Loses
    BY <1>2, <2>1, <2>3 DEF Skips, Loses, SameAnswer
  <2>4. CASE Delivers
    <3>1. PICK id \in Ids :
              LET i == SlotOf(id) IN
              /\ i \in Numbers /\ OtherSlots(i)
              /\ ~slot[i].active => slot'[i] = slot[i]
              /\ slot[i].active => slot'[i].from = id
      BY <2>4 DEF Delivers
    <3>2. id # NoCall
      BY IdsAreNats
    <3> QED
      BY <2>1, <3>1, <3>2 DEF OtherSlots, ReaderGoesOn, DoneInv
  <2> QED
    BY <2>1, <2>2, <2>3, <2>4
<1>6. CASE Daemon
  BY <1>1, <1>2, <1>6, DaemonKind DEF SameAnswer, ReaderGoesOn
<1> QED
  BY <1>3, <1>4, <1>5, <1>6 DEF Next

\* A step that moves no part of a request.
LEMMA RequestsKept ==
    ASSUME Types, RequestInv, toDaemon' = toDaemon, answered' = answered,
           \A id \in Ids : id < nextId => id < nextId',
           \A id \in Ids : verdict[id] # "none" \/ Pending(id) => verdict'[id] # "none" \/ WillBePending(id),
           \A t \in All : th'[t].pc \in {"encoded", "claimed", "writing"} =>
               /\ th'[t].id \notin answered
               /\ \A i \in DOMAIN toDaemon : toDaemon[i].message = Call(th'[t].id) =>
                      th'[t].pc = "writing" /\ toDaemon[i].part <= th'[t].sent
    PROVE  RequestInv'
<1>1. answered \subseteq Ids
  BY TypeParts DEF Types, OtherTypes
<1>2. \A id \in answered' : id < nextId'
  BY <1>1 DEF RequestInv
<1>3. ASSUME NEW i \in DOMAIN toDaemon, toDaemon[i].message.type = "call"
      PROVE  /\ toDaemon[i].message.id \notin answered
             /\ toDaemon[i].message.id < nextId'
             /\ verdict'[toDaemon[i].message.id] # "none" \/ WillBePending(toDaemon[i].message.id)
  BY <1>3, RequestParts DEF RequestInv
<1>4. \A i, j \in DOMAIN toDaemon :
          toDaemon[i] = toDaemon[j] /\ toDaemon[i].message.type = "call" => i = j
  BY DEF RequestInv
<1> QED
  BY <1>2, <1>3, <1>4, RequestNext

\* A request is pending while a thread has its slot.
LEMMA PendingHolds ==
    ASSUME NEW id
    PROVE  Pending(id) <=> \E t \in All : Holds(t) /\ th[t].id = id
BY DEF Pending, Holds, Holding, InCall

\* The other threads' requests are where they were.
LEMMA OthersPending ==
    ASSUME NEW t \in All, Others(t), th'[t].pc \in Holding \/ ~Holds(t), Holds(t) => th'[t].id = th[t].id
    PROVE  \A id : Pending(id) => WillBePending(id)
<1> SUFFICES ASSUME NEW id, Pending(id)
             PROVE  WillBePending(id)
  OBVIOUS
<1>1. PICK u \in All : Holds(u) /\ th[u].id = id
  BY PendingHolds
<1>2. th'[u].pc \in Holding /\ th'[u].id = id
  BY <1>1 DEF Others, Holds
<1> QED
  BY <1>2 DEF WillBePending

LEMMA WriteRequests ==
    ASSUME CallsHaveSlots, RequestInv, NEW t \in All, Writes(t)
    PROVE  RequestInv'
<1> DEFINE n == Len(toDaemon)
           new == [message |-> Message(t), part |-> th[t].sent + 1]
<1>1. /\ toDaemon \in Seq(PartsOf(Requests)) /\ n \in Nat /\ DOMAIN toDaemon = 1..n /\ Types /\ CallInv
      /\ answered \subseteq Ids /\ th[t].sent \in Nat /\ nextId \in Nat
  <2>1. Types /\ CallInv
    BY DEF CallsHaveSlots
  <2>2. th[t] \in Thread /\ answered \subseteq Ids /\ nextId \in 0..MaxCalls
    BY <2>1, TypeParts DEF Types, OtherTypes
  <2>3. th[t].sent \in Nat /\ nextId \in Nat
    BY <2>2, Constants DEF Thread
  <2>4. toDaemon \in Seq(PartsOf(Requests))
    BY <2>1 DEF Types
  <2> QED
    BY <2>1, <2>2, <2>3, <2>4
<1>2. /\ DOMAIN toDaemon' = 1..n + 1 /\ toDaemon'[n + 1] = new
      /\ \A i \in 1..n : toDaemon'[i] = toDaemon[i]
  <2>1. new \in PartsOf(Requests) /\ toDaemon' = Append(toDaemon, new)
    BY <1>1, MessageType DEF Writes
  <2> QED
    BY <1>1, <2>1
<1>3. \A i \in 1..n + 1 : i = n + 1 \/ i \in 1..n
  BY <1>1
<1>4. answered' = answered /\ verdict' = verdict /\ nextId' = nextId
  BY DEF Writes, Aside
<1>5. \A id : Pending(id) => WillBePending(id)
  <2>1. th'[t].pc \in Holding \/ ~Holds(t)
    BY DEF Writes, Writing, Holds, Holding, InCall
  <2>2. Holds(t) => th'[t].id = th[t].id
    BY DEF Writes, Writing, Holds, Holding, InCall
  <2> QED
    BY <2>1, <2>2, OthersPending DEF Writes
<1>6. ASSUME new.message.type = "call"
      PROVE  /\ th[t].pc = "writing" /\ new.message = Call(th[t].id) /\ new.message.id = th[t].id
             /\ th[t].id \in Ids /\ th[t].id < nextId /\ th[t].id \notin answered
             /\ WillBePending(th[t].id)
             /\ \A i \in 1..n : toDaemon[i].message = Call(th[t].id) => toDaemon[i].part <= th[t].sent
  <2>1. th[t].pc = "writing" /\ new.message = Call(th[t].id) /\ new.message.id = th[t].id
    BY <1>6 DEF Message, Call, Oneway
  <2>2. th[t].id \in Ids /\ th[t].id < nextId
    BY <1>1, <2>1 DEF CallInv, Calling, InCall
  <2>3. th[t].id \notin answered
        /\ \A i \in 1..n : toDaemon[i].message = Call(th[t].id) => toDaemon[i].part <= th[t].sent
    BY <1>1, <2>1 DEF RequestInv
  <2>4. WillBePending(th[t].id)
    <3>1. Pending(th[t].id)
      BY <2>1 DEF Pending
    <3> QED
      BY <1>5, <3>1
  <2> QED
    BY <2>1, <2>2, <2>3, <2>4
<1> HIDE DEF new, n
<1>7. \A id \in answered' : id < nextId'
  BY <1>4 DEF RequestInv
<1>8. ASSUME NEW i \in DOMAIN toDaemon', toDaemon'[i].message.type = "call"
      PROVE  /\ toDaemon'[i].message.id \notin answered'
             /\ toDaemon'[i].message.id < nextId'
             /\ verdict'[toDaemon'[i].message.id] # "none" \/ WillBePending(toDaemon'[i].message.id)
  <2>1. CASE i = n + 1
    BY <1>2, <1>4, <1>6, <1>8, <2>1
  <2>2. CASE i \in 1..n
    BY <1>1, <1>2, <1>4, <1>5, <1>8, <2>2 DEF RequestInv
  <2> QED
    BY <1>2, <1>3, <2>1, <2>2
<1>9. ASSUME NEW i \in 1..n, toDaemon[i] = new, new.message.type = "call"
      PROVE  FALSE
  <2>1. toDaemon[i].part <= th[t].sent /\ toDaemon[i].part = th[t].sent + 1
    BY <1>6, <1>9 DEF new
  <2> QED
    BY <1>1, <2>1
<1>10. \A i, j \in DOMAIN toDaemon' :
           toDaemon'[i] = toDaemon'[j] /\ toDaemon'[i].message.type = "call" => i = j
  <2>1. \A i, j \in 1..n : toDaemon[i] = toDaemon[j] /\ toDaemon[i].message.type = "call" => i = j
    BY <1>1 DEF RequestInv
  <2> QED
    BY <1>2, <1>3, <1>9, <2>1
<1>11. ASSUME NEW u \in All, th'[u].pc \in {"encoded", "claimed", "writing"}
       PROVE  /\ th'[u].id \notin answered'
              /\ \A i \in DOMAIN toDaemon' : toDaemon'[i].message = Call(th'[u].id) =>
                     th'[u].pc = "writing" /\ toDaemon'[i].part <= th'[u].sent
  <2>1. CASE u = t
    <3>1. th[t].pc = "writing" /\ th'[t].pc = "writing" /\ th'[t].id = th[t].id /\ th'[t].sent = th[t].sent + 1
      BY <1>11, <2>1 DEF Writes, Writing
    <3>2. /\ th[t].id \notin answered
          /\ \A i \in 1..n : toDaemon[i].message = Call(th[t].id) => toDaemon[i].part <= th[t].sent
      BY <1>1, <3>1 DEF RequestInv
    <3>3. ASSUME NEW i \in 1..n, toDaemon[i].message = Call(th[t].id)
          PROVE  toDaemon[i].part <= th[t].sent + 1
      <4>1. toDaemon[i].part \in 1..Parts
        BY <1>1, RequestParts
      <4>2. toDaemon[i].part <= th[t].sent
        BY <3>2, <3>3
      <4> QED
        BY <1>1, <4>1, <4>2, Constants
    <3>4. new.part <= th[t].sent + 1
      BY <1>1 DEF new
    <3> QED
      BY <1>2, <1>3, <1>4, <2>1, <3>1, <3>2, <3>3, <3>4
  <2>2. CASE u # t
    <3>1. th'[u] = th[u]
      BY <2>2 DEF Writes, Others
    <3>2. new.message # Call(th[u].id)
      <4> SUFFICES ASSUME new.message = Call(th[u].id)
                   PROVE  FALSE
        OBVIOUS
      <4>1. new.message.type = "call" /\ new.message.id = th[u].id
        BY DEF Call
      <4>2. th[u].id = th[t].id /\ Calling(t) /\ Calling(u)
        BY <1>6, <1>11, <3>1, <4>1 DEF Calling, InCall
      <4> QED
        BY <1>1, <2>2, <4>2 DEF CallInv
    <3>3. /\ th[u].id \notin answered
          /\ \A i \in 1..n : toDaemon[i].message = Call(th[u].id) =>
                 th[u].pc = "writing" /\ toDaemon[i].part <= th[u].sent
      BY <1>1, <1>11, <3>1 DEF RequestInv
    <3> QED
      BY <1>2, <1>3, <1>4, <3>1, <3>2, <3>3
  <2> QED
    BY <2>1, <2>2
<1> QED
  BY <1>7, <1>8, <1>10, <1>11, RequestNext

LEMMA TakeRequests ==
    ASSUME CallsHaveSlots, RequestInv, Untouched, NEW message, TakesFrameOf(message),
           \/ message.type # "call" /\ answered' = answered
           \/ \E id \in Ids : message = Call(id) /\ answered' = answered \cup {id}
    PROVE  RequestInv'
<1>1. Types /\ Parts \in Nat \ {0}
  BY Constants DEF CallsHaveSlots
<1>2. /\ toDaemon \in Seq(PartsOf(Requests)) /\ DOMAIN toDaemon = 1..Len(toDaemon) /\ Len(toDaemon) \in Nat
  BY <1>1 DEF Types
<1>3. ASSUME NEW i \in DOMAIN toDaemon'
      PROVE  i + Parts \in DOMAIN toDaemon /\ toDaemon'[i] = toDaemon[i + Parts] /\ i \in Nat \ {0}
  BY <1>1, <1>2 DEF TakesFrameOf
<1>4. \A id : Pending(id) => WillBePending(id)
  BY PendingHolds DEF Untouched, WillBePending, Holds
<1>5. ASSUME NEW id \in Ids, message = Call(id)
      PROVE  /\ id \notin answered /\ id < nextId
             /\ \A i \in DOMAIN toDaemon' :
                    toDaemon'[i].message.type = "call" => toDaemon'[i].message.id # id
             /\ \A t \in All : Unanswered(t) => th[t].id # id
  <2>1. /\ Call(id).type = "call" /\ Call(id).id = id
        /\ \A p \in 1..Parts : p \in DOMAIN toDaemon /\ toDaemon[p] = [message |-> Call(id), part |-> p]
    BY <1>5 DEF Call, TakesFrameOf
  <2>2. 1 \in 1..Parts /\ Parts \in 1..Parts
    BY <1>1
  <2>3. id \notin answered /\ id < nextId
    <3>1. 1 \in DOMAIN toDaemon /\ toDaemon[1] = [message |-> Call(id), part |-> 1]
      BY <2>1, <2>2
    <3>2. toDaemon[1].message = Call(id)
      BY <3>1
    <3> QED
      BY <2>1, <3>1, <3>2 DEF RequestInv
  <2>4. ASSUME NEW i \in DOMAIN toDaemon', toDaemon'[i].message.type = "call", toDaemon'[i].message.id = id
        PROVE  FALSE
    <3> DEFINE k == i + Parts
               p == toDaemon[k].part
    <3>1. k \in DOMAIN toDaemon /\ toDaemon'[i] = toDaemon[k] /\ i \in Nat \ {0}
      BY <1>3
    <3>2. p \in 1..Parts /\ toDaemon[k] = [message |-> Call(id), part |-> p]
      BY <1>1, <2>4, <3>1, RequestParts
    <3>3. toDaemon[p] = toDaemon[k] /\ p \in DOMAIN toDaemon
      BY <2>1, <3>2
    <3>4. p = k
      BY <2>1, <3>1, <3>2, <3>3 DEF RequestInv
    <3> HIDE DEF p
    <3> QED
      BY <1>1, <3>1, <3>2, <3>4
  <2>5. ASSUME NEW t \in All, Unanswered(t), th[t].id = id
        PROVE  FALSE
    <3>1. Parts \in DOMAIN toDaemon /\ toDaemon[Parts] = [message |-> Call(id), part |-> Parts]
      BY <2>1, <2>2
    <3>2. toDaemon[Parts].message = Call(th[t].id) /\ toDaemon[Parts].part = Parts
      BY <2>5, <3>1
    <3>3. Parts <= th[t].sent
      BY <2>5, <3>1, <3>2 DEF Unanswered, RequestInv
    <3>4. th[t].sent \in 0..Parts - 1
      BY <1>1, TypeParts DEF Types, Thread
    <3> QED
      BY <1>1, <3>3, <3>4
  <2> QED
    BY <2>3, <2>4, <2>5
<1>6. th' = th /\ verdict' = verdict /\ nextId' = nextId
  BY DEF Untouched
<1>7. \A id \in answered' : id < nextId'
  BY <1>5, <1>6 DEF RequestInv
<1>8. ASSUME NEW i \in DOMAIN toDaemon', toDaemon'[i].message.type = "call"
      PROVE  /\ toDaemon'[i].message.id \notin answered'
             /\ toDaemon'[i].message.id < nextId'
             /\ verdict'[toDaemon'[i].message.id] # "none" \/ WillBePending(toDaemon'[i].message.id)
  <2>1. /\ toDaemon'[i].message.id \notin answered
        /\ toDaemon'[i].message.id < nextId
        /\ verdict[toDaemon'[i].message.id] # "none" \/ Pending(toDaemon'[i].message.id)
    BY <1>3, <1>8 DEF RequestInv
  <2> QED
    BY <1>4, <1>5, <1>6, <1>8, <2>1
<1>9. ASSUME NEW i \in DOMAIN toDaemon', NEW j \in DOMAIN toDaemon',
             toDaemon'[i] = toDaemon'[j], toDaemon'[i].message.type = "call"
      PROVE  i = j
  <2>1. i + Parts = j + Parts
    BY <1>3, <1>9 DEF RequestInv
  <2> QED
    BY <1>1, <1>3, <2>1
<1>10. ASSUME NEW t \in All, th[t].pc \in {"encoded", "claimed", "writing"}
       PROVE  /\ th[t].id \notin answered'
              /\ \A i \in DOMAIN toDaemon' : toDaemon'[i].message = Call(th[t].id) =>
                     th[t].pc = "writing" /\ toDaemon'[i].part <= th[t].sent
  <2>1. th[t].id \notin answered
    BY <1>10 DEF RequestInv
  <2>2. th[t].id \notin answered'
    BY <1>5, <1>10, <2>1 DEF Unanswered
  <2> QED
    BY <1>3, <1>10, <2>2 DEF RequestInv
<1> QED
  BY <1>6, <1>7, <1>8, <1>9, <1>10, RequestNext

LEMMA RequestStep ==
    ASSUME CallsHaveSlots, RequestInv, [Next]_vars
    PROVE  RequestInv'
<1>1. Types /\ CallInv /\ nextId \in Nat /\ Ids \subseteq Nat /\ verdict \in [Ids -> Verdicts]
      /\ answered \subseteq Ids
  <2>1. Types /\ CallInv
    BY DEF CallsHaveSlots
  <2>2. nextId \in 0..MaxCalls /\ verdict \in [Ids -> Verdicts] /\ answered \subseteq Ids
    BY <2>1, TypeParts DEF Types, OtherTypes
  <2> QED
    BY <2>1, <2>2, Constants, IdsAreNats
<1>2. ASSUME Untouched, toDaemon' = toDaemon, answered' = answered
      PROVE  RequestInv'
  <2>1. \A id : Pending(id) => WillBePending(id)
    BY <1>2, PendingHolds DEF Untouched, WillBePending, Holds
  <2> QED
    BY <1>1, <1>2, <2>1, RequestsKept DEF Untouched, RequestInv
<1>3. CASE UNCHANGED vars \/ SetCallback
  BY <1>2, <1>3 DEF vars, SetCallback, io, daemon, told, Untouched
<1>4. ASSUME NEW t \in All, Others(t), toDaemon' = toDaemon, answered' = answered,
             verdict' = verdict, nextId' = nextId,
             th'[t].pc \in Holding \/ ~Holds(t), Holds(t) => th'[t].id = th[t].id,
             th'[t].pc \in {"encoded", "claimed", "writing"} =>
                 th[t].pc \in {"encoded", "claimed"} /\ th'[t].id = th[t].id
      PROVE  RequestInv'
  <2>1. \A id : Pending(id) => WillBePending(id)
    BY <1>4, OthersPending
  <2>2. ASSUME NEW u \in All, th'[u].pc \in {"encoded", "claimed", "writing"}
        PROVE  /\ th'[u].id \notin answered
               /\ \A i \in DOMAIN toDaemon : toDaemon[i].message = Call(th'[u].id) =>
                      th'[u].pc = "writing" /\ toDaemon[i].part <= th'[u].sent
    <3>1. CASE u = t
      BY <1>4, <2>2, <3>1 DEF RequestInv
    <3>2. CASE u # t
      BY <1>4, <2>2, <3>2 DEF Others, RequestInv
    <3> QED
      BY <3>1, <3>2
  <2> QED
    BY <1>1, <1>4, <2>1, <2>2, RequestsKept
<1>5. ASSUME NEW t \in All, Caller(t) \/ Encode(t) \/ EncodeOneway(t) \/ Close(t)
      PROVE  RequestInv'
  <2>1. CASE Passes(t)
    BY <1>4, <2>1 DEF Passes, Aside, Holds, Holding, InCall
  <2>2. CASE Starts(t)
    <3>1. /\ Others(t) /\ ~Holds(t) /\ th'[t].pc = "encoded" /\ th'[t].id = nextId /\ nextId' = nextId + 1
          /\ verdict' = verdict /\ toDaemon' = toDaemon /\ answered' = answered
      BY <2>2 DEF Starts, Begins, Aside, Calling, Holds, Holding
    <3>2. \A id : Pending(id) => WillBePending(id)
      BY <3>1, OthersPending
    <3>3. ~(nextId < nextId)
      BY <1>1
    <3>4. nextId \notin answered /\ \A i \in DOMAIN toDaemon : toDaemon[i].message # Call(nextId)
      BY <3>3 DEF RequestInv, Call
    <3>5. \A id \in Ids : id < nextId => id < nextId'
      BY <1>1, <3>1
    <3>6. \A u \in All : th'[u].pc \in {"encoded", "claimed", "writing"} =>
              /\ th'[u].id \notin answered
              /\ \A i \in DOMAIN toDaemon : toDaemon[i].message = Call(th'[u].id) =>
                     th'[u].pc = "writing" /\ toDaemon[i].part <= th'[u].sent
      BY <3>1, <3>4 DEF Others, RequestInv
    <3> QED
      BY <1>1, <3>1, <3>2, <3>5, <3>6, RequestsKept
  <2>3. CASE Takes(t)
    BY <1>4, <2>3 DEF Takes, Claims, Moves, Aside, Holds, Holding, InCall
  <2>4. CASE Writes(t)
    BY <2>4, WriteRequests
  <2>5. CASE TakesError(t)
    BY <1>4, <2>5 DEF TakesError, Moves, Aside, Holds, Holding, InCall
  <2>6. CASE Ends(t)
    <3>1. /\ Others(t) /\ th'[t].pc \in {"idle", "close"} /\ th[t].id \in Ids
          /\ toDaemon' = toDaemon /\ answered' = answered /\ nextId' = nextId
      BY <1>1, <2>6 DEF Ends, Moves, Aside, CallInv
    <3>2. verdict'[th[t].id] # "none" /\ \A id \in Ids : id # th[t].id => verdict'[id] = verdict[id]
      BY <1>1, <2>6, <3>1 DEF Ends, EndsAs
    <3>3. \A id \in Ids : Pending(id) /\ id # th[t].id => WillBePending(id)
      BY <3>1, PendingHolds DEF Others, WillBePending, Holds
    <3>4. \A u \in All : th'[u].pc \in {"encoded", "claimed", "writing"} => th'[u] = th[u]
      BY <3>1 DEF Others
    <3> QED
      BY <1>1, <3>1, <3>2, <3>3, <3>4, RequestsKept DEF RequestInv
  <2> QED
    BY <1>5, <2>1, <2>2, <2>3, <2>4, <2>5, <2>6, CallerKind
<1>6. CASE ReaderThread \/ Misread
  BY <1>1, <1>2, <1>6, ReaderKind
<1>7. CASE Daemon
  <2>1. Untouched /\ (Serves \/ ServesOneway \/ SendsOrEnds)
    BY <1>1, <1>7, DaemonKind
  <2>2. CASE SendsOrEnds
    BY <1>2, <2>1, <2>2 DEF SendsOrEnds
  <2>3. CASE Serves
    BY <2>1, <2>3, TakeRequests DEF Serves
  <2>4. CASE ServesOneway
    BY <2>1, <2>4, TakeRequests DEF ServesOneway
  <2> QED
    BY <2>1, <2>2, <2>3, <2>4
<1> QED
  BY <1>3, <1>5, <1>6, <1>7 DEF Next

\* The answers on their way, typed.
LEMMA StreamParts ==
    ASSUME Types, NEW i \in DOMAIN Stream
    PROVE  /\ Stream[i].part \in 1..Parts /\ i \in 1..Len(Stream)
           /\ IsAnswer(Stream[i]) => Stream[i].message.id \in Ids /\ Stream[i].message.id # NoCall
<1>1. Stream \in Seq(PartsOf(Messages)) /\ i \in 1..Len(Stream)
  BY StreamType
<1>2. Stream[i] \in PartsOf(Messages)
  BY <1>1
<1>3. Stream[i].part \in 1..Parts /\ Stream[i].message \in Messages
  BY <1>2 DEF PartsOf
<1>4. IsAnswer(Stream[i]) => Stream[i].message.id \in Ids
  BY <1>3 DEF IsAnswer, Messages
<1> QED
  BY <1>1, <1>3, <1>4, IdsAreNats

\* Nobody has been given the answer of call s
NotGiven(s) == \A id \in Ids : source'[id] # s
LEMMA AnswerNext ==
    ASSUME \A i \in DOMAIN Stream' : IsAnswer(Stream'[i]) =>
               /\ Stream'[i].message.id \in answered'
               /\ NotGiven(Stream'[i].message.id)
               /\ \A t \in All : th'[t].pc \in Waiting =>
                      slot'[SlotOf(th'[t].id)].from # Stream'[i].message.id,
           \A i, j \in DOMAIN Stream' :
               IsAnswer(Stream'[i]) /\ IsAnswer(Stream'[j]) /\ Stream'[i].part = Stream'[j].part
                   /\ Stream'[i].message.id = Stream'[j].message.id => i = j,
           \A t \in All :
               th'[t].pc \in Waiting /\ slot'[SlotOf(th'[t].id)].from # NoCall =>
                   /\ slot'[SlotOf(th'[t].id)].from \in answered'
                   /\ SlotOf(slot'[SlotOf(th'[t].id)].from) = SlotOf(th'[t].id)
                   /\ NotGiven(slot'[SlotOf(th'[t].id)].from)
    PROVE  AnswerInv'
BY DEF AnswerInv, IsAnswer, Waits, NotGiven, SlotOf

\* A step that moves no answer.
LEMMA AnswersKept ==
    ASSUME Types, AnswerInv, Stream' = Stream, answered' = answered, source' = source,
           \A t \in All : th'[t].pc \in Waiting =>
               \/ slot'[SlotOf(th'[t].id)].from = NoCall
               \/ /\ Waits(t) /\ th'[t].id = th[t].id
                  /\ slot'[SlotOf(th[t].id)].from = slot[SlotOf(th[t].id)].from
    PROVE  AnswerInv'
<1>1. \A i \in DOMAIN Stream : IsAnswer(Stream[i]) =>
          /\ Stream[i].message.id \in answered
          /\ NotGiven(Stream[i].message.id)
          /\ \A t \in All : th'[t].pc \in Waiting =>
                 slot'[SlotOf(th'[t].id)].from # Stream[i].message.id
  BY StreamParts DEF AnswerInv, NotGiven
<1>2. \A i, j \in DOMAIN Stream :
          IsAnswer(Stream[i]) /\ IsAnswer(Stream[j]) /\ Stream[i].part = Stream[j].part
              /\ Stream[i].message.id = Stream[j].message.id => i = j
  BY DEF AnswerInv
<1>3. \A t \in All :
          th'[t].pc \in Waiting /\ slot'[SlotOf(th'[t].id)].from # NoCall =>
              /\ slot'[SlotOf(th'[t].id)].from \in answered
              /\ SlotOf(slot'[SlotOf(th'[t].id)].from) = SlotOf(th'[t].id)
              /\ NotGiven(slot'[SlotOf(th'[t].id)].from)
  BY DEF AnswerInv, NotGiven
<1> HIDE DEF NotGiven, IsAnswer, Stream
<1> QED
  BY <1>1, <1>2, <1>3, AnswerNext

\* A call takes the answer in its slot.
LEMMA SourceTaken ==
    ASSUME CallsHaveSlots, AnswerInv, Stream' = Stream, answered' = answered,
           NEW t \in All, th[t].pc = "written", Sourced(t), Others(t), th'[t].pc \notin Waiting,
           \A i \in Numbers : slot'[i].from = slot[i].from
    PROVE  AnswerInv'
<1> DEFINE s == Mine(t).from
<1>1. /\ Types /\ CallInv /\ SlotInv /\ source \in [Ids -> Ids \cup {NoCall}] /\ th[t].id \in Ids
      /\ \A u \in All : Waits(u) => SlotOf(th[u].id) \in Numbers
  <2>1. Types /\ CallInv /\ SlotInv
    BY DEF CallsHaveSlots
  <2>2. source \in [Ids -> Ids \cup {NoCall}]
    BY <2>1, TypeParts DEF Types, OtherTypes
  <2>3. \A u \in All : Calling(u) => SlotOf(th[u].id) \in Numbers /\ th[u].id \in Ids
    BY <2>1, CallSlot DEF Types
  <2> QED
    BY <2>1, <2>2, <2>3 DEF Calling, InCall, Waits, Waiting
<1>2. source' = [source EXCEPT ![th[t].id] = s]
  BY DEF Sourced
<1>3. \A x : x # s /\ (\A id \in Ids : source[id] # x) => NotGiven(x)
  BY <1>1, <1>2 DEF NotGiven
<1>4. \A u \in All : th'[u].pc \in Waiting => u # t /\ Waits(u) /\ th'[u] = th[u] /\ SlotOf(th[u].id) \in Numbers
  BY <1>1 DEF Others, Waits
<1>5. Waits(t) /\ Holds(t)
  BY DEF Waits, Waiting, Holds, Holding, InCall
<1>6. \A i \in DOMAIN Stream : IsAnswer(Stream[i]) => Stream[i].message.id # s
  BY <1>5 DEF AnswerInv, Mine
<1>7. ASSUME NEW u \in All, u # t, Waits(u), slot[SlotOf(th[u].id)].from # NoCall
      PROVE  slot[SlotOf(th[u].id)].from # s
  <2> SUFFICES ASSUME slot[SlotOf(th[u].id)].from = s
               PROVE  FALSE
    OBVIOUS
  <2>1. SlotOf(s) = SlotOf(th[t].id) /\ SlotOf(s) = SlotOf(th[u].id)
    BY <1>5, <1>7 DEF AnswerInv, Mine
  <2>2. Holds(u)
    BY <1>7 DEF Waits, Waiting, Holds, Holding, InCall
  <2> QED
    BY <1>1, <1>5, <1>7, <2>1, <2>2 DEF SlotInv
<1> HIDE DEF s, NotGiven, IsAnswer, Stream
<1>8. \A i \in DOMAIN Stream : IsAnswer(Stream[i]) =>
          /\ Stream[i].message.id \in answered
          /\ NotGiven(Stream[i].message.id)
          /\ \A u \in All : th'[u].pc \in Waiting =>
                 slot'[SlotOf(th'[u].id)].from # Stream[i].message.id
  BY <1>3, <1>4, <1>6 DEF AnswerInv
<1>9. \A i, j \in DOMAIN Stream :
          IsAnswer(Stream[i]) /\ IsAnswer(Stream[j]) /\ Stream[i].part = Stream[j].part
              /\ Stream[i].message.id = Stream[j].message.id => i = j
  BY DEF AnswerInv
<1>10. \A u \in All :
           th'[u].pc \in Waiting /\ slot'[SlotOf(th'[u].id)].from # NoCall =>
               /\ slot'[SlotOf(th'[u].id)].from \in answered
               /\ SlotOf(slot'[SlotOf(th'[u].id)].from) = SlotOf(th'[u].id)
               /\ NotGiven(slot'[SlotOf(th'[u].id)].from)
  BY <1>3, <1>4, <1>7 DEF AnswerInv
<1> QED
  BY <1>8, <1>9, <1>10, AnswerNext

\* A message that is handled leaves the stream with all its parts.
LEMMA HandledStream ==
    ASSUME Types, AnswerInv, NEW message \in Messages, Handled(message)
    PROVE  /\ \A k \in DOMAIN Stream' : \E i \in DOMAIN Stream :
                  Stream'[k] = Stream[i] /\ (message.type = "response" /\ IsAnswer(Stream[i]) =>
                                                 Stream[i].message.id # message.id)
           /\ \A k, l \in DOMAIN Stream' :
                  IsAnswer(Stream'[k]) /\ IsAnswer(Stream'[l]) /\ Stream'[k].part = Stream'[l].part
                      /\ Stream'[k].message.id = Stream'[l].message.id => k = l
<1>1. Parts \in Nat \ {0} /\ Len(Stream) \in Nat
  BY Constants, StreamType
<1>2. \A k \in DOMAIN Stream' : k \in Int /\ k > 0 /\ k + Parts \in DOMAIN Stream /\ Stream'[k] = Stream[k + Parts]
  BY <1>1 DEF Handled, Dropped
<1>3. ASSUME NEW k \in DOMAIN Stream', message.type = "response", IsAnswer(Stream[k + Parts]),
             Stream[k + Parts].message.id = message.id
      PROVE  FALSE
  <2> DEFINE p == Stream[k + Parts].part
  <2>1. p \in 1..Parts
    BY <1>2, StreamParts
  <2>2. p \in DOMAIN Stream /\ Stream[p] = [message |-> message, part |-> p]
    BY <2>1 DEF Handled
  <2>3. Stream[p].message = message /\ Stream[p].part = p
    BY <2>2
  <2> HIDE DEF p
  <2>4. k + Parts = p
    <3>1. IsAnswer(Stream[p])
      BY <1>3, <2>3 DEF IsAnswer
    <3>2. Stream[k + Parts].part = p
      BY DEF p
    <3> HIDE DEF Stream, IsAnswer
    <3> QED
      BY <1>2, <1>3, <2>2, <2>3, <3>1, <3>2 DEF AnswerInv
  <2> QED
    BY <1>1, <1>2, <2>1, <2>4
<1>4. ASSUME NEW k \in DOMAIN Stream', NEW l \in DOMAIN Stream',
             IsAnswer(Stream'[k]), IsAnswer(Stream'[l]), Stream'[k].part = Stream'[l].part,
             Stream'[k].message.id = Stream'[l].message.id
      PROVE  k = l
  <2>1. k + Parts = l + Parts
    <3> HIDE DEF Stream, IsAnswer
    <3> QED
      BY <1>2, <1>4 DEF AnswerInv
  <2> QED
    BY <1>1, <1>2, <2>1
<1> QED
  BY <1>2, <1>3, <1>4

\* A message that is sent is added to the stream.
LEMMA SentStream ==
    ASSUME Types, NEW message \in Messages, SendsFrame(message)
    PROVE  \A k \in DOMAIN Stream' :
               \/ k \in DOMAIN Stream /\ Stream'[k] = Stream[k]
               \/ /\ k = Len(Stream) + Stream'[k].part
                  /\ Stream'[k].message = message
<1>1. Parts \in Nat /\ Len(Stream) \in Nat /\ DOMAIN Stream = 1..Len(Stream)
  BY Constants, StreamType
<1> SUFFICES ASSUME NEW k \in DOMAIN Stream'
             PROVE  \/ k \in DOMAIN Stream /\ Stream'[k] = Stream[k]
                    \/ k = Len(Stream) + Stream'[k].part /\ Stream'[k].message = message
  OBVIOUS
<1>2. k \in 1..Len(Stream) + Parts
  BY DEF SendsFrame
<1>3. CASE k <= Len(Stream)
  BY <1>1, <1>2, <1>3 DEF SendsFrame
<1>4. CASE ~(k <= Len(Stream))
  <2> DEFINE p == k - Len(Stream)
  <2>1. p \in 1..Parts /\ Len(Stream) + p = k
    BY <1>1, <1>2, <1>4
  <2>2. Stream'[Len(Stream) + p] = [message |-> message, part |-> p]
    BY <2>1 DEF SendsFrame
  <2> HIDE DEF p
  <2> QED
    BY <2>1, <2>2
<1> QED
  BY <1>3, <1>4

\* The reader handles a message: an answer goes to the call that has its slot, if any.
LEMMA HandledAnswers ==
    ASSUME CallsHaveSlots, AnswerInv, Skips \/ Delivers, Untouched, answered' = answered
    PROVE  AnswerInv'
<1>1. Types /\ SlotInv
  BY DEF CallsHaveSlots
<1>2. \A u \in All : Waits(u) => Holds(u) /\ SlotOf(th[u].id) \in Numbers
  <2>1. \A u \in All : Calling(u) => SlotOf(th[u].id) \in Numbers
    BY CallSlot DEF CallsHaveSlots, Types
  <2> QED
    BY <2>1 DEF Calling, InCall, Waits, Waiting, Holds, Holding
<1>3. PICK message \in Messages :
          /\ Handled(message)
          /\ \A u \in All : Waits(u) =>
                 \/ slot'[SlotOf(th[u].id)].from = slot[SlotOf(th[u].id)].from
                 \/ /\ message.type = "response" /\ message.id \in Ids /\ SlotOf(message.id) = SlotOf(th[u].id)
                    /\ slot'[SlotOf(th[u].id)].from = message.id
  <2>1. CASE Skips
    BY <2>1 DEF Skips
  <2>2. CASE Delivers
    <3>1. PICK message \in Messages :
              /\ Handled(message) /\ message.type = "response" /\ message.id \in Ids
              /\ OtherSlots(SlotOf(message.id))
              /\ ~slot[SlotOf(message.id)].active => slot'[SlotOf(message.id)] = slot[SlotOf(message.id)]
              /\ slot[SlotOf(message.id)].active => slot'[SlotOf(message.id)].from = message.id
      BY <2>2 DEF Delivers
    <3>2. ASSUME NEW u \in All, Waits(u)
          PROVE  \/ slot'[SlotOf(th[u].id)].from = slot[SlotOf(th[u].id)].from
                 \/ /\ message.type = "response" /\ message.id \in Ids /\ SlotOf(message.id) = SlotOf(th[u].id)
                    /\ slot'[SlotOf(th[u].id)].from = message.id
      <4>1. CASE SlotOf(th[u].id) = SlotOf(message.id)
        <5>1. slot'[SlotOf(message.id)] = slot[SlotOf(message.id)] \/ slot'[SlotOf(message.id)].from = message.id
          BY <3>1
        <5> HIDE DEF SlotOf
        <5> QED
          BY <3>1, <4>1, <5>1
      <4>2. CASE SlotOf(th[u].id) # SlotOf(message.id)
        <5> HIDE DEF SlotOf
        <5> QED
          BY <1>2, <3>1, <3>2, <4>2 DEF OtherSlots
      <4> QED
        BY <4>1, <4>2
    <3> QED
      BY <3>1, <3>2
  <2> QED
    BY <2>1, <2>2
<1>4. /\ th' = th /\ \A x : NotGiven(x) <=> \A id \in Ids : source[id] # x
  BY DEF Untouched, NotGiven
<1>5. \A u \in All : th'[u].pc \in Waiting <=> Waits(u)
  BY <1>4 DEF Waits
<1>6. 1 \in 1..Parts /\ 1 \in DOMAIN Stream /\ Stream[1].message = message
  <2>1. 1 \in 1..Parts
    BY Constants
  <2>2. Handled(message)
    BY <1>3
  <2>3. 1 \in DOMAIN Stream /\ Stream[1] = [message |-> message, part |-> 1]
    <3> HIDE DEF Stream
    <3> QED
      BY <2>1, <2>2 DEF Handled
  <2> QED
    BY <2>1, <2>3
<1>7. message.type = "response" => IsAnswer(Stream[1]) /\ Stream[1].message.id = message.id
  BY <1>6 DEF IsAnswer
<1>8. \A k \in DOMAIN Stream' : \E i \in DOMAIN Stream :
          Stream'[k] = Stream[i] /\ (message.type = "response" /\ IsAnswer(Stream[i]) =>
                                         Stream[i].message.id # message.id)
  BY <1>1, <1>3, HandledStream
<1>9. \A k, l \in DOMAIN Stream' :
          IsAnswer(Stream'[k]) /\ IsAnswer(Stream'[l]) /\ Stream'[k].part = Stream'[l].part
              /\ Stream'[k].message.id = Stream'[l].message.id => k = l
  BY <1>1, <1>3, HandledStream
<1> HIDE DEF IsAnswer, Stream, NotGiven, SlotOf
<1>10. ASSUME NEW k \in DOMAIN Stream', IsAnswer(Stream'[k])
       PROVE  /\ Stream'[k].message.id \in answered'
              /\ NotGiven(Stream'[k].message.id)
              /\ \A t \in All : th'[t].pc \in Waiting =>
                     slot'[SlotOf(th'[t].id)].from # Stream'[k].message.id
  <2>1. PICK i \in DOMAIN Stream :
            Stream'[k] = Stream[i] /\ (message.type = "response" /\ IsAnswer(Stream[i]) =>
                                           Stream[i].message.id # message.id)
    BY <1>8
  <2>2. /\ Stream[i].message.id \in answered
        /\ \A id \in Ids : source[id] # Stream[i].message.id
        /\ \A t \in All : Waits(t) => slot[SlotOf(th[t].id)].from # Stream[i].message.id
    BY <1>10, <2>1 DEF AnswerInv
  <2> QED
    BY <1>3, <1>4, <1>5, <1>10, <2>1, <2>2
<1>11. ASSUME NEW t \in All, th'[t].pc \in Waiting, slot'[SlotOf(th'[t].id)].from # NoCall
       PROVE  /\ slot'[SlotOf(th'[t].id)].from \in answered'
              /\ SlotOf(slot'[SlotOf(th'[t].id)].from) = SlotOf(th'[t].id)
              /\ NotGiven(slot'[SlotOf(th'[t].id)].from)
  <2>1. Waits(t) /\ th'[t].id = th[t].id
    BY <1>4, <1>5, <1>11
  <2>2. CASE slot'[SlotOf(th[t].id)].from = slot[SlotOf(th[t].id)].from
    BY <1>4, <1>11, <2>1, <2>2 DEF AnswerInv
  <2>3. CASE /\ message.type = "response" /\ message.id \in Ids /\ SlotOf(message.id) = SlotOf(th[t].id)
             /\ slot'[SlotOf(th[t].id)].from = message.id
    <3>1. message.id \in answered /\ \A id \in Ids : source[id] # message.id
      BY <1>6, <1>7, <2>3 DEF AnswerInv
    <3> QED
      BY <1>4, <2>1, <2>3, <3>1
  <2> QED
    BY <1>3, <2>1, <2>2, <2>3
<1> QED
  BY <1>9, <1>10, <1>11, AnswerNext

\* The front of the stream is lost: no answer comes twice or to anybody else.
LEMMA LostAnswers ==
    ASSUME CallsHaveSlots, AnswerInv, Loses, Untouched, answered' = answered
    PROVE  AnswerInv'
<1>1. PICK n \in Nat : Dropped(n)
  BY DEF Loses
<1>2. /\ th' = th /\ slot' = slot /\ \A x : NotGiven(x) <=> \A id \in Ids : source[id] # x
  BY DEF Untouched, Loses, NotGiven
<1>3. \A u \in All : th'[u].pc \in Waiting <=> Waits(u)
  BY <1>2 DEF Waits
<1>4. DOMAIN Stream = 1..Len(Stream) /\ Len(Stream) \in Nat
  BY StreamType DEF CallsHaveSlots
<1> HIDE DEF IsAnswer, Stream, NotGiven, SlotOf
<1>5. \A k \in DOMAIN Stream' : k \in Int /\ k + n \in DOMAIN Stream /\ Stream'[k] = Stream[k + n]
  BY <1>1, <1>4 DEF Dropped
<1>6. \A k \in DOMAIN Stream' : IsAnswer(Stream'[k]) =>
          /\ Stream'[k].message.id \in answered'
          /\ NotGiven(Stream'[k].message.id)
          /\ \A t \in All : th'[t].pc \in Waiting =>
                 slot'[SlotOf(th'[t].id)].from # Stream'[k].message.id
  BY <1>2, <1>3, <1>5 DEF AnswerInv
<1>7. ASSUME NEW k \in DOMAIN Stream', NEW l \in DOMAIN Stream', IsAnswer(Stream'[k]), IsAnswer(Stream'[l]),
             Stream'[k].part = Stream'[l].part, Stream'[k].message.id = Stream'[l].message.id
      PROVE  k = l
  <2>1. k + n = l + n
    BY <1>5, <1>7 DEF AnswerInv
  <2> QED
    BY <1>5, <2>1
<1>8. \A t \in All :
          th'[t].pc \in Waiting /\ slot'[SlotOf(th'[t].id)].from # NoCall =>
              /\ slot'[SlotOf(th'[t].id)].from \in answered'
              /\ SlotOf(slot'[SlotOf(th'[t].id)].from) = SlotOf(th'[t].id)
              /\ NotGiven(slot'[SlotOf(th'[t].id)].from)
  BY <1>2, <1>3 DEF AnswerInv
<1> QED
  BY <1>6, <1>7, <1>8, AnswerNext

\* The daemon sends a message: the answer to a call it had not answered, or a
\* notification.
LEMMA SentAnswers ==
    ASSUME Types, AnswerInv, SourceInv, NEW message \in Messages, SendsFrame(message),
           Untouched, slot' = slot,
           \/ message.type # "response" /\ answered' = answered
           \/ message.id \in Ids /\ message.id \notin answered /\ answered' = answered \cup {message.id}
    PROVE  AnswerInv'
<1>1. /\ th' = th /\ \A x : NotGiven(x) <=> \A id \in Ids : source[id] # x
      /\ \A x \in answered : x \in answered'
      /\ message.type = "response" => message.id \in Ids /\ message.id \notin answered /\ message.id \in answered'
  BY DEF Untouched, NotGiven
<1>2. \A u \in All : th'[u].pc \in Waiting <=> Waits(u)
  BY <1>1 DEF Waits
<1>3. \A k \in DOMAIN Stream' :
          \/ k \in DOMAIN Stream /\ Stream'[k] = Stream[k]
          \/ k = Len(Stream) + Stream'[k].part /\ Stream'[k].message = message
  BY SentStream
<1>4. \A k \in DOMAIN Stream' : IsAnswer(Stream'[k]) =>
          \/ k \in DOMAIN Stream /\ Stream'[k] = Stream[k] /\ IsAnswer(Stream[k])
          \/ k = Len(Stream) + Stream'[k].part /\ Stream'[k].message.id = message.id /\ message.type = "response"
  BY <1>3 DEF IsAnswer
<1>5. message.type = "response" => message.id # NoCall
  BY <1>1, IdsAreNats
<1>6. message.type = "response" =>
          /\ \A id \in Ids : source[id] # message.id
          /\ \A u \in All : Waits(u) => slot[SlotOf(th[u].id)].from # message.id
  BY <1>1, <1>5 DEF SourceInv, AnswerInv
<1> HIDE DEF IsAnswer, Stream, NotGiven, SlotOf
<1>7. ASSUME NEW k \in DOMAIN Stream', IsAnswer(Stream'[k])
      PROVE  /\ Stream'[k].message.id \in answered'
             /\ NotGiven(Stream'[k].message.id)
             /\ \A u \in All : th'[u].pc \in Waiting =>
                    slot'[SlotOf(th'[u].id)].from # Stream'[k].message.id
  <2>1. CASE k \in DOMAIN Stream /\ Stream'[k] = Stream[k]
    BY <1>1, <1>2, <1>7, <2>1 DEF AnswerInv
  <2>2. CASE Stream'[k].message.id = message.id /\ message.type = "response"
    BY <1>1, <1>2, <1>6, <2>2
  <2> QED
    BY <1>4, <1>7, <2>1, <2>2
<1>8. ASSUME NEW k \in DOMAIN Stream', NEW l \in DOMAIN Stream',
             IsAnswer(Stream'[k]), IsAnswer(Stream'[l]), Stream'[k].part = Stream'[l].part,
             Stream'[k].message.id = Stream'[l].message.id
      PROVE  k = l
  <2>1. \A i \in DOMAIN Stream : IsAnswer(Stream[i]) /\ message.type = "response" =>
            Stream[i].message.id # message.id
    BY <1>1 DEF AnswerInv
  <2>2. CASE Stream'[k] = Stream[k] /\ Stream'[l] = Stream[l] /\ k \in DOMAIN Stream /\ l \in DOMAIN Stream
    BY <1>8, <2>2 DEF AnswerInv
  <2>3. CASE k = Len(Stream) + Stream'[k].part /\ l = Len(Stream) + Stream'[l].part
    BY <1>8, <2>3
  <2> QED
    BY <1>4, <1>8, <2>1, <2>2, <2>3
<1>9. \A u \in All :
          th'[u].pc \in Waiting /\ slot'[SlotOf(th'[u].id)].from # NoCall =>
              /\ slot'[SlotOf(th'[u].id)].from \in answered'
              /\ SlotOf(slot'[SlotOf(th'[u].id)].from) = SlotOf(th'[u].id)
              /\ NotGiven(slot'[SlotOf(th'[u].id)].from)
  BY <1>1, <1>2 DEF AnswerInv
<1> QED
  BY <1>7, <1>8, <1>9, AnswerNext

\* A request the daemon takes has not been answered.
LEMMA TakenUnanswered ==
    ASSUME Types, RequestInv, NEW id \in Ids, TakesFrameOf(Call(id))
    PROVE  id \notin answered
<1>1. 1 \in 1..Parts
  BY Constants
<1>2. 1 \in DOMAIN toDaemon /\ toDaemon[1] = [message |-> Call(id), part |-> 1]
  BY <1>1 DEF TakesFrameOf
<1>3. toDaemon[1].message.type = "call" /\ toDaemon[1].message.id = id
  BY <1>2 DEF Call
<1> QED
  BY <1>2, <1>3 DEF RequestInv

LEMMA AnswerStep ==
    ASSUME CallsHaveSlots, RequestInv, AnswerInv, SourceInv, [Next]_vars
    PROVE  AnswerInv'
<1>1. Types
  BY DEF CallsHaveSlots
<1>2. ASSUME Untouched, slot' = slot, Stream' = Stream, answered' = answered
      PROVE  AnswerInv'
  <2> HIDE DEF Stream, SlotOf
  <2> QED
    BY <1>1, <1>2, AnswersKept DEF Untouched, Waits
<1>3. CASE UNCHANGED vars \/ SetCallback
  <2>1. Untouched /\ slot' = slot /\ answered' = answered /\ recv' = recv /\ fromDaemon' = fromDaemon
    BY <1>3 DEF vars, SetCallback, io, daemon, receiving, told, Untouched
  <2> QED
    BY <1>2, <2>1 DEF Stream
<1>4. ASSUME NEW t \in All, Caller(t) \/ Encode(t) \/ EncodeOneway(t) \/ Close(t)
      PROVE  AnswerInv'
  <2>1. ASSUME Aside, Others(t), source' = source,
               th'[t].pc \in Waiting => Waits(t) /\ th'[t].id = th[t].id,
               \A u \in All : Waits(u) => slot'[SlotOf(th[u].id)].from = slot[SlotOf(th[u].id)].from
        PROVE  AnswerInv'
    <3>1. Stream' = Stream /\ answered' = answered
      BY <2>1 DEF Aside, Stream
    <3>2. \A u \in All : th'[u].pc \in Waiting =>
              /\ Waits(u) /\ th'[u].id = th[u].id
              /\ slot'[SlotOf(th[u].id)].from = slot[SlotOf(th[u].id)].from
      BY <2>1 DEF Others, Waits
    <3> HIDE DEF Stream, SlotOf
    <3> QED
      BY <1>1, <2>1, <3>1, <3>2, AnswersKept
  <2>2. CASE Passes(t)
    BY <2>1, <2>2 DEF Passes, InCall, Waiting, Waits
  <2>3. CASE Starts(t)
    BY <2>1, <2>3 DEF Starts, Begins, Waiting
  <2>4. CASE Writes(t)
    BY <2>1, <2>4 DEF Writes, Writing, Waiting, Waits
  <2>5. CASE TakesError(t)
    <3>1. /\ th[t].pc = "written" /\ Sourced(t) /\ Others(t) /\ th'[t].pc \notin Waiting
          /\ \A i \in Numbers : slot'[i].from = slot[i].from
      BY <2>5 DEF TakesError, Moves, Waiting
    <3>2. Stream' = Stream /\ answered' = answered
      BY <2>5 DEF TakesError, Aside, Stream
    <3> QED
      BY <3>1, <3>2, SourceTaken
  <2>6. CASE Ends(t)
    <3>1. /\ Others(t) /\ th'[t].pc \notin Waiting /\ Aside
          /\ \A i \in Numbers : slot'[i].from = slot[i].from
      BY <2>6 DEF Ends, Moves, Waiting, SameAnswer
    <3>2. source' = source \/ (th[t].pc = "written" /\ Sourced(t))
      BY <2>6 DEF Ends, EndsAs
    <3>3. CASE source' = source
      <4>1. \A u \in All : Waits(u) => SlotOf(th[u].id) \in Numbers
        <5>1. \A u \in All : Calling(u) => SlotOf(th[u].id) \in Numbers
          BY CallSlot DEF CallsHaveSlots, Types
        <5> QED
          BY <5>1 DEF Calling, InCall, Waits, Waiting
      <4> QED
        BY <2>1, <3>1, <3>3, <4>1
    <3>4. CASE th[t].pc = "written" /\ Sourced(t)
      <4>1. Stream' = Stream /\ answered' = answered
        BY <3>1 DEF Aside, Stream
      <4> QED
        BY <3>1, <3>4, <4>1, SourceTaken
    <3> QED
      BY <3>2, <3>3, <3>4
  <2>7. CASE Takes(t)
    <3> DEFINE i == SlotOf(th[t].id)
    <3>1. /\ Others(t) /\ Aside /\ source' = source /\ th'[t].pc = "claimed" /\ th'[t].id = th[t].id
          /\ slot'[i].from = NoCall /\ ~slot[i].active /\ OtherSlots(i)
      BY <2>7 DEF Takes, Claims, Moves
    <3>2. Stream' = Stream /\ answered' = answered
      BY <3>1 DEF Aside, Stream
    <3>3. ASSUME NEW u \in All, u # t, Waits(u)
          PROVE  slot'[SlotOf(th[u].id)].from = slot[SlotOf(th[u].id)].from
      <4>1. Calling(u) /\ Holds(u)
        BY <3>3 DEF Calling, InCall, Waits, Waiting, Holds, Holding
      <4>2. SlotOf(th[u].id) \in Numbers
        BY <4>1, CallSlot DEF CallsHaveSlots, Types
      <4>3. slot[SlotOf(th[u].id)].active
        BY <4>1, <4>2 DEF CallsHaveSlots, SlotInv, Numbers
      <4> QED
        BY <3>1, <4>2, <4>3 DEF OtherSlots
    <3>4. \A u \in All : th'[u].pc \in Waiting =>
              \/ slot'[SlotOf(th'[u].id)].from = NoCall
              \/ /\ Waits(u) /\ th'[u].id = th[u].id
                 /\ slot'[SlotOf(th[u].id)].from = slot[SlotOf(th[u].id)].from
      <4> SUFFICES ASSUME NEW u \in All, th'[u].pc \in Waiting
                   PROVE  \/ slot'[SlotOf(th'[u].id)].from = NoCall
                          \/ /\ Waits(u) /\ th'[u].id = th[u].id
                             /\ slot'[SlotOf(th[u].id)].from = slot[SlotOf(th[u].id)].from
        OBVIOUS
      <4>1. CASE u = t
        BY <3>1, <4>1
      <4>2. CASE u # t
        <5>1. Waits(u) /\ th'[u].id = th[u].id
          BY <3>1, <4>2 DEF Others, Waits
        <5> QED
          BY <3>3, <4>2, <5>1
      <4> QED
        BY <4>1, <4>2
    <3> HIDE DEF Stream, SlotOf
    <3> QED
      BY <1>1, <3>1, <3>2, <3>4, AnswersKept
  <2> QED
    BY <1>4, <2>2, <2>3, <2>4, <2>5, <2>6, <2>7, CallerKind
<1>5. CASE ReaderThread \/ Misread
  <2>1. Untouched /\ answered' = answered /\ (Rests \/ Skips \/ Delivers \/ Loses)
    BY <1>1, <1>5, ReaderKind
  <2>2. CASE Rests
    <3>1. \A u \in All : Waits(u) => SlotOf(th[u].id) \in Numbers
      <4>1. \A u \in All : Calling(u) => SlotOf(th[u].id) \in Numbers
        BY CallSlot DEF CallsHaveSlots, Types
      <4> QED
        BY <4>1 DEF Calling, InCall, Waits, Waiting
    <3>2. Stream' = Stream /\ \A i \in Numbers : slot'[i].from = slot[i].from
      BY <2>2 DEF Rests
    <3> HIDE DEF Stream, SlotOf
    <3> QED
      BY <1>1, <2>1, <3>1, <3>2, AnswersKept DEF Untouched, Waits
  <2> QED
    BY <2>1, <2>2, HandledAnswers, LostAnswers
<1>6. CASE Daemon
  <2>1. Untouched /\ slot' = slot /\ (Serves \/ ServesOneway \/ SendsOrEnds)
    BY <1>1, <1>6, DaemonKind
  <2>2. CASE Serves
    <3>1. PICK id \in Ids, message \in Messages :
              /\ TakesFrameOf(Call(id)) /\ answered' = answered \cup {id}
              /\ message.type = "response" /\ message.id = id /\ SendsFrame(message)
      BY <2>2 DEF Serves
    <3>2. id \notin answered
      BY <1>1, <3>1, TakenUnanswered
    <3> QED
      BY <1>1, <2>1, <3>1, <3>2, SentAnswers
  <2>3. CASE ServesOneway
    BY <1>2, <2>1, <2>3 DEF ServesOneway
  <2>4. CASE SendsOrEnds
    <3>1. CASE Stream' = Stream
      BY <1>2, <2>1, <2>4, <3>1 DEF SendsOrEnds
    <3>2. CASE \E message \in Messages : message.type = "note" /\ SendsFrame(message)
      <4>1. PICK message \in Messages : message.type = "note" /\ SendsFrame(message)
        BY <3>2
      <4>2. answered' = answered /\ message.type # "response"
        BY <2>4, <4>1 DEF SendsOrEnds
      <4> QED
        BY <1>1, <2>1, <4>1, <4>2, SentAnswers
    <3> QED
      BY <2>4, <3>1, <3>2 DEF SendsOrEnds
  <2> QED
    BY <2>1, <2>2, <2>3, <2>4
<1> QED
  BY <1>3, <1>4, <1>5, <1>6 DEF Next

LEMMA SourceNext ==
    ASSUME \A id \in Ids : source'[id] # NoCall =>
               /\ source'[id] \in answered' /\ SlotOf(source'[id]) = SlotOf(id)
               /\ verdict'[id] # "none" \/ \E u \in All : th'[u].pc = "rpc" /\ th'[u].id = id,
           \A id, j \in Ids : source'[id] # NoCall /\ source'[id] = source'[j] => id = j,
           \A u \in All : th'[u].pc = "rpc" => source'[th'[u].id] # NoCall
    PROVE  SourceInv'
BY DEF SourceInv, SlotOf

\* A step in which no call takes an answer.
LEMMA SourcesKept ==
    ASSUME SourceInv, source' = source, \A s \in answered : s \in answered',
           \A id \in Ids : verdict[id] # "none" => verdict'[id] # "none",
           \A u \in All : th[u].pc = "rpc" =>
               (th'[u].pc = "rpc" /\ th'[u].id = th[u].id) \/ verdict'[th[u].id] # "none",
           \A u \in All : th'[u].pc = "rpc" => th[u].pc = "rpc" /\ th'[u].id = th[u].id
    PROVE  SourceInv'
<1>1. \A id \in Ids : source[id] # NoCall =>
          verdict'[id] # "none" \/ \E u \in All : th'[u].pc = "rpc" /\ th'[u].id = id
  BY DEF SourceInv
<1>2. \A u \in All : th'[u].pc = "rpc" => source[th'[u].id] # NoCall
  BY DEF SourceInv
<1> HIDE DEF SlotOf
<1> QED
  BY <1>1, <1>2, SourceNext DEF SourceInv

\* A call that takes the answer in its slot returns it, now or after it has left its slot.
LEMMA SourceStored ==
    ASSUME CallsHaveSlots, AnswerInv, SourceInv, NEW t \in All, th[t].pc = "written", Sourced(t),
           Others(t), answered' = answered, \A id \in Ids : verdict[id] # "none" => verdict'[id] # "none",
           \/ th'[t].pc = "rpc" /\ th'[t].id = th[t].id /\ Mine(t).from # NoCall
           \/ th'[t].pc # "rpc" /\ verdict'[th[t].id] # "none"
    PROVE  SourceInv'
<1> DEFINE s == Mine(t).from
           i == th[t].id
<1>1. Types /\ CallInv /\ source \in [Ids -> Ids \cup {NoCall}]
  <2>1. Types /\ CallInv
    BY DEF CallsHaveSlots
  <2> QED
    BY <2>1, TypeParts DEF Types, OtherTypes
<1>2. i \in Ids /\ Waits(t) /\ Calling(t)
  BY <1>1 DEF CallInv, Calling, InCall, Waits, Waiting
<1>3. source'[i] = s /\ \A id \in Ids : id # i => source'[id] = source[id]
  BY <1>1, <1>2 DEF Sourced
<1>4. s # NoCall => s \in answered /\ SlotOf(s) = SlotOf(i) /\ \A id \in Ids : source[id] # s
  BY <1>2 DEF AnswerInv, Mine
<1>5. \A u \in All : u # t /\ th[u].pc = "rpc" => th[u].id # i
  BY <1>1, <1>2 DEF CallInv, Calling, InCall
<1>6. s # NoCall => verdict'[i] # "none" \/ (th'[t].pc = "rpc" /\ th'[t].id = i)
  OBVIOUS
<1>7. th'[t].pc = "rpc" => th'[t].id = i /\ s # NoCall
  OBVIOUS
<1> HIDE DEF s, i, SlotOf
<1>8. ASSUME NEW id \in Ids, source'[id] # NoCall
      PROVE  /\ source'[id] \in answered' /\ SlotOf(source'[id]) = SlotOf(id)
             /\ verdict'[id] # "none" \/ \E u \in All : th'[u].pc = "rpc" /\ th'[u].id = id
  <2>1. CASE id = i
    BY <1>3, <1>4, <1>6, <1>8, <2>1
  <2>2. CASE id # i
    <3>1. source[id] # NoCall /\ source'[id] = source[id]
      BY <1>3, <1>8, <2>2
    <3>2. source[id] \in answered /\ SlotOf(source[id]) = SlotOf(id)
      BY <3>1 DEF SourceInv
    <3>3. verdict[id] # "none" \/ \E u \in All : th[u].pc = "rpc" /\ th[u].id = id
      BY <3>1 DEF SourceInv
    <3>4. \A u \in All : th[u].pc = "rpc" => th'[u] = th[u]
      BY DEF Others
    <3> QED
      BY <3>1, <3>2, <3>3, <3>4
  <2> QED
    BY <2>1, <2>2
<1>9. \A id, j \in Ids : source'[id] # NoCall /\ source'[id] = source'[j] => id = j
  BY <1>3, <1>4 DEF SourceInv
<1>10. \A u \in All : th'[u].pc = "rpc" => source'[th'[u].id] # NoCall
  <2> SUFFICES ASSUME NEW u \in All, th'[u].pc = "rpc"
               PROVE  source'[th'[u].id] # NoCall
    OBVIOUS
  <2>1. CASE u = t
    BY <1>3, <1>7, <2>1
  <2>2. CASE u # t
    <3>1. th'[u] = th[u] /\ th[u].id # i /\ th[u].id \in Ids
      BY <1>1, <1>5, <2>2 DEF Others, CallInv, Calling, InCall
    <3> QED
      BY <1>3, <3>1 DEF SourceInv
  <2> QED
    BY <2>1, <2>2
<1> QED
  BY <1>8, <1>9, <1>10, SourceNext

LEMMA SourceStep ==
    ASSUME CallsHaveSlots, DoneInv, AnswerInv, SourceInv, [Next]_vars
    PROVE  SourceInv'
<1>1. Types /\ CallInv /\ verdict \in [Ids -> Verdicts]
  <2>1. Types /\ CallInv
    BY DEF CallsHaveSlots
  <2> QED
    BY <2>1, TypeParts DEF Types, OtherTypes
<1>2. ASSUME Untouched, \A s \in answered : s \in answered'
      PROVE  SourceInv'
  BY <1>2, SourcesKept DEF Untouched
<1>3. CASE UNCHANGED vars \/ SetCallback
  BY <1>2, <1>3 DEF vars, SetCallback, daemon, told, Untouched
<1>4. ASSUME NEW t \in All, Caller(t) \/ Encode(t) \/ EncodeOneway(t) \/ Close(t)
      PROVE  SourceInv'
  <2>1. ASSUME Others(t), Aside, source' = source, verdict' = verdict, th[t].pc # "rpc", th'[t].pc # "rpc"
        PROVE  SourceInv'
    BY <2>1, SourcesKept DEF Others, Aside
  <2>2. CASE Passes(t)
    BY <2>1, <2>2 DEF Passes
  <2>3. CASE Starts(t)
    BY <2>1, <2>3 DEF Starts, Begins, Calling, InCall
  <2>4. CASE Takes(t)
    BY <2>1, <2>4 DEF Takes, Claims, Moves
  <2>5. CASE Writes(t)
    BY <2>1, <2>5 DEF Writes, Writing
  <2>6. CASE TakesError(t)
    <3>1. /\ th[t].pc = "written" /\ Sourced(t) /\ Others(t) /\ th'[t].pc = "rpc" /\ th'[t].id = th[t].id
          /\ answered' = answered /\ verdict' = verdict
      BY <2>6 DEF TakesError, Moves, Aside
    <3>2. Mine(t).from # NoCall
      <4>1. SlotOf(th[t].id) \in Numbers
        BY <3>1, CallSlot DEF CallsHaveSlots, Types, Calling, InCall
      <4>2. Mine(t).error
        BY <2>6 DEF TakesError
      <4> QED
        BY <4>1, <4>2 DEF DoneInv, Mine, Numbers
    <3> QED
      BY <3>1, <3>2, SourceStored
  <2>7. CASE Ends(t)
    <3>1. /\ Others(t) /\ th'[t].pc # "rpc" /\ answered' = answered /\ th[t].id \in Ids
      BY <1>1, <2>7 DEF Ends, Moves, Aside, CallInv
    <3>2. PICK what \in Verdicts \ {"none"} : EndsAs(t, what)
      BY <2>7 DEF Ends
    <3>3. verdict'[th[t].id] # "none" /\ \A id \in Ids : verdict[id] # "none" => verdict'[id] # "none"
      BY <1>1, <3>1, <3>2 DEF EndsAs
    <3>4. CASE source' = source
      BY <3>1, <3>3, <3>4, SourcesKept DEF Others
    <3>5. CASE th[t].pc = "written" /\ Sourced(t)
      BY <3>1, <3>3, <3>5, SourceStored
    <3> QED
      BY <3>2, <3>4, <3>5 DEF EndsAs
  <2> QED
    BY <1>4, <2>2, <2>3, <2>4, <2>5, <2>6, <2>7, CallerKind
<1>5. CASE ReaderThread \/ Misread
  BY <1>1, <1>2, <1>5, ReaderKind
<1>6. CASE Daemon
  <2>1. Untouched /\ (Serves \/ ServesOneway \/ SendsOrEnds)
    BY <1>1, <1>6, DaemonKind
  <2>2. \A s \in answered : s \in answered'
    BY <2>1 DEF Serves, ServesOneway, SendsOrEnds
  <2> QED
    BY <1>2, <2>1, <2>2
<1> QED
  BY <1>3, <1>4, <1>5, <1>6 DEF Next

LEMMA CallsInit == Init => CallsInv
<1> SUFFICES ASSUME Init PROVE CallsInv
  OBVIOUS
<1>1. CallsHaveSlots /\ Types
  BY SlotsInit DEF CallsHaveSlots
<1>2. /\ \A i \in 0..Slots - 1 : ~slot[i].done /\ ~slot[i].error
      /\ toDaemon = << >> /\ answered = {} /\ nextId = 0
      /\ \A t \in All : th[t].pc \in {"connect", "idle"}
      /\ \A id \in Ids : source[id] = NoCall
  BY DEF Init
<1>3. DoneInv
  BY <1>2 DEF DoneInv
<1>4. RequestInv
  BY <1>2 DEF RequestInv
<1>5. DOMAIN Stream = {}
  <2>1. recv = << >> /\ fromDaemon = << >>
    BY DEF Init
  <2> QED
    BY <1>1, <2>1, StreamType
<1>6. AnswerInv
  <2> HIDE DEF Stream
  <2> QED
    BY <1>2, <1>5 DEF AnswerInv, Waits, Waiting
<1>7. SourceInv
  BY <1>2 DEF SourceInv
<1> QED
  BY <1>1, <1>3, <1>4, <1>6, <1>7 DEF CallsInv, CallsHaveSlots

LEMMA CallsStep == CallsInv /\ [Next]_vars => CallsInv'
<1> SUFFICES ASSUME CallsInv, [Next]_vars PROVE CallsInv'
  OBVIOUS
<1>1. CallsHaveSlots
  BY DEF CallsInv, CallsHaveSlots
<1>2. Types' /\ ConnectInv' /\ CallInv' /\ SlotInv'
  BY <1>1, TypesStep, ConnectStep, CallStep, SlotStep DEF CallsHaveSlots
<1>3. DoneInv'
  BY <1>1, DoneStep DEF CallsInv
<1>4. RequestInv'
  BY <1>1, RequestStep DEF CallsInv
<1>5. AnswerInv'
  BY <1>1, AnswerStep DEF CallsInv
<1>6. SourceInv'
  BY <1>1, SourceStep DEF CallsInv
<1> QED
  BY <1>2, <1>3, <1>4, <1>5, <1>6 DEF CallsInv

-----------------------------------------------------------------------------
(* The calls are those of module Calls                                     *)

\* What module Calls sees of a step.
LEMMA PhaseOf ==
    /\ DOMAIN Phase = Ids /\ DOMAIN Phase' = Ids
    /\ \A id \in Ids : Phase[id] = IF verdict[id] # "none" THEN "over"
                                   ELSE IF Pending(id) THEN "pending" ELSE "new"
    /\ \A id \in Ids : Phase'[id] = IF verdict'[id] # "none" THEN "over"
                                    ELSE IF WillBePending(id) THEN "pending" ELSE "new"
<1>1. \A id : Pending(id)' <=> WillBePending(id)
  BY DEF Pending, WillBePending, Holding, InCall
<1> HIDE DEF Pending, WillBePending
<1> QED
  BY <1>1 DEF Phase

\* A step in which no call begins, is answered or ends, and the connection does not.
Ended == reader \in {"waking", "ended"}
LEMMA Stutters ==
    ASSUME verdict' = verdict, answered' = answered, Ended' = Ended,
           \A id \in Ids : Pending(id) <=> WillBePending(id),
           \A id \in Ids : source'[id] # source[id] => verdict[id] = "none"
    PROVE  UNCHANGED Abstract!vars
<1>1. \A id \in Ids : Phase'[id] = Phase[id]
  BY PhaseOf
<1>2. Phase' = Phase
  <2> HIDE DEF Pending
  <2> QED
    BY <1>1 DEF Phase
<1>3. Told' = Told
  BY DEF Told
<1> QED
  BY <1>2, <1>3 DEF Abstract!vars, Ended

\* The threads but t have the slots they had.
LEMMA PendingMoves ==
    ASSUME NEW t \in All, Others(t), th'[t].pc \in Holding <=> Holds(t), Holds(t) => th'[t].id = th[t].id
    PROVE  \A id \in Ids : Pending(id) <=> WillBePending(id)
<1>1. \A id : Pending(id) => WillBePending(id)
  BY OthersPending
<1>2. \A id : WillBePending(id) => \E u \in All : Holds(u) /\ th[u].id = id
  BY DEF WillBePending, Others, Holds
<1> QED
  BY <1>1, <1>2, PendingHolds

\* What a call is to module Calls before it takes its slot, and after.
LEMMA PhaseOfCall ==
    ASSUME CallsInv, NEW t \in All, Calling(t)
    PROVE  /\ th[t].id \in Ids /\ verdict[th[t].id] = "none"
           /\ Phase[th[t].id] = IF Holds(t) THEN "pending" ELSE "new"
           /\ Told[th[t].id] = NoCall
<1>1. th[t].id \in Ids /\ verdict[th[t].id] = "none"
  BY DEF CallsInv, CallInv
<1>2. Pending(th[t].id) <=> Holds(t)
  <2>1. \A u \in All : Holds(u) => Calling(u)
    BY DEF Holds, Calling, Holding
  <2> QED
    BY <2>1, PendingHolds DEF CallsInv, CallInv
<1>3. Phase[th[t].id] = IF Holds(t) THEN "pending" ELSE "new"
  BY <1>1, <1>2, PhaseOf
<1> QED
  BY <1>1, <1>3 DEF Told

LEMMA BeginStep ==
    ASSUME CallsInv, NEW t \in All, Takes(t)
    PROVE  Abstract!Begin(th[t].id)
<1> DEFINE id == th[t].id
<1>1. /\ Moves(t, "claimed") /\ th[t].pc = "encoded" /\ ~slot[SlotOf(id)].active
      /\ verdict' = verdict /\ source' = source /\ answered' = answered /\ reader' = reader
  BY DEF Takes, Claims, Aside
<1>2. Calling(t) /\ ~Holds(t)
  BY <1>1 DEF Calling, InCall, Holds, Holding
<1>3. id \in Ids /\ verdict[id] = "none" /\ Phase[id] = "new"
  BY <1>2, PhaseOfCall
<1>4. ASSUME NEW j \in Ids, SlotOf(j) = SlotOf(id)
      PROVE  Phase[j] # "pending"
  <2>1. SlotOf(id) \in 0..Slots - 1
    BY <1>3, IdsAreNats, SlotOfType
  <2>2. ~Pending(j)
    BY <1>1, <1>4, <2>1, PendingHolds DEF CallsInv, SlotInv
  <2> QED
    BY <2>2, PhaseOf
<1>5. \A j \in Ids : WillBePending(j) <=> j = id \/ Pending(j)
  <2>1. th'[t].pc \in Holding /\ th'[t].id = id /\ Others(t)
    BY <1>1 DEF Moves, Holding, InCall
  <2>2. \A j : WillBePending(j) => j = id \/ \E u \in All : Holds(u) /\ th[u].id = j
    BY <2>1 DEF WillBePending, Others, Holds
  <2>3. \A j : Pending(j) => WillBePending(j)
    BY <1>2, <2>1, OthersPending
  <2>4. WillBePending(id)
    BY <2>1 DEF WillBePending
  <2> QED
    BY <2>2, <2>3, <2>4, PendingHolds
<1> HIDE DEF id
<1>6. Phase' = [Phase EXCEPT ![id] = "pending"]
  <2>1. \A j \in Ids : Phase'[j] = [Phase EXCEPT ![id] = "pending"][j]
    BY <1>1, <1>3, <1>5, PhaseOf
  <2>2. Phase' = [j \in Ids |-> Phase'[j]]
    BY DEF Phase
  <2>3. [Phase EXCEPT ![id] = "pending"] = [j \in Ids |-> [Phase EXCEPT ![id] = "pending"][j]]
    BY PhaseOf
  <2> QED
    BY <2>1, <2>2, <2>3
<1>7. Told' = Told
  BY <1>1 DEF Told
<1>8. Abstract!SlotFree(id)
  BY <1>4 DEF Abstract!SlotFree, Abstract!SameSlot, Abstract!Ids, Ids, SlotOf
<1>9. Abstract!Begin(id)
  BY <1>1, <1>3, <1>6, <1>7, <1>8 DEF Abstract!Begin
<1> QED
  BY <1>9 DEF id

\* A call that returns is over.
LEMMA OverStep ==
    ASSUME CallsInv, NEW t \in All, Ends(t), NEW what \in Verdicts \ {"none"}, EndsAs(t, what)
    PROVE  Abstract!Over(th[t].id, what)
<1> DEFINE id == th[t].id
<1>1. Calling(t) /\ Others(t) /\ th'[t].pc \notin Holding
  BY DEF Ends, Moves, Holding, InCall
<1>2. id \in Ids /\ verdict[id] = "none" /\ verdict \in [Ids -> Verdicts]
  BY <1>1, PhaseOfCall, TypeParts DEF CallsInv, Types, OtherTypes
<1>3. verdict' = [verdict EXCEPT ![id] = what]
  BY DEF EndsAs
<1>4. \A j \in Ids : j # id => (WillBePending(j) <=> Pending(j))
  <2>1. \A j : j # id => (WillBePending(j) <=> \E u \in All : Holds(u) /\ th[u].id = j)
    BY <1>1 DEF WillBePending, Others, Holds
  <2> QED
    BY <2>1, PendingHolds
<1> HIDE DEF id
<1>5. \A j \in Ids : Phase'[j] = [Phase EXCEPT ![id] = "over"][j]
  BY <1>2, <1>3, <1>4, PhaseOf
<1>6. Phase' = [Phase EXCEPT ![id] = "over"]
  <2>1. Phase' = [j \in Ids |-> Phase'[j]]
    BY DEF Phase
  <2>2. [Phase EXCEPT ![id] = "over"] = [j \in Ids |-> [Phase EXCEPT ![id] = "over"][j]]
    BY PhaseOf
  <2> QED
    BY <1>5, <2>1, <2>2
<1> QED
  BY <1>3, <1>6 DEF Abstract!Over, id

\* What a call tells when it is over.
LEMMA ToldOver ==
    ASSUME CallsInv, NEW id \in Ids, verdict[id] = "none", NEW what \in Verdicts \ {"none"},
           verdict' = [verdict EXCEPT ![id] = what], \A j \in Ids : j # id => source'[j] = source[j]
    PROVE  Told' = [Told EXCEPT ![id] = source'[id]]
<1>1. verdict \in [Ids -> Verdicts]
  BY TypeParts DEF CallsInv, Types, OtherTypes
<1>2. Told = [j \in Ids |-> IF verdict[j] = "none" THEN NoCall ELSE source[j]]
  BY DEF Told
<1>3. Told' = [j \in Ids |-> IF verdict'[j] = "none" THEN NoCall ELSE source'[j]]
  BY DEF Told
<1>4. \A j \in Ids : Told'[j] = [Told EXCEPT ![id] = source'[id]][j]
  BY <1>1, <1>2, <1>3
<1>5. Told' = [j \in Ids |-> Told'[j]]
  BY <1>3
<1>6. [Told EXCEPT ![id] = source'[id]] = [j \in Ids |-> [Told EXCEPT ![id] = source'[id]][j]]
  BY <1>2
<1> QED
  BY <1>4, <1>5, <1>6

\* A call returns without an answer: its slot was taken or its request not encoded, or
\* the connection failed or ended, or it gave up.
LEMMA UnansweredStep ==
    ASSUME CallsInv, NEW t \in All, Ends(t), NEW what \in Verdicts \ {"none"}, EndsAs(t, what),
           th[t].pc # "rpc", source'[th[t].id] = NoCall
    PROVE  Abstract!Refuse(th[t].id) \/ Abstract!EndUnanswered(th[t].id)
<1> DEFINE id == th[t].id
           i == SlotOf(id)
<1>1. /\ Calling(t) /\ answered' = answered /\ reader' = reader
      /\ Abstract!Over(id, what)
  BY OverStep DEF Ends, Aside
<1>2. /\ id \in Ids /\ verdict[id] = "none" /\ Told[id] = NoCall
      /\ Phase[id] = IF Holds(t) THEN "pending" ELSE "new"
  BY <1>1, PhaseOfCall
<1>3. source \in [Ids -> Ids \cup {NoCall}] /\ i \in Numbers
  BY <1>1, CallSlot, TypeParts DEF CallsInv, Types, OtherTypes
<1>4. \A j \in Ids : j # id => source'[j] = source[j]
  BY <1>2, <1>3 DEF EndsAs, Sourced
<1>5. Told' = Told
  <2>1. Told' = [Told EXCEPT ![id] = NoCall]
    BY <1>2, <1>4, ToldOver DEF EndsAs
  <2>2. [Told EXCEPT ![id] = NoCall] = Told
    BY <1>2 DEF Told
  <2> QED
    BY <2>1, <2>2
<1> HIDE DEF id, i
<1>6. CASE th[t].pc = "encoded"
  <2>1. Phase[id] = "new"
    BY <1>2, <1>6 DEF Holds, Holding, InCall
  <2>2. CASE what = "nomem"
    BY <1>1, <1>5, <2>1, <2>2 DEF Abstract!Refuse, id
  <2>3. CASE what = "send" /\ slot[i].active
    <3>1. PICK u \in All : Holds(u) /\ SlotOf(th[u].id) = i
      BY <1>3, <2>3 DEF CallsInv, SlotInv, Numbers
    <3>2. th[u].id \in Ids /\ Phase[th[u].id] = "pending"
      BY <3>1, PhaseOfCall DEF Holds, Holding, Calling
    <3>3. ~Abstract!SlotFree(id)
      BY <3>1, <3>2 DEF Abstract!SlotFree, Abstract!SameSlot, Abstract!Ids, Ids, SlotOf, i
    <3> QED
      BY <1>1, <1>5, <2>1, <2>3, <3>3 DEF Abstract!Refuse, id
  <2> QED
    BY <1>6, <2>2, <2>3 DEF EndsAs, id, i
<1>7. CASE th[t].pc # "encoded"
  <2>1. Holds(t) /\ Phase[id] = "pending"
    BY <1>1, <1>2, <1>7 DEF Calling, Holds, Holding
  <2>2. CASE what \in {"send", "timeout", "recv"}
    BY <1>1, <1>5, <2>1, <2>2 DEF Abstract!EndUnanswered, Abstract!Failures, id
  <2>3. CASE th[t].pc = "written" /\ Mine(t).done /\ Sourced(t) /\ what = "ok"
    <3>1. Mine(t).from = NoCall
      BY <1>2, <1>3, <2>3 DEF Sourced, id
    <3>2. reader \in {"waking", "ended"}
      BY <1>3, <2>3, <3>1 DEF CallsInv, DoneInv, Mine, Numbers, id, i
    <3> QED
      BY <1>1, <1>5, <2>1, <2>3, <3>2 DEF Abstract!EndUnanswered, id
  <2> QED
    BY <1>7, <2>2, <2>3 DEF EndsAs
<1> QED
  BY <1>6, <1>7 DEF id

\* A call returns with the answer to a call of its slot, which no other call returned.
LEMMA AnsweredStep ==
    ASSUME CallsInv, NEW t \in All, Ends(t), NEW what \in Verdicts \ {"none"}, EndsAs(t, what),
           th[t].pc = "rpc" \/ source'[th[t].id] # NoCall
    PROVE  Abstract!EndAnswered(th[t].id)
<1> DEFINE id == th[t].id
           s == source'[id]
<1>1. Calling(t) /\ answered' = answered /\ reader' = reader /\ Abstract!Over(id, what)
  BY OverStep DEF Ends, Aside
<1>2. /\ id \in Ids /\ verdict[id] = "none" /\ Told[id] = NoCall
      /\ Phase[id] = IF Holds(t) THEN "pending" ELSE "new"
  BY <1>1, PhaseOfCall
<1>3. source \in [Ids -> Ids \cup {NoCall}]
  BY TypeParts DEF CallsInv, Types, OtherTypes
<1>4. \A j \in Ids : j # id => source'[j] = source[j]
  BY <1>2, <1>3 DEF EndsAs, Sourced
<1>5. Told' = [Told EXCEPT ![id] = s]
  BY <1>2, <1>4, ToldOver DEF EndsAs
<1>6. \/ th[t].pc = "rpc" /\ source' = source /\ what = "rpc"
      \/ th[t].pc = "written" /\ what = "ok" /\ Sourced(t) /\ Mine(t).from # NoCall
  <2>1. CASE th[t].pc = "rpc"
    BY <2>1 DEF EndsAs
  <2>2. CASE th[t].pc # "rpc"
    <3>1. source[id] = NoCall
      <4>1. \A u \in All : th[u].pc = "rpc" => th[u].id # id
        BY <1>1, <2>2 DEF CallsInv, CallInv, Calling, InCall
      <4> QED
        BY <1>2, <4>1 DEF CallsInv, SourceInv
    <3>2. source' # source /\ source'[id] # NoCall
      BY <2>2, <3>1
    <3>3. th[t].pc = "written" /\ what = "ok" /\ Sourced(t)
      BY <2>2, <3>2 DEF EndsAs
    <3>4. source'[id] = Mine(t).from
      BY <1>2, <1>3, <3>3 DEF Sourced
    <3> QED
      BY <3>2, <3>3, <3>4
  <2> QED
    BY <2>1, <2>2
<1>7. s # NoCall /\ s \in answered /\ SlotOf(s) = SlotOf(id) /\ \A j \in Ids : j # id => source[j] # s
  <2>1. CASE th[t].pc = "rpc" /\ source' = source
    BY <1>2, <2>1 DEF CallsInv, SourceInv
  <2>2. CASE th[t].pc = "written" /\ Sourced(t) /\ Mine(t).from # NoCall
    <3>1. s = Mine(t).from
      BY <1>2, <1>3, <2>2 DEF Sourced
    <3>2. Waits(t)
      BY <2>2 DEF Waits, Waiting
    <3> QED
      BY <2>2, <3>1, <3>2 DEF CallsInv, AnswerInv, Mine
  <2> QED
    BY <1>6, <2>1, <2>2
<1>8. Phase[id] = "pending"
  BY <1>2, <1>6 DEF Holds, Holding, InCall
<1> HIDE DEF id, s
<1>9. Abstract!Unused(s)
  <2>1. \A j \in Ids : Told[j] # s
    BY <1>2, <1>7 DEF Told
  <2> QED
    BY <2>1 DEF Abstract!Unused, Abstract!Ids, Ids
<1>10. Abstract!SameSlot(id, s)
  BY <1>7 DEF Abstract!SameSlot, SlotOf
<1>11. \E r \in answered :
           Abstract!SameSlot(id, r) /\ Abstract!Unused(r) /\ Told' = [Told EXCEPT ![id] = r]
  BY <1>5, <1>7, <1>9, <1>10
<1>12. \E w \in Abstract!Answers : Abstract!Over(id, w)
  BY <1>1, <1>6 DEF Abstract!Answers
<1>13. Abstract!EndAnswered(id)
  BY <1>1, <1>8, <1>11, <1>12 DEF Abstract!EndAnswered
<1> QED
  BY <1>13 DEF id

\* Every step of the client is one of module Calls, or is none of its concern.
LEMMA RefinementStep ==
    ASSUME CallsInv, [Next]_vars
    PROVE  [Abstract!Next]_(Abstract!vars)
<1>1. /\ Types /\ CallsHaveSlots
      /\ Abstract!Ids = Ids
  BY DEF CallsInv, CallsHaveSlots, Abstract!Ids, Ids
<1>2. ASSUME Untouched, answered' = answered, Ended' = Ended
      PROVE  UNCHANGED Abstract!vars
  <2>1. \A id \in Ids : Pending(id) <=> WillBePending(id)
    BY <1>2, PendingHolds DEF Untouched, WillBePending, Holds
  <2> QED
    BY <1>2, <2>1, Stutters DEF Untouched
<1>3. CASE UNCHANGED vars \/ SetCallback
  BY <1>2, <1>3 DEF vars, SetCallback, daemon, receiving, told, Untouched, Ended
<1>4. ASSUME NEW t \in All, Caller(t) \/ Encode(t) \/ EncodeOneway(t) \/ Close(t)
      PROVE  [Abstract!Next]_(Abstract!vars)
  <2>1. ASSUME Others(t), th'[t].pc \in Holding <=> Holds(t), Holds(t) => th'[t].id = th[t].id,
               verdict' = verdict, source' = source, Aside, Ended' = Ended
        PROVE  UNCHANGED Abstract!vars
    <3>1. \A id \in Ids : Pending(id) <=> WillBePending(id)
      BY <2>1, PendingMoves
    <3> QED
      BY <2>1, <3>1, Stutters DEF Aside
  <2>2. ReaderAsBefore => Ended' = Ended
    BY DEF ReaderAsBefore, Ended
  <2>3. CASE Passes(t)
    BY <2>1, <2>2, <2>3 DEF Passes, Holds, Holding
  <2>4. CASE Starts(t)
    <3>1. /\ Others(t) /\ verdict' = verdict /\ source' = source /\ Aside /\ ReaderAsBefore
          /\ th'[t].pc = "encoded" /\ ~Calling(t)
      BY <2>4 DEF Starts, Begins
    <3>2. th'[t].pc \notin Holding /\ ~Holds(t)
      BY <3>1 DEF Calling, Holds, Holding
    <3> QED
      BY <2>1, <2>2, <3>1, <3>2
  <2>5. CASE Takes(t)
    <3>1. th[t].id \in Ids
      <4>1. Calling(t)
        BY <2>5 DEF Takes, Claims, Calling, InCall
      <4> QED
        BY <4>1, PhaseOfCall
    <3> QED
      BY <1>1, <2>5, <3>1, BeginStep DEF Abstract!Next
  <2>6. CASE Writes(t)
    <3>1. /\ Others(t) /\ verdict' = verdict /\ source' = source /\ Aside /\ reader' = reader /\ Writing(t)
          /\ \/ th'[t].pc = th[t].pc /\ th'[t].id = th[t].id
             \/ th[t].pc = "writing" /\ th'[t].pc = "written" /\ th'[t].id = th[t].id
             \/ th[t].pc = "telling" /\ th'[t].pc = "idle"
      BY <2>6 DEF Writes
    <3>2. (th'[t].pc \in Holding <=> Holds(t)) /\ (Holds(t) => th'[t].id = th[t].id)
      BY <3>1 DEF Holds, Holding, InCall
    <3>3. Ended' = Ended
      BY <3>1 DEF Ended
    <3> QED
      BY <2>1, <3>1, <3>2, <3>3
  <2>7. CASE TakesError(t)
    <3>1. /\ th[t].pc = "written" /\ Moves(t, "rpc") /\ Sourced(t)
          /\ verdict' = verdict /\ answered' = answered /\ Ended' = Ended
      BY <2>7 DEF TakesError, Aside, Ended
    <3>2. Others(t) /\ (th'[t].pc \in Holding <=> Holds(t)) /\ th'[t].id = th[t].id /\ Calling(t)
      BY <3>1 DEF Moves, Holds, Holding, InCall, Calling
    <3>3. \A id \in Ids : Pending(id) <=> WillBePending(id)
      BY <3>2, PendingMoves
    <3>4. \A id \in Ids : source'[id] # source[id] => verdict[id] = "none"
      <4>1. verdict[th[t].id] = "none"
        BY <3>2, PhaseOfCall
      <4>2. source \in [Ids -> Ids \cup {NoCall}]
        BY <1>1, TypeParts DEF Types, OtherTypes
      <4> QED
        BY <3>1, <4>1, <4>2 DEF Sourced
    <3> QED
      BY <3>1, <3>3, <3>4, Stutters
  <2>8. CASE Ends(t)
    <3>1. PICK what \in Verdicts \ {"none"} : EndsAs(t, what)
      BY <2>8 DEF Ends
    <3>2. th[t].id \in Ids
      BY <2>8, PhaseOfCall DEF Ends
    <3>3. CASE th[t].pc = "rpc" \/ source'[th[t].id] # NoCall
      BY <1>1, <2>8, <3>1, <3>2, <3>3, AnsweredStep DEF Abstract!Next
    <3>4. CASE ~(th[t].pc = "rpc" \/ source'[th[t].id] # NoCall)
      BY <1>1, <2>8, <3>1, <3>2, <3>4, UnansweredStep DEF Abstract!Next
    <3> QED
      BY <3>3, <3>4
  <2> QED
    BY <1>1, <1>4, <2>3, <2>4, <2>5, <2>6, <2>7, <2>8, CallerKind
<1>5. CASE ReaderThread \/ Misread
  <2>1. Untouched /\ answered' = answered /\ ReaderGoesOn
    BY <1>1, <1>5, ReaderKind
  <2>2. CASE Ended' = Ended
    BY <1>2, <2>1, <2>2
  <2>3. CASE Ended' # Ended
    <3>1. (reader' \in {"waking", "ended"}) = TRUE
      BY <2>1, <2>3 DEF Ended, ReaderGoesOn
    <3>2. \A id \in Ids : Pending(id) <=> WillBePending(id)
      BY <2>1, PendingHolds DEF Untouched, WillBePending, Holds
    <3>3. \A id \in Ids : Phase'[id] = Phase[id]
      BY <2>1, <3>2, PhaseOf DEF Untouched
    <3>4. Phase' = Phase
      <4> HIDE DEF Pending
      <4> QED
        BY <3>3 DEF Phase
    <3>5. Told' = Told
      BY <2>1 DEF Told, Untouched
    <3>6. Abstract!ConnectionEnds
      BY <2>1, <3>1, <3>4, <3>5 DEF Abstract!ConnectionEnds, Untouched
    <3> QED
      BY <3>6 DEF Abstract!Next
  <2> QED
    BY <2>2, <2>3
<1>6. CASE Daemon
  <2>1. Untouched /\ Ended' = Ended /\ (Serves \/ ServesOneway \/ SendsOrEnds)
    BY <1>1, <1>6, DaemonKind DEF Ended
  <2>2. CASE Serves
    <3>1. PICK id \in Ids : TakesFrameOf(Call(id)) /\ answered' = answered \cup {id}
      BY <2>2 DEF Serves
    <3>2. id \notin answered
      BY <3>1, TakenUnanswered DEF CallsInv
    <3>3. Phase[id] # "new"
      <4>1. 1 \in 1..Parts
        BY Constants
      <4>2. 1 \in DOMAIN toDaemon /\ toDaemon[1] = [message |-> Call(id), part |-> 1]
        BY <3>1, <4>1 DEF TakesFrameOf
      <4>3. toDaemon[1].message.type = "call" /\ toDaemon[1].message.id = id
        BY <4>2 DEF Call
      <4>4. verdict[id] # "none" \/ Pending(id)
        BY <4>2, <4>3 DEF CallsInv, RequestInv
      <4> QED
        BY <4>4, PhaseOf
    <3>4. \A j \in Ids : Pending(j) <=> WillBePending(j)
      BY <2>1, PendingHolds DEF Untouched, WillBePending, Holds
    <3>5. \A j \in Ids : Phase'[j] = Phase[j]
      BY <2>1, <3>4, PhaseOf DEF Untouched
    <3>6. Phase' = Phase
      <4> HIDE DEF Pending
      <4> QED
        BY <3>5 DEF Phase
    <3>7. Told' = Told
      BY <2>1 DEF Told, Untouched
    <3>8. Abstract!Answer(id)
      BY <2>1, <3>1, <3>2, <3>3, <3>6, <3>7 DEF Abstract!Answer, Untouched, Ended
    <3> QED
      BY <1>1, <3>8 DEF Abstract!Next
  <2>3. CASE ServesOneway \/ SendsOrEnds
    BY <1>2, <2>1, <2>3 DEF ServesOneway, SendsOrEnds
  <2> QED
    BY <2>1, <2>2, <2>3
<1> QED
  BY <1>3, <1>4, <1>5, <1>6 DEF Next

\* However many threads call, whatever the interleaving of callers, reader and daemon,
\* and whatever fails: the calls of kgd.c are those of module Calls.  A slot has one
\* call at a time, a call ends once, and only an answer to a call of its slot, given
\* to nobody else, or the end of the connection makes it return KGD_OK.
THEOREM CallsAreRefined == Spec => RefinesCalls
<1>1. Init => Abstract!Init
  <2> SUFFICES ASSUME Init PROVE Abstract!Init
    OBVIOUS
  <2>1. /\ \A id \in Ids : verdict[id] = "none" /\ ~Pending(id)
        /\ verdict = [id \in Ids |-> "none"] /\ answered = {} /\ reader = "none"
    BY DEF Init, Pending
  <2>2. Phase = [id \in Ids |-> "new"]
    BY <2>1 DEF Phase
  <2>3. Told = [id \in Ids |-> NoCall]
    BY <2>1 DEF Told
  <2> QED
    BY <2>1, <2>2, <2>3 DEF Abstract!Init, Abstract!Ids, Ids, Abstract!NoCall, NoCall
<1>2. CallsInv /\ [Next]_vars => [Abstract!Next]_(Abstract!vars)
  BY RefinementStep
<1> QED
  BY <1>1, <1>2, CallsInit, CallsStep, PTL DEF Spec, RefinesCalls, Abstract!Spec

-----------------------------------------------------------------------------
(* Memory                                                                  *)

\* The client's memory is there from kgd_connect's success to kgd_close, which joins
\* the reader first; the reader makes its calls in a callback
HeldInv ==
    /\ HeldWhileUsed
    /\ client \in {"connecting", "open", "closing"} => "memory" \in held
    /\ client = "freed" => reader = "ended"
    /\ th[Reader].pc # "idle" => reader = "callback"

HeldAndSlots == CallsHaveSlots /\ HeldInv

\* A step that acquires and gives back nothing: whoever is in a call, or runs in
\* a callback, was so before, or starts while there is memory.
LEMMA HeldKept ==
    ASSUME HeldInv, held' = held,
           client' = client \/ (client = "connecting" /\ client' = "open"),
           reader' \in {"reading", "callback", "waking"} => reader \in {"reading", "callback", "waking"},
           client = "freed" => reader' = "ended",
           th'[Reader].pc # "idle" => reader' = "callback",
           \A t \in All : th'[t].pc \notin {"idle", "connect", "socket"} =>
               th[t].pc \notin {"idle", "connect", "socket"} \/ "memory" \in held
    PROVE  HeldInv'
BY DEF HeldInv, HeldWhileUsed, Freed

\* A step of one thread between two places of a call.
LEMMA HeldMove ==
    ASSUME HeldInv, NEW t \in All, Others(t), held' = held, reader' = reader,
           client' = client \/ (client = "connecting" /\ client' = "open"),
           th[t].pc \notin {"idle", "connect", "socket"}
               \/ ("memory" \in held /\ (t = Reader => reader = "callback"))
    PROVE  HeldInv'
<1>1. th'[Reader].pc # "idle" => reader' = "callback"
  BY Constants DEF Others, HeldInv
<1>2. client = "freed" => reader' = "ended"
  BY DEF HeldInv
<1> QED
  BY <1>1, <1>2, HeldKept DEF Others

\* Whoever calls has the client.
LEMMA NotFreed ==
    ASSUME HeldInv, NEW t \in All,
           Caller(t) \/ Encode(t) \/ EncodeOneway(t) \/ Close(t)
    PROVE  client # "freed"
BY DEF HeldInv, Caller, Encode, EncodeOneway, Close, MayCall

LEMMA CallerHeld ==
    ASSUME CallsHaveSlots, HeldInv, NEW t \in All,
           Caller(t) \/ Encode(t) \/ EncodeOneway(t) \/ Close(t)
    PROVE  HeldInv'
<1> USE DEF receiving, application
<1>1. TypeOK /\ CallInv /\ ConnectInv
  BY DEF CallsHaveSlots, Types
<1>2. ASSUME Calling(t), NEW what \in Verdicts, Report(t, what), held' = held, reader' = reader
      PROVE  HeldInv'
  <2>1. Others(t) /\ (client' = client \/ (client = "connecting" /\ client' = "open"))
    BY <1>1, <1>2, ReportEffect DEF Moves
  <2> QED
    BY <1>2, <2>1, HeldMove DEF Calling, InCall
<1>3. ASSUME th[t].pc \in Starting
      PROVE  /\ client = "none" /\ reader = "none"
             /\ \A u \in All : u # t => th[u].pc = "idle"
             /\ t # Reader /\ th[Reader].pc = "idle"
  <2>1. /\ client = "none" /\ reader = "none"
        /\ \A u \in All : u # t => th[u].pc = "idle"
    BY <1>1, <1>3 DEF ConnectInv, Starting
  <2> QED
    BY <1>3, <2>1, Constants DEF HeldInv, Starting
<1>4. CASE OpenSocket(t) \/ Connect(t)
  <2>1. /\ th[t].pc \in Starting
        /\ \/ th'[t].pc = "socket"
           \/ th'[t].pc = "memory" /\ "memory" \in held'
        /\ Others(t) /\ client' = client /\ reader' = reader
    BY <1>1, <1>4, ConnectEffect DEF OpenSocket, Connect, Starting, Moves
  <2> QED
    BY <1>3, <2>1, Constants DEF HeldInv, HeldWhileUsed, Others
<1>5. CASE StartReader(t)
  <2>1. /\ th[t].pc = "memory" /\ held' = held \cup {"reader"} /\ client' = "connecting"
        /\ Others(t)
    BY <1>1, <1>5, ConnectEffect DEF StartReader, Moves
  <2>2. "memory" \in held /\ t # Reader /\ th[Reader].pc = "idle"
    BY <1>3, <2>1 DEF HeldInv, HeldWhileUsed, Freed, Starting
  <2> QED
    BY <2>1, <2>2, Constants DEF HeldInv, HeldWhileUsed, Others
<1>6. CASE Refused(t)
  <2>1. /\ th[t].pc \in Starting /\ held' = {} /\ client' = "refused" /\ reader' = reader
        /\ th'[t].pc = "idle" /\ Others(t)
    BY <1>1, <1>6, ConnectEffect DEF Refused, Moves, Starting
  <2> QED
    BY <1>3, <2>1, Constants DEF HeldInv, HeldWhileUsed, Others
<1>7. CASE EncodingFails(t) \/ Unsent(t) \/ ReturnResult(t) \/ Leave(t) \/ Expire(t)
  <2>1. Calling(t) /\ (\E what \in Verdicts : Report(t, what)) /\ held' = held /\ reader' = reader
    BY <1>7 DEF EncodingFails, Unsent, ReturnResult, Leave, Expire, Calling, InCall, Verdicts
  <2> QED
    BY <1>2, <2>1
<1>8. CASE Claim(t)
  <2>1. th[t].pc = "encoded" /\ held' = held /\ reader' = reader
    BY <1>8 DEF Claim
  <2>2. CASE slot[SlotOf(th[t].id)].active
    BY <1>2, <1>8, <2>1, <2>2 DEF Claim, Calling, InCall, Verdicts
  <2>3. CASE ~slot[SlotOf(th[t].id)].active
    <3>1. Moves(t, "claimed") /\ client' = client
      BY <1>1, <1>8, <2>3, ClaimEffect
    <3> QED
      BY <2>1, <3>1, HeldMove DEF Moves
  <2> QED
    BY <2>2, <2>3
<1>9. CASE WriteLock(t) \/ Write(t) \/ WriteFails(t) \/ ReturnError(t) \/ ReturnClosed(t)
  <2>1. Others(t)
    BY <1>1, <1>9, LockEffect, WriteEffect, CallEffect DEF Moves
  <2>2. /\ th[t].pc \in {"claimed", "oneway", "writing", "telling", "written"}
        /\ held' = held /\ reader' = reader /\ client' = client
    BY <1>9 DEF WriteLock, Write, WriteFails, Writing, ReturnError, ReturnClosed
  <2> QED
    BY <2>1, <2>2, HeldMove
<1>10. CASE Encode(t) \/ EncodeOneway(t)
  <2>1. Others(t) /\ held' = held /\ reader' = reader /\ client' = client /\ MayCall(t)
    BY <1>1, <1>10, EncodeEffect DEF Encode, EncodeOneway
  <2>2. "memory" \in held /\ (t = Reader => reader = "callback")
    BY <2>1 DEF MayCall, HeldInv, HeldWhileUsed
  <2> QED
    BY <2>1, <2>2, HeldMove
<1>11. CASE Close(t)
  <2>1. /\ client' = "closing" /\ held' = held \ {"socket"} /\ reader' = reader
        /\ client \in {"connecting", "open"} /\ (th[t].pc = "close" \/ t \in Threads)
        /\ Others(t)
    BY <1>1, <1>11, ConnectEffect DEF Close, Moves
  <2>2. "memory" \in held'
    BY <2>1 DEF HeldInv
  <2>3. th'[Reader].pc # "idle" => reader' = "callback"
    BY <2>1, Constants DEF HeldInv, Others
  <2> QED
    BY <2>1, <2>2, <2>3 DEF HeldInv, HeldWhileUsed
<1>12. CASE Free(t)
  <2>1. /\ client' = "freed" /\ held' = {} /\ reader' = reader /\ reader = "ended"
        /\ th'[t].pc = "idle" /\ Others(t)
    BY <1>1, <1>12, ConnectEffect DEF Free, Moves
  <2>2. th'[Reader].pc = "idle"
    BY <2>1, Constants DEF HeldInv, Others
  <2>3. \A u \in All : u = Reader \/ u \in Threads
    BY DEF All
  <2> QED
    BY <2>1, <2>2, <2>3 DEF HeldInv, HeldWhileUsed, Freed
<1> QED
  BY <1>4, <1>5, <1>6, <1>7, <1>8, <1>9, <1>10, <1>11, <1>12 DEF Caller

LEMMA HeldStep ==
    ASSUME CallsHaveSlots, HeldInv, [Next]_vars
    PROVE  HeldInv'
<1> USE DEF application, receiving
<1>0. ASSUME th' = th, held' = held, client' = client, reader' = reader
      PROVE  HeldInv'
  BY <1>0, HeldKept DEF HeldInv
<1>1. CASE UNCHANGED vars
  BY <1>0, <1>1 DEF vars
<1>2. CASE SetCallback
  BY <1>0, <1>2 DEF SetCallback
<1>3. CASE ReaderThread \/ Misread
  <2>1. /\ reader \in {"reading", "callback", "waking"} /\ th' = th
        /\ held' = held /\ client' = client
        /\ reader = "callback" => th[Reader].pc = "idle"
    BY <1>3 DEF ReaderThread, Read, ReadIsLost, Misread, Take, Respond, Ignore, Notified, CallbackReturns, ReaderStops, Wake, Arrived
  <2>2. client # "freed" /\ th[Reader].pc = "idle"
    BY <2>1 DEF HeldInv
  <2> QED
    BY <2>1, <2>2, HeldKept
<1>4. CASE Daemon
  BY <1>0, <1>4 DEF Daemon, Serve, ServeOneway, Notify, PeerCloses
<1> QED
  BY <1>1, <1>2, <1>3, <1>4, CallerHeld DEF Next

LEMMA HeldInit == Init => HeldAndSlots
<1> SUFFICES ASSUME Init PROVE HeldAndSlots
  OBVIOUS
<1>1. CallsHaveSlots
  BY SlotsInit
<1>2. \A t \in All : th[t].pc \in {"idle", "connect"}
  BY DEF Init
<1>3. th[Reader].pc = "idle"
  BY CClientAssumption DEF Init, CClientAssumption, All
<1> QED
  BY <1>1, <1>2, <1>3 DEF Init, HeldAndSlots, HeldInv, HeldWhileUsed

\* However kgd_connect fails and whenever kgd_close runs, nothing is kept of a
\* client that is gone, and the reader, its callbacks and every call have the memory
\* they use, but for a call of another thread that is on its way when kgd_close,
\* which joins the reader alone, frees the client.
THEOREM MemoryIsHeldWhileUsed == Spec => []HeldWhileUsed
<1>1. Init => HeldAndSlots
  BY HeldInit
<1>2. HeldAndSlots /\ [Next]_vars => HeldAndSlots'
  BY HeldStep, TypesStep, ConnectStep, CallStep, SlotStep DEF HeldAndSlots, CallsHaveSlots
<1>3. HeldAndSlots => HeldWhileUsed
  BY DEF HeldAndSlots, HeldInv
<1> QED
  BY <1>1, <1>2, <1>3, PTL DEF Spec

\* The response buffers of the slots; a buffer is in the slot of its response, is
\* not there before the response is, and an error response brings none
Buffers == {slot[i].data : i \in Numbers} \ {Null}
BufferInv ==
    ~overtaken =>
        /\ ~twice
        /\ live = IF client = "freed" THEN {} ELSE Buffers
        /\ \A i \in Numbers :
               /\ slot[i].data # Null => SlotOf(slot[i].data) = i
               /\ slot[i].active /\ ~slot[i].done => slot[i].data = Null
               /\ slot[i].error => slot[i].data = Null

\* recv_buf holds what is in it, and a whole read once it has been allocated
RecvInv == FitsBuffer /\ (capacity = 0 \/ Chunk <= capacity)

MemoryInv == CallsHaveSlots /\ HeldInv /\ BufferInv /\ RecvInv

\* A step that moves no buffer.
LEMMA BuffersKept ==
    ASSUME BufferInv, live' = live, twice' = twice, overtaken' = overtaken,
           client' = "freed" <=> client = "freed",
           \A i \in Numbers :
               /\ slot'[i].data = slot[i].data
               /\ slot'[i].active /\ ~slot'[i].done => slot[i].active /\ ~slot[i].done
               /\ slot'[i].error => slot[i].error
    PROVE  BufferInv'
<1>1. Buffers' = Buffers
  BY DEF Buffers
<1>2. \A i \in Numbers : SlotOf(slot'[i].data) = SlotOf(slot[i].data)
  OBVIOUS
<1> HIDE DEF SlotOf, Buffers
<1> QED
  BY <1>1, <1>2 DEF BufferInv

\* A step that frees the buffer of slot i, and forgets it.
LEMMA SlotFreed ==
    ASSUME TypeOK, BufferInv, client # "freed", client' # "freed", overtaken' = overtaken,
           NEW i \in Numbers, FreeAll({slot[i].data}),
           OtherSlots(i), slot'[i].data = Null
    PROVE  ~overtaken => /\ ~twice' /\ live' = Buffers'
                         /\ \A j \in Numbers : slot'[j].data # Null => SlotOf(slot'[j].data) = j
<1> SUFFICES ASSUME ~overtaken
             PROVE  /\ ~twice' /\ live' = Buffers'
                    /\ \A j \in Numbers : slot'[j].data # Null => SlotOf(slot'[j].data) = j
  OBVIOUS
<1> DEFINE d == slot[i].data
<1>1. /\ ~twice /\ live = Buffers
      /\ \A j \in Numbers : slot[j].data # Null => SlotOf(slot[j].data) = j
  BY DEF BufferInv
<1>2. {d} \subseteq live \cup {Null}
  BY <1>1 DEF Buffers
<1>3. \A j \in Numbers : j # i /\ slot[j].data # Null => slot[j].data # d
  BY <1>1
<1>4. Buffers' = Buffers \ {d}
  <2>1. \A j \in Numbers : slot'[j].data # Null <=> slot[j].data \notin {Null, d}
    BY <1>3 DEF OtherSlots
  <2>2. \A j \in Numbers : slot'[j].data # Null => slot'[j].data = slot[j].data
    BY DEF OtherSlots
  <2> HIDE DEF d
  <2> QED
    BY <2>1, <2>2 DEF Buffers
<1>5. live' = live \ {d} /\ ~twice'
  BY <1>1, <1>2 DEF FreeAll
<1> QED
  BY <1>1, <1>4, <1>5 DEF OtherSlots

LEMMA CallerBuffers ==
    ASSUME MemoryInv, NEW t \in All,
           Caller(t) \/ Encode(t) \/ EncodeOneway(t) \/ Close(t)
    PROVE  BufferInv'
<1> USE DEF receiving, application, heap
<1>1. TypeOK /\ CallInv /\ ConnectInv /\ SlotInv /\ HeldInv /\ BufferInv
  BY DEF MemoryInv, CallsHaveSlots, Types
<1>16. client # "freed"
  BY <1>1, NotFreed
<1>2. ASSUME Calling(t), NEW what \in Verdicts, Report(t, what)
      PROVE  client # "freed" /\ client' # "freed"
  <2>1. client' = client \/ client' = "open"
    BY <1>1, <1>2, ReportEffect
  <2> QED
    BY <1>16, <2>1
<1>3. ASSUME Calling(t), NEW what \in Verdicts, Report(t, what), Release(t),
             UNCHANGED <<live, twice, overtaken>>
      PROVE  BufferInv'
  <2> DEFINE i == SlotOf(th[t].id)
  <2>1. i \in Numbers /\ slot[i] \in Slot
    BY <1>1, <1>3, CallSlot, TypeParts
  <2>2. OtherSlots(i) /\ slot'[i] = [slot[i] EXCEPT !.active = FALSE]
    BY <1>1, <1>3, ReleaseEffect
  <2>3. /\ slot'[i].data = slot[i].data /\ slot'[i].active = FALSE
        /\ slot'[i].error = slot[i].error
    BY <2>1, <2>2 DEF Slot
  <2> HIDE DEF i
  <2>4. \A j \in Numbers :
            /\ slot'[j].data = slot[j].data
            /\ slot'[j].active /\ ~slot'[j].done => slot[j].active /\ ~slot[j].done
            /\ slot'[j].error => slot[j].error
    BY <2>2, <2>3 DEF OtherSlots
  <2> QED
    BY <1>1, <1>2, <1>3, <2>4, BuffersKept
<1>4. ASSUME UNCHANGED <<slot, live, twice, overtaken>>, client' = "freed" <=> client = "freed"
      PROVE  BufferInv'
  BY <1>1, <1>4, BuffersKept
<1>5. CASE OpenSocket(t) \/ Connect(t) \/ StartReader(t) \/ Refused(t)
  <2>1. client = "none" /\ client' # "freed" /\ UNCHANGED <<slot, live, twice, overtaken>>
    BY <1>1, <1>5 DEF OpenSocket, Connect, StartReader, Refused, ConnectInv, Starting
  <2> QED
    BY <1>4, <2>1
<1>6. CASE EncodingFails(t)
  <2>1. Calling(t) /\ Report(t, "nomem") /\ UNCHANGED <<slot, live, twice, overtaken>>
    BY <1>6 DEF EncodingFails, Calling, InCall
  <2> QED
    BY <1>2, <1>4, <2>1 DEF Verdicts
<1>7. CASE Claim(t)
  <2> DEFINE i == SlotOf(th[t].id)
  <2>1. th[t].pc = "encoded" /\ Calling(t) /\ overtaken' = overtaken
    BY <1>7 DEF Claim, Calling, InCall
  <2>2. CASE slot[i].active
    <3>1. Report(t, "send") /\ UNCHANGED <<slot, live, twice>>
      BY <1>7, <2>2 DEF Claim
    <3> QED
      BY <1>2, <1>4, <2>1, <3>1 DEF Verdicts
  <2>3. CASE ~slot[i].active
    <3>1. /\ client' = client /\ OtherSlots(i)
          /\ slot'[i] = [active |-> TRUE, done |-> FALSE, error |-> FALSE, data |-> Null, from |-> NoCall]
      BY <1>1, <1>7, <2>3, ClaimEffect
    <3>2. i \in Numbers /\ FreeAll({slot[i].data})
      BY <1>1, <1>7, <2>1, <2>3, CallSlot DEF Claim
    <3>3. client # "freed"
      BY <1>16
    <3>4. slot'[i].data = Null /\ ~slot'[i].error
      BY <3>1
    <3>5. ~overtaken => /\ ~twice' /\ live' = Buffers'
                        /\ \A j \in Numbers : slot'[j].data # Null => SlotOf(slot'[j].data) = j
      BY <1>1, <2>1, <3>1, <3>2, <3>3, <3>4, SlotFreed
    <3> HIDE DEF i
    <3> QED
      BY <1>1, <2>1, <3>1, <3>3, <3>4, <3>5 DEF BufferInv, OtherSlots, SlotOf
  <2> QED
    BY <2>2, <2>3
<1>8. CASE WriteLock(t) \/ Write(t) \/ WriteFails(t) \/ ReturnClosed(t) \/ Encode(t) \/ EncodeOneway(t)
  BY <1>4, <1>8 DEF WriteLock, Write, WriteFails, ReturnClosed, Encode, EncodeOneway
<1>9. CASE Unsent(t)
  BY <1>3, <1>9 DEF Unsent, Calling, InCall, Verdicts
<1>10. CASE Leave(t)
  BY <1>3, <1>10 DEF Leave, Calling, InCall, Verdicts
<1>11. CASE Expire(t)
  BY <1>3, <1>11 DEF Expire, Calling, InCall, Verdicts
<1>12. CASE ReturnResult(t)
  <2> DEFINE i == SlotOf(th[t].id)
  <2>1. /\ Calling(t) /\ Report(t, "ok") /\ overtaken' = overtaken
        /\ FreeAll({slot[i].data}) /\ slot[i].done /\ ~slot[i].error
    BY <1>12 DEF ReturnResult, Mine, Calling, InCall
  <2>2. i \in Numbers
    BY <1>1, <2>1, CallSlot
  <2>3. /\ OtherSlots(i) /\ slot'[i].done = slot[i].done /\ slot'[i].error = slot[i].error
    BY <1>1, <1>12, ReturnResultEffect
  <2>4. slot'[i].data = Null
    <3>1. slot \in [Numbers -> Slot]
      BY <1>1, TypeParts
    <3> QED
      BY <1>12, <2>2, <3>1 DEF ReturnResult, Slot
  <2>5. client # "freed" /\ client' # "freed"
    BY <1>2, <2>1 DEF Verdicts
  <2>6. ~overtaken => /\ ~twice' /\ live' = Buffers'
                      /\ \A j \in Numbers : slot'[j].data # Null => SlotOf(slot'[j].data) = j
    BY <1>1, <2>1, <2>2, <2>3, <2>4, <2>5, SlotFreed
  <2> HIDE DEF i
  <2> QED
    BY <1>1, <2>1, <2>3, <2>4, <2>5, <2>6 DEF BufferInv, OtherSlots, SlotOf
<1>13. CASE ReturnError(t)
  <2> DEFINE i == SlotOf(th[t].id)
  <2>1. /\ Calling(t) /\ slot' = slot /\ client' = client /\ overtaken' = overtaken
        /\ slot[i].error /\ FreeAll({slot[i].data})
    BY <1>13 DEF ReturnError, Mine, Calling, InCall
  <2>2. i \in Numbers
    BY <1>1, <2>1, CallSlot
  <2>3. CASE overtaken
    BY <2>1, <2>3 DEF BufferInv
  <2>4. CASE ~overtaken
    <3>1. slot[i].data = Null
      BY <1>1, <2>1, <2>2, <2>4 DEF BufferInv
    <3>2. Null \notin live
      BY <1>1, IdsAreNats, TypeParts DEF OtherTypes
    <3>3. live' = live /\ twice' = twice
      <4>1. live' = live \ {Null} /\ twice' = (twice \/ ~({Null} \subseteq live \cup {Null}))
        BY <2>1, <3>1 DEF FreeAll
      <4>2. twice \in BOOLEAN
        BY <1>1, TypeParts DEF OtherTypes
      <4> QED
        BY <3>2, <4>1, <4>2
    <3> QED
      BY <1>4, <2>1, <3>3
  <2> QED
    BY <2>3, <2>4
<1>14. CASE Close(t)
  <2>1. UNCHANGED <<slot, live, twice, overtaken>> /\ client' = "closing"
    BY <1>14 DEF Close
  <2> QED
    BY <1>4, <1>16, <2>1
<1>15. CASE Free(t)
  <2>1. /\ th[t].pc = "joining" /\ client' = "freed" /\ slot' = slot /\ overtaken' = overtaken
        /\ FreeAll({slot[i].data : i \in DOMAIN slot})
    BY <1>15 DEF Free
  <2>2. client # "freed"
    BY <1>16
  <2>3. DOMAIN slot = Numbers
    BY <1>1, TypeParts
  <2>4. ~overtaken => live' = {} /\ ~twice'
    <3>1. ~overtaken => ~twice /\ live = {slot[i].data : i \in DOMAIN slot} \ {Null}
      BY <1>1, <2>2, <2>3 DEF BufferInv, Buffers
    <3> QED
      BY <2>1, <3>1 DEF FreeAll
  <2> QED
    BY <1>1, <2>1, <2>4 DEF BufferInv, SlotOf
<1> QED
  BY <1>5, <1>6, <1>7, <1>8, <1>9, <1>10, <1>11, <1>12, <1>13, <1>14, <1>15 DEF Caller

\* What a response brings to the active slot it is for.
LEMMA GiveData ==
    ASSUME TypeOK, NEW message, SlotOf(message.id) \in Numbers,
           NEW data \in Ids \cup {Null}, GiveToActive(message, data)
    PROVE  LET i == SlotOf(message.id) IN
           IF slot[i].active
           THEN /\ slot'[i].data = data
                /\ slot'[i].error => message.as = "error"
                /\ slot'[i].done = TRUE /\ OtherSlots(i)
           ELSE \A j \in Numbers : slot'[j] = slot[j]
<1> DEFINE i == SlotOf(message.id)
<1>1. slot[i] \in Slot /\ slot \in [Numbers -> Slot]
  BY TypeParts
<1>2. CASE slot[i].active
  <2>1. slot' = [slot EXCEPT ![i] = [slot[i] EXCEPT !.done = TRUE, !.error = (message.as = "error"),
                                                    !.data = data, !.from = message.id]]
    BY <1>2 DEF GiveToActive
  <2>2. slot'[i] = [slot[i] EXCEPT !.done = TRUE, !.error = (message.as = "error"),
                                   !.data = data, !.from = message.id]
    BY <1>1, <2>1
  <2>3. OtherSlots(i)
    BY <1>1, <2>1 DEF OtherSlots
  <2>4. slot'[i].data = data /\ slot'[i].error = (message.as = "error") /\ slot'[i].done = TRUE
    BY <1>1, <2>2 DEF Slot
  <2> QED
    BY <1>2, <2>3, <2>4
<1>3. CASE ~slot[i].active
  BY <1>1, <1>3 DEF GiveToActive
<1> QED
  BY <1>2, <1>3

LEMMA RespondBuffers ==
    ASSUME MemoryInv, Respond
    PROVE  BufferInv'
<1> DEFINE message == recv[1].message
           i == SlotOf(message.id)
<1>1. Types /\ TypeOK /\ HeldInv /\ BufferInv
  BY DEF MemoryInv, CallsHaveSlots, Types
<1>2. /\ message.id \in Ids /\ message.id \in Nat /\ i \in Numbers
  BY <1>1, FirstResponse DEF Respond
<1>3. /\ twice' = twice /\ client' = client /\ client # "freed"
      /\ overtaken' = (overtaken \/ (slot[i].active /\ slot[i].done))
  BY <1>1 DEF Respond, Arrived, application, HeldInv, HeldWhileUsed
<1>4. \E data \in Ids \cup {Null} :
          /\ GiveToActive(message, data)
          /\ \/ live' = live /\ (data = Null \/ data = slot[i].data)
             \/ data = message.id /\ live' = live \cup {message.id} /\ slot[i].active /\ message.as = "result"
  <2>1. Null \notin Ids /\ slot[i].data \in Ids \cup {Null}
    BY <1>1, <1>2, IdsAreNats, TypeParts DEF Slot
  <2> QED
    BY <1>2, <2>1 DEF Respond
<1> HIDE DEF message
<1>5. PICK data \in Ids \cup {Null} :
          /\ GiveToActive(message, data)
          /\ \/ live' = live /\ (data = Null \/ data = slot[i].data)
             \/ data = message.id /\ live' = live \cup {message.id} /\ slot[i].active /\ message.as = "result"
  BY <1>4
<1>6. IF slot[i].active
      THEN /\ slot'[i].data = data
           /\ slot'[i].error => message.as = "error"
           /\ slot'[i].done = TRUE /\ OtherSlots(i)
      ELSE \A j \in Numbers : slot'[j] = slot[j]
  BY <1>1, <1>2, <1>5, GiveData
<1>7. CASE ~slot[i].active
  <2>1. \A j \in Numbers : slot'[j] = slot[j]
    BY <1>6, <1>7
  <2>2. live' = live /\ twice' = twice /\ client' = client
    BY <1>3, <1>5, <1>7
  <2>3. CASE overtaken
    BY <1>3, <2>3 DEF BufferInv
  <2>4. CASE ~overtaken
    <3>1. ~overtaken'
      BY <1>3, <1>7, <2>4
    <3>2. Buffers' = Buffers
      BY <2>1 DEF Buffers
    <3> HIDE DEF i
    <3> QED
      BY <1>1, <1>3, <2>1, <2>2, <2>4, <3>1, <3>2 DEF BufferInv, SlotOf
  <2> QED
    BY <2>3, <2>4
<1>8. CASE slot[i].active /\ ~overtaken'
  <2>1. ~overtaken /\ ~slot[i].done
    BY <1>3, <1>8
  <2>2. /\ ~twice /\ live = Buffers /\ slot[i].data = Null
        /\ \A j \in Numbers :
               /\ slot[j].data # Null => SlotOf(slot[j].data) = j
               /\ slot[j].active /\ ~slot[j].done => slot[j].data = Null
               /\ slot[j].error => slot[j].data = Null
    BY <1>1, <1>2, <1>3, <1>8, <2>1 DEF BufferInv
  <2>3. slot'[i].data = data /\ slot'[i].done = TRUE /\ (slot'[i].error => data = Null) /\ OtherSlots(i)
    BY <1>5, <1>6, <1>8, <2>2
  <2>8. \/ data = Null /\ live' = live
        \/ data = message.id /\ live' = live \cup {data}
    BY <1>5, <2>2
  <2>4. Buffers' = Buffers \cup ({data} \ {Null})
    <3> HIDE DEF i
    <3> QED
      BY <1>2, <2>2, <2>3 DEF Buffers, OtherSlots
  <2>5. live' = Buffers'
    <3>1. Null \notin Ids
      BY IdsAreNats
    <3> QED
      BY <1>2, <2>2, <2>4, <2>8, <3>1
  <2>6. data # Null => SlotOf(data) = i
    BY <2>8
  <2>7. \A j \in Numbers :
            /\ slot'[j].data # Null => SlotOf(slot'[j].data) = j
            /\ slot'[j].active /\ ~slot'[j].done => slot'[j].data = Null
            /\ slot'[j].error => slot'[j].data = Null
    <3> HIDE DEF i
    <3> QED
      BY <2>2, <2>3, <2>6 DEF OtherSlots
  <2> QED
    BY <1>3, <2>2, <2>5, <2>7 DEF BufferInv, SlotOf
<1>9. CASE overtaken'
  BY <1>9 DEF BufferInv
<1> QED
  BY <1>7, <1>8, <1>9

LEMMA BufferStep ==
    ASSUME MemoryInv, [Next]_vars
    PROVE  BufferInv'
<1> USE DEF application, receiving, heap
<1>1. TypeOK /\ BufferInv
  BY DEF MemoryInv, CallsHaveSlots, Types
<1>2. ASSUME UNCHANGED <<slot, live, twice, overtaken, client>>
      PROVE  BufferInv'
  BY <1>1, <1>2, BuffersKept
<1>3. CASE UNCHANGED vars
  BY <1>2, <1>3 DEF vars
<1>4. CASE SetCallback
  BY <1>2, <1>4 DEF SetCallback
<1>5. CASE Read \/ ReadIsLost \/ Misread \/ Ignore \/ Notified \/ CallbackReturns \/ ReaderStops
  BY <1>2, <1>5 DEF Read, ReadIsLost, Misread, Ignore, Notified, CallbackReturns, ReaderStops
<1>6. CASE Wake
  <2>1. slot' = [slot EXCEPT ![wake].done = slot[wake].done \/ slot[wake].active]
    BY <1>6 DEF Wake
  <2>2. slot \in [Numbers -> Slot]
    BY <1>1, TypeParts
  <2>3. OtherSlots(wake) /\ wake \in Numbers
    BY <1>1, <1>6, WakeEffect, TypeParts DEF OtherTypes
  <2>4. /\ slot'[wake].active = slot[wake].active /\ slot'[wake].error = slot[wake].error
        /\ slot'[wake].done = (slot[wake].done \/ slot[wake].active)
    BY <1>1, <1>6, WakeEffect
  <2>5. slot'[wake].data = slot[wake].data
    BY <2>1, <2>2, <2>3 DEF Slot
  <2>6. UNCHANGED <<live, twice, overtaken, client>>
    BY <1>6 DEF Wake
  <2>7. \A i \in Numbers :
            /\ slot'[i].data = slot[i].data
            /\ slot'[i].active /\ ~slot'[i].done => slot[i].active /\ ~slot[i].done
            /\ slot'[i].error => slot[i].error
    BY <2>3, <2>4, <2>5 DEF OtherSlots
  <2> QED
    BY <1>1, <2>6, <2>7, BuffersKept
<1>7. CASE Daemon
  BY <1>2, <1>7 DEF Daemon, Serve, ServeOneway, Notify, PeerCloses
<1> QED
  BY <1>3, <1>4, <1>5, <1>6, <1>7, CallerBuffers, RespondBuffers DEF Next, ReaderThread

\* A step of a caller or of the daemon leaves recv_buf alone.
LEMMA RecvKept ==
    ASSUME [Next]_vars, ~(ReaderThread \/ Misread)
    PROVE  recv' = recv /\ capacity' = capacity
<1> USE DEF receiving
<1>1. CASE UNCHANGED vars \/ SetCallback
  BY <1>1 DEF vars, SetCallback
<1>2. ASSUME NEW t \in All, Caller(t) \/ Encode(t) \/ EncodeOneway(t) \/ Close(t)
      PROVE  recv' = recv /\ capacity' = capacity
  <2>1. CASE OpenSocket(t) \/ Connect(t) \/ StartReader(t) \/ Refused(t) \/ EncodingFails(t) \/ Claim(t)
    BY <2>1 DEF OpenSocket, Connect, StartReader, Refused, EncodingFails, Claim
  <2>2. CASE WriteLock(t) \/ Write(t) \/ WriteFails(t) \/ Unsent(t) \/ ReturnResult(t) \/ ReturnError(t)
    BY <2>2 DEF WriteLock, Write, WriteFails, Unsent, ReturnResult, ReturnError
  <2>3. CASE ReturnClosed(t) \/ Leave(t) \/ Expire(t) \/ Free(t)
    BY <2>3 DEF ReturnClosed, Leave, Expire, Free
  <2>4. CASE Encode(t) \/ EncodeOneway(t) \/ Close(t)
    BY <2>4 DEF Encode, EncodeOneway, Close
  <2> QED
    BY <1>2, <2>1, <2>2, <2>3, <2>4 DEF Caller
<1>3. CASE Daemon
  BY <1>3 DEF Daemon, Serve, ServeOneway, Notify, PeerCloses
<1> QED
  BY <1>1, <1>2, <1>3 DEF Next

LEMMA RecvStep ==
    ASSUME Types, RecvInv, [Next]_vars
    PROVE  RecvInv'
<1> USE DEF receiving
<1>1. /\ recv \in Seq(PartsOf(Messages)) /\ fromDaemon \in Seq(PartsOf(Messages))
      /\ Len(recv) \in Nat /\ Len(fromDaemon) \in Nat /\ capacity \in Nat /\ Chunk \in Nat \ {0}
      /\ Parts \in Nat /\ Len(recv) <= capacity /\ (capacity = 0 \/ Chunk <= capacity)
  BY Constants, TypeParts DEF Types, OtherTypes, RecvInv, FitsBuffer
<1>2. ASSUME NEW n \in Nat, n <= Len(recv), recv' = SubSeq(recv, n + 1, Len(recv)), capacity' = capacity
      PROVE  RecvInv'
  <2>1. Len(recv') = Len(recv) - n
    BY <1>1, <1>2, SuffixType
  <2>2. Len(recv') <= capacity'
    BY <1>1, <1>2, <2>1
  <2> QED
    BY <1>1, <1>2, <2>2 DEF RecvInv, FitsBuffer
<1>3. ASSUME recv' = recv, capacity' = capacity
      PROVE  RecvInv'
  BY <1>3 DEF RecvInv, FitsBuffer
<1>4. CASE Read
  <2>1. PICK n \in 1..Chunk :
            /\ Take(n)
            /\ recv' = recv \o SubSeq(fromDaemon, 1, n)
            /\ capacity' = IF Need(n) > capacity THEN Grown ELSE capacity
    BY <1>4 DEF Read
  <2>2. n \in Nat /\ n <= Chunk /\ n <= Len(fromDaemon)
    BY <1>1, <2>1 DEF Take
  <2>3. Len(recv') = Len(recv) + n
    <3>1. Len(SubSeq(fromDaemon, 1, n)) = n
      BY <1>1, <2>2
    <3>2. SubSeq(fromDaemon, 1, n) \in Seq(PartsOf(Messages))
      BY <1>1, <2>2
    <3> QED
      BY <1>1, <2>1, <3>1, <3>2
  <2>4. Len(recv') <= capacity' /\ (capacity' = 0 \/ Chunk <= capacity')
    BY <1>1, <2>1, <2>2, <2>3 DEF Need, Grown
  <2> QED
    BY <2>4 DEF RecvInv, FitsBuffer
<1>5. CASE ReadIsLost
  <2>1. recv' = << >> /\ capacity' = capacity
    BY <1>5 DEF ReadIsLost
  <2> QED
    BY <1>1, <2>1 DEF RecvInv, FitsBuffer
<1>6. CASE Misread
  <2>1. PICK n \in 1..Len(recv) : recv' = SubSeq(recv, n + 1, Len(recv))
    BY <1>6 DEF Misread
  <2> QED
    BY <1>1, <1>2, <1>6, <2>1 DEF Misread
<1>7. CASE Respond \/ Ignore \/ Notified
  <2>1. Whole(recv) /\ recv' = SubSeq(recv, Parts + 1, Len(recv)) /\ capacity' = capacity
    BY <1>7 DEF Respond, Ignore, Notified, Arrived, Processed, AfterFrame
  <2> QED
    BY <1>1, <1>2, <2>1 DEF Whole
<1>8. CASE CallbackReturns \/ ReaderStops \/ Wake
  BY <1>3, <1>8 DEF CallbackReturns, ReaderStops, Wake
<1> QED
  BY <1>3, <1>4, <1>5, <1>6, <1>7, <1>8, RecvKept DEF ReaderThread

\* The inductive invariant of the client's memory.
THEOREM MemoryInvariant == Spec => []MemoryInv
<1>1. Init => MemoryInv
  <2> SUFFICES ASSUME Init PROVE MemoryInv
    OBVIOUS
  <2>1. CallsHaveSlots /\ HeldInv
    BY HeldInit DEF HeldAndSlots
  <2>2. \A i \in Numbers : slot[i].data = Null /\ ~slot[i].active /\ ~slot[i].error
    BY DEF Init, Numbers
  <2>3. Buffers = {}
    BY <2>2 DEF Buffers
  <2>4. BufferInv
    BY <2>2, <2>3 DEF Init, BufferInv
  <2>5. RecvInv
    BY DEF Init, RecvInv, FitsBuffer
  <2> QED
    BY <2>1, <2>4, <2>5 DEF MemoryInv
<1>2. MemoryInv /\ [Next]_vars => MemoryInv'
  BY HeldStep, BufferStep, RecvStep, TypesStep, ConnectStep, CallStep, SlotStep DEF MemoryInv, CallsHaveSlots
<1> QED
  BY <1>1, <1>2, PTL DEF Spec

\* Each response buffer has one owner until it is freed, once, by its call or by
\* kgd_close, unless a second response overtakes the caller of the first; recv_buf is
\* large enough for what is kept in it; the client's memory is gone with it and there
\* until then for the reader, its callbacks and every call, but not for calls of other
\* threads that kgd_close finds on their way.
THEOREM MemoryStaysOwned == Spec => []MemoryIsOwned
<1>1. ASSUME MemoryInv PROVE MemoryIsOwned
  <2>1. TypeOK /\ BufferInv /\ HeldWhileUsed /\ FitsBuffer
    BY <1>1 DEF MemoryInv, CallsHaveSlots, Types, HeldInv, RecvInv
  <2>2. DOMAIN slot = Numbers
    BY <2>1, TypeParts
  <2>3. BuffersHaveOneOwner
    BY <2>1, <2>2 DEF BuffersHaveOneOwner, BufferInv, Buffers
  <2> QED
    BY <2>1, <2>3 DEF MemoryIsOwned
<1>2. MemoryInv => MemoryIsOwned
  BY <1>1
<1> QED
  BY <1>2, MemoryInvariant, PTL
-----------------------------------------------------------------------------
(* Messages                                                                *)

\* A stream of whole messages, the first of which is number first
InOrder(stream, first, left) ==
    /\ Len(stream) = left * Parts
    /\ \A m \in 0..left - 1, p \in 1..Parts :
           LET q == stream[m * Parts + p]
           IN  q.part = p /\ q.message.serial = first + m

MessagesInOrder == InOrder(Stream, handled, Sent - handled)
MessagesInv == CallsInv /\ ("realloc" \notin faults => MessagesInOrder)

\* Where a part of the m-th of n messages is, and where it was a message ago.
LEMMA PartIndex ==
    ASSUME NEW n \in Int, NEW m \in 0..n - 1, NEW p \in 1..Parts
    PROVE  /\ m * Parts + p \in 1..n * Parts
           /\ (m + 1) * Parts + p = m * Parts + p + Parts
<1>1. Parts \in Nat \ {0} /\ m \in Nat /\ n \in Nat
  BY Constants
<1>2. PICK d \in Nat : n = m + 1 + d
  <2>1. n - (m + 1) \in Nat /\ n = m + 1 + (n - (m + 1))
    BY <1>1
  <2> QED
    BY <2>1
<1>3. (m + 1) * Parts = m * Parts + Parts
  BY <1>1
<1>4. n * Parts = m * Parts + Parts + d * Parts
  BY <1>1, <1>2
<1>5. m * Parts \in Nat /\ d * Parts \in Nat
  BY <1>1, <1>2
<1> HIDE <1>2
<1>6. \A x, y, k \in Nat : p <= k /\ p >= 1 => x + p \in 1..x + k + y
  BY <1>1
<1>7. m * Parts + p \in 1..m * Parts + Parts + d * Parts
  BY <1>1, <1>5, <1>6
<1>8. m * Parts + Parts + p = m * Parts + p + Parts
  BY <1>1, <1>5
<1> QED
  BY <1>3, <1>4, <1>7, <1>8

\* The first message is handled.
LEMMA HandledInOrder ==
    ASSUME Types, NEW message, Handled(message), NEW first \in Int, NEW left \in Int,
           InOrder(Stream, first, left), Len(Stream') \in Nat, DOMAIN Stream' = 1..Len(Stream')
    PROVE  InOrder(Stream', first + 1, left - 1)
<1>1. Parts \in Nat \ {0} /\ Len(Stream) \in Nat /\ Len(Stream) = left * Parts
  BY Constants, StreamType DEF InOrder
<1>2. DOMAIN Stream' = 1..Len(Stream) - Parts
  BY DEF Handled, Dropped
<1>3. Len(Stream') = (left - 1) * Parts
  <2>1. Parts \in 1..Parts
    BY <1>1
  <2>2. Parts \in DOMAIN Stream /\ DOMAIN Stream = 1..Len(Stream)
    BY <2>1, StreamType DEF Handled
  <2>3. Len(Stream) - Parts \in Nat
    BY <1>1, <2>2
  <2>4. \A x, y \in Nat : 1..x = 1..y => x = y
    OBVIOUS
  <2>5. Len(Stream') = Len(Stream) - Parts
    BY <1>2, <2>3, <2>4
  <2>6. (left - 1) * Parts = left * Parts - Parts
    BY <1>1
  <2> QED
    BY <1>1, <2>5, <2>6
<1>4. ASSUME NEW m \in 0..(left - 1) - 1, NEW p \in 1..Parts
      PROVE  /\ Stream'[m * Parts + p].part = p
             /\ Stream'[m * Parts + p].message.serial = first + 1 + m
  <2> DEFINE i == m * Parts + p
  <2>1. i \in 1..(left - 1) * Parts /\ (m + 1) * Parts + p = i + Parts
    BY PartIndex
  <2>2. Stream'[i] = Stream[i + Parts]
    BY <1>3, <2>1 DEF Handled, Dropped
  <2>3. m + 1 \in 0..left - 1 /\ first + (m + 1) = first + 1 + m
    OBVIOUS
  <2>4. /\ Stream[(m + 1) * Parts + p].part = p
        /\ Stream[(m + 1) * Parts + p].message.serial = first + (m + 1)
    BY <2>3 DEF InOrder
  <2> QED
    BY <2>1, <2>2, <2>3, <2>4, Zenon
<1> QED
  BY <1>3, <1>4 DEF InOrder

\* A message is sent after the others.
LEMMA SentInOrder ==
    ASSUME Types, NEW message, SendsFrame(message), NEW first \in Int, NEW left \in Int,
           InOrder(Stream, first, left), Len(Stream') \in Nat, DOMAIN Stream' = 1..Len(Stream'),
           message.serial = first + left
    PROVE  InOrder(Stream', first, left + 1)
<1>1. Parts \in Nat \ {0} /\ Len(Stream) \in Nat /\ Len(Stream) = left * Parts
  BY Constants, StreamType DEF InOrder
<1>2. Len(Stream') = (left + 1) * Parts
  <2>1. \A x, y \in Nat : 1..x = 1..y => x = y
    OBVIOUS
  <2>2. Len(Stream') = Len(Stream) + Parts
    BY <1>1, <2>1 DEF SendsFrame
  <2>3. (left + 1) * Parts = left * Parts + Parts
    BY <1>1
  <2> QED
    BY <1>1, <2>2, <2>3
<1>3. ASSUME NEW m \in 0..(left + 1) - 1, NEW p \in 1..Parts
      PROVE  /\ Stream'[m * Parts + p].part = p
             /\ Stream'[m * Parts + p].message.serial = first + m
  <2>1. CASE m = left
    <3>1. Stream'[m * Parts + p] = [message |-> message, part |-> p]
      BY <1>1, <2>1 DEF SendsFrame
    <3> QED
      BY <2>1, <3>1
  <2>2. CASE m # left
    <3>1. m \in 0..left - 1
      BY <2>2
    <3>2. m * Parts + p \in DOMAIN Stream
      BY <1>1, <3>1, PartIndex, StreamType
    <3>3. Stream'[m * Parts + p] = Stream[m * Parts + p]
      BY <3>2 DEF SendsFrame
    <3> QED
      BY <3>1, <3>3 DEF InOrder
  <2> QED
    BY <2>1, <2>2
<1> QED
  BY <1>2, <1>3 DEF InOrder

\* The daemon sends a message: it has the number of those sent before.
LEMMA SendMessage ==
    ASSUME Types, Types', NEW message \in Messages, message.serial = Sent,
           recv' = recv, fromDaemon' = fromDaemon \o FrameOf(message),
           Sent' = Sent + 1, handled' = handled,
           MessagesInOrder
    PROVE  MessagesInOrder'
<1>1. InOrder(Stream, handled, Sent - handled)
  BY DEF MessagesInOrder
<1>2. SendsFrame(message)
  BY SendStream DEF SendsFrame
<1>3. Sent \in Int /\ handled \in Int
  <2>1. TypeOK
    BY DEF Types
  <2>2. Sent \in Nat
    BY <2>1, SentType
  <2>3. handled \in Nat
    BY <2>1 DEF TypeOK
  <2> QED
    BY <2>2, <2>3
<1>4. Len(Stream') \in Nat /\ DOMAIN Stream' = 1..Len(Stream')
  <2>1. recv' \in Seq(PartsOf(Messages)) /\ fromDaemon' \in Seq(PartsOf(Messages))
    BY DEF Types
  <2> QED
    BY <2>1 DEF Stream
<1>5. message.serial = handled + (Sent - handled) /\ Sent' - handled' = (Sent - handled) + 1
  BY <1>3
<1>6. InOrder(Stream', handled, (Sent - handled) + 1)
  BY <1>1, <1>3, <1>4, <1>5, <1>2, SentInOrder
<1> QED
  BY <1>5, <1>6, Zenon DEF MessagesInOrder

\* The reader hands a message to process_message.
LEMMA HandleMessage ==
    ASSUME Types, Types', Whole(recv), Processed, fromDaemon' = fromDaemon, Sent' = Sent,
           MessagesInOrder
    PROVE  MessagesInOrder'
<1>1. InOrder(Stream, handled, Sent - handled)
  BY DEF MessagesInOrder
<1>2. Handled(recv[1].message)
  BY HandleStream DEF Handled
<1>3. Sent \in Int /\ handled \in Int
  <2>1. TypeOK
    BY DEF Types
  <2>2. Sent \in Nat
    BY <2>1, SentType
  <2>3. handled \in Nat
    BY <2>1 DEF TypeOK
  <2> QED
    BY <2>2, <2>3
<1>4. Len(Stream') \in Nat /\ DOMAIN Stream' = 1..Len(Stream')
  <2>1. recv' \in Seq(PartsOf(Messages)) /\ fromDaemon' \in Seq(PartsOf(Messages))
    BY DEF Types
  <2> QED
    BY <2>1 DEF Stream
<1>5. handled' = handled + 1 /\ Sent' - handled' = (Sent - handled) - 1
  BY <1>3 DEF Processed
<1>6. InOrder(Stream', handled + 1, (Sent - handled) - 1)
  BY <1>1, <1>3, <1>4, <1>2, HandledInOrder
<1> QED
  BY <1>5, <1>6, Zenon DEF MessagesInOrder

LEMMA AnsweredFinite ==
    ASSUME TypeOK
    PROVE  IsFiniteSet(answered)
<1>1. answered \subseteq 0..MaxCalls - 1
  BY TypeParts DEF OtherTypes, Ids
<1>2. IsFiniteSet(0..MaxCalls - 1)
  BY FS_Interval, Constants
<1> QED
  BY <1>1, <1>2, FS_Subset

\* An answer is the first to its call, and so one more.
LEMMA ServeSends ==
    ASSUME CallsInv, Serve
    PROVE  Sent' = Sent + 1
<1> DEFINE id == toDaemon[1].message.id
<1>1. Types /\ TypeOK
  BY DEF CallsInv, Types
<1>2. 1 \in DOMAIN toDaemon /\ toDaemon[1].message.type = "call"
  BY <1>1, FirstRequest DEF Serve, TakesFrame, Types
<1>3. id \notin answered
  BY <1>2 DEF CallsInv, RequestInv
<1>4. IsFiniteSet(answered)
  BY <1>1, AnsweredFinite
<1>5. answered' = answered \cup {id} /\ notes' = notes
  BY DEF Serve
<1> HIDE DEF id
<1>6. Cardinality(answered \cup {id}) = Cardinality(answered) + 1 /\ Cardinality(answered) \in Nat
  BY <1>3, <1>4, FS_AddElement, FS_CardinalityType
<1>7. notes \in Nat
  BY <1>1, Constants, TypeParts DEF OtherTypes
<1> QED
  BY <1>5, <1>6, <1>7 DEF Sent

\* What has gone wrong stays so.
LEMMA FaultsGrow ==
    ASSUME [Next]_vars
    PROVE  faults \subseteq faults'
<1> USE DEF Fault
<1>1. CASE UNCHANGED vars \/ SetCallback
  BY <1>1 DEF vars, SetCallback
<1>2. ASSUME NEW t \in All, Caller(t) \/ Encode(t) \/ EncodeOneway(t) \/ Close(t)
      PROVE  faults \subseteq faults'
  <2>1. CASE OpenSocket(t) \/ Connect(t) \/ StartReader(t) \/ Refused(t) \/ EncodingFails(t) \/ Claim(t)
    BY <2>1 DEF OpenSocket, Connect, StartReader, Refused, EncodingFails, Claim
  <2>2. CASE WriteLock(t) \/ Write(t) \/ WriteFails(t) \/ Unsent(t) \/ ReturnResult(t) \/ ReturnError(t)
    BY <2>2 DEF WriteLock, Write, WriteFails, Unsent, ReturnResult, ReturnError
  <2>3. CASE ReturnClosed(t) \/ Leave(t) \/ Expire(t) \/ Free(t)
    BY <2>3 DEF ReturnClosed, Leave, Expire, Free
  <2>4. CASE Encode(t) \/ EncodeOneway(t) \/ Close(t)
    BY <2>4 DEF Encode, EncodeOneway, Close
  <2> QED
    BY <1>2, <2>1, <2>2, <2>3, <2>4 DEF Caller
<1>3. CASE ReaderThread \/ Misread
  BY <1>3 DEF ReaderThread, Read, ReadIsLost, Misread, Respond, Ignore, Notified, CallbackReturns, ReaderStops, Wake
<1>4. CASE Daemon
  BY <1>4 DEF Daemon, Serve, ServeOneway, Notify, PeerCloses
<1> QED
  BY <1>1, <1>2, <1>3, <1>4 DEF Next

LEMMA MessagesStep ==
    ASSUME MessagesInv, [Next]_vars
    PROVE  MessagesInv'
<1> USE DEF daemon, receiving, application
<1>12. CallsInv' /\ Types /\ Types' /\ TypeOK
  BY CallsStep DEF MessagesInv, CallsInv, Types
<1> SUFFICES ASSUME "realloc" \notin faults'
             PROVE  MessagesInOrder'
  BY <1>12 DEF MessagesInv
<1>1. CallsInv' /\ Types /\ Types' /\ TypeOK /\ MessagesInOrder
  BY <1>12, FaultsGrow DEF MessagesInv
<1>11. ASSUME Stream' = Stream, answered' = answered, notes' = notes, handled' = handled
       PROVE  MessagesInOrder'
  <2>1. Sent' = Sent
    BY <1>11 DEF Sent
  <2> QED
    BY <1>1, <1>11, <2>1, Zenon DEF MessagesInOrder
<1>2. ASSUME recv' = recv, fromDaemon' = fromDaemon, answered' = answered, notes' = notes, handled' = handled
      PROVE  MessagesInOrder'
  <2>1. Stream' = Stream
    BY <1>2, Zenon DEF Stream
  <2> QED
    BY <1>2, <1>11, <2>1, Zenon
<1>3. CASE UNCHANGED vars
  BY <1>2, <1>3 DEF vars
<1>4. CASE SetCallback \/ ServeOneway \/ PeerCloses \/ CallbackReturns \/ ReaderStops \/ Wake
  BY <1>2, <1>4 DEF SetCallback, ServeOneway, PeerCloses, CallbackReturns, ReaderStops, Wake
<1>5. ASSUME NEW t \in All, Caller(t) \/ Encode(t) \/ EncodeOneway(t) \/ Close(t)
      PROVE  MessagesInOrder'
  <2>1. CASE OpenSocket(t) \/ Connect(t) \/ StartReader(t) \/ Refused(t) \/ EncodingFails(t) \/ Claim(t)
    BY <1>2, <2>1 DEF OpenSocket, Connect, StartReader, Refused, EncodingFails, Claim
  <2>2. CASE WriteLock(t) \/ Write(t) \/ WriteFails(t) \/ Unsent(t) \/ ReturnResult(t) \/ ReturnError(t)
    BY <1>2, <2>2 DEF WriteLock, Write, WriteFails, Unsent, ReturnResult, ReturnError
  <2>3. CASE ReturnClosed(t) \/ Leave(t) \/ Expire(t) \/ Free(t)
    BY <1>2, <2>3 DEF ReturnClosed, Leave, Expire, Free
  <2>4. CASE Encode(t) \/ EncodeOneway(t) \/ Close(t)
    BY <1>2, <2>4 DEF Encode, EncodeOneway, Close
  <2> QED
    BY <1>5, <2>1, <2>2, <2>3, <2>4 DEF Caller
<1>6. CASE Read
  BY <1>1, <1>11, <1>6, ReadStream DEF Read
<1>13. CASE ReadIsLost
  BY <1>13 DEF ReadIsLost, Fault
<1>14. CASE Misread
  <2> DEFINE left == Sent - handled
  <2>1. /\ Len(Stream) = left * Parts /\ left \in Int /\ Parts \in Nat \ {0}
        /\ \A m \in 0..left - 1, p \in 1..Parts : Stream[m * Parts + p].part = p
    <3>1. Sent \in Nat /\ handled \in Nat
      BY <1>1, SentType DEF TypeOK
    <3>2. left \in Int /\ Parts \in Nat \ {0}
      BY <3>1, Constants
    <3>3. InOrder(Stream, handled, left)
      BY <1>1 DEF MessagesInOrder
    <3> HIDE DEF left, Stream
    <3> QED
      BY <3>2, <3>3 DEF InOrder
  <2>2. Len(recv) >= 1 /\ Len(Stream) >= 1 /\ Stream[1] = recv[1]
    <3>1. PICK n \in 1..Len(recv) : recv' = SubSeq(recv, n + 1, Len(recv))
      BY <1>14 DEF Misread
    <3>2. Len(recv) \in Nat /\ Len(fromDaemon) \in Nat /\ Len(Stream) = Len(recv) + Len(fromDaemon)
          /\ \A i \in 1..Len(recv) : Stream[i] = recv[i]
      BY <1>1, StreamType
    <3>3. Len(recv) >= 1 /\ 1 \in 1..Len(recv)
      BY <3>1, <3>2
    <3> HIDE DEF Stream
    <3> QED
      BY <3>2, <3>3
  <2> HIDE DEF left
  <2>3. left >= 1
    BY <2>1, <2>2
  <2>4. Stream[0 * Parts + 1].part = 1
    <3>1. 0 \in 0..left - 1 /\ 1 \in 1..Parts
      BY <2>1, <2>3
    <3> QED
      BY <2>1, <3>1
  <2>5. 0 * Parts + 1 = 1
    BY <2>1
  <2> QED
    BY <1>14, <2>2, <2>4, <2>5 DEF Misread
<1>7. CASE Respond \/ Ignore \/ Notified
  <2>1. Whole(recv) /\ Processed /\ fromDaemon' = fromDaemon /\ answered' = answered /\ notes' = notes
    BY <1>7 DEF Respond, Ignore, Notified, Arrived
  <2>2. Sent' = Sent
    BY <2>1 DEF Sent
  <2> QED
    BY <1>1, <2>1, <2>2, HandleMessage
<1>8. CASE Serve
  <2> DEFINE id == toDaemon[1].message.id
  <2>1. /\ recv' = recv /\ handled' = handled
        /\ \E as \in {"result", "error", "malformed"} : fromDaemon' = fromDaemon \o FrameOf(Response(id, as))
        /\ id \in Ids
    BY <1>1, <1>8, FirstRequest DEF Serve, TakesFrame
  <2>2. \A as \in {"result", "error", "malformed"} :
            Response(id, as) \in Messages /\ Response(id, as).serial = Sent
    BY <1>1, <2>1, SentType DEF Response, Messages
  <2>3. PICK message \in Messages : message.serial = Sent /\ fromDaemon' = fromDaemon \o FrameOf(message)
    BY <2>1, <2>2
  <2>4. Sent' = Sent + 1
    BY <1>8, ServeSends DEF MessagesInv
  <2> QED
    BY <1>1, <2>1, <2>3, <2>4, SendMessage
<1>9. CASE Notify
  <2>1. Note \in Messages /\ Note.serial = Sent
    BY <1>1, SentType DEF Note, Messages
  <2>2. recv' = recv /\ handled' = handled /\ fromDaemon' = fromDaemon \o FrameOf(Note)
    BY <1>9 DEF Notify
  <2>3. answered' = answered /\ notes' = notes + 1
    BY <1>9 DEF Notify
  <2>4. Sent' = Sent + 1
    <3>1. Sent \in Nat /\ notes \in Nat
      BY <1>1, Constants, SentType, TypeParts DEF OtherTypes
    <3>2. Cardinality(answered) \in Nat
      BY <1>1, AnsweredFinite, FS_CardinalityType
    <3> QED
      BY <2>3, <3>1, <3>2 DEF Sent
  <2> QED
    BY <1>1, <2>1, <2>2, <2>4, SendMessage
<1> QED
  BY <1>3, <1>4, <1>5, <1>6, <1>7, <1>8, <1>9, <1>13, <1>14 DEF Next, ReaderThread, Daemon

\* Until recv_buf cannot grow, process_message is given every message of the daemon
\* once and in order: what reader_thread leaves in it after the messages it has handled
\* is the beginning of the next one, wherever its reads cut the stream.
THEOREM MessagesAreHandledInOrder == Spec => []EveryMessageHandled
<1>1. Init => MessagesInv
  <2> SUFFICES ASSUME Init PROVE MessagesInv
    OBVIOUS
  <2>1. CallsInv
    BY CallsInit
  <2>2. recv = << >> /\ fromDaemon = << >> /\ handled = 0 /\ answered = {} /\ notes = 0
    BY DEF Init
  <2>3. Sent - handled = 0
    BY <2>2, FS_EmptySet DEF Sent
  <2>4. Len(Stream) = 0
    BY <2>2 DEF Stream
  <2>5. 0 * Parts = 0 /\ 0..0 - 1 = {}
    BY Constants
  <2>6. InOrder(Stream, handled, 0)
    BY <2>4, <2>5 DEF InOrder
  <2> QED
    BY <2>1, <2>3, <2>6 DEF MessagesInv, MessagesInOrder
<1>2. MessagesInv /\ [Next]_vars => MessagesInv'
  BY MessagesStep
<1>3. MessagesInv => EveryMessageHandled
  BY DEF MessagesInv, MessagesInOrder, InOrder, Stream, EveryMessageHandled
<1> QED
  BY <1>1, <1>2, <1>3, PTL DEF Spec
=============================================================================
