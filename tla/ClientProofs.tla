---------------------------- MODULE ClientProofs ----------------------------
(***************************************************************************)
(* Proofs about the client libraries' calls, for every profile at once, any *)
(* number of callers, slots, calls and notifications.                      *)
(***************************************************************************)
EXTENDS Client, TLAPS

USE DEF Slotted

Busy(c) == pc[c] # "idle"

\* A call in progress has an id that was given out
Begun == \A c \in Callers : Busy(c) => cur[c] \in 0..nextId - 1

TypeInv == TypeOK /\ Begun

-----------------------------------------------------------------------------
(* Type correctness.                                                        *)

\* A message id leads to an entry of the table.
LEMMA KeyType ==
    ASSUME lib \in Libraries, NEW id \in Ids
    PROVE  Key(id) \in Keys
<1>1. lib.slots \in 0..MaxPending /\ MaxPending \in Nat /\ id \in Nat
  BY ClientAssumption DEF Profile, Ids
<1>2. CASE Slotted
  <2>1. id % lib.slots \in 0..lib.slots - 1
    BY <1>1, <1>2
  <2> QED
    BY <1>1, <1>2, <2>1 DEF Key, Keys, Slots
<1>3. CASE ~Slotted
  BY <1>3 DEF Key, Keys
<1> QED
  BY <1>2, <1>3

\* The id of a call in progress is an id.
LEMMA BegunIds ==
    ASSUME TypeInv, NEW c \in Callers, Busy(c)
    PROVE  cur[c] \in Ids
BY ClientAssumption DEF TypeInv, TypeOK, Begun, Ids

\* Ending a call keeps the types.
LEMMA FinishType ==
    ASSUME TypeInv, NEW c \in Callers, NEW what \in Outcomes, Finish(c, what)
    PROVE  /\ pc' \in [Callers -> {"idle", "registered", "waiting"}]
           /\ cur' = cur /\ replyTo' = replyTo
           /\ reply' \in [Callers -> {"none", "answer", "lost"}]
           /\ expired' \subseteq Callers
           /\ results' \subseteq Ids
           /\ outcome' \in [Ids -> Outcomes] /\ source' \in [Ids -> Nat]
           /\ \A d \in Callers : Busy(d)' => Busy(d)
<1>1. replyTo[c] \in Nat
  BY DEF TypeInv, TypeOK
<1>2. outcome' \in [Ids -> Outcomes] /\ source' \in [Ids -> Nat]
  BY <1>1 DEF TypeInv, TypeOK, Finish
<1>3. results' \subseteq Ids /\ expired' \subseteq Callers
  BY DEF TypeInv, TypeOK, Finish
<1>4. \A d \in Callers : Busy(d)' => Busy(d)
  BY DEF TypeInv, TypeOK, Finish, Busy
<1> QED
  BY <1>2, <1>3, <1>4 DEF TypeInv, TypeOK, Finish

\* Removing an entry, or all of them, leaves a table.
LEMMA ForgetType ==
    ASSUME TypeOK, NEW c \in Callers, Forget(c)
    PROVE  pending' \in [Keys -> Callers \cup {NoCaller}]
BY DEF TypeOK, Forget

LEMMA GiveUpType ==
    ASSUME TypeInv, NEW c \in Callers, NEW what \in Outcomes, GiveUp(c, what)
    PROVE  Finish(c, what) /\ pending' \in [Keys -> Callers \cup {NoCaller}]
<1>1. CASE lib.cleans
  BY <1>1, ForgetType DEF GiveUp, TypeInv
<1>2. CASE ~lib.cleans
  BY <1>2 DEF GiveUp, TypeInv, TypeOK
<1> QED
  BY <1>1, <1>2

\* Waking everybody keeps the types.
LEMMA WakeAllType ==
    ASSUME TypeOK, WakeAll
    PROVE  /\ pc' = pc /\ cur' = cur /\ replyTo' = replyTo /\ expired' = expired
           /\ results' = results
           /\ reply' \in [Callers -> {"none", "answer", "lost"}]
           /\ pending' \in [Keys -> Callers \cup {NoCaller}]
BY DEF TypeOK, WakeAll

\* What a call reports is an outcome.
LEMMA ReportsType ==
    ASSUME TypeOK, NEW c \in Callers
    PROVE  Reports(c) \subseteq Outcomes
<1>1. lib.lost \in {"closed", "timeout", "success"}
  BY ClientAssumption DEF TypeOK, Profile
<1> QED
  BY <1>1 DEF Reports, Outcomes

\* The message at the head is one of those the daemon sends.
LEMMA HeadType ==
    ASSUME TypeOK, responses # << >>
    PROVE  /\ Head(responses) \in {Note} \cup {Response(id) : id \in Ids}
           /\ Tail(responses) \in Seq({Note} \cup {Response(id) : id \in Ids})
BY DEF TypeOK

LEMMA ResponseType ==
    ASSUME TypeOK, responses # << >>, Head(responses).type = "response"
    PROVE  Head(responses).id \in Ids
BY HeadType DEF Note, Response

\* The callers' steps keep the types.
LEMMA CallerType ==
    ASSUME TypeInv, NEW c \in Callers, Register(c) \/ Send(c) \/ Return(c) \/ Expire(c)
    PROVE  TypeInv'
<1>1. CASE Register(c)
  <2>1. nextId \in Ids /\ nextId' = nextId + 1 /\ nextId' \in 0..MaxCalls
    BY <1>1, ClientAssumption DEF TypeInv, TypeOK, Register, Ids
  <2>2. CASE pending[Key(nextId)] # NoCaller
    <3>1. outcome' \in [Ids -> Outcomes]
      BY <1>1, <2>2, <2>1 DEF TypeInv, TypeOK, Register, Outcomes
    <3>2. TypeOK'
      BY <1>1, <2>1, <2>2, <3>1 DEF TypeInv, TypeOK, Register, wire
    <3>3. Begun'
      BY <1>1, <2>1, <2>2, ClientAssumption DEF TypeInv, TypeOK, Register, Begun, Busy, Ids
    <3> QED
      BY <3>2, <3>3 DEF TypeInv
  <2>3. CASE pending[Key(nextId)] = NoCaller
    <3>1. /\ pc' \in [Callers -> {"idle", "registered", "waiting"}]
          /\ cur' \in [Callers -> Nat]
          /\ pending' \in [Keys -> Callers \cup {NoCaller}]
          /\ outcome' = outcome
      <4>1. nextId \in Nat
        BY <2>1, ClientAssumption DEF Ids
      <4>2. cur' \in [Callers -> Nat]
        BY <1>1, <2>3, <4>1 DEF TypeInv, TypeOK, Register
      <4>3. pc' \in [Callers -> {"idle", "registered", "waiting"}] /\ outcome' = outcome
        BY <1>1, <2>3 DEF TypeInv, TypeOK, Register
      <4>4. pending' \in [Keys -> Callers \cup {NoCaller}]
        BY <1>1, <2>3 DEF TypeInv, TypeOK, Register
      <4> QED
        BY <4>2, <4>3, <4>4
    <3>2. TypeOK'
      BY <1>1, <2>1, <3>1 DEF TypeInv, TypeOK, Register, wire
    <3>3. Begun'
      <4>1. /\ cur' = [cur EXCEPT ![c] = nextId] /\ pc' = [pc EXCEPT ![c] = "registered"]
            /\ nextId \in Nat /\ nextId' = nextId + 1
        BY <1>1, <2>1, <2>3, ClientAssumption DEF Register, Ids
      <4>2. \A d \in Callers \ {c} : cur'[d] = cur[d] /\ Busy(d)' = Busy(d)
        BY <4>1 DEF TypeInv, TypeOK, Busy
      <4>3. cur'[c] = nextId
        BY <4>1 DEF TypeInv, TypeOK
      <4> QED
        BY <4>1, <4>2, <4>3 DEF TypeInv, Begun
    <3> QED
      BY <3>2, <3>3 DEF TypeInv
  <2> QED
    BY <2>2, <2>3
<1>2. ASSUME NEW what \in Outcomes, Finish(c, what),
             pending' \in [Keys -> Callers \cup {NoCaller}],
             UNCHANGED <<lib, nextId, requests, responses, answered, notes, peer, closing,
                         reader, inCallback>>
      PROVE  TypeInv'
  <2>1. TypeOK'
    BY <1>2, FinishType DEF TypeInv, TypeOK
  <2>2. Begun'
    BY <1>2, FinishType DEF TypeInv, Begun, Busy
  <2> QED
    BY <2>1, <2>2 DEF TypeInv
<1>3. CASE Send(c)
  <2>1. CASE WriteFails
    <3>1. GiveUp(c, "failed")
      BY <1>3, <2>1 DEF Send
    <3>2. "failed" \in Outcomes
      BY DEF Outcomes
    <3>3. Finish(c, "failed") /\ pending' \in [Keys -> Callers \cup {NoCaller}]
      BY <3>1, <3>2, GiveUpType
    <3> QED
      BY <1>2, <1>3, <2>1, <3>2, <3>3 DEF Send
  <2>2. CASE ~WriteFails
    <3>1. cur[c] \in Ids
      BY <1>3, BegunIds DEF Send, Busy
    <3>2. requests' \in Seq(Ids) /\ pc' \in [Callers -> {"idle", "registered", "waiting"}]
      <4>1. requests' = Append(requests, cur[c]) /\ requests \in Seq(Ids)
        BY <1>3, <2>2 DEF TypeInv, TypeOK, Send
      <4>2. requests' \in Seq(Ids)
        BY <3>1, <4>1
      <4>3. pc' \in [Callers -> {"idle", "registered", "waiting"}]
        BY <1>3, <2>2 DEF TypeInv, TypeOK, Send
      <4> QED
        BY <4>2, <4>3
    <3>3. TypeOK'
      BY <1>3, <2>2, <3>2 DEF TypeInv, TypeOK, Send, table, told
    <3>4. Begun'
      BY <1>3, <2>2 DEF TypeInv, TypeOK, Send, Begun, Busy
    <3> QED
      BY <3>3, <3>4 DEF TypeInv
  <2> QED
    BY <2>1, <2>2
<1>4. CASE Return(c)
  <2>1. PICK what \in Reports(c) : Finish(c, what)
    BY <1>4 DEF Return
  <2>2. what \in Outcomes
    BY <2>1, ReportsType DEF TypeInv
  <2>3. pending' \in [Keys -> Callers \cup {NoCaller}]
    BY <1>4, ForgetType DEF Return, TypeInv
  <2> QED
    BY <1>2, <1>4, <2>1, <2>2, <2>3 DEF Return, wire
<1>5. CASE Expire(c)
  <2>1. CASE lib.timer = "waits"
    <3>1. TypeOK'
      BY <1>5, <2>1 DEF TypeInv, TypeOK, Expire, wire, table, told
    <3>2. Begun'
      BY <1>5, <2>1 DEF TypeInv, Expire, Begun, Busy
    <3> QED
      BY <3>1, <3>2 DEF TypeInv
  <2>2. CASE lib.timer # "waits"
    <3>1. GiveUp(c, "timeout") /\ "timeout" \in Outcomes
      BY <1>5, <2>2 DEF Expire, Outcomes
    <3>2. Finish(c, "timeout") /\ pending' \in [Keys -> Callers \cup {NoCaller}]
      BY <3>1, GiveUpType
    <3> QED
      BY <1>2, <1>5, <3>1, <3>2 DEF Expire, wire
  <2> QED
    BY <2>1, <2>2
<1> QED
  BY <1>1, <1>3, <1>4, <1>5

\* The steps of the reader and of close keep the types.
LEMMA ReaderType ==
    ASSUME TypeInv,
           \/ Receive \/ CallbackReturns \/ CallbackRaises \/ ReaderEnds
           \/ ReaderCancelled \/ Close \/ \E c \in Callers : Callback(c)
    PROVE  TypeInv'
<1> DEFINE Messages == {Note} \cup {Response(id) : id \in Ids}
<1>1. CASE Receive
  <2> DEFINE id == Head(responses).id
  <2>1. id \in Ids /\ Tail(responses) \in Seq(Messages)
    BY <1>1, ResponseType, HeadType DEF TypeInv, Receive
  <2>2. id \in Nat
    BY <2>1, ClientAssumption DEF Ids
  <2>3. replyTo' \in [Callers -> Nat]
    BY <1>1, <2>2 DEF TypeInv, TypeOK, Receive
  <2>4. reply' \in [Callers -> {"none", "answer", "lost"}]
    BY <1>1 DEF TypeInv, TypeOK, Receive
  <2>5. pending' \in [Keys -> Callers \cup {NoCaller}]
    BY <1>1 DEF TypeInv, TypeOK, Receive
  <2>6. results' \subseteq Ids
    BY <1>1, <2>1 DEF TypeInv, TypeOK, Receive
  <2>7. responses' \in Seq(Messages)
    BY <1>1, <2>1 DEF Receive
  <2>8. TypeOK'
    BY <1>1, <2>3, <2>4, <2>5, <2>6, <2>7 DEF TypeInv, TypeOK, Receive, told
  <2>9. Begun'
    BY <1>1 DEF TypeInv, Begun, Busy, Receive
  <2> QED
    BY <2>8, <2>9 DEF TypeInv
<1>2. CASE CallbackReturns
  <2>1. TypeOK'
    BY <1>2 DEF TypeInv, TypeOK, CallbackReturns, callers, table, wire, told
  <2>2. Begun'
    BY <1>2 DEF TypeInv, Begun, Busy, CallbackReturns, callers
  <2> QED
    BY <2>1, <2>2 DEF TypeInv
<1>3. ASSUME NEW c \in Callers, Callback(c)
      PROVE  TypeInv'
  <2>1. responses' \in Seq(Messages)
    BY <1>3, HeadType DEF TypeInv, Callback
  <2>2. TypeOK'
    BY <1>3, <2>1 DEF TypeInv, TypeOK, Callback, callers, table, told
  <2>3. Begun'
    BY <1>3 DEF TypeInv, Begun, Busy, Callback, callers
  <2> QED
    BY <2>2, <2>3 DEF TypeInv
<1>4. ASSUME WakeAll, responses' \in Seq(Messages),
             reader' \in {"running", "ended", "failed", "died"}, closing' \in BOOLEAN,
             inCallback' \in Callers \cup {NoCaller},
             UNCHANGED <<lib, nextId, requests, answered, notes, peer, told>>
      PROVE  TypeInv'
  <2>1. TypeOK'
    BY <1>4, WakeAllType DEF TypeInv, TypeOK, told
  <2>2. Begun'
    BY <1>4, WakeAllType DEF TypeInv, Begun, Busy
  <2> QED
    BY <2>1, <2>2 DEF TypeInv
<1>5. << >> \in Seq(Messages) /\ responses \in Seq(Messages)
  BY DEF TypeInv, TypeOK
<1>6. CASE CallbackRaises
  <2>1. inCallback' \in Callers \cup {NoCaller}
    BY <1>6 DEF CallbackRaises
  <2>2. CASE reader' = "failed" /\ WakeAll /\ UNCHANGED <<responses, told>>
    BY <1>4, <1>5, <1>6, <2>1, <2>2 DEF CallbackRaises, TypeInv, TypeOK
  <2>3. CASE reader' = "died" /\ UNCHANGED <<callers, table, responses, told>>
    <3>1. TypeOK'
      BY <1>6, <2>1, <2>3 DEF CallbackRaises, TypeInv, TypeOK, callers, table, told
    <3>2. Begun'
      BY <1>6, <2>3 DEF CallbackRaises, TypeInv, Begun, Busy, callers
    <3> QED
      BY <3>1, <3>2 DEF TypeInv
  <2>4. ASSUME NEW n \in 0..Len(responses), responses' = SubSeq(responses, n + 1, Len(responses)),
               UNCHANGED <<pending, reader>>,
               \/ \E c \in Callers : pc[c] = "waiting" /\ Finish(c, "raised")
               \/ UNCHANGED <<callers, results, told>>
        PROVE  TypeInv'
    <3>1. responses' \in Seq(Messages)
      BY <1>5, <2>4
    <3>2. CASE UNCHANGED <<callers, results, told>>
      <4>1. TypeOK'
        BY <1>6, <2>1, <2>4, <3>1, <3>2 DEF CallbackRaises, TypeInv, TypeOK, callers, told
      <4>2. Begun'
        BY <1>6, <3>2 DEF CallbackRaises, TypeInv, Begun, Busy, callers
      <4> QED
        BY <4>1, <4>2 DEF TypeInv
    <3>3. ASSUME NEW c \in Callers, Finish(c, "raised")
          PROVE  TypeInv'
      <4>1. "raised" \in Outcomes
        BY DEF Outcomes
      <4>2. TypeOK'
        BY <1>6, <2>1, <2>4, <3>1, <3>3, <4>1, FinishType DEF CallbackRaises, TypeInv, TypeOK
      <4>3. Begun'
        BY <1>6, <3>3, <4>1, FinishType DEF CallbackRaises, TypeInv, Begun, Busy
      <4> QED
        BY <4>2, <4>3 DEF TypeInv
    <3> QED
      BY <2>4, <3>2, <3>3
  <2> QED
    BY <1>6, <2>2, <2>3, <2>4 DEF CallbackRaises
<1>7. CASE ReaderEnds
  BY <1>4, <1>5, <1>7 DEF ReaderEnds, TypeInv, TypeOK
<1>8. CASE ReaderCancelled
  <2>1. TypeOK'
    BY <1>5, <1>8 DEF TypeInv, TypeOK, ReaderCancelled, callers, table, told
  <2>2. Begun'
    BY <1>8 DEF TypeInv, Begun, Busy, ReaderCancelled, callers
  <2> QED
    BY <2>1, <2>2 DEF TypeInv
<1>9. CASE Close
  <2>1. CASE lib.close = "wakes"
    <3>1. reader' \in {"running", "ended", "failed", "died"}
      BY <1>9, <2>1 DEF Close, TypeInv, TypeOK
    <3> QED
      BY <1>4, <1>5, <1>9, <2>1, <3>1 DEF Close, TypeInv, TypeOK
  <2>2. CASE lib.close # "wakes"
    <3>1. TypeOK'
      BY <1>9, <2>2 DEF TypeInv, TypeOK, Close, callers, table, told
    <3>2. Begun'
      BY <1>9, <2>2 DEF TypeInv, Begun, Busy, Close, callers
    <3> QED
      BY <3>1, <3>2 DEF TypeInv
  <2> QED
    BY <2>1, <2>2
<1> QED
  BY <1>1, <1>2, <1>3, <1>6, <1>7, <1>8, <1>9

\* The daemon's steps keep the types.
LEMMA DaemonType ==
    ASSUME TypeInv, Answer \/ Notify \/ PeerCloses
    PROVE  TypeInv'
<1>1. Begun'
  BY DEF TypeInv, Begun, Busy, Answer, Notify, PeerCloses, callers
<1>2. CASE Answer
  <2>1. Head(requests) \in Ids /\ Tail(requests) \in Seq(Ids)
    BY <1>2 DEF TypeInv, TypeOK, Answer
  <2>2. responses' \in Seq({Note} \cup {Response(id) : id \in Ids})
    BY <1>2, <2>1 DEF TypeInv, TypeOK, Answer
  <2>3. TypeOK'
    BY <1>2, <2>1, <2>2 DEF TypeInv, TypeOK, Answer, callers, table, told
  <2> QED
    BY <1>1, <2>3 DEF TypeInv
<1>3. CASE Notify
  <2>1. responses' \in Seq({Note} \cup {Response(id) : id \in Ids})
    BY <1>3 DEF TypeInv, TypeOK, Notify
  <2>2. notes' \in 0..MaxNotes
    BY <1>3, ClientAssumption DEF TypeInv, TypeOK, Notify
  <2>3. TypeOK'
    BY <1>3, <2>1, <2>2 DEF TypeInv, TypeOK, Notify, callers, table, told
  <2> QED
    BY <1>1, <2>3 DEF TypeInv
<1>4. CASE PeerCloses
  <2>1. TypeOK'
    BY <1>4 DEF TypeInv, TypeOK, PeerCloses, callers, table, told
  <2> QED
    BY <1>1, <2>1 DEF TypeInv
<1> QED
  BY <1>2, <1>3, <1>4

LEMMA TypeInit == Init => TypeInv
<1> SUFFICES ASSUME Init PROVE TypeInv
  OBVIOUS
<1>1. TypeOK
  <2>1. /\ nextId \in 0..MaxCalls /\ notes \in 0..MaxNotes
        /\ cur \in [Callers -> Nat] /\ replyTo \in [Callers -> Nat]
        /\ source \in [Ids -> Nat]
    BY ClientAssumption DEF Init
  <2>2. pending \in [Keys -> Callers \cup {NoCaller}]
    BY DEF Init
  <2>3. /\ requests \in Seq(Ids)
        /\ responses \in Seq({Note} \cup {Response(id) : id \in Ids})
    BY DEF Init
  <2>4. outcome \in [Ids -> Outcomes]
    BY DEF Init, Outcomes
  <2> QED
    BY <2>1, <2>2, <2>3, <2>4 DEF Init, TypeOK
<1>2. Begun
  BY DEF Init, Begun, Busy
<1> QED
  BY <1>1, <1>2 DEF TypeInv

LEMMA TypeStep == TypeInv /\ [Next]_vars => TypeInv'
<1> SUFFICES ASSUME TypeInv, [Next]_vars PROVE TypeInv'
  OBVIOUS
<1>1. CASE UNCHANGED vars
  BY <1>1 DEF TypeInv, TypeOK, Begun, Busy, vars, callers, table, wire, told
<1>2. CASE Next
  BY <1>2, CallerType, ReaderType, DaemonType DEF Next
<1> QED
  BY <1>1, <1>2

\* Every variable keeps its type: the messages on the wire, the table, and what
\* each call has reported, in every library.
THEOREM ClientTypeCorrect == Spec => []TypeOK
<1>1. TypeInv => TypeOK
  BY DEF TypeInv
<1> QED
  BY <1>1, TypeInit, TypeStep, PTL DEF Spec

-----------------------------------------------------------------------------
(* Nobody is forgotten at the end.                                          *)

Listing(c) == pending[Key(cur[c])] = c

\* While the reader runs, a call that nobody has answered is in the table, where it
\* will be found; where entries are slots, a call holds its slot to its end, and
\* where they are ids, no two calls have the same
TableInv ==
    /\ reader = "running" => \A c \in Callers : Busy(c) /\ reply[c] = "none" => Listing(c)
    /\ Slotted => \A c \in Callers : Busy(c) => Listing(c)
    /\ \A c, d \in Callers : Busy(c) /\ Busy(d) /\ cur[c] = cur[d] => c = d

\* When the reader has ended writes fail, and everybody waiting has been woken
EndInv ==
    reader = "ended" =>
        /\ peer = "closed" \/ closing
        /\ \A c \in Callers : pc[c] = "waiting" => Woken(c)

CallInv == TypeInv /\ TableInv /\ EndInv

\* Two calls in progress have different keys.
LEMMA KeysDiffer ==
    ASSUME TypeInv, TableInv, NEW c \in Callers, NEW d \in Callers, c # d, Busy(c), Busy(d)
    PROVE  Key(cur[c]) # Key(cur[d])
<1>1. CASE Slotted
  BY <1>1 DEF TableInv, Listing
<1>2. CASE ~Slotted
  BY <1>2 DEF TableInv, Key
<1> QED
  BY <1>1, <1>2

\* The end of one call leaves the others in the table.
LEMMA EndsAlone ==
    ASSUME TypeInv, TableInv, NEW c \in Callers, NEW what, Busy(c), Finish(c, what),
           Forget(c) \/ UNCHANGED pending, UNCHANGED <<lib, reader>>
    PROVE  TableInv'
<1>1. \A d \in Callers : Busy(d)' => Busy(d) /\ d # c /\ reply'[d] = reply[d]
  BY DEF Finish, Busy, TypeInv, TypeOK
<1>2. cur' = cur
  BY DEF Finish
<1>3. \A d \in Callers : Key(cur[d])' = Key(cur[d])
  BY <1>2 DEF Key
<1>4. ASSUME NEW d \in Callers, Busy(d)', Listing(d)
      PROVE  Listing(d)'
  <2>1. Key(cur[d]) # Key(cur[c])
    BY <1>1, <1>4, KeysDiffer
  <2>2. Key(cur[d]) \in Keys
    BY <1>1, <1>4, BegunIds, KeyType DEF TypeInv, TypeOK
  <2>3. pending'[Key(cur[d])] = pending[Key(cur[d])]
    BY <2>1, <2>2 DEF Forget, TypeInv, TypeOK
  <2> QED
    BY <1>3, <1>4, <2>3 DEF Listing
<1>5. (reader = "running" => \A d \in Callers : Busy(d) /\ reply[d] = "none" => Listing(d))'
  BY <1>1, <1>4 DEF TableInv
<1>6. (Slotted => \A d \in Callers : Busy(d) => Listing(d))'
  BY <1>1, <1>4 DEF TableInv
<1>7. (\A d, e \in Callers : Busy(d) /\ Busy(e) /\ cur[d] = cur[e] => d = e)'
  BY <1>1, <1>2 DEF TableInv
<1> QED
  BY <1>5, <1>6, <1>7 DEF TableInv

\* Waking everybody leaves none of those in the table without a reply, and where
\* entries are slots it leaves the table as it is.
LEMMA WakesAll ==
    ASSUME TypeInv, TableInv, WakeAll, lib' = lib
    PROVE  /\ \A c \in Callers : Busy(c) /\ Listing(c) => Woken(c)'
           /\ \A c \in Callers : Woken(c) => Woken(c)'
           /\ Slotted => pending' = pending
           /\ pc' = pc /\ cur' = cur
<1>1. \A c \in Callers : Busy(c) /\ Listing(c) => Woken(c)'
  BY DEF WakeAll, Woken, Listed, Listing, Busy, TypeInv, TypeOK
<1>2. \A c \in Callers : Woken(c) => Woken(c)'
  BY DEF WakeAll, Woken, TypeInv, TypeOK
<1>3. Slotted => pending' = pending
  BY ClientAssumption DEF WakeAll, TypeInv, TypeOK
<1> QED
  BY <1>1, <1>2, <1>3 DEF WakeAll

\* The reader that wakes everybody stops with no waiting call left behind.
LEMMA TableAfterWaking ==
    ASSUME TypeInv, TableInv, WakeAll, lib' = lib, reader' # "running"
    PROVE  TableInv'
<1>1. \A c \in Callers : Key(cur[c])' = Key(cur[c])
  BY WakesAll DEF Key
<1>2. (Slotted => \A c \in Callers : Busy(c) => Listing(c))'
  BY <1>1, WakesAll DEF TableInv, Busy, Listing
<1>3. (\A c, d \in Callers : Busy(c) /\ Busy(d) /\ cur[c] = cur[d] => c = d)'
  BY WakesAll DEF TableInv, Busy
<1> QED
  BY <1>2, <1>3 DEF TableInv

LEMMA TableStep ==
    ASSUME TypeInv, TableInv, Next
    PROVE  TableInv'
<1>1. ASSUME UNCHANGED <<lib, pc, cur, reply, pending>>, reader' = reader \/ reader' # "running"
      PROVE  TableInv'
  <2>1. \A c \in Callers : Key(cur[c])' = Key(cur[c])
    BY <1>1 DEF Key
  <2> QED
    BY <1>1, <2>1 DEF TableInv, Busy, Listing
<1>2. ASSUME NEW c \in Callers, Register(c)
      PROVE  TableInv'
  <2>1. CASE pending[Key(nextId)] # NoCaller
    BY <1>1, <1>2, <2>1 DEF Register
  <2>2. CASE pending[Key(nextId)] = NoCaller
    <3>1. nextId \in Ids /\ nextId \notin 0..nextId - 1
      BY <1>2, ClientAssumption DEF Register, TypeInv, TypeOK, Ids
    <3>2. Key(nextId) \in Keys
      BY <3>1, KeyType DEF TypeInv, TypeOK
    <3>3. /\ pending' = [pending EXCEPT ![Key(nextId)] = c]
          /\ cur' = [cur EXCEPT ![c] = nextId]
          /\ pc' = [pc EXCEPT ![c] = "registered"]
          /\ UNCHANGED <<lib, reply, reader>>
      BY <1>2, <2>2 DEF Register
    <3>4. cur'[c] = nextId /\ \A d \in Callers \ {c} : cur'[d] = cur[d] /\ Busy(d)' = Busy(d)
      BY <3>3 DEF TypeInv, TypeOK, Busy
    <3>5. Listing(c)'
      BY <3>2, <3>3, <3>4 DEF Listing, Key, TypeInv, TypeOK
    <3>6. ASSUME NEW d \in Callers \ {c}, Listing(d), Busy(d)
          PROVE  Listing(d)'
      <4>1. Key(cur[d]) # Key(nextId)
        BY <2>2, <3>6, ClientAssumption DEF Listing
      <4>2. pending'[Key(cur[d])] = pending[Key(cur[d])]
        BY <3>3, <4>1 DEF TypeInv, TypeOK
      <4>3. Key(cur[d])' = Key(cur[d])
        BY <3>3, <3>4 DEF Key
      <4> QED
        BY <3>6, <4>2, <4>3 DEF Listing
    <3>7. (reader = "running" => \A d \in Callers : Busy(d) /\ reply[d] = "none" => Listing(d))'
      BY <3>3, <3>4, <3>5, <3>6 DEF TableInv
    <3>8. (Slotted => \A d \in Callers : Busy(d) => Listing(d))'
      BY <3>3, <3>4, <3>5, <3>6 DEF TableInv
    <3>9. (\A d, e \in Callers : Busy(d) /\ Busy(e) /\ cur[d] = cur[e] => d = e)'
      BY <3>1, <3>4 DEF TableInv, TypeInv, Begun
    <3> QED
      BY <3>7, <3>8, <3>9 DEF TableInv
  <2> QED
    BY <2>1, <2>2
<1>3. ASSUME NEW c \in Callers, NEW what, Busy(c), GiveUp(c, what), UNCHANGED <<lib, reader>>
      PROVE  TableInv'
  BY <1>3, EndsAlone DEF GiveUp
<1>4. ASSUME NEW c \in Callers, Send(c)
      PROVE  TableInv'
  <2>1. CASE WriteFails
    BY <1>3, <1>4, <2>1 DEF Send, Busy
  <2>2. CASE ~WriteFails
    <3>1. \A d \in Callers : Key(cur[d])' = Key(cur[d]) /\ Busy(d)' = Busy(d)
      BY <1>4, <2>2 DEF Send, Key, Busy, TypeInv, TypeOK
    <3> QED
      BY <1>4, <2>2, <3>1 DEF Send, TableInv, Listing, table
  <2> QED
    BY <2>1, <2>2
<1>5. ASSUME NEW c \in Callers, Return(c)
      PROVE  TableInv'
  BY <1>5, EndsAlone DEF Return, Busy
<1>6. ASSUME NEW c \in Callers, Expire(c)
      PROVE  TableInv'
  <2>1. CASE lib.timer = "waits"
    BY <1>1, <1>6, <2>1 DEF Expire, table
  <2>2. CASE lib.timer # "waits"
    BY <1>3, <1>6, <2>2 DEF Expire, Busy
  <2> QED
    BY <2>1, <2>2
<1>7. CASE Receive
  <2> DEFINE id == Head(responses).id
             p == pending[Key(id)]
             waits == p # NoCaller /\ (Slotted \/ (pc[p] # "idle" /\ cur[p] = id))
  <2>1. /\ UNCHANGED <<lib, pc, cur, reader>>
        /\ reply' = IF waits THEN [reply EXCEPT ![p] = "answer"] ELSE reply
        /\ pending' = IF lib.takes THEN [pending EXCEPT ![Key(id)] = NoCaller] ELSE pending
    BY <1>7 DEF Receive
  <2>2. \A c \in Callers : Key(cur[c])' = Key(cur[c]) /\ Busy(c)' = Busy(c)
    BY <2>1 DEF Key, Busy
  <2>3. ASSUME NEW c \in Callers, Busy(c), Listing(c), Slotted
        PROVE  Listing(c)'
    <3>1. ~lib.takes
      BY <2>3, ClientAssumption DEF TypeInv, TypeOK
    <3> QED
      BY <2>1, <2>2, <2>3, <3>1 DEF Listing
  <2>4. ASSUME NEW c \in Callers, Busy(c), reply'[c] = "none", Listing(c), ~Slotted
        PROVE  Listing(c)'
    <3>1. CASE cur[c] = id
      <4>1. p = c
        BY <3>1, <2>4 DEF Listing
      <4>2. waits
        BY <2>4, <3>1, <4>1, ClientAssumption DEF Busy
      <4> HIDE DEF p, waits
      <4>3. reply'[c] = "answer"
        BY <2>1, <4>1, <4>2 DEF TypeInv, TypeOK
      <4> QED
        BY <2>4, <4>3
    <3>2. CASE cur[c] # id
      <4>1. Key(cur[c]) # Key(id)
        BY <2>4, <3>2 DEF Key
      <4>2. pending'[Key(cur[c])] = pending[Key(cur[c])]
        BY <2>1, <4>1 DEF TypeInv, TypeOK
      <4> QED
        BY <2>2, <2>4, <4>2 DEF Listing
    <3> QED
      BY <3>1, <3>2
  <2>5. \A c \in Callers : reply'[c] = "none" => reply[c] = "none"
    BY <2>1 DEF TypeInv, TypeOK
  <2>6. (reader = "running" => \A c \in Callers : Busy(c) /\ reply[c] = "none" => Listing(c))'
    BY <2>1, <2>2, <2>3, <2>4, <2>5 DEF TableInv
  <2>7. (Slotted => \A c \in Callers : Busy(c) => Listing(c))'
    BY <2>1, <2>2, <2>3 DEF TableInv
  <2>8. (\A c, d \in Callers : Busy(c) /\ Busy(d) /\ cur[c] = cur[d] => c = d)'
    BY <2>1, <2>2 DEF TableInv
  <2> QED
    BY <2>6, <2>7, <2>8 DEF TableInv
<1>8. CASE CallbackRaises
  <2>1. CASE WakeAll /\ reader' = "failed"
    BY <1>8, <2>1, TableAfterWaking DEF CallbackRaises
  <2>2. CASE reader' = "died" /\ UNCHANGED <<callers, table>>
    BY <1>1, <1>8, <2>2 DEF CallbackRaises, callers, table
  <2>3. ASSUME NEW c \in Callers, pc[c] = "waiting", Finish(c, "raised"), UNCHANGED <<pending, reader>>
        PROVE  TableInv'
    BY <1>8, <2>3, EndsAlone DEF CallbackRaises, Busy
  <2>4. CASE UNCHANGED <<callers, pending, reader>>
    BY <1>1, <1>8, <2>4 DEF CallbackRaises, callers
  <2> QED
    BY <1>8, <2>1, <2>2, <2>3, <2>4 DEF CallbackRaises
<1>9. CASE ReaderEnds
  BY <1>9, TableAfterWaking DEF ReaderEnds
<1>10. CASE ReaderCancelled
  BY <1>1, <1>10 DEF ReaderCancelled, callers, table
<1>11. CASE Close
  <2>1. CASE lib.close = "wakes"
    BY <1>11, <2>1, TableAfterWaking DEF Close
  <2>2. CASE lib.close # "wakes"
    BY <1>1, <1>11, <2>2 DEF Close, callers, table
  <2> QED
    BY <2>1, <2>2
<1>12. CASE CallbackReturns \/ \E c \in Callers : Callback(c)
  BY <1>1, <1>12 DEF CallbackReturns, Callback, callers, table
<1>13. CASE Answer \/ Notify \/ PeerCloses
  BY <1>1, <1>13 DEF Answer, Notify, PeerCloses, callers, table
<1> QED
  BY <1>2, <1>4, <1>5, <1>6, <1>7, <1>8, <1>9, <1>10, <1>11, <1>12, <1>13 DEF Next

LEMMA EndStep ==
    ASSUME CallInv, Next
    PROVE  EndInv'
<1>1. ASSUME reader' = "ended" => reader = "ended", peer' = peer \/ peer' = "closed",
             closing => closing', lib' = lib,
             \A c \in Callers : pc'[c] = "waiting" =>
                 pc[c] = "waiting" /\ (Woken(c) => Woken(c)')
      PROVE  EndInv'
  BY <1>1 DEF CallInv, EndInv
<1>2. ASSUME NEW c \in Callers, NEW what, Finish(c, what), lib' = lib
      PROVE  \A d \in Callers : pc'[d] = "waiting" =>
                 pc[d] = "waiting" /\ (Woken(d) => Woken(d)')
  BY <1>2 DEF Finish, Woken, CallInv, TypeInv, TypeOK
<1>3. ASSUME NEW c \in Callers, Register(c)
      PROVE  EndInv'
  <2>1. \A d \in Callers : pc'[d] = "waiting" => pc[d] = "waiting"
    BY <1>3 DEF Register, CallInv, TypeInv, TypeOK
  <2> QED
    BY <1>1, <1>3, <2>1 DEF Register, Woken, wire
<1>4. ASSUME NEW c \in Callers, Send(c)
      PROVE  EndInv'
  <2>1. CASE WriteFails
    BY <1>1, <1>2, <1>4, <2>1 DEF Send, GiveUp
  <2>2. CASE ~WriteFails
    BY <1>4, <2>2 DEF Send, WriteFails, CallInv, EndInv
  <2> QED
    BY <2>1, <2>2
<1>5. ASSUME NEW c \in Callers, Return(c)
      PROVE  EndInv'
  BY <1>1, <1>2, <1>5 DEF Return, wire
<1>6. ASSUME NEW c \in Callers, Expire(c)
      PROVE  EndInv'
  <2>1. CASE lib.timer = "waits"
    BY <1>1, <1>6, <2>1 DEF Expire, Woken, wire
  <2>2. CASE lib.timer # "waits"
    BY <1>1, <1>2, <1>6, <2>2 DEF Expire, GiveUp, wire
  <2> QED
    BY <2>1, <2>2
<1>7. CASE Receive
  <2>1. \A c \in Callers : Woken(c) => Woken(c)'
    BY <1>7 DEF Receive, Woken, CallInv, TypeInv, TypeOK
  <2> QED
    BY <1>1, <1>7, <2>1 DEF Receive
<1>8. ASSUME WakeAll, reader = "running", peer = "closed" \/ closing', UNCHANGED <<lib, peer>>
      PROVE  EndInv'
  <2>1. \A c \in Callers : pc'[c] = "waiting" => Woken(c)'
    <3> SUFFICES ASSUME NEW c \in Callers, pc'[c] = "waiting" PROVE Woken(c)'
      OBVIOUS
    <3>1. Busy(c)
      BY <1>8, WakesAll DEF CallInv, Busy
    <3>2. Listing(c) \/ Woken(c)
      BY <1>8, <3>1 DEF CallInv, TableInv, Woken
    <3> QED
      BY <1>8, <3>1, <3>2, WakesAll DEF CallInv
  <2> QED
    BY <1>8, <2>1 DEF EndInv
<1>9. CASE ReaderEnds
  BY <1>8, <1>9 DEF ReaderEnds, Reading
<1>10. CASE Close
  <2>1. CASE lib.close = "wakes" /\ reader = "running"
    BY <1>8, <1>10, <2>1 DEF Close
  <2>2. CASE lib.close = "wakes" /\ reader # "running"
    <3>1. \A c \in Callers : pc'[c] = pc[c] /\ (Woken(c) => Woken(c)')
      BY <1>10, <2>2, WakesAll DEF Close, CallInv
    <3> QED
      BY <1>1, <1>10, <2>2, <3>1 DEF Close
  <2>3. CASE lib.close # "wakes"
    BY <1>1, <1>10, <2>3 DEF Close, Woken, callers
  <2> QED
    BY <2>1, <2>2, <2>3
<1>11. CASE CallbackRaises
  <2>1. CASE reader' \in {"failed", "died"}
    BY <2>1 DEF EndInv
  <2>2. ASSUME NEW c \in Callers, Finish(c, "raised"), reader' = reader
        PROVE  EndInv'
    BY <1>1, <1>2, <1>11, <2>2 DEF CallbackRaises
  <2>3. CASE UNCHANGED <<callers, reader>>
    BY <1>1, <1>11, <2>3 DEF CallbackRaises, Woken, callers
  <2> QED
    BY <1>11, <2>1, <2>2, <2>3 DEF CallbackRaises
<1>12. CASE ReaderCancelled
  BY <1>12 DEF ReaderCancelled, EndInv
<1>13. CASE CallbackReturns \/ \E c \in Callers : Callback(c)
  BY <1>1, <1>13 DEF CallbackReturns, Callback, callers, wire, Woken
<1>14. CASE Answer \/ Notify \/ PeerCloses
  BY <1>1, <1>14 DEF Answer, Notify, PeerCloses, callers, Woken
<1> QED
  BY <1>3, <1>4, <1>5, <1>6, <1>7, <1>9, <1>10, <1>11, <1>12, <1>13, <1>14 DEF Next

LEMMA CallStep == CallInv /\ [Next]_vars => CallInv'
<1> SUFFICES ASSUME CallInv, [Next]_vars PROVE CallInv'
  OBVIOUS
<1>1. CASE Next
  BY <1>1, TypeStep, TableStep, EndStep DEF CallInv
<1>2. CASE UNCHANGED vars
  <2>1. \A c \in Callers : Key(cur[c])' = Key(cur[c])
    BY <1>2 DEF vars, callers, Key
  <2>2. TableInv'
    BY <1>2, <2>1 DEF CallInv, TableInv, Busy, Listing, vars, callers, table
  <2>3. EndInv'
    BY <1>2 DEF CallInv, EndInv, Woken, vars, callers, wire
  <2> QED
    BY <1>2, <2>2, <2>3, TypeStep DEF CallInv
<1> QED
  BY <1>1, <1>2

\* When the reader has ended with the connection, every call that is waiting has
\* been woken: the finally blocks and last lines of the readers (client.py:401,
\* kgd.c:1250) miss nobody, whenever a call was registered.
THEOREM NobodyIsForgotten == Spec => []WokenAtTheEnd
<1>1. Init => CallInv
  BY TypeInit DEF Init, CallInv, TableInv, EndInv, Busy
<1>2. CallInv /\ [Next]_vars => CallInv'
  BY CallStep
<1>3. CallInv => WokenAtTheEnd
  BY DEF CallInv, EndInv, WokenAtTheEnd
<1> QED
  BY <1>1, <1>2, <1>3, PTL DEF Spec

-----------------------------------------------------------------------------
(* Whose answer it is.                                                      *)

\* A request is on its way to the daemon, its response on its way back
Asked(id) == \E i \in 1..Len(requests) : requests[i] = id
Coming(id) == \E i \in 1..Len(responses) : responses[i] = Response(id)
InFlight(id) == Asked(id) \/ Coming(id)

\* A request is sent once and answered once
OnceInv ==
    /\ \A i, j \in 1..Len(requests) : requests[i] = requests[j] => i = j
    /\ \A i, j \in 1..Len(responses) :
          responses[i] = responses[j] /\ responses[i].type = "response" => i = j
    /\ \A id \in Ids : ~(Asked(id) /\ Coming(id))
    /\ \A c \in Callers : pc[c] = "registered" => ~Asked(cur[c]) /\ ~Coming(cur[c])
    /\ \A id \in Ids : Asked(id) \/ Coming(id) => id < nextId

\* A call that ended without having its own answer
Missed(id) == outcome[id] = "timeout" \/ (outcome[id] = "answer" /\ source[id] < id)

\* s may be the response that call id was given
Mine(id, s) == s # id => Slotted /\ s < id /\ Key(s) = Key(id) /\ Missed(s)

\* What calls report is recorded once, when they end
OutcomeInv ==
    /\ \A c \in Callers : Busy(c) => outcome[cur[c]] = "none"
    /\ \A id \in Ids : id >= nextId => outcome[id] = "none"

AnswerInv ==
    /\ \A c \in Callers : ~Busy(c) => reply[c] = "none"
    /\ \A c \in Callers : reply[c] = "answer" => Mine(cur[c], replyTo[c])
    /\ \A id \in Ids : outcome[id] = "answer" => Mine(id, source[id])

\* A slot is held by a call in progress, and by the latest of its calls to be let in
Held == \A k \in Keys : pending[k] # NoCaller => Busy(pending[k]) /\ Key(cur[pending[k]]) = k
Latest ==
    \A c \in Callers, id \in Ids :
        Busy(c) /\ cur[c] < id /\ id < nextId /\ Key(id) = Key(cur[c]) => outcome[id] = "refused"

\* A call that has not been sent was not given its own answer
Unsent == \A c \in Callers : pc[c] = "registered" /\ reply[c] = "answer" => replyTo[c] # cur[c]

\* A response on its way is to a call that waits for it, or to one that missed it
Expected ==
    \A id \in Ids : InFlight(id) =>
        \/ Missed(id)
        \/ \E c \in Callers : /\ pc[c] = "waiting" /\ cur[c] = id
                              /\ reply[c] = "answer" => replyTo[c] # id

SlotInv ==
    Slotted =>
        /\ Held /\ Latest /\ Unsent
        /\ closing => \A c \in Callers : ~Busy(c)
        /\ reader = "running" => (\A c \in Callers : reply[c] # "lost") /\ Expected

MineInv == CallInv /\ OnceInv /\ OutcomeInv /\ AnswerInv /\ SlotInv

\* What is dropped from the wire leaves the rest as it was.
LEMMA OnceAfterDrop ==
    ASSUME TypeInv, OnceInv,
           requests' = requests \/ requests' = << >>,
           NEW n \in 0..Len(responses), responses' = SubSeq(responses, n + 1, Len(responses)),
           nextId' = nextId,
           \A c \in Callers : pc'[c] = "registered" => pc[c] = "registered" /\ cur'[c] = cur[c]
    PROVE  OnceInv'
<1>1. responses \in Seq({Note} \cup {Response(id) : id \in Ids}) /\ requests \in Seq(Ids)
  BY DEF TypeInv, TypeOK
<1>2. /\ Len(responses') = Len(responses) - n
      /\ \A i \in 1..Len(responses') : i + n \in 1..Len(responses) /\ responses'[i] = responses[i + n]
  BY <1>1
<1>3. /\ Len(requests') <= Len(requests)
      /\ \A i \in 1..Len(requests') : i \in 1..Len(requests) /\ requests'[i] = requests[i]
  BY <1>1
<1>4. \A id : Asked(id)' => Asked(id)
  BY <1>3 DEF Asked
<1>5. \A id : Coming(id)' => Coming(id)
  <2> SUFFICES ASSUME NEW id, NEW i \in 1..Len(responses'), responses'[i] = Response(id)
               PROVE  Coming(id)
    BY DEF Coming, Response
  <2>1. i + n \in 1..Len(responses) /\ responses[i + n] = Response(id)
    BY <1>2
  <2> QED
    BY <2>1 DEF Coming
<1>6. \A i, j \in 1..Len(requests') : requests'[i] = requests'[j] => i = j
  BY <1>3 DEF OnceInv
<1>7. ASSUME NEW i \in 1..Len(responses'), NEW j \in 1..Len(responses'),
             responses'[i] = responses'[j], responses'[i].type = "response"
      PROVE  i = j
  <2>1. i + n = j + n
    BY <1>2, <1>7 DEF OnceInv
  <2> QED
    BY <1>1, <2>1
<1> QED
  BY <1>4, <1>5, <1>6, <1>7 DEF OnceInv

\* A message that is not a response adds nothing; one that answers a request moves
\* its id from one direction to the other.
LEMMA OnceAfterAnswer ==
    ASSUME TypeInv, OnceInv, Answer
    PROVE  OnceInv'
<1> DEFINE id == Head(requests)
<1>1. responses \in Seq({Note} \cup {Response(k) : k \in Ids}) /\ requests \in Seq(Ids) /\ requests # << >>
  BY DEF TypeInv, TypeOK, Answer
<1>2. /\ id = requests[1] /\ id \in Ids /\ Len(requests) >= 1
      /\ Len(requests') = Len(requests) - 1
      /\ \A i \in 1..Len(requests') : i + 1 \in 1..Len(requests) /\ requests'[i] = requests[i + 1]
  BY <1>1 DEF Answer
<1>3. Response(id) \in {Note} \cup {Response(k) : k \in Ids}
  BY <1>2
<1>4. responses' = Append(responses, Response(id))
  BY DEF Answer
<1> HIDE DEF id
<1>5. /\ Len(responses') = Len(responses) + 1
      /\ responses'[Len(responses) + 1] = Response(id)
      /\ \A i \in 1..Len(responses) : responses'[i] = responses[i]
  BY <1>1, <1>3, <1>4
<1>6. UNCHANGED <<nextId, pc, cur>>
  BY DEF Answer, callers
<1>7. ASSUME NEW k, Asked(k)'
      PROVE  Asked(k) /\ k # id
  <2>1. PICK i \in 1..Len(requests') : requests'[i] = k
    BY <1>7 DEF Asked
  <2>2. i + 1 \in 1..Len(requests) /\ requests[i + 1] = k /\ 1 \in 1..Len(requests) /\ i + 1 # 1
    BY <1>1, <1>2, <2>1
  <2> QED
    BY <1>2, <2>2 DEF Asked, OnceInv
<1>8. ASSUME NEW k, Coming(k)'
      PROVE  Coming(k) \/ k = id
  <2>1. PICK i \in 1..Len(responses') : responses'[i] = Response(k)
    BY <1>8 DEF Coming, Response
  <2>2. CASE i \in 1..Len(responses)
    BY <1>5, <2>1, <2>2 DEF Coming
  <2>3. CASE i = Len(responses) + 1
    BY <1>5, <2>1, <2>3 DEF Response
  <2> QED
    BY <1>1, <1>5, <2>1, <2>2, <2>3
<1>9. Asked(id)
  BY <1>1, <1>2 DEF Asked
<1>10. ~Coming(id)
  BY <1>2, <1>9 DEF OnceInv
<1>11. \A i, j \in 1..Len(requests') : requests'[i] = requests'[j] => i = j
  BY <1>1, <1>2 DEF OnceInv
<1>12. ASSUME NEW i \in 1..Len(responses'), NEW j \in 1..Len(responses'),
             responses'[i] = responses'[j], responses'[i].type = "response"
       PROVE  i = j
  <2>1. CASE i \in 1..Len(responses) /\ j \in 1..Len(responses)
    BY <1>5, <1>12, <2>1 DEF OnceInv
  <2>2. CASE i \notin 1..Len(responses) \/ j \notin 1..Len(responses)
    BY <1>1, <1>5, <1>10, <1>12, <2>2 DEF Coming
  <2> QED
    BY <2>1, <2>2
<1>13. \A k \in Ids : ~(Asked(k)' /\ Coming(k)')
  BY <1>7, <1>8 DEF OnceInv
<1>14. \A c \in Callers : pc'[c] = "registered" => ~Asked(cur[c])' /\ ~Coming(cur[c])'
  BY <1>6, <1>7, <1>8, <1>9 DEF OnceInv
<1>15. \A k \in Ids : Asked(k)' \/ Coming(k)' => k < nextId'
  BY <1>6, <1>7, <1>8, <1>9 DEF OnceInv
<1> QED
  BY <1>11, <1>12, <1>13, <1>14, <1>15 DEF OnceInv

\* A notification is not a response.
LEMMA OnceAfterNote ==
    ASSUME TypeInv, OnceInv, Notify
    PROVE  OnceInv'
<1>1. responses \in Seq({Note} \cup {Response(k) : k \in Ids})
  BY DEF TypeInv, TypeOK
<1>2. responses' = Append(responses, Note)
  BY DEF Notify
<1>3. /\ Len(responses') = Len(responses) + 1 /\ responses'[Len(responses) + 1] = Note
      /\ \A i \in 1..Len(responses) : responses'[i] = responses[i]
  BY <1>1, <1>2
<1>4. UNCHANGED <<requests, nextId, pc, cur>>
  BY DEF Notify, callers
<1>5. ASSUME NEW i \in 1..Len(responses'), responses'[i].type = "response"
      PROVE  i \in 1..Len(responses)
  BY <1>1, <1>3, <1>5 DEF Note
<1>6. ASSUME NEW k, Coming(k)'
      PROVE  Coming(k)
  <2>1. PICK i \in 1..Len(responses') : responses'[i] = Response(k)
    BY <1>6 DEF Coming, Response
  <2> QED
    BY <1>3, <1>5, <2>1 DEF Coming, Response
<1>7. \A i, j \in 1..Len(responses') :
         responses'[i] = responses'[j] /\ responses'[i].type = "response" => i = j
  BY <1>3, <1>5 DEF OnceInv
<1>8. \A k : Asked(k)' = Asked(k)
  BY <1>4 DEF Asked
<1> QED
  BY <1>4, <1>6, <1>7, <1>8 DEF OnceInv

\* A request is written once.
LEMMA OnceAfterSend ==
    ASSUME TypeInv, TableInv, OnceInv, NEW c \in Callers, pc[c] = "registered",
           requests' = Append(requests, cur[c]), pc' = [pc EXCEPT ![c] = "waiting"],
           UNCHANGED <<responses, nextId, cur>>
    PROVE  OnceInv'
<1>1. requests \in Seq(Ids) /\ cur[c] \in Ids /\ cur[c] < nextId /\ nextId \in Nat
  BY BegunIds, ClientAssumption DEF TypeInv, TypeOK, Begun, Busy
<1>2. /\ Len(requests') = Len(requests) + 1 /\ requests'[Len(requests) + 1] = cur[c]
      /\ \A i \in 1..Len(requests) : requests'[i] = requests[i]
  BY <1>1
<1>3. ASSUME NEW k, Asked(k)'
      PROVE  Asked(k) \/ k = cur[c]
  <2>1. PICK i \in 1..Len(requests') : requests'[i] = k
    BY <1>3 DEF Asked
  <2> QED
    BY <1>1, <1>2, <2>1 DEF Asked
<1>4. ~Asked(cur[c]) /\ ~Coming(cur[c])
  BY DEF OnceInv
<1>5. \A k : Coming(k)' = Coming(k)
  BY DEF Coming
<1>6. \A i, j \in 1..Len(requests') : requests'[i] = requests'[j] => i = j
  BY <1>1, <1>2, <1>4 DEF OnceInv, Asked
<1>7. \A d \in Callers : pc'[d] = "registered" => d # c /\ pc[d] = "registered" /\ cur[d] # cur[c]
  BY DEF TypeInv, TypeOK, TableInv, Busy
<1>8. \A d \in Callers : pc'[d] = "registered" => ~Asked(cur[d])' /\ ~Coming(cur[d])'
  BY <1>3, <1>5, <1>7 DEF OnceInv
<1>9. \A k \in Ids : ~(Asked(k)' /\ Coming(k)')
  BY <1>3, <1>4, <1>5 DEF OnceInv
<1>10. \A k \in Ids : Asked(k)' \/ Coming(k)' => k < nextId'
  BY <1>1, <1>3, <1>5 DEF OnceInv
<1> QED
  BY <1>6, <1>8, <1>9, <1>10 DEF OnceInv

LEMMA OnceStep ==
    ASSUME TypeInv, TableInv, OnceInv, Next
    PROVE  OnceInv'
<1>1. responses \in Seq({Note} \cup {Response(k) : k \in Ids})
  BY DEF TypeInv, TypeOK
<1>2. /\ Len(responses) \in Nat
      /\ responses = SubSeq(responses, 0 + 1, Len(responses))
      /\ << >> = SubSeq(responses, Len(responses) + 1, Len(responses))
      /\ responses # << >> =>
            Tail(responses) = SubSeq(responses, 1 + 1, Len(responses)) /\ Len(responses) >= 1
  BY <1>1
<1>3. ASSUME requests' = requests \/ requests' = << >>,
             \/ responses' = responses \/ responses' = << >>
             \/ responses # << >> /\ responses' = Tail(responses),
             nextId' = nextId,
             \A c \in Callers : pc'[c] = "registered" => pc[c] = "registered" /\ cur'[c] = cur[c]
      PROVE  OnceInv'
  <2>1. PICK n \in 0..Len(responses) : responses' = SubSeq(responses, n + 1, Len(responses))
    <3>1. 0 \in 0..Len(responses) /\ Len(responses) \in 0..Len(responses)
      BY <1>2
    <3>2. responses # << >> => 1 \in 0..Len(responses)
      BY <1>2
    <3> QED
      BY <1>2, <1>3, <3>1, <3>2
  <2> QED
    BY <1>3, <2>1, OnceAfterDrop
<1>4. ASSUME NEW c \in Callers, NEW what, Finish(c, what)
      PROVE  \A d \in Callers : pc'[d] = "registered" => pc[d] = "registered" /\ cur'[d] = cur[d]
  BY <1>4 DEF Finish, TypeInv, TypeOK
<1>5. ASSUME NEW c \in Callers, Register(c)
      PROVE  OnceInv'
  <2>1. UNCHANGED <<requests, responses>> /\ nextId' = nextId + 1 /\ nextId \in Ids /\ nextId \in Nat
    BY <1>5, ClientAssumption DEF Register, wire, TypeInv, TypeOK, Ids
  <2>2. \A k : Asked(k)' = Asked(k) /\ Coming(k)' = Coming(k)
    BY <2>1 DEF Asked, Coming
  <2>3. ~Asked(nextId) /\ ~Coming(nextId)
    BY <2>1 DEF OnceInv
  <2>4. \A d \in Callers : pc'[d] = "registered" =>
           (pc[d] = "registered" /\ cur'[d] = cur[d]) \/ cur'[d] = nextId
    BY <1>5 DEF Register, TypeInv, TypeOK
  <2>5. \A d \in Callers : pc'[d] = "registered" => ~Asked(cur[d])' /\ ~Coming(cur[d])'
    BY <2>2, <2>3, <2>4 DEF OnceInv
  <2>6. \A k \in Ids : Asked(k)' \/ Coming(k)' => k < nextId'
    BY <2>1, <2>2, ClientAssumption DEF OnceInv, Ids
  <2> QED
    BY <2>1, <2>2, <2>5, <2>6 DEF OnceInv
<1>6. ASSUME NEW c \in Callers, Send(c)
      PROVE  OnceInv'
  <2>1. CASE WriteFails
    BY <1>3, <1>4, <1>6, <2>1 DEF Send, GiveUp
  <2>2. CASE ~WriteFails
    BY <1>6, <2>2, OnceAfterSend DEF Send
  <2> QED
    BY <2>1, <2>2
<1>7. ASSUME NEW c \in Callers, Return(c)
      PROVE  OnceInv'
  BY <1>3, <1>4, <1>7 DEF Return, wire
<1>8. ASSUME NEW c \in Callers, Expire(c)
      PROVE  OnceInv'
  <2>1. CASE lib.timer = "waits"
    BY <1>3, <1>8, <2>1 DEF Expire, wire
  <2>2. CASE lib.timer # "waits"
    BY <1>3, <1>4, <1>8, <2>2 DEF Expire, GiveUp, wire
  <2> QED
    BY <2>1, <2>2
<1>9. CASE Receive
  BY <1>3, <1>9 DEF Receive
<1>10. CASE CallbackReturns \/ \E c \in Callers : Callback(c)
  BY <1>3, <1>10 DEF CallbackReturns, Callback, callers, wire
<1>11. CASE ReaderEnds \/ ReaderCancelled
  BY <1>3, <1>11 DEF ReaderEnds, ReaderCancelled, WakeAll, callers
<1>12. CASE Close
  <2>1. CASE lib.close = "wakes"
    BY <1>3, <1>12, <2>1 DEF Close, WakeAll
  <2>2. CASE lib.close # "wakes"
    BY <1>3, <1>12, <2>2 DEF Close, callers
  <2> QED
    BY <2>1, <2>2
<1>13. CASE CallbackRaises
  <2>1. CASE WakeAll /\ UNCHANGED responses
    BY <1>3, <1>13, <2>1 DEF CallbackRaises, WakeAll
  <2>2. CASE UNCHANGED <<callers, responses>>
    BY <1>3, <1>13, <2>2 DEF CallbackRaises, callers
  <2>3. ASSUME NEW n \in 0..Len(responses), responses' = SubSeq(responses, n + 1, Len(responses)),
               \/ \E c \in Callers : Finish(c, "raised")
               \/ UNCHANGED callers
        PROVE  OnceInv'
    <3>1. \A d \in Callers : pc'[d] = "registered" => pc[d] = "registered" /\ cur'[d] = cur[d]
      BY <1>4, <2>3 DEF callers
    <3> QED
      BY <1>13, <2>3, <3>1, OnceAfterDrop DEF CallbackRaises
  <2> QED
    BY <1>13, <2>1, <2>2, <2>3 DEF CallbackRaises
<1>14. CASE Answer \/ Notify
  BY <1>14, OnceAfterAnswer, OnceAfterNote
<1>15. CASE PeerCloses
  BY <1>3, <1>15 DEF PeerCloses, callers
<1> QED
  BY <1>5, <1>6, <1>7, <1>8, <1>9, <1>10, <1>11, <1>12, <1>13, <1>14, <1>15 DEF Next

\* Nothing comes into flight but what is sent.
LEMMA FlightStep ==
    ASSUME TypeInv, Next, ~(\E c \in Callers : Send(c)), "caller" \notin lib.failure
    PROVE  \A k : InFlight(k)' => InFlight(k)
<1>1. responses \in Seq({Note} \cup {Response(k) : k \in Ids}) /\ requests \in Seq(Ids)
  BY DEF TypeInv, TypeOK
<1>2. ASSUME requests' = requests \/ requests' = << >>
      PROVE  \A k : Asked(k)' => Asked(k)
  BY <1>1, <1>2 DEF Asked
<1>3. ASSUME \/ responses' = responses \/ responses' = << >>
             \/ responses # << >> /\ responses' = Tail(responses)
      PROVE  \A k : Coming(k)' => Coming(k)
  <2>1. \A i \in 1..Len(responses') :
           \E j \in 1..Len(responses) : responses'[i] = responses[j]
    <3>1. CASE responses' = responses \/ responses' = << >>
      BY <1>1, <3>1
    <3>2. CASE responses # << >> /\ responses' = Tail(responses)
      <4>1. \A i \in 1..Len(responses') : i + 1 \in 1..Len(responses) /\ responses'[i] = responses[i + 1]
        BY <1>1, <3>2
      <4> QED
        BY <4>1
    <3> QED
      BY <1>3, <3>1, <3>2
  <2> QED
    BY <2>1 DEF Coming, Response
<1>4. CASE Answer
  <2>1. requests # << >> /\ requests' = Tail(requests)
        /\ responses' = Append(responses, Response(Head(requests)))
    BY <1>4 DEF Answer
  <2>2. /\ Head(requests) \in Ids /\ 1 \in 1..Len(requests) /\ requests[1] = Head(requests)
        /\ \A i \in 1..Len(requests') : i + 1 \in 1..Len(requests) /\ requests'[i] = requests[i + 1]
    BY <1>1, <2>1
  <2>3. Asked(Head(requests))
    BY <2>2 DEF Asked
  <2>4. \A k : Asked(k)' => Asked(k)
    BY <2>2 DEF Asked
  <2>5. \A i \in 1..Len(responses') : \/ responses'[i] = Response(Head(requests))
                                     \/ (i \in 1..Len(responses) /\ responses'[i] = responses[i])
    <3>1. Response(Head(requests)) \in {Note} \cup {Response(k) : k \in Ids}
      BY <2>2
    <3> QED
      BY <1>1, <2>1, <3>1
  <2>6. \A k : Coming(k)' => Coming(k) \/ k = Head(requests)
    BY <2>5 DEF Coming, Response
  <2> QED
    BY <2>3, <2>4, <2>6 DEF InFlight
<1>5. CASE Notify
  <2>1. responses' = Append(responses, Note) /\ requests' = requests
    BY <1>5 DEF Notify
  <2>2. \A i \in 1..Len(responses') : \/ responses'[i] = Note
                                     \/ (i \in 1..Len(responses) /\ responses'[i] = responses[i])
    BY <1>1, <2>1
  <2>3. \A k : Coming(k)' => Coming(k)
    BY <2>2 DEF Coming, Response, Note
  <2> QED
    BY <1>2, <2>1, <2>3 DEF InFlight
<1>6. CASE PeerCloses \/ Receive \/ ReaderEnds \/ ReaderCancelled \/ Close
  BY <1>2, <1>3, <1>6 DEF InFlight, PeerCloses, Receive, ReaderEnds, ReaderCancelled, Close
<1>7. CASE CallbackReturns \/ CallbackRaises
  BY <1>2, <1>3, <1>7 DEF InFlight, CallbackReturns, CallbackRaises, wire
<1>8. ASSUME NEW c \in Callers, Register(c) \/ Return(c) \/ Expire(c) \/ Callback(c)
      PROVE  \A k : InFlight(k)' => InFlight(k)
  BY <1>2, <1>3, <1>8 DEF InFlight, Register, Return, Expire, Callback, wire
<1> QED
  BY <1>4, <1>5, <1>6, <1>7, <1>8 DEF Next

\* What was received was on its way, and is not any more.
LEMMA Received ==
    ASSUME TypeInv, OnceInv, Receive, NEW id, id = Head(responses).id
    PROVE  id \in Ids /\ InFlight(id) /\ ~InFlight(id)'
<1>1. responses \in Seq({Note} \cup {Response(k) : k \in Ids}) /\ responses # << >>
      /\ responses' = Tail(responses) /\ requests' = requests /\ responses[1].type = "response"
  BY DEF TypeInv, TypeOK, Receive
<1>2. id \in Ids
  BY ResponseType DEF TypeInv, Receive
<1>3. /\ 1 \in 1..Len(responses) /\ Head(responses) = responses[1]
      /\ \A i \in 1..Len(responses') : /\ i + 1 \in 1..Len(responses) /\ i + 1 # 1
                                     /\ responses'[i] = responses[i + 1]
  BY <1>1
<1>4. responses[1] = Response(id)
  BY <1>1, <1>3, HeadType DEF TypeInv, Note, Response
<1>5. Coming(id)
  BY <1>3, <1>4 DEF Coming
<1>6. ~Asked(id)
  BY <1>2, <1>5 DEF OnceInv
<1>7. \A i \in 1..Len(responses') : responses'[i] # Response(id)
  BY <1>1, <1>3, <1>4 DEF OnceInv
<1>8. ~Coming(id)' /\ ~Asked(id)'
  BY <1>1, <1>6, <1>7 DEF Coming, Asked, Response
<1> QED
  BY <1>2, <1>5, <1>8 DEF InFlight

\* What the end of a call records.
LEMMA FinishRecords ==
    ASSUME TypeInv, NEW c \in Callers, NEW what, Busy(c), Finish(c, what)
    PROVE  /\ outcome'[cur[c]] = what
           /\ what = "answer" => source'[cur[c]] = replyTo[c]
           /\ \A k \in Ids : k # cur[c] => outcome'[k] = outcome[k] /\ source'[k] = source[k]
           /\ \A d \in Callers : d # c => pc'[d] = pc[d] /\ reply'[d] = reply[d]
           /\ pc'[c] = "idle" /\ reply'[c] = "none" /\ cur' = cur /\ replyTo' = replyTo
<1>1. cur[c] \in Ids
  BY BegunIds
<1>2. /\ outcome' = [outcome EXCEPT ![cur[c]] = what]
      /\ source' = IF what = "answer" THEN [source EXCEPT ![cur[c]] = replyTo[c]] ELSE source
      /\ pc' = [pc EXCEPT ![c] = "idle"] /\ reply' = [reply EXCEPT ![c] = "none"]
      /\ cur' = cur /\ replyTo' = replyTo
  BY DEF Finish
<1> QED
  BY <1>1, <1>2 DEF TypeInv, TypeOK

\* A step begins a call, ends one, or leaves the calls and what they reported alone.
LEMMA StepKinds ==
    ASSUME TypeInv, Next
    PROVE  /\ lib' = lib
           /\ \/ \E c \in Callers : Register(c)
              \/ \E c \in Callers, what \in Outcomes :
                    Busy(c) /\ Finish(c, what) /\ nextId' = nextId
              \/ /\ UNCHANGED <<nextId, cur, outcome, source>>
                 /\ \A c \in Callers : Busy(c)' = Busy(c)
<1>1. lib' = lib
  BY DEF Next, Register, Send, Return, Expire, Callback, Receive, CallbackReturns, CallbackRaises,
         ReaderEnds, ReaderCancelled, Close, Answer, Notify, PeerCloses
<1>2. ASSUME NEW c \in Callers, Send(c) \/ Return(c) \/ Expire(c)
      PROVE  \/ \E what \in Outcomes : Busy(c) /\ Finish(c, what) /\ nextId' = nextId
             \/ /\ UNCHANGED <<nextId, cur, outcome, source>>
                /\ \A d \in Callers : Busy(d)' = Busy(d)
  <2>1. CASE Send(c)
    <3>1. CASE WriteFails
      BY <2>1, <3>1 DEF Send, GiveUp, Busy, Outcomes
    <3>2. CASE ~WriteFails
      BY <2>1, <3>2 DEF Send, Busy, told, TypeInv, TypeOK
    <3> QED
      BY <3>1, <3>2
  <2>2. CASE Return(c)
    BY <2>2, ReportsType DEF Return, Busy, TypeInv
  <2>3. CASE Expire(c)
    <3>1. CASE lib.timer = "waits"
      BY <2>3, <3>1 DEF Expire, Busy, told
    <3>2. CASE lib.timer # "waits"
      BY <2>3, <3>2 DEF Expire, GiveUp, Busy, Outcomes
    <3> QED
      BY <3>1, <3>2
  <2> QED
    BY <1>2, <2>1, <2>2, <2>3
<1>3. CASE CallbackRaises
  <2>1. ASSUME NEW c \in Callers, pc[c] = "waiting", Finish(c, "raised")
        PROVE  Busy(c) /\ Finish(c, "raised") /\ nextId' = nextId /\ "raised" \in Outcomes
    BY <1>3, <2>1 DEF CallbackRaises, Busy, Outcomes
  <2>2. CASE UNCHANGED <<pc, cur, told>>
    BY <1>3, <2>2 DEF CallbackRaises, Busy, told
  <2>3. \/ \E c \in Callers : pc[c] = "waiting" /\ Finish(c, "raised")
        \/ UNCHANGED <<pc, cur, told>>
    BY <1>3 DEF CallbackRaises, WakeAll, callers
  <2> QED
    BY <1>1, <2>1, <2>2, <2>3
<1>4. CASE Receive \/ ReaderEnds \/ ReaderCancelled \/ Close
  <2>1. UNCHANGED <<nextId, pc, cur, told>>
    BY <1>4 DEF Receive, ReaderEnds, ReaderCancelled, Close, WakeAll, callers
  <2> QED
    BY <1>1, <2>1 DEF Busy, told
<1>5. CASE CallbackReturns \/ \E c \in Callers : Callback(c)
  BY <1>1, <1>5 DEF CallbackReturns, Callback, Busy, told, callers
<1>6. CASE Answer \/ Notify \/ PeerCloses
  BY <1>1, <1>6 DEF Answer, Notify, PeerCloses, Busy, told, callers
<1> QED
  BY <1>1, <1>2, <1>3, <1>4, <1>5, <1>6 DEF Next

\* The key of an id does not change.
LEMMA KeysStay ==
    ASSUME TypeInv, Next, NEW id
    PROVE  Key(id)' = Key(id) /\ Slotted' = Slotted
BY StepKinds DEF Key

\* What a call reported stays as it is.
LEMMA RecordsStay ==
    ASSUME TypeInv, OutcomeInv, Next, NEW id \in Ids, outcome[id] # "none"
    PROVE  outcome'[id] = outcome[id] /\ source'[id] = source[id]
<1>1. ASSUME NEW c \in Callers, Register(c)
      PROVE  outcome'[id] = outcome[id] /\ source'[id] = source[id]
  <2>1. nextId # id
    BY DEF OutcomeInv, TypeInv, TypeOK
  <2>2. source' = source /\ (outcome' = outcome \/ outcome' = [outcome EXCEPT ![nextId] = "refused"])
    BY <1>1 DEF Register
  <2> QED
    BY <2>1, <2>2 DEF TypeInv, TypeOK
<1>2. ASSUME NEW c \in Callers, NEW what \in Outcomes, Busy(c), Finish(c, what)
      PROVE  outcome'[id] = outcome[id] /\ source'[id] = source[id]
  BY <1>2, FinishRecords DEF OutcomeInv
<1> QED
  BY <1>1, <1>2, StepKinds

LEMMA OutcomeStep ==
    ASSUME TypeInv, TableInv, OutcomeInv, Next
    PROVE  OutcomeInv'
<1>1. ASSUME NEW c \in Callers, Register(c)
      PROVE  OutcomeInv'
  <2>1. nextId \in Ids /\ nextId \in Nat /\ nextId' = nextId + 1
    BY <1>1, ClientAssumption DEF Register, TypeInv, TypeOK, Ids
  <2>2. \A d \in Callers : Busy(d)' =>
           (Busy(d) /\ cur'[d] = cur[d] /\ cur[d] \in Ids /\ cur[d] # nextId)
           \/ (cur'[d] = nextId /\ outcome' = outcome)
    <3>1. \A d \in Callers : Busy(d) => cur[d] \in Ids /\ cur[d] # nextId
      BY <2>1, BegunIds DEF TypeInv, Begun
    <3> QED
      BY <1>1, <2>1, <3>1 DEF Register, Busy, TypeInv, TypeOK
  <2>3. \A id \in Ids : id # nextId => outcome'[id] = outcome[id]
    BY <1>1 DEF Register, TypeInv, TypeOK
  <2>4. \A d \in Callers : Busy(d)' => outcome'[cur'[d]] = "none"
    <3>1. outcome[nextId] = "none" /\ \A d \in Callers : Busy(d) => outcome[cur[d]] = "none"
      BY <2>1 DEF OutcomeInv
    <3> QED
      BY <2>2, <2>3, <3>1
  <2>5. \A id \in Ids : id >= nextId' => outcome'[id] = "none"
    BY <2>1, <2>3 DEF OutcomeInv, Ids
  <2> QED
    BY <2>4, <2>5 DEF OutcomeInv
<1>2. ASSUME NEW c \in Callers, NEW what \in Outcomes, Busy(c), Finish(c, what), nextId' = nextId
      PROVE  OutcomeInv'
  <2>1. \A d \in Callers : Busy(d)' => Busy(d) /\ d # c /\ cur'[d] = cur[d] /\ cur[d] # cur[c]
    BY <1>2 DEF Finish, Busy, TypeInv, TypeOK, TableInv
  <2>2. \A d \in Callers : Busy(d)' => outcome'[cur'[d]] = "none"
    <3>1. \A d \in Callers : Busy(d) => cur[d] \in Ids
      BY BegunIds
    <3> QED
      BY <1>2, <2>1, <3>1, FinishRecords DEF OutcomeInv
  <2>3. cur[c] < nextId
    BY <1>2 DEF TypeInv, TypeOK, Begun
  <2>4. \A id \in Ids : id >= nextId => id # cur[c]
    BY <2>3, ClientAssumption DEF Ids, TypeInv, TypeOK
  <2>5. \A id \in Ids : id >= nextId' => outcome'[id] = "none"
    BY <1>2, <2>4, FinishRecords DEF OutcomeInv
  <2> QED
    BY <2>2, <2>5 DEF OutcomeInv
<1>3. CASE UNCHANGED <<nextId, cur, outcome>> /\ \A c \in Callers : Busy(c)' = Busy(c)
  BY <1>3 DEF OutcomeInv
<1> QED
  BY <1>1, <1>2, <1>3, StepKinds

\* A call whose answer was its own, or a slot's, keeps it.
LEMMA MineStays ==
    ASSUME TypeInv, OutcomeInv, Next, NEW id \in Ids, NEW s \in Nat, Mine(id, s)
    PROVE  Mine(id, s)'
<1>1. CASE s = id
  BY <1>1 DEF Mine
<1>2. CASE s # id
  <2>1. Slotted /\ s < id /\ Key(s) = Key(id) /\ Missed(s) /\ s \in Ids
    BY <1>2, ClientAssumption DEF Mine, Ids
  <2>2. outcome'[s] = outcome[s] /\ source'[s] = source[s]
    BY <2>1, RecordsStay DEF Missed
  <2>3. Missed(s)'
    BY <2>1, <2>2 DEF Missed
  <2>4. Key(s)' = Key(s) /\ Key(id)' = Key(id) /\ Slotted' = Slotted
    BY KeysStay
  <2> QED
    BY <2>1, <2>3, <2>4 DEF Mine
<1> QED
  BY <1>1, <1>2

\* In a library with slots, a response that finds its slot taken by another call
\* is one whose own call missed it before that other call began.
LEMMA SlotHit ==
    ASSUME CallInv, OnceInv, SlotInv, Receive, Slotted, NEW id, id = Head(responses).id,
           NEW p \in Callers, pending[Key(id)] = p
    PROVE  Busy(p) /\ Mine(cur[p], id)
<1>1. id \in Ids /\ InFlight(id) /\ id < nextId
  BY Received DEF CallInv, OnceInv, InFlight
<1>2. Key(id) \in Keys
  BY <1>1, KeyType DEF CallInv, TypeInv, TypeOK
<1>3. Busy(p) /\ Key(cur[p]) = Key(id)
  BY <1>2, ClientAssumption DEF SlotInv, Held
<1>4. ASSUME id # cur[p]
      PROVE  Missed(id)
  <2>1. reader = "running"
    BY DEF Receive, Reading
  <2>2. ASSUME NEW c \in Callers, pc[c] = "waiting", cur[c] = id
        PROVE  FALSE
    <3>1. pending[Key(id)] = c
      BY <2>2 DEF CallInv, TableInv, Busy, Listing
    <3> QED
      BY <1>4, <2>2, <3>1
  <2> QED
    BY <1>1, <2>1, <2>2 DEF SlotInv, Expected
<1>5. ASSUME id # cur[p]
      PROVE  id < cur[p]
  <2>1. cur[p] \in Ids
    BY <1>3, BegunIds DEF CallInv
  <2>2. ~(cur[p] < id)
    BY <1>1, <1>3, <1>4, <1>5 DEF SlotInv, Latest, Missed
  <2> QED
    BY <1>1, <1>5, <2>1, <2>2, ClientAssumption DEF Ids
<1> QED
  BY <1>3, <1>4, <1>5 DEF Mine

\* The response that is received is recorded with a call that waits for it, or whose
\* slot it is.
LEMMA AnswerAfterReceive ==
    ASSUME CallInv, OnceInv, OutcomeInv, AnswerInv, SlotInv, Next, Receive
    PROVE  /\ \A c \in Callers : ~Busy(c)' => reply'[c] = "none"
           /\ \A c \in Callers : reply'[c] = "answer" => Mine(cur[c], replyTo'[c])
<1> DEFINE id == Head(responses).id
           p == pending[Key(id)]
           waits == p # NoCaller /\ (Slotted \/ (pc[p] # "idle" /\ cur[p] = id))
<1>1. /\ pc' = pc
      /\ reply' = IF waits THEN [reply EXCEPT ![p] = "answer"] ELSE reply
      /\ replyTo' = IF waits THEN [replyTo EXCEPT ![p] = id] ELSE replyTo
  BY DEF Receive
<1>2. id \in Ids
  BY ResponseType DEF Receive, CallInv, TypeInv
<1>3. Key(id) \in Keys
  BY <1>2, KeyType DEF CallInv, TypeInv, TypeOK
<1>4. waits => p \in Callers
  BY <1>3 DEF CallInv, TypeInv, TypeOK
<1>5. ASSUME waits
      PROVE  Busy(p) /\ Mine(cur[p], id)
  <2>1. CASE Slotted
    BY <1>4, <1>5, <2>1, SlotHit
  <2>2. CASE ~Slotted
    BY <1>5, <2>2 DEF Busy, Mine
  <2> QED
    BY <2>1, <2>2
<1> HIDE DEF id, p, waits
<1>6. \A c \in Callers : ~Busy(c)' => reply'[c] = "none"
  BY <1>1, <1>4, <1>5 DEF AnswerInv, Busy, CallInv, TypeInv, TypeOK
<1>7. ASSUME NEW c \in Callers, reply'[c] = "answer"
      PROVE  Mine(cur[c], replyTo'[c])
  <2>1. CASE waits /\ c = p
    BY <1>1, <1>4, <1>5, <2>1 DEF CallInv, TypeInv, TypeOK
  <2>2. CASE ~(waits /\ c = p)
    BY <1>1, <1>4, <1>7, <2>2 DEF AnswerInv, CallInv, TypeInv, TypeOK
  <2> QED
    BY <2>1, <2>2
<1> QED
  BY <1>6, <1>7

\* What a call holds after a step, it held before or has just received.
LEMMA RepliesStep ==
    ASSUME CallInv, OnceInv, OutcomeInv, AnswerInv, SlotInv, Next
    PROVE  /\ \A c \in Callers : ~Busy(c)' => reply'[c] = "none"
           /\ \A c \in Callers : reply'[c] = "answer" =>
                 cur'[c] = cur[c] /\ Mine(cur[c], replyTo'[c])
<1> DEFINE Good == /\ \A c \in Callers : ~Busy(c)' => reply'[c] = "none"
                   /\ \A c \in Callers : reply'[c] = "answer" =>
                         cur'[c] = cur[c] /\ Mine(cur[c], replyTo'[c])
<1>1. ASSUME UNCHANGED <<cur, reply, replyTo>>, \A c \in Callers : Busy(c)' = Busy(c)
      PROVE  Good
  BY <1>1 DEF AnswerInv
<1>2. ASSUME NEW c \in Callers, NEW what, Finish(c, what)
      PROVE  Good
  <2>1. cur' = cur /\ replyTo' = replyTo /\ reply' = [reply EXCEPT ![c] = "none"]
        /\ pc' = [pc EXCEPT ![c] = "idle"]
    BY <1>2 DEF Finish
  <2> QED
    BY <2>1 DEF AnswerInv, Busy, CallInv, TypeInv, TypeOK
<1>3. ASSUME WakeAll
      PROVE  Good
  <2>1. cur' = cur /\ replyTo' = replyTo /\ pc' = pc
    BY <1>3 DEF WakeAll
  <2>2. \A c \in Callers : reply'[c] = reply[c] \/ (Busy(c) /\ reply'[c] = "lost")
    BY <1>3 DEF WakeAll, Listed, Busy
  <2> QED
    BY <2>1, <2>2 DEF AnswerInv, Busy
<1>4. ASSUME NEW c \in Callers, Register(c)
      PROVE  Good
  <2>1. ~Busy(c) /\ UNCHANGED <<reply, replyTo>>
        /\ \A d \in Callers \ {c} : cur'[d] = cur[d] /\ Busy(d)' = Busy(d)
    BY <1>4 DEF Register, Busy, CallInv, TypeInv, TypeOK
  <2>2. reply[c] = "none"
    BY <2>1 DEF AnswerInv
  <2> QED
    BY <2>1, <2>2 DEF AnswerInv
<1>5. ASSUME NEW c \in Callers, Send(c)
      PROVE  Good
  <2>1. CASE WriteFails
    BY <1>2, <1>5, <2>1 DEF Send, GiveUp
  <2>2. CASE ~WriteFails
    BY <1>1, <1>5, <2>2 DEF Send, Busy, CallInv, TypeInv, TypeOK
  <2> QED
    BY <2>1, <2>2
<1>6. ASSUME NEW c \in Callers, Return(c)
      PROVE  Good
  BY <1>2, <1>6 DEF Return
<1>7. ASSUME NEW c \in Callers, Expire(c)
      PROVE  Good
  <2>1. CASE lib.timer = "waits"
    BY <1>1, <1>7, <2>1 DEF Expire, Busy
  <2>2. CASE lib.timer # "waits"
    BY <1>2, <1>7, <2>2 DEF Expire, GiveUp
  <2> QED
    BY <2>1, <2>2
<1>8. CASE Receive
  <2>1. cur' = cur
    BY <1>8 DEF Receive
  <2> QED
    BY <1>8, <2>1, AnswerAfterReceive
<1>9. CASE CallbackRaises
  <2>1. CASE WakeAll
    BY <1>3, <2>1
  <2>2. CASE UNCHANGED callers
    BY <1>1, <2>2 DEF callers, Busy
  <2>3. CASE \E c \in Callers : Finish(c, "raised")
    BY <1>2, <2>3
  <2> QED
    BY <1>9, <2>1, <2>2, <2>3 DEF CallbackRaises
<1>10. CASE ReaderEnds
  BY <1>3, <1>10 DEF ReaderEnds
<1>11. CASE Close
  <2>1. CASE lib.close = "wakes"
    BY <1>3, <1>11, <2>1 DEF Close
  <2>2. CASE lib.close # "wakes"
    BY <1>1, <1>11, <2>2 DEF Close, callers, Busy
  <2> QED
    BY <2>1, <2>2
<1>12. CASE ReaderCancelled \/ CallbackReturns \/ \E c \in Callers : Callback(c)
  BY <1>1, <1>12 DEF ReaderCancelled, CallbackReturns, Callback, callers, Busy
<1>13. CASE Answer \/ Notify \/ PeerCloses
  BY <1>1, <1>13 DEF Answer, Notify, PeerCloses, callers, Busy
<1> QED
  BY <1>4, <1>5, <1>6, <1>7, <1>8, <1>9, <1>10, <1>11, <1>12, <1>13 DEF Next

\* Only a call that was given an answer reports one.
LEMMA AnswersReported ==
    ASSUME CallInv, OnceInv, OutcomeInv, AnswerInv, SlotInv, Next,
           NEW id \in Ids, outcome'[id] = "answer", outcome[id] # "answer"
    PROVE  source'[id] \in Nat /\ Mine(id, source'[id])
<1>1. ASSUME NEW c \in Callers, NEW what, Busy(c), Finish(c, what), what = "answer" => reply[c] = "answer"
      PROVE  source'[id] \in Nat /\ Mine(id, source'[id])
  <2>1. id = cur[c] /\ what = "answer" /\ source'[id] = replyTo[c]
    BY <1>1, FinishRecords DEF CallInv
  <2> QED
    BY <1>1, <2>1 DEF AnswerInv, CallInv, TypeInv, TypeOK
<1>2. ASSUME outcome' = outcome
      PROVE  FALSE
  BY <1>2
<1>3. ASSUME NEW c \in Callers, Register(c)
      PROVE  FALSE
  BY <1>3 DEF Register, CallInv, TypeInv, TypeOK
<1>4. ASSUME NEW c \in Callers, Send(c)
      PROVE  source'[id] \in Nat /\ Mine(id, source'[id])
  BY <1>1, <1>2, <1>4 DEF Send, GiveUp, Busy, told
<1>5. ASSUME NEW c \in Callers, Return(c)
      PROVE  source'[id] \in Nat /\ Mine(id, source'[id])
  <2>1. \A what \in Reports(c) : what = "answer" => reply[c] = "answer"
    <3>1. lib.lost # "answer"
      BY ClientAssumption DEF CallInv, TypeInv, TypeOK, Profile
    <3> QED
      BY <3>1 DEF Reports
  <2>2. Busy(c) /\ \E what \in Reports(c) : Finish(c, what)
    BY <1>5 DEF Return, Busy
  <2> QED
    BY <1>1, <2>1, <2>2
<1>6. ASSUME NEW c \in Callers, Expire(c)
      PROVE  source'[id] \in Nat /\ Mine(id, source'[id])
  BY <1>1, <1>2, <1>6 DEF Expire, GiveUp, Busy, told
<1>7. CASE CallbackRaises
  <2>1. CASE UNCHANGED told
    BY <1>2, <2>1 DEF told
  <2>2. ASSUME NEW c \in Callers, pc[c] = "waiting", Finish(c, "raised")
        PROVE  source'[id] \in Nat /\ Mine(id, source'[id])
    BY <1>1, <2>2 DEF Busy
  <2> QED
    BY <1>7, <2>1, <2>2 DEF CallbackRaises
<1>8. CASE Receive \/ ReaderEnds \/ ReaderCancelled \/ Close
  BY <1>2, <1>8 DEF Receive, ReaderEnds, ReaderCancelled, Close, told
<1>9. CASE CallbackReturns \/ \E c \in Callers : Callback(c)
  BY <1>2, <1>9 DEF CallbackReturns, Callback, told
<1>10. CASE Answer \/ Notify \/ PeerCloses
  BY <1>2, <1>10 DEF Answer, Notify, PeerCloses, told
<1> QED
  BY <1>3, <1>4, <1>5, <1>6, <1>7, <1>8, <1>9, <1>10 DEF Next

LEMMA AnswerStep ==
    ASSUME CallInv, OnceInv, OutcomeInv, AnswerInv, SlotInv, Next
    PROVE  AnswerInv'
<1>1. TypeInv' /\ TypeInv
  BY TypeStep DEF CallInv
<1>2. ASSUME NEW c \in Callers, reply'[c] = "answer"
      PROVE  Mine(cur[c], replyTo[c])'
  <2>1. cur'[c] = cur[c] /\ Mine(cur[c], replyTo'[c]) /\ Busy(c)'
    BY <1>2, RepliesStep
  <2>2. cur'[c] \in Ids /\ replyTo'[c] \in Nat
    <3>1. cur'[c] \in 0..nextId' - 1 /\ nextId' \in 0..MaxCalls /\ replyTo'[c] \in Nat
      BY <1>1, <2>1 DEF TypeInv, TypeOK, Begun
    <3> QED
      BY <3>1, ClientAssumption DEF Ids
  <2>3. ASSUME NEW i \in Ids, NEW s \in Nat, Mine(i, s)
        PROVE  Mine(i, s)'
    BY <1>1, <2>3, MineStays
  <2> QED
    BY <2>1, <2>2, <2>3 DEF Mine
<1>3. ASSUME NEW id \in Ids, outcome'[id] = "answer"
      PROVE  Mine(id, source[id])'
  <2>1. source'[id] \in Nat /\ Mine(id, source'[id])
    <3>1. CASE outcome[id] = "answer"
      BY <1>1, <3>1, RecordsStay DEF AnswerInv, TypeInv, TypeOK
    <3>2. CASE outcome[id] # "answer"
      BY <1>3, <3>2, AnswersReported
    <3> QED
      BY <3>1, <3>2
  <2>2. ASSUME NEW s \in Nat, Mine(id, s)
        PROVE  Mine(id, s)'
    BY <1>1, <2>2, MineStays
  <2> QED
    BY <2>1, <2>2 DEF Mine
<1> QED
  BY <1>2, <1>3, RepliesStep DEF AnswerInv

\* In a library with slots no callback ends the reader, and a call that ends, however
\* it ends, frees its slot and no other.
LEMMA SlotDecisions ==
    ASSUME TypeOK, Slotted
    PROVE  /\ lib.cleans /\ ~lib.takes /\ ~lib.clears /\ lib.close = "alone" /\ lib.failure = {}
           /\ ~CallbackRaises
<1>1. lib.cleans /\ ~lib.takes /\ ~lib.clears /\ lib.close = "alone" /\ lib.failure = {}
  BY ClientAssumption DEF TypeOK
<1> QED
  BY <1>1 DEF CallbackRaises

LEMMA HeldAfterForget ==
    ASSUME TypeInv, TableInv, Slotted, Held, NEW c \in Callers, NEW what, Busy(c),
           Finish(c, what), Forget(c), lib' = lib
    PROVE  Held'
<1>1. \A d \in Callers \ {c} : Busy(d)' = Busy(d) /\ cur'[d] = cur[d]
  BY DEF Finish, Busy, TypeInv, TypeOK
<1>2. ASSUME NEW k \in Keys, pending'[k] # NoCaller
      PROVE  pending[k] = pending'[k] /\ k # Key(cur[c]) /\ pending[k] \in Callers
  BY <1>2 DEF Forget, TypeInv, TypeOK
<1>3. ASSUME NEW k \in Keys, pending'[k] # NoCaller
      PROVE  (Busy(pending[k]) /\ Key(cur[pending[k]]) = k)'
  <2>1. pending[k] # c /\ Busy(pending[k]) /\ Key(cur[pending[k]]) = k
    BY <1>2, <1>3 DEF Held
  <2> QED
    BY <1>1, <1>2, <1>3, <2>1 DEF Key
<1> QED
  BY <1>3 DEF Held

LEMMA HeldStep ==
    ASSUME TypeInv, TableInv, Slotted, Held, Next
    PROVE  Held'
<1>1. ASSUME UNCHANGED <<lib, cur, pending>>, \A c \in Callers : Busy(c)' = Busy(c)
      PROVE  Held'
  BY <1>1, ClientAssumption DEF Held, Key, TypeInv, TypeOK
<1>2. ASSUME NEW c \in Callers, NEW what, Busy(c), GiveUp(c, what), lib' = lib
      PROVE  Held'
  BY <1>2, HeldAfterForget, SlotDecisions DEF GiveUp, TypeInv
<1>3. ASSUME NEW c \in Callers, Register(c)
      PROVE  Held'
  <2>1. CASE pending[Key(nextId)] # NoCaller
    BY <1>1, <1>3, <2>1 DEF Register, Busy
  <2>2. CASE pending[Key(nextId)] = NoCaller
    <3>1. /\ pending' = [pending EXCEPT ![Key(nextId)] = c] /\ lib' = lib /\ ~Busy(c)
          /\ cur' = [cur EXCEPT ![c] = nextId] /\ pc' = [pc EXCEPT ![c] = "registered"]
      BY <1>3, <2>2 DEF Register, Busy
    <3>2. /\ Busy(c)' /\ cur'[c] = nextId
          /\ \A d \in Callers \ {c} : Busy(d)' = Busy(d) /\ cur'[d] = cur[d]
      BY <3>1 DEF Busy, TypeInv, TypeOK
    <3>3. ASSUME NEW k \in Keys, pending'[k] # NoCaller
          PROVE  (Busy(pending[k]) /\ Key(cur[pending[k]]) = k)'
      <4>1. CASE k = Key(nextId)
        BY <3>1, <3>2, <4>1 DEF Key, TypeInv, TypeOK
      <4>2. CASE k # Key(nextId)
        <5>1. pending'[k] = pending[k] /\ pending[k] \in Callers
          BY <3>1, <3>3, <4>2 DEF TypeInv, TypeOK
        <5>2. Busy(pending[k]) /\ Key(cur[pending[k]]) = k /\ pending[k] # c
          BY <3>1, <3>3, <5>1 DEF Held
        <5> QED
          BY <3>1, <3>2, <5>1, <5>2 DEF Key
      <4> QED
        BY <4>1, <4>2
    <3> QED
      BY <3>3 DEF Held
  <2> QED
    BY <2>1, <2>2
<1>4. ASSUME NEW c \in Callers, Send(c)
      PROVE  Held'
  <2>1. CASE WriteFails
    BY <1>2, <1>4, <2>1 DEF Send, Busy
  <2>2. CASE ~WriteFails
    BY <1>1, <1>4, <2>2 DEF Send, Busy, table, TypeInv, TypeOK
  <2> QED
    BY <2>1, <2>2
<1>5. ASSUME NEW c \in Callers, Return(c)
      PROVE  Held'
  BY <1>5, HeldAfterForget DEF Return, Busy
<1>6. ASSUME NEW c \in Callers, Expire(c)
      PROVE  Held'
  <2>1. CASE lib.timer = "waits"
    BY <1>1, <1>6, <2>1 DEF Expire, Busy, table
  <2>2. CASE lib.timer # "waits"
    BY <1>2, <1>6, <2>2 DEF Expire, Busy
  <2> QED
    BY <2>1, <2>2
<1>7. CASE Receive
  BY <1>1, <1>7, SlotDecisions DEF Receive, Busy, TypeInv
<1>8. CASE ReaderEnds
  BY <1>1, <1>8, WakesAll DEF ReaderEnds, Busy
<1>9. CASE Close
  BY <1>1, <1>9, SlotDecisions DEF Close, Busy, callers, table, TypeInv
<1>10. CASE CallbackReturns \/ ReaderCancelled \/ \E c \in Callers : Callback(c)
  BY <1>1, <1>10 DEF CallbackReturns, ReaderCancelled, Callback, callers, table, Busy
<1>11. CASE Answer \/ Notify \/ PeerCloses
  BY <1>1, <1>11 DEF Answer, Notify, PeerCloses, callers, table, Busy
<1> QED
  BY <1>3, <1>4, <1>5, <1>6, <1>7, <1>8, <1>9, <1>10, <1>11, SlotDecisions DEF Next, TypeInv

LEMMA LatestStep ==
    ASSUME TypeInv, TableInv, OutcomeInv, Slotted, Latest, Next
    PROVE  Latest'
<1> SUFFICES ASSUME NEW c \in Callers, NEW id \in Ids,
                    Busy(c)', cur'[c] < id, id < nextId', (Key(id) = Key(cur[c]))'
             PROVE  outcome'[id] = "refused"
  BY DEF Latest
<1>1. lib' = lib
  BY StepKinds
<1>2. Key(id) = Key(cur'[c])
  BY <1>1 DEF Key
<1>3. ASSUME Busy(c), cur'[c] = cur[c], id < nextId
      PROVE  outcome'[id] = "refused"
  <2>1. outcome[id] = "refused"
    BY <1>2, <1>3 DEF Latest
  <2> QED
    BY <2>1, RecordsStay
<1>4. ASSUME NEW d \in Callers, Register(d)
      PROVE  outcome'[id] = "refused"
  <2>1. nextId' = nextId + 1 /\ nextId \in Nat /\ id \in Nat
    BY <1>4, ClientAssumption DEF Register, TypeInv, TypeOK, Ids
  <2>2. CASE pending[Key(nextId)] # NoCaller
    <3>1. pc' = pc /\ cur' = cur /\ outcome' = [outcome EXCEPT ![nextId] = "refused"]
      BY <1>4, <2>2 DEF Register
    <3>2. CASE id = nextId
      BY <3>1, <3>2 DEF TypeInv, TypeOK
    <3>3. CASE id # nextId
      BY <1>3, <2>1, <3>1, <3>3 DEF Busy
    <3> QED
      BY <3>2, <3>3
  <2>3. CASE pending[Key(nextId)] = NoCaller
    <3>1. pc' = [pc EXCEPT ![d] = "registered"] /\ cur' = [cur EXCEPT ![d] = nextId]
      BY <1>4, <2>3 DEF Register
    <3>2. c # d
      BY <2>1, <3>1 DEF TypeInv, TypeOK
    <3>3. Busy(c) /\ cur'[c] = cur[c]
      BY <3>1, <3>2 DEF Busy, TypeInv, TypeOK
    <3>4. pending[Key(cur[c])] = c
      BY <3>3 DEF TableInv, Listing
    <3>5. id # nextId
      BY <1>2, <2>3, <3>3, <3>4, ClientAssumption
    <3> QED
      BY <1>3, <2>1, <3>3, <3>5
  <2> QED
    BY <2>2, <2>3
<1>5. ASSUME NEW d \in Callers, NEW what \in Outcomes, Busy(d), Finish(d, what), nextId' = nextId
      PROVE  outcome'[id] = "refused"
  BY <1>3, <1>5 DEF Finish, Busy, TypeInv, TypeOK
<1>6. CASE UNCHANGED <<nextId, cur>> /\ \A d \in Callers : Busy(d)' = Busy(d)
  BY <1>3, <1>6
<1> QED
  BY <1>4, <1>5, <1>6, StepKinds

\* A call that has not been sent is not given its own answer.
LEMMA UnsentStep ==
    ASSUME CallInv, OnceInv, AnswerInv, SlotInv, Slotted, Next
    PROVE  Unsent'
<1>1. Unsent
  BY DEF SlotInv
<1>2. ASSUME \A c \in Callers : pc'[c] = "registered" /\ reply'[c] = "answer" =>
                /\ pc[c] = "registered" /\ reply[c] = "answer"
                /\ cur'[c] = cur[c] /\ replyTo'[c] = replyTo[c]
      PROVE  Unsent'
  BY <1>1, <1>2 DEF Unsent
<1>3. ASSUME NEW c \in Callers, NEW what, Finish(c, what)
      PROVE  Unsent'
  BY <1>2, <1>3 DEF Finish, CallInv, TypeInv, TypeOK
<1>4. ASSUME NEW c \in Callers, Register(c)
      PROVE  Unsent'
  <2>1. reply[c] = "none" /\ reply' = reply /\ replyTo' = replyTo
    BY <1>4 DEF Register, AnswerInv, Busy
  <2> QED
    BY <1>2, <1>4, <2>1 DEF Register, CallInv, TypeInv, TypeOK
<1>5. ASSUME NEW c \in Callers, Send(c)
      PROVE  Unsent'
  BY <1>2, <1>3, <1>5 DEF Send, GiveUp, CallInv, TypeInv, TypeOK
<1>6. ASSUME NEW c \in Callers, Return(c)
      PROVE  Unsent'
  BY <1>3, <1>6 DEF Return
<1>7. ASSUME NEW c \in Callers, Expire(c)
      PROVE  Unsent'
  BY <1>2, <1>3, <1>7 DEF Expire, GiveUp
<1>8. CASE Receive
  <2> DEFINE id == Head(responses).id
             p == pending[Key(id)]
             waits == p # NoCaller /\ (Slotted \/ (pc[p] # "idle" /\ cur[p] = id))
  <2>1. /\ pc' = pc /\ cur' = cur
        /\ reply' = IF waits THEN [reply EXCEPT ![p] = "answer"] ELSE reply
        /\ replyTo' = IF waits THEN [replyTo EXCEPT ![p] = id] ELSE replyTo
    BY <1>8 DEF Receive
  <2>2. Coming(id) \/ Asked(id)
    BY <1>8, Received DEF CallInv, InFlight
  <2> HIDE DEF id, p, waits
  <2>3. \A c \in Callers : pc[c] = "registered" => cur[c] # id
    BY <2>2 DEF OnceInv
  <2>4. ASSUME NEW c \in Callers, pc'[c] = "registered", reply'[c] = "answer"
        PROVE  replyTo'[c] # cur'[c]
    <3>1. CASE waits /\ c = p
      BY <2>1, <2>3, <2>4, <3>1 DEF CallInv, TypeInv, TypeOK
    <3>2. CASE ~(waits /\ c = p)
      BY <1>1, <2>1, <2>4, <3>2 DEF Unsent, CallInv, TypeInv, TypeOK
    <3> QED
      BY <3>1, <3>2
  <2> QED
    BY <2>4 DEF Unsent
<1>9. CASE ReaderEnds
  BY <1>2, <1>9 DEF ReaderEnds, WakeAll, CallInv, TypeInv, TypeOK
<1>10. CASE Close
  BY <1>2, <1>10, SlotDecisions DEF Close, callers, CallInv, TypeInv
<1>11. CASE CallbackReturns \/ ReaderCancelled \/ \E c \in Callers : Callback(c)
  BY <1>2, <1>11 DEF CallbackReturns, ReaderCancelled, Callback, callers
<1>12. CASE Answer \/ Notify \/ PeerCloses
  BY <1>2, <1>12 DEF Answer, Notify, PeerCloses, callers
<1> QED
  BY <1>4, <1>5, <1>6, <1>7, <1>8, <1>9, <1>10, <1>11, <1>12, SlotDecisions
     DEF Next, CallInv, TypeInv

\* A client with slots is closed when it has no call, and makes none after that.
LEMMA ClosedStep ==
    ASSUME CallInv, SlotInv, Slotted, Next, closing'
    PROVE  \A c \in Callers : ~Busy(c)'
<1>1. CASE Close
  BY <1>1, SlotDecisions DEF Close, Busy, callers, CallInv, TypeInv
<1>2. CASE closing
  <2>1. \A c \in Callers : ~Register(c)
    BY <1>2, SlotDecisions DEF Register, CallInv, TypeInv
  <2>2. \A c \in Callers : ~Busy(c)
    BY <1>2 DEF SlotInv
  <2> QED
    BY <2>1, <2>2, StepKinds DEF CallInv
<1>3. CASE ~Close
  <2>1. closing' = closing
    BY <1>3, SlotDecisions DEF Next, Register, Send, Return, Expire, Callback, Receive, CallbackReturns,
         ReaderEnds, ReaderCancelled, Answer, Notify, PeerCloses, CallInv, TypeInv
  <2> QED
    BY <1>2, <2>1
<1> QED
  BY <1>1, <1>3

\* While the reader runs nobody is told that the connection is lost.
LEMMA LostStep ==
    ASSUME CallInv, SlotInv, Slotted, Next, reader' = "running"
    PROVE  reader = "running" /\ \A c \in Callers : reply'[c] # "lost"
<1>1. ASSUME reader = "running", \A c \in Callers : reply'[c] = "lost" => reply[c] = "lost"
      PROVE  reader = "running" /\ \A c \in Callers : reply'[c] # "lost"
  BY <1>1 DEF SlotInv
<1>2. ASSUME NEW c \in Callers, NEW what, Finish(c, what)
      PROVE  \A d \in Callers : reply'[d] = "lost" => reply[d] = "lost"
  BY <1>2 DEF Finish, CallInv, TypeInv, TypeOK
<1>3. ASSUME NEW c \in Callers, Register(c) \/ Callback(c)
      PROVE  reader = "running" /\ reply' = reply
  BY <1>3 DEF Register, Callback, callers
<1>4. ASSUME NEW c \in Callers, Send(c) \/ Return(c) \/ Expire(c)
      PROVE  reader = "running" /\ \A d \in Callers : reply'[d] = "lost" => reply[d] = "lost"
  BY <1>2, <1>4 DEF Send, Return, Expire, GiveUp
<1>5. CASE Receive
  BY <1>1, <1>5 DEF Receive, CallInv, TypeInv, TypeOK
<1>6. CASE Close
  BY <1>1, <1>6, SlotDecisions DEF Close, callers, CallInv, TypeInv
<1>7. CASE Answer \/ Notify \/ PeerCloses \/ CallbackReturns
  BY <1>1, <1>7 DEF Answer, Notify, PeerCloses, CallbackReturns, callers
<1> QED
  BY <1>1, <1>3, <1>4, <1>5, <1>6, <1>7, SlotDecisions
     DEF Next, ReaderEnds, ReaderCancelled, CallInv, TypeInv

\* A response on its way stays expected while its call waits as it did.
LEMMA ExpectedStays ==
    ASSUME TypeInv, OutcomeInv, Expected, Next, NEW id \in Ids, InFlight(id),
           NEW c, \A d \in Callers \ {c} : pc[d] = "waiting" /\ cur[d] = id =>
                     /\ pc'[d] = "waiting" /\ cur'[d] = id
                     /\ reply'[d] = "answer" => reply[d] = "answer" /\ replyTo'[d] = replyTo[d]
    PROVE  \/ Missed(id)'
           \/ \E d \in Callers : /\ pc'[d] = "waiting" /\ cur'[d] = id
                                 /\ reply'[d] = "answer" => replyTo'[d] # id
           \/ c \in Callers /\ pc[c] = "waiting" /\ cur[c] = id
              /\ (reply[c] = "answer" => replyTo[c] # id)
<1>1. CASE Missed(id)
  <2>1. outcome'[id] = outcome[id] /\ source'[id] = source[id]
    BY <1>1, RecordsStay DEF Missed
  <2> QED
    BY <1>1, <2>1 DEF Missed
<1>2. CASE ~Missed(id)
  <2>1. PICK d \in Callers : /\ pc[d] = "waiting" /\ cur[d] = id
                             /\ reply[d] = "answer" => replyTo[d] # id
    BY <1>2 DEF Expected
  <2> QED
    BY <2>1
<1> QED
  BY <1>1, <1>2

\* What a call of a library with slots can report while the reader runs.
LEMMA SlotReports ==
    ASSUME CallInv, AnswerInv, SlotInv, Slotted, reader = "running",
           NEW c \in Callers, Return(c), reply[c] = "answer" => replyTo[c] # cur[c], Next
    PROVE  Missed(cur[c])'
<1>1. Busy(c) /\ ~closing /\ reply[c] # "lost"
  BY DEF Return, Busy, SlotInv
<1>2. PICK what \in Reports(c) : Finish(c, what)
  BY DEF Return
<1>3. outcome'[cur[c]] = what /\ (what = "answer" => source'[cur[c]] = replyTo[c])
  BY <1>1, <1>2, FinishRecords DEF CallInv
<1>4. what = "timeout" \/ (what = "answer" /\ reply[c] = "answer")
  BY <1>1, <1>2 DEF Reports, Closed
<1>5. reply[c] = "answer" => replyTo[c] < cur[c]
  BY DEF AnswerInv, Mine
<1>6. cur' = cur
  BY <1>2 DEF Finish
<1> QED
  BY <1>3, <1>4, <1>5, <1>6 DEF Missed

LEMMA ExpectedStep ==
    ASSUME CallInv, OnceInv, OutcomeInv, AnswerInv, SlotInv, Slotted, Next, reader' = "running"
    PROVE  Expected'
<1> DEFINE Good(id) == \/ Missed(id)'
                       \/ \E c \in Callers : /\ pc'[c] = "waiting" /\ cur'[c] = id
                                             /\ reply'[c] = "answer" => replyTo'[c] # id
<1>1. reader = "running" /\ Expected /\ lib.failure = {}
  BY LostStep, SlotDecisions DEF SlotInv, CallInv, TypeInv
<1>2. SUFFICES ASSUME NEW id \in Ids, InFlight(id)' PROVE Good(id)
  BY DEF Expected
<1>3. ASSUME InFlight(id), UNCHANGED <<pc, cur, reply, replyTo>>
      PROVE  Good(id)
  <2>1. NoCaller \notin Callers
    BY ClientAssumption
  <2> QED
    BY <1>1, <1>3, <2>1, ExpectedStays DEF CallInv
<1>4. ASSUME NEW c \in Callers, NEW what, Finish(c, what), InFlight(id),
             (pc[c] = "waiting" /\ cur[c] = id /\ (reply[c] = "answer" => replyTo[c] # id)) => Good(id)
      PROVE  Good(id)
  <2>1. \A d \in Callers \ {c} : pc'[d] = pc[d] /\ cur'[d] = cur[d] /\ reply'[d] = reply[d]
                                 /\ replyTo'[d] = replyTo[d]
    BY <1>4 DEF Finish, CallInv, TypeInv, TypeOK
  <2> QED
    BY <1>1, <1>4, <2>1, ExpectedStays DEF CallInv
<1>5. ASSUME ~(\E c \in Callers : Send(c))
      PROVE  InFlight(id)
  BY <1>1, <1>2, <1>5, FlightStep DEF CallInv
<1>6. ASSUME NEW c \in Callers, Send(c)
      PROVE  Good(id)
  <2>1. CASE WriteFails
    <3>1. requests' = requests /\ responses' = responses /\ Finish(c, "failed") /\ pc[c] = "registered"
      BY <1>6, <2>1 DEF Send, GiveUp
    <3>2. InFlight(id)
      BY <1>2, <3>1 DEF InFlight, Asked, Coming
    <3> QED
      BY <1>4, <3>1, <3>2
  <2>2. CASE ~WriteFails
    <3>1. /\ requests' = Append(requests, cur[c]) /\ responses' = responses
          /\ pc' = [pc EXCEPT ![c] = "waiting"] /\ UNCHANGED <<cur, reply, replyTo>>
          /\ pc[c] = "registered"
      BY <1>6, <2>2 DEF Send
    <3>2. CASE id = cur[c]
      <4>1. reply[c] = "answer" => replyTo[c] # cur[c]
        BY <3>1 DEF SlotInv, Unsent
      <4>2. pc'[c] = "waiting"
        BY <3>1 DEF CallInv, TypeInv, TypeOK
      <4> QED
        BY <3>1, <3>2, <4>1, <4>2
    <3>3. CASE id # cur[c]
      <4>1. InFlight(id)
        <5>1. requests \in Seq(Ids) /\ cur[c] \in Ids
          BY <3>1, BegunIds DEF CallInv, TypeInv, TypeOK, Busy
        <5>2. \A i \in 1..Len(requests') : (i \in 1..Len(requests) /\ requests'[i] = requests[i])
                                           \/ requests'[i] = cur[c]
          BY <3>1, <5>1
        <5>3. Asked(id)' => Asked(id)
          BY <3>3, <5>2 DEF Asked
        <5>4. Coming(id)' => Coming(id)
          BY <3>1 DEF Coming
        <5> QED
          BY <1>2, <5>3, <5>4 DEF InFlight
      <4>2. \A d \in Callers \ {c} : pc'[d] = pc[d]
        BY <3>1 DEF CallInv, TypeInv, TypeOK
      <4> QED
        BY <1>1, <3>1, <4>1, <4>2, ExpectedStays DEF CallInv
    <3> QED
      BY <3>2, <3>3
  <2> QED
    BY <2>1, <2>2
<1>7. ASSUME NEW c \in Callers, Register(c), InFlight(id)
      PROVE  Good(id)
  <2>1. \A d \in Callers \ {c} : pc'[d] = pc[d] /\ cur'[d] = cur[d] /\ reply'[d] = reply[d]
                                 /\ replyTo'[d] = replyTo[d]
    BY <1>7 DEF Register, CallInv, TypeInv, TypeOK
  <2>2. pc[c] = "idle"
    BY <1>7 DEF Register
  <2> QED
    BY <1>1, <1>7, <2>1, <2>2, ExpectedStays DEF CallInv
<1>8. ASSUME NEW c \in Callers, Return(c), InFlight(id)
      PROVE  Good(id)
  <2>1. ASSUME pc[c] = "waiting", cur[c] = id, reply[c] = "answer" => replyTo[c] # id
        PROVE  Good(id)
    <3>1. Missed(cur[c])' /\ cur' = cur
      BY <1>1, <1>8, <2>1, SlotReports DEF Return, Finish
    <3> QED
      BY <2>1, <3>1 DEF Missed
  <2> QED
    BY <1>4, <1>8, <2>1 DEF Return
<1>9. ASSUME NEW c \in Callers, Expire(c), InFlight(id)
      PROVE  Good(id)
  <2>1. CASE lib.timer = "waits"
    BY <1>3, <1>9, <2>1 DEF Expire
  <2>2. CASE lib.timer # "waits"
    <3>1. Finish(c, "timeout") /\ Busy(c)
      BY <1>9, <2>2 DEF Expire, GiveUp, Busy
    <3>2. outcome'[cur[c]] = "timeout"
      BY <3>1, FinishRecords DEF CallInv
    <3> QED
      BY <1>4, <1>9, <3>1, <3>2 DEF Missed
  <2> QED
    BY <2>1, <2>2
<1>10. ASSUME Receive, InFlight(id)
       PROVE  Good(id)
  <2> DEFINE r == Head(responses).id
             p == pending[Key(r)]
             waits == p # NoCaller /\ (Slotted \/ (pc[p] # "idle" /\ cur[p] = r))
  <2>1. /\ pc' = pc /\ cur' = cur
        /\ reply' = IF waits THEN [reply EXCEPT ![p] = "answer"] ELSE reply
        /\ replyTo' = IF waits THEN [replyTo EXCEPT ![p] = r] ELSE replyTo
    BY <1>10 DEF Receive
  <2>2. r # id
    BY <1>2, <1>10, Received DEF CallInv
  <2> HIDE DEF r, p, waits
  <2>3. \A d \in Callers : (d = p /\ waits /\ replyTo'[d] # id)
                           \/ (reply'[d] = reply[d] /\ replyTo'[d] = replyTo[d])
    BY <2>1, <2>2 DEF CallInv, TypeInv, TypeOK
  <2>4. \A d \in Callers \ {p} : reply'[d] = reply[d] /\ replyTo'[d] = replyTo[d]
    BY <2>1 DEF CallInv, TypeInv, TypeOK
  <2>5. \/ Missed(id)'
        \/ \E d \in Callers : /\ pc'[d] = "waiting" /\ cur'[d] = id
                              /\ reply'[d] = "answer" => replyTo'[d] # id
        \/ (p \in Callers /\ pc[p] = "waiting" /\ cur[p] = id
            /\ (reply[p] = "answer" => replyTo[p] # id))
    BY <1>1, <1>10, <2>1, <2>4, ExpectedStays DEF CallInv
  <2> QED
    BY <2>1, <2>3, <2>5
<1>11. ASSUME ~(\E c \in Callers : Send(c))
       PROVE  Good(id)
  <2>1. InFlight(id)
    BY <1>5, <1>11
  <2>2. CASE Close
    BY <1>3, <2>1, <2>2, SlotDecisions DEF Close, callers, CallInv, TypeInv
  <2>3. CASE Answer \/ Notify \/ PeerCloses \/ CallbackReturns \/ \E c \in Callers : Callback(c)
    BY <1>3, <2>1, <2>3 DEF Answer, Notify, PeerCloses, CallbackReturns, Callback, callers
  <2>4. ~ReaderEnds /\ ~ReaderCancelled /\ ~CallbackRaises
    BY SlotDecisions DEF ReaderEnds, ReaderCancelled, CallInv, TypeInv
  <2>5. ASSUME NEW c \in Callers, Register(c) \/ Return(c) \/ Expire(c)
        PROVE  Good(id)
    BY <1>7, <1>8, <1>9, <2>1, <2>5
  <2>6. CASE Receive
    BY <1>10, <2>1, <2>6
  <2> QED
    BY <1>11, <2>2, <2>3, <2>4, <2>5, <2>6 DEF Next
<1> QED
  BY <1>6, <1>11

LEMMA SlotStep ==
    ASSUME CallInv, OnceInv, OutcomeInv, AnswerInv, SlotInv, Next
    PROVE  SlotInv'
<1> SUFFICES ASSUME Slotted' PROVE SlotInv'
  BY DEF SlotInv
<1>1. Slotted
  BY StepKinds DEF CallInv
<1>2. Held'
  BY <1>1, HeldStep DEF CallInv, SlotInv
<1>3. Latest'
  BY <1>1, LatestStep DEF CallInv, SlotInv
<1>4. Unsent'
  BY <1>1, UnsentStep
<1>5. closing' => \A c \in Callers : ~Busy(c)'
  BY <1>1, ClosedStep
<1>6. reader' = "running" => (\A c \in Callers : reply'[c] # "lost") /\ Expected'
  BY <1>1, LostStep, ExpectedStep
<1> QED
  BY <1>2, <1>3, <1>4, <1>5, <1>6 DEF SlotInv

\* A step that changes nothing changes none of this.
LEMMA MineStutters ==
    ASSUME MineInv, UNCHANGED vars
    PROVE  OnceInv' /\ OutcomeInv' /\ AnswerInv' /\ SlotInv'
<1>1. UNCHANGED <<lib, nextId, pc, cur, reply, replyTo, pending, requests, responses, closing, reader,
                  outcome, source>>
  BY DEF vars, callers, table, wire, told
<1>2. OnceInv'
  BY <1>1 DEF MineInv, OnceInv, Asked, Coming
<1>3. OutcomeInv'
  BY <1>1 DEF MineInv, OutcomeInv, Busy
<1>4. \A id, s : Mine(id, s)' = Mine(id, s)
  BY <1>1 DEF Mine, Missed, Key
<1>5. AnswerInv'
  BY <1>1 DEF MineInv, AnswerInv, Busy, Mine, Missed, Key
<1>6. Held' = Held /\ Latest' = Latest /\ Unsent' = Unsent
  BY <1>1 DEF Held, Latest, Unsent, Busy, Key
<1>7. Expected' = Expected
  BY <1>1 DEF Expected, InFlight, Asked, Coming, Missed
<1>8. SlotInv'
  BY <1>1, <1>6, <1>7 DEF MineInv, SlotInv, Busy
<1> QED
  BY <1>2, <1>3, <1>5, <1>8

LEMMA MineInit == Init => MineInv
<1> SUFFICES ASSUME Init PROVE MineInv
  OBVIOUS
<1>1. CallInv
  BY TypeInit DEF Init, CallInv, TableInv, EndInv, Busy
<1>2. requests = << >> /\ responses = << >> /\ \A id : ~Asked(id) /\ ~Coming(id)
  BY DEF Init, Asked, Coming
<1>3. OnceInv
  BY <1>2 DEF Init, OnceInv
<1>4. OutcomeInv /\ AnswerInv
  BY DEF Init, OutcomeInv, AnswerInv, Busy
<1>5. SlotInv
  BY <1>2 DEF Init, SlotInv, Held, Latest, Unsent, Expected, InFlight, Busy
<1> QED
  BY <1>1, <1>3, <1>4, <1>5 DEF MineInv

LEMMA MineStep == MineInv /\ [Next]_vars => MineInv'
<1> SUFFICES ASSUME MineInv, [Next]_vars PROVE MineInv'
  OBVIOUS
<1>1. CallInv'
  BY CallStep DEF MineInv
<1>2. CASE Next
  BY <1>1, <1>2, OnceStep, OutcomeStep, AnswerStep, SlotStep DEF MineInv, CallInv
<1>3. CASE UNCHANGED vars
  BY <1>1, <1>3, MineStutters DEF MineInv
<1> QED
  BY <1>2, <1>3

\* A call reports the answer to its own request.  Where responses are matched by slot
\* it may report that of an earlier call of its slot, but only of one that timed out
\* or itself reported the answer to one still earlier (kgd.c:1000, client.zig:760).
THEOREM AnswersAreMine == Spec => []AnswerIsMine
<1>1. MineInv => AnswerIsMine
  BY DEF MineInv, AnswerInv, Mine, Missed, AnswerIsMine
<1> QED
  BY <1>1, MineInit, MineStep, PTL DEF Spec

-----------------------------------------------------------------------------
(* What is left behind, and what an answer is worth at the end.             *)

\* An entry is of a call in progress, or of one that ended and left it
Left(k) ==
    \/ ~lib.cleans /\ outcome[k] \in {"timeout", "failed"}
    \/ "caller" \in lib.failure /\ outcome[k] = "raised"
TableLeft ==
    \A k \in Keys : pending[k] # NoCaller =>
        \/ Busy(pending[k]) /\ Key(cur[pending[k]]) = k
        \/ k \in Ids /\ Left(k)

\* Nobody is told that the connection is lost before the reader has ended
LostInv == reader = "running" => \A c \in Callers : reply[c] # "lost"

\* Where responses are kept, one on its way is to a call that waits for it, or to one
\* that gave up; one that is kept, to a call that has it and has not run, or to one
\* that will not ask for it
GaveUp(id) == outcome[id] \in {"timeout", "closed"}
KeptInv ==
    /\ ~lib.keeps => results = {}
    /\ lib.keeps =>
          /\ \A c \in Callers : reply[c] = "answer" => pc[c] = "waiting" /\ ~InFlight(cur[c])
          /\ reader = "running" => \A id \in Ids : InFlight(id) =>
                 (\E c \in Callers : pc[c] = "waiting" /\ cur[c] = id) \/ GaveUp(id)
          /\ \A id \in results :
                 \/ \E c \in Callers : pc[c] = "waiting" /\ cur[c] = id /\ reply[c] = "answer"
                 \/ GaveUp(id)

\* While the reader runs, the answer to a call that has none yet is on its way.  Once
\* it has met the end, who was told so, or was about to be, has not been answered
Lost(id) == outcome[id] \in {"closed", "success"}
LateInv ==
    /\ \A id \in answered : id < nextId
    /\ reader = "running" /\ lib.tail =>
          \A c \in Callers : Busy(c) /\ reply[c] = "none" /\ cur[c] \in answered => Coming(cur[c])
    /\ reader = "running" /\ lib.both = "answer" => \A id \in Ids : ~Lost(id)
    /\ reader = "ended" /\ ~closing /\ lib.both = "answer" /\ lib.tail =>
          /\ \A c \in Callers : reply[c] = "lost" => cur[c] \notin answered
          /\ \A id \in Ids : Lost(id) => id \notin answered

LeftInv == MineInv /\ TableLeft /\ LostInv /\ KeptInv /\ LateInv

\* The kinds of step.  A call ends, with its entry removed or left
Removes(c, what) ==
    \/ Forget(c)
    \/ pending' = pending /\ ~lib.cleans /\ what \in {"timeout", "failed"}
    \/ pending' = pending /\ "caller" \in lib.failure /\ what = "raised"
MayReport(c, what) ==
    \/ what = "failed" /\ pc[c] = "registered"
    \/ /\ pc[c] = "waiting"
       /\ \/ what = "timeout"
          \/ what = "answer" /\ reply[c] = "answer"
          \/ what = "closed" /\ (reply[c] = "lost" \/ lib.both # "answer")
          \/ what = "success" /\ reply[c] = "lost"
          \/ what = "raised" /\ "caller" \in lib.failure
Ends(c, what) ==
    /\ Busy(c) /\ Finish(c, what) /\ Removes(c, what) /\ MayReport(c, what)
    /\ UNCHANGED <<lib, nextId, requests, answered, peer, closing, reader>>
    /\ responses' = responses \/ "caller" \in lib.failure

\* A request is written
Sends(c) ==
    /\ pc[c] = "registered" /\ pc' = [pc EXCEPT ![c] = "waiting"]
    /\ requests' = Append(requests, cur[c])
    /\ UNCHANGED <<lib, nextId, cur, reply, replyTo, pending, results, responses, answered, peer,
                   closing, reader, outcome, source>>

\* Everybody is woken because the reader or the client has come to its end
Wakes ==
    /\ WakeAll /\ reader' # "running" /\ (closing => closing')
    /\ reader' = "ended" =>
          closing' \/ (reader = "running" /\ (lib.tail => responses = << >>))
    /\ UNCHANGED <<lib, nextId, requests, answered, peer, outcome, source>>

\* Calls, table and what was reported stay as they are
Quiet ==
    /\ UNCHANGED <<lib, nextId, pc, cur, reply, replyTo, pending, results, outcome, source>>
    /\ reader' = reader \/ reader' = "died"
    /\ closing => closing'
    /\ answered' = answered \/ peer = "open"

LEMMA ReportKinds ==
    ASSUME TypeOK, NEW c \in Callers, pc[c] = "waiting", NEW what \in Reports(c)
    PROVE  MayReport(c, what)
<1>1. lib.lost \in {"closed", "timeout", "success"} /\ lib.both \in {"answer", "end", "either"}
  BY ClientAssumption DEF TypeOK, Profile
<1>2. CASE c \in expired
  BY <1>2 DEF Reports, MayReport
<1>3. CASE c \notin expired /\ reply[c] = "lost"
  BY <1>1, <1>3 DEF Reports, MayReport
<1>4. CASE c \notin expired /\ reply[c] # "lost"
  <2>1. \/ what = "answer" /\ reply[c] = "answer"
        \/ what = "closed" /\ lib.both \in {"either", "end"}
    BY <1>4 DEF Reports
  <2> QED
    BY <2>1 DEF MayReport
<1> QED
  BY <1>2, <1>3, <1>4

\* Every step is of one of these kinds.
LEMMA KindOfStep ==
    ASSUME TypeInv, Next
    PROVE  \/ \E c \in Callers : Register(c) \/ Sends(c)
           \/ \E c \in Callers, what \in Outcomes : Ends(c, what)
           \/ Receive \/ Wakes \/ Quiet
<1> USE DEF callers, table, wire, told
<1>1. TypeOK
  BY DEF TypeInv
<1>2. ASSUME NEW c \in Callers, NEW what \in {"failed", "timeout"}, GiveUp(c, what), Busy(c)
      PROVE  Finish(c, what) /\ Removes(c, what) /\ what \in Outcomes
  BY <1>2 DEF GiveUp, Removes, Outcomes
<1>3. ASSUME NEW c \in Callers, Send(c)
      PROVE  Sends(c) \/ \E what \in Outcomes : Ends(c, what)
  <2>1. CASE WriteFails
    <3>1. GiveUp(c, "failed") /\ Busy(c) /\ pc[c] = "registered"
      BY <1>3, <2>1 DEF Send, Busy
    <3>2. UNCHANGED <<lib, nextId, requests, responses, answered, peer, closing, reader>>
      BY <1>3, <2>1 DEF Send
    <3> QED
      BY <1>2, <3>1, <3>2 DEF Ends, MayReport
  <2>2. CASE ~WriteFails
    BY <1>3, <2>2 DEF Send, Sends
  <2> QED
    BY <2>1, <2>2
<1>4. ASSUME NEW c \in Callers, Return(c)
      PROVE  \E what \in Outcomes : Ends(c, what)
  <2>1. PICK what \in Reports(c) : Finish(c, what)
    BY <1>4 DEF Return
  <2>2. what \in Outcomes /\ MayReport(c, what)
    BY <1>1, <1>4, <2>1, ReportsType, ReportKinds DEF Return
  <2>3. Busy(c) /\ Removes(c, what)
    BY <1>4 DEF Return, Busy, Removes
  <2>4. UNCHANGED <<lib, nextId, requests, responses, answered, peer, closing, reader>>
    BY <1>4 DEF Return
  <2> QED
    BY <2>1, <2>2, <2>3, <2>4 DEF Ends
<1>5. ASSUME NEW c \in Callers, Expire(c)
      PROVE  Quiet \/ \E what \in Outcomes : Ends(c, what)
  <2>1. CASE lib.timer = "waits"
    BY <1>5, <2>1 DEF Expire, Quiet
  <2>2. CASE lib.timer # "waits"
    <3>1. GiveUp(c, "timeout") /\ Busy(c) /\ pc[c] = "waiting"
      BY <1>5, <2>2 DEF Expire, Busy
    <3>2. UNCHANGED <<lib, nextId, requests, responses, answered, peer, closing, reader>>
      BY <1>5 DEF Expire
    <3> QED
      BY <1>2, <3>1, <3>2 DEF Ends, MayReport
  <2> QED
    BY <2>1, <2>2
<1>6. CASE CallbackRaises
  <2>1. UNCHANGED <<lib, nextId, requests, answered, notes, peer, closing>>
    BY <1>6 DEF CallbackRaises
  <2>2. CASE "wakes" \in lib.failure /\ reader' = "failed" /\ WakeAll /\ UNCHANGED <<responses, told>>
    BY <2>1, <2>2 DEF Wakes
  <2>3. CASE "silent" \in lib.failure /\ reader' = "died" /\ UNCHANGED <<callers, table, responses, told>>
    BY <2>1, <2>3 DEF Quiet
  <2>4. ASSUME "caller" \in lib.failure, NEW c \in Callers, pc[c] = "waiting", Finish(c, "raised"),
               UNCHANGED <<pending, reader>>
        PROVE  "raised" \in Outcomes /\ Ends(c, "raised")
    BY <2>1, <2>4 DEF Ends, Removes, MayReport, Busy, Outcomes
  <2>5. CASE "caller" \in lib.failure /\ UNCHANGED <<callers, results, told, pending, reader>>
    BY <2>1, <2>5 DEF Quiet
  <2> QED
    BY <1>6, <2>2, <2>3, <2>4, <2>5 DEF CallbackRaises
<1>7. CASE ReaderEnds
  BY <1>7 DEF ReaderEnds, Wakes, Reading
<1>8. CASE Close
  <2>1. CASE lib.close = "wakes"
    BY <1>1, <1>8, <2>1 DEF Close, Wakes, TypeOK
  <2>2. CASE lib.close # "wakes"
    BY <1>8, <2>2 DEF Close, Quiet
  <2> QED
    BY <2>1, <2>2
<1>9. CASE ReaderCancelled \/ CallbackReturns \/ \E c \in Callers : Callback(c)
  BY <1>9 DEF ReaderCancelled, CallbackReturns, Callback, Quiet
<1>10. CASE Answer \/ Notify \/ PeerCloses
  BY <1>10 DEF Answer, Notify, PeerCloses, Quiet
<1> QED
  BY <1>3, <1>4, <1>5, <1>6, <1>7, <1>8, <1>9, <1>10 DEF Next

\* The table: an entry left by a call that ended is its own.
LEMMA LeftStays ==
    ASSUME TypeInv, OutcomeInv, Next, NEW k \in Ids, Left(k)
    PROVE  Left(k)'
<1>1. outcome'[k] = outcome[k] /\ lib' = lib
  BY RecordsStay, StepKinds DEF Left
<1> QED
  BY <1>1 DEF Left

LEMMA TableLeftStep ==
    ASSUME MineInv, TableLeft, Next
    PROVE  TableLeft'
<1>1. TypeInv /\ TableInv /\ OutcomeInv
  BY DEF MineInv, CallInv
<1>2. pending \in [Keys -> Callers \cup {NoCaller}] /\ pending' \in [Keys -> Callers \cup {NoCaller}]
  BY <1>1, TypeStep DEF TypeInv, TypeOK
<1>3. \A id : Key(id)' = Key(id)
  BY <1>1, KeysStay
<1> SUFFICES ASSUME NEW k \in Keys, pending'[k] # NoCaller
             PROVE  \/ Busy(pending[k])' /\ Key(cur'[pending'[k]]) = k
                    \/ k \in Ids /\ Left(k)'
  BY <1>3 DEF TableLeft, Key
<1>4. ASSUME pending'[k] = pending[k],
             Busy(pending[k]) /\ Key(cur[pending[k]]) = k =>
                 pc'[pending[k]] # "idle" /\ cur'[pending[k]] = cur[pending[k]]
      PROVE  \/ Busy(pending[k])' /\ Key(cur'[pending'[k]]) = k
             \/ k \in Ids /\ Left(k)'
  <2>1. CASE Busy(pending[k]) /\ Key(cur[pending[k]]) = k
    BY <1>4, <2>1 DEF Busy
  <2>2. CASE k \in Ids /\ Left(k)
    BY <1>1, <2>2, LeftStays
  <2> QED
    BY <1>4, <2>1, <2>2 DEF TableLeft
<1>5. ASSUME UNCHANGED <<pc, cur>>, pending'[k] = pending[k]
      PROVE  \/ Busy(pending[k])' /\ Key(cur'[pending'[k]]) = k
             \/ k \in Ids /\ Left(k)'
  BY <1>4, <1>5 DEF Busy
<1>6. ASSUME NEW c \in Callers, Register(c)
      PROVE  \/ Busy(pending[k])' /\ Key(cur'[pending'[k]]) = k
             \/ k \in Ids /\ Left(k)'
  <2>1. CASE pending[Key(nextId)] # NoCaller
    BY <1>5, <1>6, <2>1 DEF Register
  <2>2. CASE pending[Key(nextId)] = NoCaller
    <3>1. /\ pending' = [pending EXCEPT ![Key(nextId)] = c] /\ ~Busy(c)
          /\ cur' = [cur EXCEPT ![c] = nextId] /\ pc' = [pc EXCEPT ![c] = "registered"]
      BY <1>6, <2>2 DEF Register, Busy
    <3>2. /\ pc'[c] = "registered" /\ cur'[c] = nextId
          /\ \A d \in Callers : d # c => pc'[d] = pc[d] /\ cur'[d] = cur[d]
      BY <1>1, <3>1 DEF TypeInv, TypeOK
    <3>3. CASE k = Key(nextId)
      <4>1. pending'[k] = c
        BY <1>2, <3>1, <3>3
      <4> QED
        BY <3>2, <3>3, <4>1 DEF Busy
    <3>4. CASE k # Key(nextId)
      <4>1. pending'[k] = pending[k] /\ pending[k] \in Callers
        BY <1>2, <3>1, <3>4
      <4>2. Busy(pending[k]) => pending[k] # c
        BY <3>1
      <4> QED
        BY <1>4, <3>2, <4>1, <4>2 DEF Busy
    <3> QED
      BY <3>3, <3>4
  <2> QED
    BY <2>1, <2>2
<1>7. ASSUME NEW c \in Callers, Sends(c)
      PROVE  \/ Busy(pending[k])' /\ Key(cur'[pending'[k]]) = k
             \/ k \in Ids /\ Left(k)'
  <2>1. pending'[k] = pending[k] /\ pending[k] \in Callers /\ cur' = cur
    BY <1>2, <1>7 DEF Sends
  <2>2. Busy(pending[k]) => pc'[pending[k]] # "idle"
    BY <1>1, <1>7, <2>1 DEF Sends, Busy, TypeInv, TypeOK
  <2> QED
    BY <1>4, <2>1, <2>2
<1>8. ASSUME NEW c \in Callers, NEW what \in Outcomes, Ends(c, what)
      PROVE  \/ Busy(pending[k])' /\ Key(cur'[pending'[k]]) = k
             \/ k \in Ids /\ Left(k)'
  <2>1. /\ \A d \in Callers : d # c => pc'[d] = pc[d]
        /\ cur' = cur /\ outcome'[cur[c]] = what /\ cur[c] \in Ids /\ Key(cur[c]) \in Keys
    BY <1>1, <1>8, FinishRecords, BegunIds, KeyType DEF Ends, TypeInv, TypeOK
  <2>2. pending'[k] = pending[k] /\ pending[k] \in Callers
    BY <1>2, <1>8 DEF Ends, Removes, Forget
  <2>3. CASE pending[k] # c \/ Key(cur[c]) # k
    BY <1>4, <2>1, <2>2, <2>3 DEF Busy
  <2>4. CASE pending[k] = c /\ Key(cur[c]) = k
    <3>1. ~Forget(c)
      BY <1>2, <2>1, <2>2, <2>4, ClientAssumption DEF Forget
    <3>2. \/ ~lib.cleans /\ what \in {"timeout", "failed"}
          \/ "caller" \in lib.failure /\ what = "raised"
      BY <1>8, <3>1 DEF Ends, Removes
    <3>3. ~Slotted
      BY <1>1, <3>2, SlotDecisions DEF TypeInv
    <3>4. k = cur[c] /\ lib' = lib
      BY <1>8, <2>4, <3>3 DEF Key, Ends
    <3> QED
      BY <2>1, <3>2, <3>4 DEF Left
  <2> QED
    BY <2>3, <2>4
<1>9. CASE Receive
  <2>1. UNCHANGED <<pc, cur>> /\ pending'[k] = pending[k]
    BY <1>2, <1>9 DEF Receive
  <2> QED
    BY <1>5, <2>1
<1>10. CASE Wakes
  <2>1. UNCHANGED <<pc, cur>> /\ pending'[k] = pending[k]
    BY <1>10 DEF Wakes, WakeAll
  <2> QED
    BY <1>5, <2>1
<1>11. CASE Quiet
  BY <1>5, <1>11 DEF Quiet
<1> QED
  BY <1>1, <1>6, <1>7, <1>8, <1>9, <1>10, <1>11, KindOfStep

LEMMA LostInvStep ==
    ASSUME TypeInv, LostInv, Next
    PROVE  LostInv'
<1>1. TypeOK
  BY DEF TypeInv
<1>2. ASSUME NEW c \in Callers, NEW what, Ends(c, what)
      PROVE  LostInv'
  BY <1>1, <1>2 DEF Ends, Finish, LostInv, TypeOK
<1>3. CASE \E c \in Callers : Register(c) \/ Sends(c)
  BY <1>3 DEF Register, Sends, LostInv
<1>4. CASE Receive
  BY <1>1, <1>4 DEF Receive, LostInv, TypeOK
<1>5. CASE Wakes \/ Quiet
  BY <1>5 DEF Wakes, Quiet, LostInv
<1> QED
  BY <1>2, <1>3, <1>4, <1>5, KindOfStep

\* Where responses are kept, calls are matched by id and no caller's callback raises.
LEMMA KeepDecisions ==
    ASSUME TypeOK, lib.keeps
    PROVE  ~Slotted /\ "caller" \notin lib.failure
BY ClientAssumption DEF TypeOK, Profile

\* A call that gave up stays so.
LEMMA GaveUpStays ==
    ASSUME TypeInv, OutcomeInv, Next, NEW id \in Ids, GaveUp(id)
    PROVE  GaveUp(id)'
<1>1. outcome'[id] = outcome[id]
  BY RecordsStay DEF GaveUp
<1> QED
  BY <1>1 DEF GaveUp

\* The call that a response is for, if it has none yet, is given it; where calls are
\* matched by id, nobody else is.
LEMMA GivenToItsCall ==
    ASSUME TypeInv, TableInv, OnceInv, LostInv, Receive, NEW id, id = Head(responses).id
    PROVE  /\ \A c \in Callers : reply'[c] = "answer" /\ ~Slotted =>
                  reply[c] = "answer" \/ (pc[c] = "waiting" /\ cur[c] = id)
           /\ \A c \in Callers : Busy(c) /\ cur[c] = id => reply'[c] = "answer"
           /\ \A c \in Callers : reply[c] = "answer" => reply'[c] = "answer"
           /\ \A c \in Callers : reply'[c] = "none" => reply[c] = "none"
<1> DEFINE p == pending[Key(id)]
           waits == p # NoCaller /\ (Slotted \/ (pc[p] # "idle" /\ cur[p] = id))
<1>1. /\ reader = "running" /\ requests' = requests
      /\ reply' = IF waits THEN [reply EXCEPT ![p] = "answer"] ELSE reply
  BY DEF Receive, Reading
<1>2. id \in Ids /\ InFlight(id) /\ ~InFlight(id)'
  BY Received
<1>3. Coming(id)
  BY <1>1, <1>2 DEF InFlight, Asked
<1>4. p \in Callers \cup {NoCaller} /\ reply \in [Callers -> {"none", "answer", "lost"}]
  BY <1>2, KeyType DEF TypeInv, TypeOK
<1>5. waits /\ ~Slotted => p \in Callers /\ Busy(p) /\ cur[p] = id
  BY <1>4 DEF Busy
<1>6. waits /\ ~Slotted => pc[p] = "waiting"
  <2>1. waits /\ ~Slotted => pc[p] # "registered"
    BY <1>3, <1>5 DEF OnceInv
  <2> QED
    BY <1>5, <2>1 DEF Busy, TypeInv, TypeOK
<1>7. ASSUME NEW c \in Callers, Busy(c), cur[c] = id, reply[c] # "answer"
      PROVE  p = c /\ waits
  <2>1. reply[c] = "none"
    BY <1>1, <1>4, <1>7 DEF LostInv
  <2>2. p = c
    BY <1>1, <1>7, <2>1 DEF TableInv, Listing
  <2> QED
    BY <1>7, <2>2, ClientAssumption DEF Busy
<1> HIDE DEF p, waits
<1>8. \A c \in Callers : reply'[c] = IF waits /\ c = p THEN "answer" ELSE reply[c]
  BY <1>1, <1>4
<1>9. \A c \in Callers : reply'[c] = "answer" /\ ~Slotted =>
         reply[c] = "answer" \/ (pc[c] = "waiting" /\ cur[c] = id)
  BY <1>5, <1>6, <1>8
<1>10. \A c \in Callers : Busy(c) /\ cur[c] = id => reply'[c] = "answer"
  BY <1>7, <1>8
<1>11. \A c \in Callers : /\ reply[c] = "answer" => reply'[c] = "answer"
                          /\ reply'[c] = "none" => reply[c] = "none"
  BY <1>8
<1> QED
  BY <1>9, <1>10, <1>11

\* The parts of KeptInv
Taken == \A c \in Callers : reply[c] = "answer" => pc[c] = "waiting" /\ ~InFlight(cur[c])
Awaited(id) == \E c \in Callers : pc[c] = "waiting" /\ cur[c] = id
Ready(id) == \E c \in Callers : pc[c] = "waiting" /\ cur[c] = id /\ reply[c] = "answer"
KeptParts ==
    /\ Taken
    /\ reader = "running" => \A id \in Ids : InFlight(id) => Awaited(id) \/ GaveUp(id)
    /\ \A id \in results : Ready(id) \/ GaveUp(id)

LEMMA KeptByParts == KeptInv <=> (~lib.keeps => results = {}) /\ (lib.keeps => KeptParts)
BY DEF KeptInv, KeptParts, Taken, Awaited, Ready

\* Nothing is kept unless the library keeps responses.
LEMMA NothingKept ==
    ASSUME TypeInv, ~lib.keeps, results = {}, Next
    PROVE  results' = {}
<1>1. CASE \E c \in Callers : Register(c) \/ Sends(c)
  BY <1>1 DEF Register, Sends
<1>2. CASE \E c \in Callers, what \in Outcomes : Ends(c, what)
  BY <1>2 DEF Ends, Finish
<1>3. CASE Receive \/ Wakes \/ Quiet
  BY <1>3 DEF Receive, Wakes, WakeAll, Quiet
<1> QED
  BY <1>1, <1>2, <1>3, KindOfStep

\* A step that leaves calls and replies alone, or wakes somebody, and brings nothing
\* into flight.
LEMMA KeptCalls ==
    ASSUME TypeInv, OutcomeInv, Next, KeptParts, UNCHANGED <<pc, cur>>, results' = results,
           \A c \in Callers : reply'[c] = "answer" <=> reply[c] = "answer",
           reader' = "running" => reader = "running",
           \A id : InFlight(id)' => InFlight(id)
    PROVE  KeptParts'
<1>1. Taken'
  BY DEF KeptParts, Taken
<1>2. \A id \in Ids : /\ Awaited(id) => Awaited(id)'
                      /\ Ready(id) => Ready(id)'
                      /\ GaveUp(id) => GaveUp(id)'
  BY GaveUpStays DEF Awaited, Ready
<1>3. results \subseteq Ids
  BY DEF TypeInv, TypeOK
<1> QED
  BY <1>1, <1>2, <1>3 DEF KeptParts

LEMMA KeptEnds ==
    ASSUME TypeInv, TableInv, OutcomeInv, LostInv, Next, KeptParts, "caller" \notin lib.failure,
           NEW c \in Callers, NEW what \in Outcomes, Ends(c, what)
    PROVE  KeptParts'
<1>1. /\ outcome'[cur[c]] = what /\ cur' = cur /\ pc'[c] = "idle" /\ reply'[c] = "none"
      /\ \A d \in Callers : d # c => pc'[d] = pc[d] /\ reply'[d] = reply[d]
  BY FinishRecords DEF Ends
<1>2. Busy(c) /\ MayReport(c, what) /\ reader' = reader /\ cur[c] \in Ids
  BY BegunIds DEF Ends
<1>3. results' = IF what = "answer" THEN results \ {cur[c]} ELSE results
  BY DEF Ends, Finish
<1>4. \A id : InFlight(id)' = InFlight(id)
  BY DEF Ends, InFlight, Asked, Coming
<1>5. results \subseteq Ids
  BY DEF TypeInv, TypeOK
<1>6. Taken'
  BY <1>1, <1>4 DEF KeptParts, Taken
<1>7. \A id \in Ids : GaveUp(id) => GaveUp(id)'
  BY GaveUpStays
<1>8. what \in {"timeout", "closed"} => \A id : id = cur[c] => GaveUp(id)'
  BY <1>1 DEF GaveUp
<1>9. ASSUME reader' = "running", NEW id \in Ids, InFlight(id), Awaited(id)
      PROVE  Awaited(id)' \/ GaveUp(id)'
  <2>1. PICK d \in Callers : pc[d] = "waiting" /\ cur[d] = id
    BY <1>9 DEF Awaited
  <2>2. CASE d # c
    BY <1>1, <2>1, <2>2 DEF Awaited
  <2>3. CASE d = c
    <3>1. reply[c] # "lost" /\ reply[c] # "answer"
      BY <1>2, <1>9, <2>1, <2>3 DEF LostInv, KeptParts, Taken
    <3>2. what \in {"timeout", "closed"}
      BY <1>2, <2>1, <2>3, <3>1 DEF MayReport
    <3> QED
      BY <1>8, <2>1, <2>3, <3>2
  <2> QED
    BY <2>2, <2>3
<1>10. ASSUME NEW id \in results', Ready(id)
       PROVE  Ready(id)' \/ GaveUp(id)'
  <2>1. PICK d \in Callers : pc[d] = "waiting" /\ cur[d] = id /\ reply[d] = "answer"
    BY <1>10 DEF Ready
  <2>2. CASE d # c
    BY <1>1, <2>1, <2>2 DEF Ready
  <2>3. CASE d = c
    <3>1. what # "answer"
      BY <1>3, <1>10, <2>1, <2>3
    <3>2. what \in {"timeout", "closed"}
      BY <1>2, <2>1, <2>3, <3>1 DEF MayReport
    <3> QED
      BY <1>8, <2>1, <2>3, <3>2
  <2> QED
    BY <2>2, <2>3
<1>11. reader' = "running" => \A id \in Ids : InFlight(id)' => Awaited(id)' \/ GaveUp(id)'
  BY <1>2, <1>4, <1>7, <1>9 DEF KeptParts
<1>12. \A id \in results' : Ready(id)' \/ GaveUp(id)'
  BY <1>3, <1>5, <1>7, <1>10 DEF KeptParts
<1> QED
  BY <1>6, <1>11, <1>12 DEF KeptParts

LEMMA KeptRegister ==
    ASSUME TypeInv, OutcomeInv, Next, KeptParts, "caller" \notin lib.failure,
           NEW c \in Callers, Register(c)
    PROVE  KeptParts'
<1>1. /\ pc[c] = "idle" /\ UNCHANGED <<reply, results, reader, requests, responses>>
      /\ \A d \in Callers : d # c => pc'[d] = pc[d] /\ cur'[d] = cur[d]
  BY DEF Register, wire, TypeInv, TypeOK
<1>2. \A id : InFlight(id)' = InFlight(id)
  BY <1>1 DEF InFlight, Asked, Coming
<1>3. reply[c] # "answer"
  BY <1>1 DEF KeptParts, Taken
<1>4. Taken'
  BY <1>1, <1>2, <1>3 DEF KeptParts, Taken
<1>5. \A id \in Ids : /\ Awaited(id) => Awaited(id)'
                      /\ Ready(id) => Ready(id)'
                      /\ GaveUp(id) => GaveUp(id)'
  BY <1>1, GaveUpStays DEF Awaited, Ready
<1>6. results \subseteq Ids
  BY DEF TypeInv, TypeOK
<1> QED
  BY <1>1, <1>2, <1>4, <1>5, <1>6 DEF KeptParts

LEMMA KeptSends ==
    ASSUME TypeInv, TableInv, OutcomeInv, Next, KeptParts, NEW c \in Callers, Sends(c)
    PROVE  KeptParts'
<1>1. /\ UNCHANGED <<cur, reply, results, reader, responses>> /\ pc[c] = "registered"
      /\ pc'[c] = "waiting" /\ \A d \in Callers : d # c => pc'[d] = pc[d]
  BY DEF Sends, TypeInv, TypeOK
<1>2. requests' = Append(requests, cur[c]) /\ requests \in Seq(Ids) /\ cur[c] \in Ids
  BY <1>1, BegunIds DEF Sends, Busy, TypeInv, TypeOK
<1>3. \A id : Asked(id)' => Asked(id) \/ id = cur[c]
  <2>1. \A i \in 1..Len(requests') : requests'[i] = cur[c] \/ (i \in 1..Len(requests) /\ requests'[i] = requests[i])
    BY <1>2
  <2> QED
    BY <2>1 DEF Asked
<1>4. \A id : InFlight(id)' => InFlight(id) \/ id = cur[c]
  BY <1>1, <1>3 DEF InFlight, Coming
<1>5. ASSUME NEW d \in Callers, reply'[d] = "answer"
      PROVE  pc'[d] = "waiting" /\ ~InFlight(cur[d])'
  <2>1. pc[d] = "waiting" /\ ~InFlight(cur[d]) /\ d # c
    BY <1>1, <1>5 DEF KeptParts, Taken
  <2>2. cur[d] # cur[c]
    BY <1>1, <2>1 DEF TableInv, Busy
  <2> QED
    BY <1>1, <1>4, <2>1, <2>2
<1>6. Taken'
  BY <1>5 DEF Taken
<1>7. Awaited(cur[c])'
  BY <1>1 DEF Awaited
<1>8. \A id \in Ids : /\ Awaited(id) => Awaited(id)'
                      /\ Ready(id) => Ready(id)'
                      /\ GaveUp(id) => GaveUp(id)'
  BY <1>1, GaveUpStays DEF Awaited, Ready
<1>9. results \subseteq Ids
  BY DEF TypeInv, TypeOK
<1> QED
  BY <1>1, <1>4, <1>6, <1>7, <1>8, <1>9 DEF KeptParts

LEMMA KeptReceive ==
    ASSUME TypeInv, TableInv, OnceInv, OutcomeInv, LostInv, Next, KeptParts, ~Slotted,
           "caller" \notin lib.failure, Receive, NEW id, id = Head(responses).id
    PROVE  KeptParts'
<1>1. /\ UNCHANGED <<pc, cur, reader, requests>> /\ reader = "running"
      /\ results' \subseteq results \cup {id}
  BY DEF Receive, Reading
<1>2. id \in Ids /\ InFlight(id) /\ ~InFlight(id)'
  BY Received
<1>3. /\ \A c \in Callers : reply'[c] = "answer" =>
             reply[c] = "answer" \/ (pc[c] = "waiting" /\ cur[c] = id)
      /\ \A c \in Callers : Busy(c) /\ cur[c] = id => reply'[c] = "answer"
      /\ \A c \in Callers : reply[c] = "answer" => reply'[c] = "answer"
  BY GivenToItsCall
<1>4. \A k : InFlight(k)' => InFlight(k)
  <2>1. ~\E c \in Callers : Send(c)
    <3> SUFFICES ASSUME NEW c \in Callers, Send(c) PROVE FALSE
      OBVIOUS
    <3>1. responses' = responses
      BY DEF Send
    <3> QED
      BY <1>1, <1>2, <3>1 DEF InFlight, Asked, Coming
  <2> QED
    BY <2>1, FlightStep
<1>5. ASSUME NEW c \in Callers, reply'[c] = "answer"
      PROVE  pc'[c] = "waiting" /\ ~InFlight(cur[c])'
  <2>1. CASE reply[c] = "answer"
    BY <1>1, <1>4, <2>1 DEF KeptParts, Taken
  <2>2. CASE pc[c] = "waiting" /\ cur[c] = id
    BY <1>1, <1>2, <2>2
  <2> QED
    BY <1>3, <1>5, <2>1, <2>2
<1>6. Taken'
  BY <1>5 DEF Taken
<1>7. \A k \in Ids : /\ Awaited(k) => Awaited(k)'
                     /\ Ready(k) => Ready(k)'
                     /\ GaveUp(k) => GaveUp(k)'
  BY <1>1, <1>3, GaveUpStays DEF Awaited, Ready
<1>8. Ready(id)' \/ GaveUp(id)'
  <2>1. ASSUME Awaited(id) PROVE Ready(id)'
    BY <1>1, <1>3, <2>1 DEF Awaited, Ready, Busy
  <2>2. Awaited(id) \/ GaveUp(id)
    BY <1>1, <1>2 DEF KeptParts
  <2> QED
    BY <1>2, <1>7, <2>1, <2>2
<1>9. results \subseteq Ids
  BY DEF TypeInv, TypeOK
<1>10. \A k \in results' : Ready(k)' \/ GaveUp(k)'
  <2> SUFFICES ASSUME NEW k \in results', k # id PROVE Ready(k)' \/ GaveUp(k)'
    BY <1>8
  <2>1. k \in results /\ k \in Ids
    BY <1>1, <1>9
  <2> QED
    BY <1>7, <2>1 DEF KeptParts
<1>11. \A k \in Ids : InFlight(k)' => Awaited(k)' \/ GaveUp(k)'
  BY <1>1, <1>4, <1>7 DEF KeptParts
<1> QED
  BY <1>6, <1>10, <1>11 DEF KeptParts

LEMMA KeptStep ==
    ASSUME MineInv, LostInv, KeptInv, Next
    PROVE  KeptInv'
<1>1. TypeInv /\ TypeOK /\ TableInv /\ OnceInv /\ OutcomeInv /\ lib' = lib
  BY StepKinds DEF MineInv, CallInv, TypeInv
<1>2. CASE ~lib.keeps
  <2>1. results' = {}
    BY <1>1, <1>2, NothingKept DEF KeptInv
  <2> QED
    BY <1>1, <1>2, <2>1 DEF KeptInv
<1>3. ASSUME lib.keeps
      PROVE  KeptParts'
  <2>1. KeptParts /\ ~Slotted /\ "caller" \notin lib.failure
    BY <1>1, <1>3, KeptByParts, KeepDecisions
  <2>2. ASSUME Wakes \/ Quiet
        PROVE  \A id : InFlight(id)' => InFlight(id)
    <3>1. ~\E c \in Callers : Send(c)
      <4> SUFFICES ASSUME NEW c \in Callers, Send(c) PROVE FALSE
        OBVIOUS
      <4>1. pc[c] = "registered" /\ pc'[c] \in {"waiting", "idle"}
        BY <1>1 DEF Send, GiveUp, Finish, TypeOK
      <4> QED
        BY <2>2, <4>1 DEF Wakes, WakeAll, Quiet
    <3> QED
      BY <1>1, <2>1, <3>1, FlightStep
  <2>3. CASE \E c \in Callers : Register(c)
    BY <1>1, <2>1, <2>3, KeptRegister
  <2>4. CASE \E c \in Callers : Sends(c)
    BY <1>1, <2>1, <2>4, KeptSends
  <2>5. CASE \E c \in Callers, what \in Outcomes : Ends(c, what)
    BY <1>1, <2>1, <2>5, KeptEnds
  <2>6. CASE Receive
    BY <1>1, <2>1, <2>6, KeptReceive
  <2>7. CASE Wakes \/ Quiet
    <3>1. /\ UNCHANGED <<pc, cur>> /\ results' = results
          /\ reader' = "running" => reader = "running"
      BY <2>7 DEF Wakes, WakeAll, Quiet
    <3>2. \A c \in Callers : reply'[c] = "answer" <=> reply[c] = "answer"
      BY <2>7 DEF Wakes, WakeAll, Quiet
    <3> QED
      BY <1>1, <2>1, <2>2, <2>7, <3>1, <3>2, KeptCalls
  <2> QED
    BY <1>1, <2>3, <2>4, <2>5, <2>6, <2>7, KindOfStep
<1>4. CASE lib.keeps
  BY <1>1, <1>3, <1>4 DEF KeptInv, KeptParts, Taken, Awaited, Ready
<1> QED
  BY <1>2, <1>4

\* While the reader runs, a response stays on its way until it is received, unless a
\* callback that raises loses it.
LEMMA ComingStays ==
    ASSUME TypeInv, Next, "caller" \notin lib.failure, reader' = "running",
           NEW id \in Ids, Coming(id), ~(Receive /\ id = Head(responses).id)
    PROVE  Coming(id)'
<1>1. responses \in Seq({Note} \cup {Response(k) : k \in Ids})
  BY DEF TypeInv, TypeOK
<1>2. PICK i \in 1..Len(responses) : responses[i] = Response(id)
  BY DEF Coming
<1>3. ASSUME responses' = responses
      PROVE  Coming(id)'
  BY <1>2, <1>3 DEF Coming
<1>4. ASSUME NEW m \in {Note} \cup {Response(k) : k \in Ids}, responses' = Append(responses, m)
      PROVE  Coming(id)'
  <2>1. i \in 1..Len(responses') /\ responses'[i] = responses[i]
    BY <1>1, <1>2, <1>4
  <2> QED
    BY <1>2, <2>1 DEF Coming
<1>5. ASSUME responses # << >>, Head(responses) # Response(id), responses' = Tail(responses)
      PROVE  Coming(id)'
  <2>1. Head(responses) = responses[1]
    BY <1>1, <1>5
  <2>2. i # 1
    BY <1>2, <1>5, <2>1
  <2>3. i - 1 \in 1..Len(responses') /\ responses'[i - 1] = responses[i]
    BY <1>1, <1>2, <1>5, <2>2
  <2> QED
    BY <1>2, <2>3 DEF Coming
<1>6. CASE \E c \in Callers : Register(c) \/ Send(c) \/ Return(c) \/ Expire(c)
  BY <1>3, <1>6 DEF Register, Send, Return, Expire, wire
<1>7. CASE \E c \in Callers : Callback(c)
  <2>1. responses # << >> /\ responses' = Tail(responses) /\ Head(responses).type = "notification"
    BY <1>7 DEF Callback
  <2> QED
    BY <1>5, <2>1 DEF Response
<1>8. CASE Receive
  <2>1. responses # << >> /\ responses' = Tail(responses) /\ Head(responses).id # id
    BY <1>8 DEF Receive
  <2> QED
    BY <1>5, <2>1 DEF Response
<1>9. CASE CallbackReturns \/ CallbackRaises \/ PeerCloses
  BY <1>3, <1>9 DEF CallbackReturns, CallbackRaises, PeerCloses, wire
<1>10. ~ReaderEnds /\ ~ReaderCancelled
  BY DEF ReaderEnds, ReaderCancelled
<1>11. CASE Close
  BY <1>3, <1>11 DEF Close
<1>12. CASE Answer
  <2>1. responses' = Append(responses, Response(Head(requests))) /\ Head(requests) \in Ids
    BY <1>12 DEF Answer, TypeInv, TypeOK
  <2> QED
    BY <1>4, <2>1
<1>13. CASE Notify
  BY <1>4, <1>13 DEF Notify
<1> QED
  BY <1>6, <1>7, <1>8, <1>9, <1>10, <1>11, <1>12, <1>13 DEF Next

\* The daemon answers a request that was sent to it while its end is open.
LEMMA AnsweredStep ==
    ASSUME TypeInv, OnceInv, Next, NEW id \in answered', id \notin answered
    PROVE  id < nextId /\ Coming(id)' /\ peer = "open"
<1>1. Answer
  BY DEF Next, Register, Send, Return, Expire, Callback, Receive, CallbackReturns, CallbackRaises,
         ReaderEnds, ReaderCancelled, Close, Notify, PeerCloses, wire
<1>2. /\ requests \in Seq(Ids) /\ requests # << >> /\ id = Head(requests) /\ peer = "open"
      /\ responses' = Append(responses, Response(id))
  BY <1>1 DEF Answer, TypeInv, TypeOK
<1>3. 1 \in 1..Len(requests) /\ requests[1] = id /\ id \in Ids
  BY <1>2
<1>4. id < nextId
  BY <1>3 DEF OnceInv, Asked
<1>5. /\ Len(responses') \in 1..Len(responses')
      /\ responses'[Len(responses')] = Response(id)
  <2>1. responses \in Seq({Note} \cup {Response(k) : k \in Ids})
    BY DEF TypeInv, TypeOK
  <2> QED
    BY <1>2, <2>1
<1>6. Coming(id)'
  BY <1>5 DEF Coming, Response
<1> QED
  BY <1>2, <1>4, <1>6

\* A call in progress with an id given out before the step was in progress before it.
LEMMA SameCall ==
    ASSUME TypeInv, Next, NEW c \in Callers, Busy(c)', cur'[c] < nextId
    PROVE  Busy(c) /\ cur'[c] = cur[c]
<1>1. nextId \in Nat /\ pc \in [Callers -> {"idle", "registered", "waiting"}] /\ cur \in [Callers -> Nat]
  BY ClientAssumption DEF TypeInv, TypeOK
<1>2. ASSUME NEW d \in Callers, Register(d)
      PROVE  Busy(c) /\ cur'[c] = cur[c]
  <2>1. \/ UNCHANGED <<pc, cur>>
        \/ pc' = [pc EXCEPT ![d] = "registered"] /\ cur' = [cur EXCEPT ![d] = nextId]
    BY <1>2 DEF Register
  <2>2. CASE c = d
    BY <1>1, <2>1, <2>2 DEF Busy
  <2>3. CASE c # d
    BY <1>1, <2>1, <2>3 DEF Busy
  <2> QED
    BY <2>2, <2>3
<1>3. ASSUME NEW d \in Callers, NEW what \in Outcomes, Busy(d), Finish(d, what)
      PROVE  Busy(c) /\ cur'[c] = cur[c]
  BY <1>1, <1>3, FinishRecords DEF Busy
<1> QED
  BY <1>2, <1>3, StepKinds

\* Nobody's reply is taken back while the call goes on.
LEMMA NoReplyBefore ==
    ASSUME TypeInv, TableInv, OnceInv, LostInv, Next, NEW c \in Callers, Busy(c)', reply'[c] = "none"
    PROVE  reply[c] = "none"
<1>1. CASE \E d \in Callers : Register(d) \/ Sends(d)
  BY <1>1 DEF Register, Sends
<1>2. ASSUME NEW d \in Callers, NEW what \in Outcomes, Ends(d, what)
      PROVE  reply[c] = "none"
  <2>1. \A e \in Callers : e # d => reply'[e] = reply[e]
    BY <1>2, FinishRecords DEF Ends
  <2>2. pc'[d] = "idle"
    BY <1>2, FinishRecords DEF Ends
  <2> QED
    BY <2>1, <2>2 DEF Busy
<1>3. CASE Receive
  BY <1>3, GivenToItsCall
<1>4. CASE Wakes \/ Quiet
  BY <1>4 DEF Wakes, WakeAll, Quiet
<1> QED
  BY <1>1, <1>2, <1>3, <1>4, KindOfStep

\* The parts of LateInv
Given == \A id \in answered : id < nextId
OnItsWay == \A c \in Callers : Busy(c) /\ reply[c] = "none" /\ cur[c] \in answered => Coming(cur[c])
NoneLost == \A id \in Ids : ~Lost(id)
LostUnanswered ==
    /\ \A c \in Callers : reply[c] = "lost" => cur[c] \notin answered
    /\ \A id \in Ids : Lost(id) => id \notin answered

\* The reader does not start again, and only waking everybody ends it.
LEMMA ReaderStep ==
    ASSUME TypeInv, Next
    PROVE  /\ reader' = "running" => reader = "running"
           /\ reader' = "ended" /\ ~closing' => IF Wakes THEN reader = "running" ELSE reader = "ended"
           /\ closing => closing'
<1>1. CASE Wakes
  <2>1. /\ reader' # "running" /\ (closing => closing')
        /\ reader' = "ended" => closing' \/ reader = "running"
    BY <1>1 DEF Wakes
  <2> QED
    BY <1>1, <2>1
<1>2. ASSUME ~Wakes
      PROVE  (reader' = reader \/ reader' = "died") /\ (closing => closing')
  <2>1. CASE \E c \in Callers : Register(c) \/ Sends(c)
    BY <2>1 DEF Register, Sends
  <2>2. CASE \E c \in Callers, what \in Outcomes : Ends(c, what)
    BY <2>2 DEF Ends
  <2>3. CASE Receive \/ Quiet
    BY <2>3 DEF Receive, Quiet
  <2> QED
    BY <1>2, <2>1, <2>2, <2>3, KindOfStep
<1> QED
  BY <1>1, <1>2

LEMMA GivenStep ==
    ASSUME TypeInv, OnceInv, Given, Next
    PROVE  Given'
<1>1. nextId \in Nat /\ (nextId' = nextId \/ nextId' = nextId + 1) /\ answered' \subseteq Ids
  <2>1. nextId \in Nat
    BY ClientAssumption DEF TypeInv, TypeOK
  <2>2. nextId' = nextId \/ nextId' = nextId + 1
    BY StepKinds DEF Register
  <2>3. answered' \subseteq Ids
    BY TypeStep DEF TypeInv, TypeOK
  <2> QED
    BY <2>1, <2>2, <2>3
<1> SUFFICES ASSUME NEW id \in answered' PROVE id < nextId'
  BY DEF Given
<1>2. id < nextId /\ id \in Int
  BY <1>1, AnsweredStep, ClientAssumption DEF Given, Ids
<1> QED
  BY <1>1, <1>2

LEMMA OnItsWayStep ==
    ASSUME TypeInv, TableInv, OnceInv, LostInv, Given, OnItsWay, Next, reader' = "running",
           "caller" \notin lib.failure
    PROVE  OnItsWay'
<1> SUFFICES ASSUME NEW c \in Callers, Busy(c)', reply'[c] = "none", NEW id, id = cur'[c], id \in answered'
             PROVE  Coming(id)'
  BY DEF OnItsWay
<1>1. CASE id \notin answered
  BY <1>1, AnsweredStep
<1>2. CASE id \in answered
  <2>1. id \in Ids /\ id < nextId
    BY <1>2 DEF Given, TypeInv, TypeOK
  <2>2. Busy(c) /\ cur[c] = id /\ reply[c] = "none"
    BY <2>1, SameCall, NoReplyBefore
  <2>3. Coming(id)
    BY <1>2, <2>2 DEF OnItsWay
  <2>4. ~(Receive /\ id = Head(responses).id)
    BY <2>2, GivenToItsCall
  <2> QED
    BY <2>1, <2>3, <2>4, ComingStays
<1> QED
  BY <1>1, <1>2

\* A call that is reported as lost had been woken as lost, where the answer is preferred.
LEMMA LostReported ==
    ASSUME TypeInv, OutcomeInv, Next, lib.both = "answer", NEW id \in Ids, Lost(id)', ~Lost(id)
    PROVE  \E c \in Callers : Busy(c) /\ cur[c] = id /\ reply[c] = "lost" /\ ~Wakes /\ reader' = reader
<1>1. CASE \E c \in Callers : Register(c)
  <2>1. outcome' = outcome \/ outcome' = [outcome EXCEPT ![nextId] = "refused"]
    BY <1>1 DEF Register
  <2> QED
    BY <2>1 DEF Lost, TypeInv, TypeOK
<1>2. ASSUME NEW c \in Callers, NEW what \in Outcomes, Ends(c, what)
      PROVE  Busy(c) /\ cur[c] = id /\ reply[c] = "lost" /\ ~Wakes /\ reader' = reader
  <2>1. /\ Busy(c) /\ MayReport(c, what) /\ outcome'[cur[c]] = what /\ reader' = reader
        /\ pc'[c] = "idle" /\ \A k \in Ids : k # cur[c] => outcome'[k] = outcome[k]
    BY <1>2, FinishRecords DEF Ends
  <2>2. cur[c] = id /\ what \in {"closed", "success"}
    BY <2>1 DEF Lost
  <2>3. reply[c] = "lost"
    BY <2>1, <2>2 DEF MayReport
  <2>4. ~Wakes
    BY <2>1 DEF Wakes, WakeAll, Busy
  <2> QED
    BY <2>1, <2>2, <2>3, <2>4
<1>3. CASE Receive \/ Wakes \/ Quiet \/ \E c \in Callers : Sends(c)
  <2>1. outcome' = outcome
    BY <1>3 DEF Receive, Wakes, Quiet, Sends, told
  <2> QED
    BY <2>1 DEF Lost
<1> QED
  BY <1>1, <1>2, <1>3, KindOfStep

\* The reader meets the end of the stream with nothing on its way: who is woken as
\* lost has not been answered.
LEMMA LostAtTheEnd ==
    ASSUME TypeInv, LostInv, OnItsWay, NoneLost, Wakes, reader = "running", responses = << >>
    PROVE  LostUnanswered'
<1>1. outcome' = outcome /\ answered' = answered /\ cur' = cur
  BY DEF Wakes, WakeAll
<1>2. \A id : ~Coming(id)
  BY DEF Coming
<1>3. \A c \in Callers : reply'[c] = "lost" => reply[c] = "none" /\ Busy(c)
  BY DEF Wakes, WakeAll, Listed, LostInv, Busy
<1>4. \A c \in Callers : reply'[c] = "lost" => cur[c] \notin answered
  BY <1>2, <1>3 DEF OnItsWay
<1> QED
  BY <1>1, <1>4 DEF LostUnanswered, NoneLost, Lost

\* After that end nothing is answered any more.
LEMMA LostAfterTheEnd ==
    ASSUME TypeInv, OnceInv, OutcomeInv, AnswerInv, EndInv, LostUnanswered, Next,
           lib.both = "answer", reader = "ended", ~closing, ~Wakes
    PROVE  LostUnanswered'
<1>1. answered' \subseteq answered
  <2>1. peer = "closed"
    BY DEF EndInv
  <2> QED
    BY <2>1, AnsweredStep
<1>2. ASSUME NEW c \in Callers, reply'[c] = "lost"
      PROVE  reply[c] = "lost" /\ cur'[c] = cur[c]
  <2>1. ASSUME NEW d \in Callers, Register(d)
        PROVE  reply[c] = "lost" /\ cur'[c] = cur[c]
    <3>1. reply' = reply /\ (cur' = cur \/ cur' = [cur EXCEPT ![d] = nextId]) /\ ~Busy(d)
      BY <2>1 DEF Register, Busy
    <3>2. c # d
      BY <1>2, <3>1 DEF AnswerInv
    <3> QED
      BY <1>2, <3>1, <3>2 DEF TypeInv, TypeOK
  <2>2. ASSUME NEW d \in Callers, NEW what \in Outcomes, Ends(d, what)
        PROVE  reply[c] = "lost" /\ cur'[c] = cur[c]
    BY <1>2, <2>2, FinishRecords DEF Ends
  <2>3. CASE Quiet \/ \E d \in Callers : Sends(d)
    BY <1>2, <2>3 DEF Quiet, Sends
  <2>4. ~Receive
    BY DEF Receive, Reading
  <2> QED
    BY <2>1, <2>2, <2>3, <2>4, KindOfStep
<1>3. \A c \in Callers : reply'[c] = "lost" => cur'[c] \notin answered'
  BY <1>1, <1>2 DEF LostUnanswered
<1>4. \A id \in Ids : Lost(id)' => id \notin answered'
  BY <1>1, LostReported DEF LostUnanswered
<1> QED
  BY <1>3, <1>4 DEF LostUnanswered

LEMMA LateStep ==
    ASSUME MineInv, LostInv, LateInv, Next
    PROVE  LateInv'
<1>1. /\ TypeInv /\ TypeOK /\ TableInv /\ EndInv /\ OnceInv /\ OutcomeInv /\ AnswerInv
      /\ lib' = lib
  BY StepKinds DEF MineInv, CallInv, TypeInv
<1>2. /\ Given
      /\ reader = "running" /\ lib.tail => OnItsWay
      /\ reader = "running" /\ lib.both = "answer" => NoneLost
      /\ reader = "ended" /\ ~closing /\ lib.both = "answer" /\ lib.tail => LostUnanswered
  BY DEF LateInv, Given, OnItsWay, NoneLost, LostUnanswered
<1>3. lib.tail => "caller" \notin lib.failure
  BY <1>1, ClientAssumption DEF TypeOK
<1>4. Given'
  BY <1>1, <1>2, GivenStep
<1>5. reader' = "running" /\ lib.tail => OnItsWay'
  BY <1>1, <1>2, <1>3, OnItsWayStep, ReaderStep
<1>6. reader' = "running" /\ lib.both = "answer" => NoneLost'
  <2> SUFFICES ASSUME reader' = "running", lib.both = "answer", NEW id \in Ids, Lost(id)'
               PROVE  FALSE
    BY DEF NoneLost
  <2>1. reader = "running" /\ ~Lost(id)
    BY <1>1, <1>2, ReaderStep DEF NoneLost
  <2> QED
    BY <1>1, <2>1, LostReported DEF LostInv
<1>7. ASSUME reader' = "ended", ~closing', lib.both = "answer", lib.tail
      PROVE  LostUnanswered'
  <2>1. ~closing
    BY <1>1, <1>7, ReaderStep
  <2>2. CASE reader = "ended" /\ ~Wakes
    BY <1>1, <1>2, <1>7, <2>1, <2>2, LostAfterTheEnd
  <2>3. CASE Wakes /\ reader = "running"
    <3>1. responses = << >>
      BY <1>7, <2>3 DEF Wakes
    <3> QED
      BY <1>1, <1>2, <1>7, <2>3, <3>1, LostAtTheEnd
  <2> QED
    BY <1>1, <1>7, <2>2, <2>3, ReaderStep
<1> QED
  BY <1>1, <1>4, <1>5, <1>6, <1>7 DEF LateInv, Given, OnItsWay, NoneLost, LostUnanswered

LEMMA LeftInit == Init => LeftInv
<1> SUFFICES ASSUME Init PROVE LeftInv
  OBVIOUS
<1>1. requests = << >> /\ responses = << >> /\ \A id : ~InFlight(id)
  BY DEF Init, InFlight, Asked, Coming
<1>2. TableLeft /\ LostInv
  BY DEF Init, TableLeft, LostInv
<1>3. KeptInv
  BY <1>1 DEF Init, KeptInv
<1>4. LateInv
  BY DEF Init, LateInv, Lost, Busy
<1> QED
  BY <1>2, <1>3, <1>4, MineInit DEF LeftInv

\* A step that changes nothing changes none of this.
LEMMA LeftStutters ==
    ASSUME LeftInv, UNCHANGED vars
    PROVE  TableLeft' /\ LostInv' /\ KeptInv' /\ LateInv'
<1>1. UNCHANGED <<lib, nextId, pc, cur, reply, pending, results, requests, responses, answered,
                  closing, reader, outcome>>
  BY DEF vars, callers, table, wire, told
<1>2. TableLeft' /\ LostInv'
  BY <1>1 DEF LeftInv, TableLeft, LostInv, Left, Busy, Key
<1>3. \A id : InFlight(id)' = InFlight(id) /\ Coming(id)' = Coming(id)
  BY <1>1 DEF InFlight, Asked, Coming
<1>4. \A c : InFlight(cur[c])' = InFlight(cur[c]) /\ Coming(cur[c])' = Coming(cur[c])
  BY <1>1 DEF InFlight, Asked, Coming
<1>5. KeptInv'
  BY <1>1, <1>3, <1>4 DEF LeftInv, KeptInv, GaveUp
<1>6. LateInv'
  BY <1>1, <1>3, <1>4 DEF LeftInv, LateInv, Lost, Busy
<1> QED
  BY <1>2, <1>5, <1>6

LEMMA LeftStep == LeftInv /\ [Next]_vars => LeftInv'
<1> SUFFICES ASSUME LeftInv, [Next]_vars PROVE LeftInv'
  OBVIOUS
<1>1. MineInv'
  BY MineStep DEF LeftInv
<1>2. CASE Next
  BY <1>1, <1>2, TableLeftStep, LostInvStep, KeptStep, LateStep DEF LeftInv, MineInv, CallInv
<1>3. CASE UNCHANGED vars
  BY <1>1, <1>3, LeftStutters DEF LeftInv
<1> QED
  BY <1>2, <1>3

\* The table holds the calls in progress and nothing else, but for what calls of Rust
\* and Lua leave when they end early; and a response is kept for a call that waits or
\* for one that gave up, and only where the library keeps them.
THEOREM NothingIsLeftBehind == Spec => []NothingLeftBehind
<1>1. ASSUME LeftInv
      PROVE  NothingLeftBehind
  <2>1. \A k \in Keys : pending[k] # NoCaller =>
           \/ pc[pending[k]] # "idle" /\ Key(cur[pending[k]]) = k
           \/ ~lib.cleans /\ outcome[k] \in {"timeout", "failed"}
           \/ "caller" \in lib.failure /\ outcome[k] = "raised"
    BY <1>1 DEF LeftInv, TableLeft, Left, Busy
  <2>2. \A id \in results :
           \/ \E c \in Callers : pc[c] = "waiting" /\ cur[c] = id
           \/ lib.keeps /\ outcome[id] \in {"timeout", "closed"}
    BY <1>1 DEF LeftInv, KeptInv, GaveUp
  <2> QED
    BY <2>1, <2>2 DEF NothingLeftBehind
<1> QED
  BY <1>1, LeftInit, LeftStep, PTL DEF Spec

\* In the libraries that read to the end of the stream and prefer the answer, a call
\* that the daemon answered before it closed the connection is never reported as lost.
THEOREM NoAnswerIsLost == Spec => []AnswerBeatsTheEnd
<1>1. LeftInv => AnswerBeatsTheEnd
  BY DEF LeftInv, LateInv, Lost, AnswerBeatsTheEnd
<1> QED
  BY <1>1, LeftInit, LeftStep, PTL DEF Spec
=============================================================================
