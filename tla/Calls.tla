-------------------------------- MODULE Calls --------------------------------
(***************************************************************************)
(* What the calls of src/clients/c promise together, without threads,      *)
(* locks, frames or memory: a call takes a slot nobody has, ends once, and *)
(* ends with an answer only if the daemon answered a call of that slot,    *)
(* each answer ending one call at most.  CClient implements it.            *)
(***************************************************************************)
EXTENDS Integers

CONSTANTS Slots, MaxCalls   \* MAX_PENDING, and the bound on the calls made

VARIABLES
    phase,      \* per call: "new", "pending", "over"
    verdict,    \* per call: what it returned
    source,     \* per call: the call whose answer it returned, or NoCall
    answered,   \* the calls the daemon has answered
    ended       \* the connection has ended, or its reader has

vars == <<phase, verdict, source, answered, ended>>

Ids == 0..MaxCalls - 1
NoCall == -1
SameSlot(i, j) == i % Slots = j % Slots

\* KGD_OK with and without data, and the codes of kgd_error a call may return
Answers == {"ok", "rpc"}
Failures == {"send", "recv", "timeout", "nomem"}

Init ==
    /\ phase = [id \in Ids |-> "new"]
    /\ verdict = [id \in Ids |-> "none"]
    /\ source = [id \in Ids |-> NoCall]
    /\ answered = {}
    /\ ended = FALSE

SlotFree(id) == \A j \in Ids : SameSlot(id, j) => phase[j] # "pending"
Unused(s) == \A id \in Ids : source[id] # s

Begin(id) ==
    /\ phase[id] = "new" /\ SlotFree(id)
    /\ phase' = [phase EXCEPT ![id] = "pending"]
    /\ UNCHANGED <<verdict, source, answered, ended>>

Over(id, what) ==
    /\ phase' = [phase EXCEPT ![id] = "over"]
    /\ verdict' = [verdict EXCEPT ![id] = what]

\* A call that cannot be encoded, or whose slot is taken, never begins
Refuse(id) ==
    /\ phase[id] = "new"
    /\ \/ Over(id, "nomem")
       \/ ~SlotFree(id) /\ Over(id, "send")
    /\ UNCHANGED <<source, answered, ended>>

Answer(id) ==
    /\ phase[id] # "new" /\ id \notin answered
    /\ answered' = answered \cup {id}
    /\ UNCHANGED <<phase, verdict, source, ended>>

EndAnswered(id) ==
    /\ phase[id] = "pending"
    /\ \E s \in answered :
          /\ SameSlot(id, s) /\ Unused(s)
          /\ source' = [source EXCEPT ![id] = s]
    /\ \E what \in Answers : Over(id, what)
    /\ UNCHANGED <<answered, ended>>

\* With the connection gone a call may also return KGD_OK, without data
EndUnanswered(id) ==
    /\ phase[id] = "pending"
    /\ \E what \in Failures \cup (IF ended THEN {"ok"} ELSE {}) : Over(id, what)
    /\ UNCHANGED <<source, answered, ended>>

ConnectionEnds == ended' = TRUE /\ UNCHANGED <<phase, verdict, source, answered>>

Next ==
    \/ \E id \in Ids : Begin(id) \/ Refuse(id) \/ Answer(id) \/ EndAnswered(id) \/ EndUnanswered(id)
    \/ ConnectionEnds

Spec == Init /\ [][Next]_vars
=============================================================================
