----------------------------- MODULE MpackTrack -----------------------------
(***************************************************************************)
(* The element tracking of src/clients/c/mpack.c, mpack_track_..., as      *)
(* operators on a stack of open elements.  A writer or a reader built with *)
(* tracking calls them before each operation: May... is the check that     *)
(* otherwise flags mpack_error_bug, and the operator beside it the stack   *)
(* that follows.  A stack that is full has to grow before a push: who      *)
(* calls Push or PushBuilder says what its allocation gives.               *)
(*                                                                         *)
(*   type      map, array, str or bin                                      *)
(*   left      elements (pairs for a map) or bytes still to come           *)
(*   builder   opened by mpack_build_*, its count is not known in advance  *)
(*   odd       key_needs_value: a key of a map waits for its value         *)
(***************************************************************************)
EXTENDS Integers, Sequences

CONSTANTS
    TrackCapacity   \* MPACK_TRACKING_INITIAL_CAPACITY (8), doubled whenever it is reached

ASSUME TrackAssumption == TrackCapacity \in Nat \ {0}

Compound == {"map", "array"}

Top(s) == s[Len(s)]
WithTop(s, e) == [s EXCEPT ![Len(s)] = e]

\* mpack_track_grow is needed, and can fail, before another element is pushed
Full(s, capacity) == Len(s) = capacity

Opened(type, n, builder) == [type |-> type, left |-> n, builder |-> builder, odd |-> FALSE]
Push(s, type, n) == Append(s, Opened(type, n, FALSE))
PushBuilder(s, type) == Append(s, Opened(type, 0, TRUE))

MayPopOdd(s, type, builder) ==   \* mutant: a key without its value is not noticed
    /\ s # << >>
    /\ Top(s).type = type /\ Top(s).left = 0 /\ Top(s).builder = builder
MayPop(s, type, builder) ==
    /\ s # << >>
    /\ Top(s).type = type
    /\ ~Top(s).odd
    /\ Top(s).left = 0
    /\ Top(s).builder = builder
Pop(s) == SubSeq(s, 1, Len(s) - 1)

MayAddElement(s) ==
    s # << >> => /\ Top(s).type \in Compound
                 /\ Top(s).builder \/ Top(s).left > 0 \/ Top(s).odd

\* A key only marks the map: the pair is counted when its value comes
AddElement(s) ==
    IF s = << >> THEN s
    ELSE IF Top(s).type = "map" /\ ~Top(s).odd THEN WithTop(s, [Top(s) EXCEPT !.odd = TRUE])
    ELSE WithTop(s, [Top(s) EXCEPT !.odd = FALSE,
                                   !.left = IF Top(s).builder THEN @ ELSE @ - 1])

MayAddBytes(s, n) ==
    /\ s # << >>
    /\ Top(s).type \notin Compound
    /\ n <= Top(s).left
AddBytes(s, n) == WithTop(s, [Top(s) EXCEPT !.left = @ - n])

MayCheckEmpty(s) == s = << >>
=============================================================================
