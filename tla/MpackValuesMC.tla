--------------------------- MODULE MpackValuesMC ---------------------------
(* The codec of values and the check of strings, which share no state: a    *)
(* behaviour takes one value or one string through its function.            *)
EXTENDS MpackValues, MpackText

\* Widths of 3, 4, 5 and 6 bits for those of 8, 16, 32 and 64
FewNumbers == [width \in Widths |-> CASE width = 8 -> 4 [] width = 16 -> 8 [] width = 32 -> 16 [] OTHER -> 32]

\* the bytes at which the classes of lead and continuation bytes change
EdgeBytes == {0, 65, 127, 128, 143, 144, 159, 160, 191, 192, 194, 224, 237, 239, 240, 244, 245, 248}
EdgeStrings == UNION {[1..n -> EdgeBytes] : n \in 0..3}
    \cup {<<a, b, c, d>> : a \in {65, 194, 239, 240, 244, 245}, b \in EdgeBytes, c \in {65, 128, 191}, d \in EdgeBytes}

Init == (ValueInit /\ TextIdle) \/ (TextInit /\ ValueIdle)
Next == (ValueNext /\ UNCHANGED textVars) \/ (TextNext /\ UNCHANGED valueVars)
Spec == Init /\ [][Next]_<<valueVars, textVars>>
=============================================================================
