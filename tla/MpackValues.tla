---------------------------- MODULE MpackValues ----------------------------
(***************************************************************************)
(* One value through the encoding of module MpackCodec: a caller writes it *)
(* with one of the mpack_write_... functions, or another encoder does in   *)
(* any form MessagePack has for it, as the daemon's does; a caller asks    *)
(* for it with one of the mpack_expect_... functions or compares its tag   *)
(* with that of another value.                                             *)
(***************************************************************************)
EXTENDS MpackCodec

VARIABLES
    written,    \* the value given to a write function
    form,       \* what that function, or another encoder, stored
    asked,      \* the expect function or the comparison
    got,        \* what it returned
    stage       \* none, write, own (written here), other (by another encoder), done

valueVars == <<written, form, asked, got, stage>>

AllWritten ==
    {Tag("uint", v) : v \in Unsigned[64]} \cup {Tag("int", v) : v \in Signed[64]}
    \cup {Tag(type, n) : type \in {"str", "bin", "array", "map"}, n \in Unsigned[32]}
    \cup {Tag("bool", b) : b \in {0, 1}} \cup {NilTag}

\* Numbers in the first byte and after it; lengths and counts in it; lengths of text
\* and bytes, and counts of elements, after it
FixNumbers ==
    {Fixed("fixuint", n) : n \in 0..FixUint}
    \cup {Fixed("fixint", n) : n \in (2 * Half[8] - FixInt)..(2 * Half[8] - 1)}
WideNumbers ==
    UNION {{Sized(code, width, n) : code \in {"uint", "int"}, n \in Unsigned[width]} : width \in Widths}
FixSizes ==
    {Fixed("fixstr", n) : n \in 0..FixStr}
    \cup {Fixed(code, n) : code \in {"fixarray", "fixmap"}, n \in 0..FixSize}
WideLengths ==
    UNION {{Sized(code, width, n) : code \in {"str", "bin"}, n \in Unsigned[width]} : width \in Widths \ {64}}
WideCounts ==
    UNION {{Sized(code, width, n) : code \in {"array", "map"}, n \in Unsigned[width]} : width \in {16, 32}}
AllForms == FixNumbers \cup WideNumbers \cup FixSizes \cup WideLengths \cup WideCounts

Number == {"uint", "int"}
\* The form stands for the value
Means(f, x) ==
    LET t == Parse(f)
    IN  t.v = x.v /\ (t.type = x.type \/ {t.type, x.type} \subseteq Number)

\* mpack_write_tag and the functions it calls
Encode(x) ==
    CASE x.type = "uint" -> EncodeUint(x.v)
      [] x.type = "int" -> EncodeInt(x.v)
      [] x.type = "str" -> EncodeStr(x.v)
      [] x.type = "bin" -> EncodeBin(x.v)
      [] x.type = "array" -> EncodeArray(x.v)
      [] x.type = "map" -> EncodeMap(x.v)
      [] x.type = "bool" -> EncodeBool(x.v)
      [] x.type = "nil" -> EncodeNil

NoLimits == << >>
NoCall == [call |-> "none", width |-> 0, x |-> NoLimits]
\* limits of the calls with a range, for signed and unsigned numbers alike
Limits == {<<0, 0>>, <<0, 2 * Half[8] - 1>>, <<1, FixUint + 1>>}
Asks ==
    {[call |-> call, width |-> width, x |-> NoLimits] : call \in {"uint", "int"}, width \in Widths}
    \cup {[call |-> call, width |-> 0, x |-> NoLimits] : call \in {"bool", "nil", "str", "bin", "array", "map"}}

ValueIdle ==
    /\ written = NilTag /\ form = EncodeNil /\ asked = NoCall /\ got = Got(0)
    /\ stage = "none"

ValueInit ==
    /\ written \in AllWritten
    /\ form = EncodeNil /\ asked = NoCall /\ got = Got(0)
    /\ stage = "write"

Write ==
    /\ stage = "write" /\ stage' = "own"
    /\ form' = Encode(written)
    /\ UNCHANGED <<written, asked, got>>

\* What the encoder of the other side makes of a value
WriteElsewhere ==
    /\ stage = "write" /\ stage' = "other"
    /\ \E f \in AllForms : Means(f, written) /\ form' = f
    /\ UNCHANGED <<written, asked, got>>

\* A function that reads the tag and looks at its type
Read(a) ==
    /\ stage \in {"own", "other"} /\ stage' = "done"
    /\ asked' = a
    /\ got' = CASE a.call = "uint" -> ExpectUint(Parse(form), a.width)
                [] a.call = "int" -> ExpectInt(Parse(form), a.width)
                [] a.call = "bool" -> ExpectBool(form)
                [] a.call = "nil" -> ExpectNil(form)
                [] OTHER -> ExpectType(Parse(form), a.call)
    /\ UNCHANGED <<written, form>>

\* One that also has limits: mpack_expect_..._range, _max and _match, _true and
\* _false, mpack_expect_map_match, _array_match, _str_max and _bin_max
ReadWithin(width, x) ==
    LET t == Parse(form)
        max == x[2]
    IN  /\ stage \in {"own", "other"} /\ stage' = "done"
        /\ \/ asked' = [call |-> "uint", width |-> width, x |-> x] /\ got' = ExpectRange(ExpectUint(t, width), x[1], max)
           \/ asked' = [call |-> "int", width |-> width, x |-> x] /\ got' = ExpectRange(ExpectInt(t, width), x[1], max)
           \/ /\ width = 64 /\ x[1] = 0
              /\ \/ asked' = [call |-> "uint", width |-> 64, x |-> <<max, max>>] /\ got' = ExpectUintMatch(t, max)
                 \/ asked' = [call |-> "int", width |-> 64, x |-> <<max, max>>] /\ got' = ExpectIntMatch(t, max)
                 \/ \E type \in {"array", "map"} :
                        /\ asked' = [call |-> type, width |-> 0, x |-> <<max, max>>]
                        /\ got' = ExpectMatch(t, type, max)
                 \/ asked' = [call |-> "str", width |-> 0, x |-> x] /\ got' = ExpectStrMax(t, max)
                 \/ asked' = [call |-> "bin", width |-> 0, x |-> x] /\ got' = ExpectBinMax(t, max)
           \/ \E b \in {0, 1} :
                 asked' = [call |-> "bool", width |-> 0, x |-> <<b, b>>] /\ got' = ExpectOneBool(form, b)
    /\ UNCHANGED <<written, form>>

\* mpack_tag_cmp with the tag of another value
Compare(x) ==
    /\ stage \in {"own", "other"} /\ stage' = "done"
    /\ asked' = [call |-> "compare", width |-> 0, x |-> <<x>>]
    /\ got' = Got(TagCmp(Parse(form), Parse(Encode(x))))
    /\ UNCHANGED <<written, form>>

ValueNext ==
    \/ Write \/ WriteElsewhere
    \/ \E a \in Asks : Read(a)
    \/ \E width \in Widths, x \in Limits : ReadWithin(width, x)
    \/ \E x \in AllWritten : Compare(x)

ValueSpec == ValueInit /\ [][ValueNext]_valueVars

----------------------------------------------------------------------------
\* Every value that fits what is asked for is returned as it was written, however
\* wide the function that wrote it and of whichever sign; one that does not fit,
\* or is outside the limits of the call, is refused and never returned truncated
\* or wrapped
ReadsBack ==
    (stage = "done" /\ asked.call # "compare") =>
        LET fits == CASE asked.call = "uint" -> written.type \in Number /\ written.v \in Unsigned[asked.width]
                      [] asked.call = "int" -> written.type \in Number /\ written.v \in Signed[asked.width]
                      [] OTHER -> written.type = asked.call
            within == asked.x = NoLimits \/ written.v \in asked.x[1]..asked.x[2]
        IN  IF fits /\ within THEN got = Got(written.v)
            ELSE got.error = IF fits /\ asked.call = "str" THEN "too_big" ELSE "type"

\* Two tags are equal when the values are, whatever wrote them, and numbers of
\* the same sign are ordered as numbers; a negative one comes first
ComparesValues ==
    (stage = "done" /\ asked.call = "compare") =>
        LET x == asked.x[1]
            same == written.type = x.type \/ {written.type, x.type} \subseteq Number
        IN  IF same THEN got.v = Sign(written.v - x.v) ELSE got.v # 0

\* What is written stands for the value, and no form MessagePack has for it is
\* shorter
Shortest ==
    stage = "own" => Means(form, written) /\ \A f \in AllForms : Means(f, written) => FormSize(form) <= FormSize(f)

\* The C library's encoders, parser and expect functions agree on every value, at
\* the borders of every width and between signed and unsigned
EncodesFaithfully == Shortest /\ ReadsBack /\ ComparesValues
=============================================================================
