----------------------------- MODULE MpackCodec -----------------------------
(***************************************************************************)
(* The MessagePack encoding of src/clients/c/mpack.c and mpack.h: which    *)
(* form the writer gives to an integer, a length or a count, how many      *)
(* bytes the form takes, what mpack_parse_tag makes of it, and what the    *)
(* mpack_expect_... functions accept.                                      *)
(*                                                                         *)
(* A form is [code, width, raw]: the code stands for the first byte, width *)
(* is the size of the number after it in bits, 0 when it is in the first   *)
(* byte itself, and raw is that number, stored without a sign.  How many   *)
(* numbers a width has is a constant, so that the boundaries of all widths *)
(* fit in a small range; the bytes are those of the real width.            *)
(***************************************************************************)
EXTENDS Integers, FiniteSets

CONSTANTS
    Half,       \* half of the numbers a width has: 2^7, 2^15, 2^31, 2^63
    FixInt,     \* the smallest negative fixint is -FixInt (32)
    FixStr,     \* the longest fixstr (31)
    FixSize     \* the largest fixarray and fixmap (15)

Widths == {8, 16, 32, 64}

ASSUME WidthsAssumption ==
    /\ Half \in [Widths -> Nat \ {0}]
    /\ \A v, x \in Widths : v < x => 2 * Half[v] <= Half[x]
    /\ FixInt \in 1..Half[8]
    /\ FixStr \in 0..(2 * Half[8] - 1) /\ FixSize \in 0..(2 * Half[16] - 1)

Unsigned == [width \in Widths |-> 0..(2 * Half[width] - 1)]
Signed == [width \in Widths |-> -Half[width]..(Half[width] - 1)]
\* 127, the largest positive fixint
FixUint == Half[8] - 1

\* The smallest width whose range holds x
Narrowest(x, ranges) ==
    CHOOSE width \in Widths : x \in ranges[width] /\ \A v \in Widths : v < width => x \notin ranges[v]

\* A signed number is stored as the unsigned one with the same bits
Stored(x, width) == x % (2 * Half[width])
Loaded(raw, width) == IF raw \in Signed[width] THEN raw ELSE raw - 2 * Half[width]

Fixed(code, raw) == [code |-> code, width |-> 0, raw |-> raw]
Sized(code, width, raw) == [code |-> code, width |-> width, raw |-> raw]

----------------------------------------------------------------------------
(* The forms the writer chooses *)

\* mpack_write_u8, _u16, _u32, _u64
EncodeUint(x) ==
    IF x <= FixUint THEN Fixed("fixuint", x)
    ELSE Sized("uint", Narrowest(x, Unsigned), x)

\* mpack_write_i8, _i16, _i32, _i64: a positive number takes the unsigned forms
EncodeSigned(x) ==   \* mutant: a positive number takes the signed form as wide as an unsigned one
    IF x \in -FixInt..FixUint THEN Fixed("fixint", Stored(x, 8))
    ELSE IF x > 0 THEN Sized("int", Narrowest(x, Unsigned), x)
    ELSE Sized("int", Narrowest(x, Signed), Stored(x, Narrowest(x, Signed)))
EncodeInt(x) ==
    IF x \in -FixInt..FixUint THEN Fixed("fixint", Stored(x, 8))
    ELSE IF x > 0 THEN Sized("uint", Narrowest(x, Unsigned), x)
    ELSE Sized("int", Narrowest(x, Signed), Stored(x, Narrowest(x, Signed)))

EncodeBool(b) == Fixed("bool", b)
EncodeNil == Fixed("nil", 0)

\* mpack_write_str and mpack_start_str_notrack
EncodeStr(n) == IF n <= FixStr THEN Fixed("fixstr", n) ELSE Sized("str", Narrowest(n, Unsigned), n)

\* mpack_start_bin_notrack
EncodeBin(n) == Sized("bin", Narrowest(n, Unsigned), n)

\* mpack_write_array_notrack and mpack_write_map_notrack: there is no 8-bit count
CountWidth(n) == IF n \in Unsigned[16] THEN 16 ELSE 32
EncodeArray(n) == IF n <= FixSize THEN Fixed("fixarray", n) ELSE Sized("array", CountWidth(n), n)
EncodeMap(n) == IF n <= FixSize THEN Fixed("fixmap", n) ELSE Sized("map", CountWidth(n), n)

\* MPACK_TAG_SIZE_...
FormSize(f) == 1 + f.width \div 8

----------------------------------------------------------------------------
(* mpack_parse_tag and the tags it makes *)

Tag(type, v) == [type |-> type, v |-> v]
NilTag == Tag("nil", 0)

\* A form whose first byte holds everything
ParseFixed(f) ==
    CASE f.code \in {"fixuint"} -> Tag("uint", f.raw)
      [] f.code = "fixint" -> \* the byte of a positive fixint is that of a fixuint
                              IF f.raw <= FixUint THEN Tag("uint", f.raw) ELSE Tag("int", Loaded(f.raw, 8))
      [] f.code = "fixmap" -> Tag("map", f.raw)
      [] f.code = "fixarray" -> Tag("array", f.raw)
      [] f.code = "fixstr" -> Tag("str", f.raw)
      [] f.code = "nil" -> NilTag
      [] f.code = "bool" -> Tag("bool", f.raw)

\* A form with a number after the first byte
ParseSized(f) ==
    IF f.code = "int" THEN Tag("int", Loaded(f.raw, f.width)) ELSE Tag(f.code, f.raw)

\* mpack_error_invalid, mpack_error_unsupported or no error
FormError(f) ==
    IF f.code = "reserved" THEN "invalid" ELSE IF f.code = "ext" THEN "unsupported" ELSE "ok"

Parse(f) == IF f.width = 0 THEN ParseFixed(f) ELSE ParseSized(f)

\* mpack_tag_cmp: a positive int is the uint of its value
Normal(t) == IF t.type = "int" /\ t.v >= 0 THEN Tag("uint", t.v) ELSE t
TypeOrder == [nil |-> 1, bool |-> 2, int |-> 3, uint |-> 4, str |-> 7, bin |-> 8, array |-> 9, map |-> 10]
Sign(x) == IF x = 0 THEN 0 ELSE IF x < 0 THEN -1 ELSE 1
TagCmp(a, b) ==
    LET l == Normal(a)
        r == Normal(b)
    IN  IF l.type # r.type THEN Sign(TypeOrder[l.type] - TypeOrder[r.type]) ELSE Sign(l.v - r.v)
TagEqual(a, b) == TagCmp(a, b) = 0

----------------------------------------------------------------------------
(* What the expect functions return: [error, v] *)

Got(v) == [error |-> "ok", v |-> v]
Refused(error, v) == [error |-> error, v |-> v]
Accept(condition, v) == IF condition THEN Got(v) ELSE Refused("type", 0)

\* mpack_expect_u8 ... mpack_expect_u64
ExpectUint(t, width) == Accept(t.type \in {"uint", "int"} /\ t.v \in Unsigned[width], t.v)

\* mpack_expect_i8 ... mpack_expect_i64
ExpectInt(t, width) == Accept(t.type \in {"uint", "int"} /\ t.v \in Signed[width], t.v)

\* mpack_expect_..._range, on what the function without a range returned
ExpectRange(got, min, max) ==
    IF got.error # "ok" THEN Refused(got.error, min)
    ELSE IF got.v \notin min..max THEN Refused("type", min)
    ELSE got

\* mpack_expect_uint_match and _int_match
ExpectUintMatch(t, x) == Accept(ExpectUint(t, 64) = Got(x), x)
ExpectIntMatch(t, x) == Accept(ExpectInt(t, 64) = Got(x), x)

\* mpack_expect_nil, _bool, _true, _false look at the first byte; a bool that is
\* refused is returned all the same, as the low bit of that byte
LowBit(f) ==
    IF f.width = 0 THEN f.raw % 2
    ELSE IF f.code \in {"bin", "uint", "int"} THEN (IF f.width \in {8, 32} THEN 0 ELSE 1)
    ELSE IF f.code = "str" THEN (IF f.width = 16 THEN 0 ELSE 1)
    ELSE IF f.width = 16 THEN 0 ELSE 1
ExpectNil(f) == Accept(f.code = "nil", 0)
ExpectBool(f) == IF f.code = "bool" THEN Got(f.raw) ELSE Refused("type", LowBit(f))
ExpectOneBool(f, b) == Accept(ExpectBool(f) = Got(b), b)

\* mpack_expect_map, _array, _str and _bin
ExpectType(t, type) == Accept(t.type = type, t.v)
ExpectMatch(t, type, n) == Accept(ExpectType(t, type) = Got(n), n)
\* mpack_expect_map_or_nil and _array_or_nil, with a maximum
ExpectOrNil(t, type, max) ==
    IF t.type = "nil" THEN Got(0) ELSE Accept(t.type = type /\ t.v <= max, t.v)
\* mpack_expect_str_max and mpack_expect_bin_max
ExpectStrMax(t, max) ==
    IF ExpectType(t, "str").v > max THEN Refused("too_big", 0) ELSE ExpectType(t, "str")
ExpectBinMax(t, max) ==
    IF ExpectType(t, "bin").v > max THEN Refused("type", 0) ELSE ExpectType(t, "bin")
=============================================================================
