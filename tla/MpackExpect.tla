---------------------------- MODULE MpackExpect ----------------------------
(***************************************************************************)
(* The functions of src/clients/c/mpack.c that read a whole string or a    *)
(* value of an expected type, mpack_read_..., mpack_expect_..., on the     *)
(* reader of module MpackReader, and the caller that makes any sequence of *)
(* calls the tracking allows.                                              *)
(***************************************************************************)
EXTENDS MpackReader

CONSTANTS
    Texts,      \* the strings of mpack_expect_enum, as a sequence
    BufferSize, \* of the caller's buffers and the maxima it asks for
    MaxKey      \* the count of mpack_expect_key_uint

ASSUME BufferAssumption == Texts \in Seq(STRING) /\ BufferSize \in Nat

----------------------------------------------------------------------------
(* Strings and bytes of an element whose tag was read *)

ReadBytes(x, n) == ReadNative(TrackBytes(x, n), n)
BytesInplace(x, n) == Inplace(TrackBytes(x, n), n)

\* What a function that checks the text does with the bytes it read
Checked(d, Bad(_)) == IF d.r.error = "ok" /\ Bad(d.v) THEN Did(Flag(d.r, "type"), << >>) ELSE d

\* mpack_read_utf8 and mpack_read_utf8_inplace
ReadUtf8(x, n) == Checked(ReadBytes(x, n), NotUtf8)
Utf8Inplace(x, n) == Checked(BytesInplace(x, n), NotUtf8)

\* mpack_read_cstr_unchecked; size includes the terminator
CstrUnchecked(x, size, n) ==
    IF x.error # "ok" THEN Did(x, << >>)
    ELSE IF n > size - 1 THEN Did(Flag(x, "too_big"), << >>)
    ELSE ReadBytes(x, n)
ReadCstr(x, size, n) == Checked(CstrUnchecked(x, size, n), HasNul)
ReadUtf8Cstr(x, size, n) == Checked(CstrUnchecked(x, size, n), LAMBDA b : HasNul(b) \/ NotUtf8(b))

\* mpack_read_bytes_alloc_impl; NULL is no bytes
ReadAlloc(x, n, terminated) ==
    LET Filled(d) == Did(d.r, IF d.r.error = "ok" THEN d.v ELSE << >>)
        Into(y) ==
            IF y.error # "ok" \/ (n = 0 /\ ~terminated) THEN Did(y, << >>)
            ELSE IF source.starved THEN Did(Flag(y, "memory"), << >>)
            ELSE Filled(ReadNative(y, n))
    IN  Into(TrackBytes(x, n))

----------------------------------------------------------------------------
(* Values *)

\* The verdict of a function of MpackCodec, flagged
Settle(x, verdict) == Did(IF verdict.error = "ok" THEN x ELSE Flag(x, verdict.error), verdict.v)
OnTag(x, Verdict(_)) == LET Judge(t) == Settle(t.r, Verdict(t.v)) IN Judge(ReadTag(x))
AtMost(max, error, d) == IF d.v > max THEN Did(Flag(d.r, error), 0) ELSE d
Finish(d) == Did(Done(d.r), d.v)

\* mpack_expect_u8 ... _u64 and mpack_expect_i8 ... _i64
ExpectU(x, width) == OnTag(x, LAMBDA t : ExpectUint(t, width))
ExpectI(x, width) == OnTag(x, LAMBDA t : ExpectInt(t, width))
\* mpack_expect_map_max and mpack_expect_array_max
ExpectCount(x, type, max) == AtMost(max, "type", OnTag(x, LAMBDA t : ExpectType(t, type)))
ExpectCountOrNil(x, type, max) == OnTag(x, LAMBDA t : ExpectOrNil(t, type, max))
ExpectBin(x) == OnTag(x, LAMBDA t : ExpectType(t, "bin"))
ExpectBinUpTo(x, max) == OnTag(x, LAMBDA t : ExpectBinMax(t, max))
ExpectTag(x, tag) == OnTag(x, LAMBDA t : Accept(TagEqual(t, tag), 0))

\* mpack_expect_type_byte: the first byte of a tag, which is consumed
TypeByte(x) ==
    LET First(y) == IF y.error # "ok" THEN Did(y, NoForm) ELSE Did(Advance(y, 1), FormAt(y.mem[y.data + 1]))
    IN  IF x.error # "ok" THEN Did(x, NoForm) ELSE First(Ensure(TrackElement(x), 1))
OnByte(x, Verdict(_)) == LET Judge(b) == Settle(b.r, Verdict(b.v)) IN Judge(TypeByte(x))
ExpectNilByte(x) == OnByte(x, ExpectNil)
ExpectBoolByte(x) == OnByte(x, ExpectBool)

\* mpack_expect_str: the number after the first byte is read on its own
ExpectStr(x) ==
    LET Length(y, size, n) ==
            IF y.error # "ok" THEN Did(y, 0) ELSE Did(TrackOpen(Advance(y, size), Tag("str", n)), n)
        Text(b) ==
            IF b.v.code \notin {"fixstr", "str"} THEN Did(Flag(b.r, "type"), 0)
            ELSE Length(IF b.v.width = 0 THEN b.r ELSE Ensure(b.r, b.v.width \div 8), b.v.width \div 8, b.v.raw)
    IN  Text(TypeByte(x))
ExpectStrUpTo(x, max) == AtMost(max, "too_big", ExpectStr(x))

\* mpack_expect_str_buf and mpack_expect_bin_buf, after the tag; _bin_size_buf
IntoBuffer(d, size) ==
    LET Filled(b) == IF b.r.error # "ok" THEN Did(b.r, << >>) ELSE Finish(b)
    IN  IF d.r.error # "ok" THEN Did(d.r, << >>)
        ELSE IF d.v > size THEN Did(Flag(d.r, "too_big"), << >>)
        ELSE Filled(ReadBytes(d.r, d.v))
ExpectStrBuf(x, size) == IntoBuffer(ExpectStr(x), size)
ExpectUtf8(x, size) == Checked(ExpectStrBuf(x, size), NotUtf8)
ExpectBinBuf(x, size) == IntoBuffer(ExpectBin(x), size)
ExpectBinSizeBuf(x, size) ==
    LET Read(d) == ReadBytes(IF d.v = size THEN d.r ELSE Flag(d.r, "type"), size) IN Finish(Read(ExpectBin(x)))

ExpectCstr(x, size) == LET Read(d) == ReadCstr(d.r, size, d.v) IN Finish(Read(ExpectStr(x)))
ExpectUtf8Cstr(x, size) == LET Read(d) == ReadUtf8Cstr(d.r, size, d.v) IN Finish(Read(ExpectStr(x)))

\* mpack_expect_cstr_alloc_unchecked and the two functions around it
CstrAlloc(x, max) ==
    LET Read(d) == ReadAlloc(d.r, d.v, TRUE)
    IN  IF max < 1 THEN Did(Flag(x, "bug"), << >>) ELSE Finish(Read(ExpectStrUpTo(x, max - 1)))
ExpectCstrAlloc(x, max) == Checked(CstrAlloc(x, max), HasNul)
ExpectUtf8CstrAlloc(x, max) == Checked(CstrAlloc(x, max), LAMBDA b : HasNul(b) \/ NotUtf8(b))
ExpectBinAlloc(x, max) ==
    LET Read(d) == IF d.r.error # "ok" THEN Did(d.r, << >>) ELSE Finish(ReadAlloc(d.r, d.v, FALSE))
    IN  Read(ExpectBinUpTo(x, max))

\* mpack_expect_str_match: byte by byte up to the first that differs
ExpectStrMatch(x, text, n) ==
    LET Same(byte) == byte[2] > 1 /\ Item(byte[1]).text = text
        Compare(y) ==
            IF y.error # "ok" THEN y
            ELSE IF Same(y.mem[y.data + 1]) THEN Advance(y, 1)
            ELSE Flag(Advance(y, 1), "type")
        One(y, i) == IF y.error # "ok" THEN y ELSE Compare(Ensure(y, 1))
        Whole(d) == Loop(One, TrackBytes(IF d.v = n THEN d.r ELSE Flag(d.r, "type"), n), n)
    IN  Done(Whole(ExpectStr(x)))

----------------------------------------------------------------------------
(* Keys: the position of a text in strings, 0 for one that is not there *)

TextInplace(x) == LET Read(d) == BytesInplace(d.r, d.v) IN Finish(Read(ExpectStr(x)))
IndexOf(strings, bytes) ==
    LET at == {i \in DOMAIN strings : strings[i] = TextOf(bytes)} IN IF at = {} THEN 0 ELSE Least(at)
Index(x, strings) ==
    LET Find(t) == Did(t.r, IF t.r.error = "ok" THEN IndexOf(strings, t.v) ELSE 0) IN Find(TextInplace(x))

ExpectEnum(x, strings) == LET Must(i) == Did(IF i.v = 0 THEN Flag(i.r, "type") ELSE i.r, i.v) IN Must(Index(x, strings))

EnumOptional(x, strings) ==
    LET Key(p) == IF p.v.type # "str" THEN Did(Discard(p.r), 0) ELSE Index(p.r, strings)
    IN  IF x.error # "ok" THEN Did(x, 0) ELSE Key(PeekTag(x))

\* The key a map may have once: taken are the ones it has had
Once(d, taken) == IF d.v \in taken THEN Did(Flag(d.r, "invalid"), 0) ELSE d
KeyCstr(x, strings, taken) == Once(EnumOptional(x, strings), taken)

\* mpack_expect_key_uint, where key k counts from 1 here
KeyUint(x, taken, count) ==
    LET Number(u) == IF u.r.error # "ok" \/ u.v >= count THEN Did(u.r, 0) ELSE Once(Did(u.r, u.v + 1), taken)
        Key(p) == IF p.v.type # "uint" THEN Did(Discard(p.r), 0) ELSE Number(ExpectU(p.r, 64))
    IN  IF x.error # "ok" THEN Did(x, 0) ELSE Key(PeekTag(x))

----------------------------------------------------------------------------
(* The caller *)

NoCall == [op |-> "none", before |-> "ok", at |-> 0, n |-> 0, bytes |-> << >>]
Returns(op, reader, n, bytes) ==
    /\ r' = reader
    /\ last' = [op |-> op, before |-> r.error, at |-> Position(r), n |-> n, bytes |-> bytes]
    /\ UNCHANGED <<doc, stream, source>>
GivesReader(op, reader) == Returns(op, reader, 0, << >>) /\ UNCHANGED found
GivesNumber(op, d) == Returns(op, d.r, d.v, << >>) /\ UNCHANGED found
GivesBytes(op, d) == Returns(op, d.r, 0, d.v) /\ UNCHANGED found

InitReader(items) ==
    /\ doc = items /\ stream = BytesOf(items)
    /\ \E from \in Sources : source \in {[from EXCEPT !.limit = n] : n \in from.preload..Len(stream)}
    /\ r = CASE source.kind = "data" -> InitData(SubSeq(stream, 1, source.limit), source.limit)
             [] source.kind = "stream" -> InitStream
             [] source.kind = "file" -> InitFile
    /\ last = NoCall /\ found = {}

Open == last.op # "destroy"

CallTag ==
    /\ Open /\ MayElement
    /\ LET t == ReadTag(r) IN Returns("tag", t.r, t.v.v, << >>) /\ UNCHANGED found
CallPeek ==
    /\ Open /\ MayElement
    /\ LET t == PeekTag(r) IN Returns("peek", t.r, t.v.v, << >>) /\ UNCHANGED found
CallDiscard == Open /\ MayElement /\ GivesReader("discard", Discard(r))

\* Part of an element, or the rest of it
OpenBytes == IF r.track # << >> /\ Top(r.track).type \notin Compound THEN Top(r.track).left ELSE 0
CallBytes ==
    \E n \in 0..OpenBytes :
        /\ Open /\ MayBytes(n)
        /\ \/ GivesBytes("bytes", ReadBytes(r, n))
           \/ GivesBytes("bytes", BytesInplace(r, n))
           \/ GivesBytes("bytes", ReadAlloc(r, n, FALSE))
           \/ GivesReader("skip", SkipBytes(r, n))
CallText ==
    \E n \in 0..OpenBytes :
        /\ n = OpenBytes
        /\ Open /\ MayText(n)
        /\ \/ GivesBytes("text", ReadUtf8(r, n))
           \/ GivesBytes("text", Utf8Inplace(r, n))
           \/ GivesBytes("text", ReadCstr(r, BufferSize, n))
           \/ GivesBytes("text", ReadUtf8Cstr(r, BufferSize, n))
CallDone ==
    \E type \in Compound \cup {"str", "bin"} : Open /\ MayDone(type) /\ GivesReader("done", Done(r))

CallNumber ==
    /\ Open /\ MayElement
    /\ \/ \E width \in Widths : GivesNumber("value", ExpectU(r, width)) \/ GivesNumber("value", ExpectI(r, width))
       \/ GivesNumber("value", ExpectNilByte(r))
       \/ GivesNumber("value", ExpectBoolByte(r))
CallExpectTag == Open /\ MayElement /\ GivesNumber("tag", ExpectTag(r, Tag("int", 1)))
CallCompound ==
    \E type \in Compound :
        /\ Open /\ MayElement
        /\ \/ GivesNumber("tag", ExpectCount(r, type, BufferSize))
           \/ GivesNumber("tag", ExpectCountOrNil(r, type, BufferSize))
CallLength == Open /\ MayElement /\ (GivesNumber("tag", ExpectStr(r)) \/ GivesNumber("tag", ExpectBin(r)))
CallBuffer ==
    /\ Open /\ MayElement
    /\ \/ GivesBytes("value", ExpectStrBuf(r, BufferSize))
       \/ GivesBytes("value", ExpectUtf8(r, BufferSize))
       \/ GivesBytes("value", ExpectBinBuf(r, BufferSize))
       \/ GivesBytes("value", ExpectBinSizeBuf(r, BufferSize))
       \/ GivesBytes("cstr", ExpectCstr(r, BufferSize))
       \/ GivesBytes("cstr", ExpectUtf8Cstr(r, BufferSize))
CallAlloc ==
    /\ Open /\ MayElement
    /\ \/ GivesBytes("cstr", ExpectCstrAlloc(r, BufferSize))
       \/ GivesBytes("cstr", ExpectUtf8CstrAlloc(r, BufferSize))
       \/ GivesBytes("value", ExpectBinAlloc(r, BufferSize))
CallMatch == Open /\ MayElement /\ GivesReader("value", ExpectStrMatch(r, Texts[1], 2))
CallEnum ==
    /\ Open /\ MayElement
    /\ GivesNumber("value", ExpectEnum(r, Texts)) \/ GivesNumber("value", EnumOptional(r, Texts))
CallKey ==
    /\ Open /\ MayElement
    /\ LET k == KeyUint(r, found, MaxKey) IN
       Returns("value", k.r, k.v, << >>) /\ found' = found \cup ({k.v} \ {0})
CallRemaining ==
    Open /\ (r.error = "ok" => MayCheckEmpty(r.track)) /\ Returns("remaining", r, Remaining(r), << >>) /\ UNCHANGED found
CallDestroy == Open /\ (r.error = "ok" => MayCheckEmpty(r.track)) /\ GivesReader("destroy", r)

NextRead ==
    \/ CallTag \/ CallPeek \/ CallDiscard \/ CallBytes \/ CallText \/ CallDone
    \/ CallNumber \/ CallExpectTag \/ CallCompound \/ CallLength
    \/ CallBuffer \/ CallAlloc \/ CallMatch \/ CallEnum \/ CallKey
    \/ CallRemaining \/ CallDestroy

----------------------------------------------------------------------------
\* Whatever the fill function gives and however much was asked for, what the
\* buffer holds unread is what the stream has next
WindowIsStream ==
    /\ r.data <= Len(r.mem)
    /\ r.fills => Len(r.mem) <= source.size
    /\ (r.error = "ok" /\ Left(r) > 0) => Window(r) = SubSeq(stream, Position(r) + 1, r.src)

\* The bytes a call returns, in whatever way they came, are those of the stream
\* where the call began or, for a call that reads the tag too, where it ended
DeliversTheStream ==
    /\ WindowIsStream
    /\ (r.error = "ok" /\ last.bytes # << >>) =>
           last.bytes = SubSeq(stream, Position(r) - Len(last.bytes) + 1, Position(r))

\* Where item j ends, and the last item of the value that begins with item i, 0 when
\* the document ends before it does
Children(item) ==
    LET t == Parse(item.form) IN CASE t.type = "array" -> t.v [] t.type = "map" -> 2 * t.v [] OTHER -> 0
ItemEnd(j) == Loop(LAMBDA n, k : n + ItemSize(Item(k)), 0, j)
ValueEnd(i) ==
    LET Missing(j) == Loop(LAMBDA n, k : n + Children(Item(i + k - 1)) - 1, 1, j - i + 1)
        ends == {j \in i..Len(doc) : Missing(j) = 0}
    IN  IF ends = {} \/ \E k \in i..Least(ends) : Broken(Item(k)) THEN 0 ELSE Least(ends)
ItemAt(position) == stream[position + 1][1]

\* In what the tracking lets a caller do, a tag is only read where one begins, and
\* what is left of an open element is what the stream has of it
NeverMisaligned ==
    (source.tracked /\ r.error = "ok" /\ last.op # "none" /\ Position(r) < Len(stream)) =>
        LET byte == stream[Position(r) + 1] IN
        IF r.track = << >> \/ Top(r.track).type \in Compound \/ Top(r.track).left = 0 THEN byte[2] = 1
        ELSE /\ byte[2] > FormSize(Item(byte[1]).form)
             /\ Top(r.track).left = ItemSize(Item(byte[1])) - byte[2] + 1

\* A call for a value takes that value, a discard all of it however it is nested,
\* and both only when the source has it, but for a seek past the end of a file
TakesOneValue ==
    /\ NeverMisaligned
    /\ (last.before = "ok" /\ r.error = "ok" /\ last.op # "none" /\ last.at < Len(stream)) =>
        LET i == ItemAt(last.at)
            whole == last.op \in {"value", "cstr", "discard"}
        IN  /\ whole => ValueEnd(i) # 0 /\ Position(r) = ItemEnd(ValueEnd(i))
            /\ last.op = "tag" => Position(r) = last.at + FormSize(Item(i).form)
            /\ last.op \in {"bytes", "text"} => Position(r) = last.at + Len(last.bytes)
            /\ last.op \in {"peek", "done", "remaining", "destroy"} => Position(r) = last.at
            /\ ~source.seeks => Position(r) <= source.limit
=============================================================================
