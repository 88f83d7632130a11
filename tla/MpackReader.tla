---------------------------- MODULE MpackReader ----------------------------
(***************************************************************************)
(* The reader of src/clients/c/mpack.c: its buffer and the fill and skip   *)
(* functions behind it, mpack_read_..., mpack_discard and the              *)
(* mpack_expect_... functions, which forms they accept being module        *)
(* MpackCodec, and a caller that the tracking of module MpackTrack lets    *)
(* do anything.                                                            *)
(*                                                                         *)
(* A stream is a sequence of items, each a tag and the bytes that follow   *)
(* the tag of a str or bin; byte k of item i is <<i, k>>, so that a byte   *)
(* that goes to the wrong place is seen.  The functions are operators on   *)
(* the reader r that give [r, v], the reader afterwards and the value.     *)
(***************************************************************************)
EXTENDS MpackCodec, MpackTrack

CONSTANTS
    Documents,      \* what there is to read: a set of [items, messages]
    SmallFraction,  \* MPACK_READER_SMALL_FRACTION_DENOMINATOR (32)
    SkipFraction,   \* 16: what is less than this fraction of the buffer is not skipped by seeking
    MinReader,      \* MPACK_READER_MINIMUM_BUFFER_SIZE (32), at least the largest tag (9)
    Sources         \* where the bytes come from, see below; the limit is any

\* The forms of MessagePack
Codes == [fixed |-> {"fixuint", "fixint", "fixmap", "fixarray", "fixstr", "nil", "bool", "reserved", "ext"},
          sized |-> {"uint", "int", "str", "bin", "array", "map", "ext"}]
Forms == [code : Codes.fixed, width : {0}, raw : Nat] \cup [code : Codes.sized, width : Widths, raw : Nat]

ASSUME DocumentsAssumption == \A d \in Documents : d.items \in Seq([form : Forms, text : STRING])
\* A buffer is not empty and holds what is preloaded
ASSUME ReadersAssumption ==
    /\ {SmallFraction, SkipFraction, MinReader} \subseteq Nat \ {0}
    /\ Sources \subseteq [kind : {"data", "stream", "file"}, chunk : Nat, limit : Nat, size : Nat, preload : Nat,
                          seeks : BOOLEAN, starved : BOOLEAN, tracked : BOOLEAN]
    /\ \A s \in Sources : (s.kind = "stream" => s.preload <= s.size) /\ (s.kind = "file" => s.size > 0)

VARIABLES
    doc,        \* the items of the document
    stream,     \* its bytes
    source,     \* kind: data, stream (a fill function) or file; limit: bytes there are;
                \*   chunk: most bytes a fill gives; size: of the buffer; preload: bytes
                \*   already in it; seeks: the file is seekable; starved: malloc and
                \*   realloc return NULL, the first tracking stack's apart; tracked: a
                \*   build with tracking
    r,          \* the reader: mem, its buffer up to end; data, bytes of it consumed; src,
                \*   bytes taken from the source; eof, of the file; fills; error; track
    last,       \* the last call: its name, the error and the position before, what it gave
    found       \* the found array of mpack_expect_key_uint

readerVars == <<doc, stream, source, r, last, found>>

\* A loop of n rounds: Body(a, k) is what round k makes of a.  (FoldLeft takes the cube
\* of the number of rounds.)
Loop(Body(_, _), start, n) ==
    LET after[k \in 0..n] == IF k = 0 THEN start ELSE Body(after[k - 1], k) IN after[n]

Item(i) == doc[i]
\* The bytes that follow the tag
Content(item) == IF Parse(item.form).type \in {"str", "bin"} THEN item.form.raw ELSE 0
Broken(item) == FormError(item.form) # "ok"
ItemSize(item) == IF Broken(item) THEN 1 ELSE FormSize(item.form) + Content(item)
BytesOf(items) ==
    LET Bytes(s, i) == s \o [k \in 1..ItemSize(items[i]) |-> <<i, k>>] IN Loop(Bytes, << >>, Len(items))

Undefined == <<0, 0>>
Zeros(n) == [k \in 1..n |-> Undefined]
\* The first byte says the form; a byte of a text is ASCII, a positive fixint as a tag
FormAt(byte) == IF byte[2] = 1 THEN Item(byte[1]).form ELSE Fixed("fixuint", 0)
\* The text of the bytes, if they are those of one
TextOf(bytes) ==
    IF bytes = << >> THEN ""
    ELSE IF bytes[1] = Undefined THEN "?"
    ELSE LET i == bytes[1][1] IN
         IF bytes = [k \in 1..Content(Item(i)) |-> <<i, FormSize(Item(i).form) + k>>] THEN Item(i).text ELSE "?"
HasNul(bytes) == TextOf(bytes) = "nul"
NotUtf8(bytes) == TextOf(bytes) = "bad"

----------------------------------------------------------------------------
(* The buffer *)

Did(reader, v) == [r |-> reader, v |-> v]

Left(x) == Len(x.mem) - x.data
Window(x) == SubSeq(x.mem, x.data + 1, Len(x.mem))
Advance(x, n) == [x EXCEPT !.data = @ + n]
\* Where the next byte to be read is in the stream
Position(x) == x.src - Left(x)

Flag(x, error) ==
    IF x.error = "ok" THEN [x EXCEPT !.error = error, !.mem = SubSeq(@, 1, x.data)] ELSE x

Reader(bytes, src) ==
    [mem |-> bytes, data |-> 0, src |-> src, eof |-> FALSE, fills |-> FALSE, error |-> "ok", track |-> << >>]
\* mpack_reader_init_data
InitData(bytes, src) == Reader(bytes, src)
\* mpack_reader_init and mpack_reader_set_fill
InitStream ==
    LET x == Reader(SubSeq(stream, 1, source.preload), source.preload)
    IN  IF source.size < MinReader THEN Flag(x, "bug") ELSE [x EXCEPT !.fills = TRUE]
\* mpack_reader_init_stdfile
InitFile ==
    IF source.starved THEN [Reader(<< >>, 0) EXCEPT !.error = "memory"]
    ELSE [Reader(<< >>, 0) EXCEPT !.fills = TRUE]

Least(S) == CHOOSE x \in S : \A y \in S : x <= y

\* One call of a fill function; mpack_file_reader_fill and fread for a file
Fill(x, max) ==
    LET Give(n, atEnd) ==
            IF n <= 0 THEN Did(Flag(atEnd, "io"), << >>)
            ELSE Did([atEnd EXCEPT !.src = @ + n], SubSeq(stream, x.src + 1, x.src + n))
        given == Least({max, source.limit - x.src} \cup IF source.kind = "file" THEN {} ELSE {source.chunk})
    IN  IF x.eof THEN Did(Flag(x, "eof"), << >>)
        ELSE Give(given, [x EXCEPT !.eof = source.kind = "file" /\ given < max])

\* mpack_fill_range: as often as it takes to get min bytes
FillRange(x, min, max) ==
    LET Add(bytes, f) == Did(f.r, bytes \o f.v)
        Again(a) ==
            IF a.r.error # "ok" \/ Len(a.v) >= min THEN a ELSE Add(a.v, Fill(a.r, max - Len(a.v)))
        got[i \in 0..min] == IF i = 0 THEN Did(x, << >>) ELSE Again(got[i - 1])
        End(all) == Did(all.r, IF all.r.error = "ok" THEN all.v ELSE << >>)
    IN  End(got[min])

\* mpack_reader_ensure and mpack_reader_ensure_straddle
Ensure(x, n) ==
    LET moved == [x EXCEPT !.mem = Window(x), !.data = 0]
        Filled(f) == IF f.r.error = "ok" THEN [f.r EXCEPT !.mem = @ \o f.v] ELSE f.r
    IN  IF n <= Left(x) THEN x
        ELSE IF ~x.fills THEN Flag(x, "invalid")
        ELSE IF n > source.size THEN Flag(x, "too_big")
        ELSE Filled(FillRange(moved, n - Left(x), source.size - Left(x)))

\* What mpack_read_native_straddle makes of the bytes f it got for the rest of n
Straddled(x, n, f) ==
    LET rest == n - Left(x)
        small == rest <= source.size \div SmallFraction
    IN  IF f.r.error # "ok" THEN Did(f.r, Zeros(n))
        ELSE Did(IF small THEN [f.r EXCEPT !.mem = f.v, !.data = rest] ELSE f.r, Window(x) \o SubSeq(f.v, 1, rest))
\* A little more comes through the buffer, a lot directly; after a failure the
\* rest of the caller's memory is as it was
ReadStraddleUnflushed(x, n) ==   \* mutant: what was left in the buffer still counts as unread
    LET rest == n - Left(x)
        max == IF rest <= source.size \div SmallFraction THEN source.size ELSE rest
    IN  IF x.error # "ok" THEN Did(x, Zeros(n))
        ELSE IF ~x.fills THEN Did(Flag(x, "invalid"), Zeros(n))
        ELSE Straddled(x, n, FillRange(x, rest, max))
ReadStraddle(x, n) ==
    LET rest == n - Left(x)
        max == IF rest <= source.size \div SmallFraction THEN source.size ELSE rest
    IN  IF x.error # "ok" THEN Did(x, Zeros(n))
        ELSE IF ~x.fills THEN Did(Flag(x, "invalid"), Zeros(n))
        ELSE Straddled(x, n, FillRange(Advance(x, Left(x)), rest, max))

\* mpack_read_native
ReadNative(x, n) ==
    IF n <= Left(x) THEN Did(Advance(x, n), SubSeq(x.mem, x.data + 1, x.data + n)) ELSE ReadStraddle(x, n)

\* mpack_read_bytes_inplace_notrack
Inplace(x, n) ==
    LET Take(y) ==
            IF y.error # "ok" THEN Did(y, << >>) ELSE Did(Advance(y, n), SubSeq(y.mem, y.data + 1, y.data + n))
    IN  IF x.error # "ok" THEN Did(x, << >>) ELSE Take(Ensure(x, n))

\* mpack_reader_skip_using_fill, with nothing left in the buffer: whole buffers
\* first, then what remains of n comes with as much more as fits
SkipUsingFill(x, n) ==
    LET whole == (n - 1) \div source.size
        rest == n - whole * source.size
        Drop(y) == IF y.error # "ok" THEN y ELSE FillRange(y, source.size, source.size).r
        dropped[i \in 0..whole] == IF i = 0 THEN x ELSE Drop(dropped[i - 1])
        Filled(f) == IF f.r.error # "ok" THEN f.r ELSE [f.r EXCEPT !.mem = f.v, !.data = rest]
        Last(y) ==
            IF y.error # "ok" THEN y ELSE Filled(FillRange([y EXCEPT !.mem = << >>, !.data = 0], rest, source.size))
    IN  Last(dropped[whole])

\* mpack_file_reader_skip: a seek goes past the end of the file without an error
SeeksOver(rest) == source.kind = "file" /\ source.seeks /\ rest > source.size \div SkipFraction
FileSkip(x, rest) ==
    IF SeeksOver(rest) THEN [x EXCEPT !.src = @ + rest, !.eof = FALSE] ELSE SkipUsingFill(x, rest)

SkipStraddleWhole(x, n) ==   \* mutant: what the buffer had is skipped once more
    IF ~x.fills THEN Flag(x, "invalid") ELSE SkipUsingFill(Advance(x, Left(x)), n)
\* mpack_skip_bytes_straddle
SkipStraddle(x, n) ==
    IF x.fills THEN FileSkip(Advance(x, Left(x)), n - Left(x)) ELSE Flag(x, "invalid")

----------------------------------------------------------------------------
(* Tracking, only in a tracked build; a call it refuses stops the program *)

Track(x, s) == IF source.tracked /\ x.error = "ok" THEN [x EXCEPT !.track = s] ELSE x
TrackElement(x) == Track(x, AddElement(x.track))
TrackBytes(x, n) == Track(x, AddBytes(x.track, n))
CannotTrack(x) == source.tracked /\ source.starved /\ x.error = "ok" /\ Full(x.track, TrackCapacity)
TrackOpen(x, tag) ==
    IF tag.type \notin Compound \cup {"str", "bin"} THEN x
    ELSE IF CannotTrack(x) THEN Flag(x, "memory")
    ELSE Track(x, Push(x.track, tag.type, tag.v))
\* mpack_done_type
Done(x) == Track(x, Pop(x.track))

MayElement == r.error = "ok" => MayAddElement(r.track)
MayBytes(n) == r.error = "ok" => MayAddBytes(r.track, n)
MayText(n) == r.error = "ok" => MayAddBytes(r.track, n) /\ Top(r.track).type = "str" /\ Top(r.track).left = n
MayDone(type) == r.error = "ok" => MayPop(r.track, type, FALSE)

----------------------------------------------------------------------------
(* Tags *)

NoForm == Fixed("none", 0)

\* mpack_parse_tag gives the form it loaded, or NoForm with an error
ParseTag(x) ==
    LET Whole(y, f) == Did(y, IF y.error = "ok" THEN f ELSE NoForm)
        Load(y, f) ==
            IF FormError(f) # "ok" THEN Did(Flag(y, FormError(f)), NoForm) ELSE Whole(Ensure(y, FormSize(f)), f)
        First(y) == IF y.error # "ok" THEN Did(y, NoForm) ELSE Load(y, FormAt(y.mem[y.data + 1]))
    IN  First(Ensure(x, 1))

ReadTag(x) ==
    LET Open(y, f, tag) == IF y.error # "ok" THEN Did(y, NilTag) ELSE Did(Advance(y, FormSize(f)), tag)
        Read(p) ==
            IF p.v = NoForm THEN Did(p.r, NilTag) ELSE Open(TrackOpen(p.r, Parse(p.v)), p.v, Parse(p.v))
    IN  IF x.error # "ok" THEN Did(x, NilTag) ELSE Read(ParseTag(TrackElement(x)))

PeekTag(x) ==
    LET Read(p) == Did(p.r, IF p.v = NoForm THEN NilTag ELSE Parse(p.v))
    IN  IF x.error # "ok" THEN Did(x, NilTag) ELSE Read(ParseTag(x))

SkipBytes(x, n) ==
    LET Skip(y) == IF n <= Left(y) THEN Advance(y, n) ELSE SkipStraddle(y, n)
    IN  IF x.error # "ok" THEN x ELSE Skip(TrackBytes(x, n))

\* mpack_discard, element by element: open has the elements still to come of each
\* open container.  A round reads a tag or closes a container; a byte of a text is no
\* container, so there are no more tags to be read than items.
DiscardRound(a) ==
    LET After(x, open) == [r |-> x, open |-> open]
        Take(t, outer) ==
            CASE t.r.error # "ok" -> After(t.r, outer)
              [] t.v.type \in {"str", "bin"} -> After(Done(SkipBytes(t.r, t.v.v)), outer)
              [] t.v.type = "array" -> After(t.r, Append(outer, t.v.v))
              [] t.v.type = "map" -> After(t.r, Append(outer, 2 * t.v.v))
              [] OTHER -> After(t.r, outer)
    IN  IF a.r.error # "ok" \/ a.open = <<0>> THEN a
        ELSE IF a.open[Len(a.open)] = 0 THEN After(Done(a.r), SubSeq(a.open, 1, Len(a.open) - 1))
        ELSE Take(ReadTag(a.r), [a.open EXCEPT ![Len(a.open)] = @ - 1])
Discard(x) ==
    LET Each(a, k) == DiscardRound(a)
    IN  Loop(Each, [r |-> x, open |-> <<1>>], 2 * (Len(doc) + 1)).r

\* mpack_reader_remaining
Remaining(x) == IF x.error # "ok" THEN 0 ELSE Left(x)
=============================================================================
