----------------------------- MODULE CRepliesMC -----------------------------
(* The documents: streams for the free caller, and the daemon's messages,   *)
(* with one or two fields of each kind, known ones of the right and of a    *)
(* wrong type, unknown ones with any value, twice the same, or all of them. *)
EXTENDS CReplies

\* Widths of 3, 4, 5 and 6 bits for those of 8, 16, 32 and 64
FewNumbers == [width \in Widths |-> CASE width = 8 -> 4 [] width = 16 -> 8 [] width = 32 -> 16 [] OTHER -> 32]
SomeTexts == <<"cols", "rows">>

I(form) == [form |-> form, text |-> ""]
T(text, n) == [form |-> EncodeStr(n), text |-> text]
K(key) == T(key, 2)
NilItem == I(EncodeNil)
Number(x) == I(EncodeInt(x))
Size(items) == Loop(LAMBDA n, k : n + ItemSize(items[k]), 0, Len(items))
ItemsOf(parts) == Loop(LAMBDA s, k : s \o parts[k].items, << >>, Len(parts))

\* a map in an array, wide forms, broken ones, and containers cut short
FreeStreams ==
    << <<I(EncodeMap(1)), T("cols", 2), I(EncodeArray(2)), Number(-2), T("long", 4), NilItem>>,
       <<I(EncodeBin(5)), T("rows", 2), I(EncodeBin(7)), I(EncodeBool(1))>>,
       <<I(Sized("array", 16, 3)), I(EncodeUint(12)), T("nul", 3), T("bad", 2)>>,
       <<I(EncodeArray(2)), I(Fixed("reserved", 0)), NilItem>>,
       <<I(EncodeMap(2)), Number(1), T("", 0), Number(1), I(EncodeMap(0))>>,
       <<I(EncodeArray(2)), Number(1), I(Sized("ext", 8, 0))>> >>

----------------------------------------------------------------------------
(* Fields *)

Entry(key, value, fields, good) ==
    [key |-> key, items |-> <<K(key)>> \o value, fields |-> fields, good |-> good]
At(p, f, v) == <<p, f.key>> :> v
GoodField(f, p) ==
    CASE f.kind = "int" -> Entry(f.key, <<Number(-3)>>, At(p, f, -3), TRUE)
      [] f.kind \in {"u32", "u16"} -> Entry(f.key, <<Number(9)>>, At(p, f, 9), TRUE)
      [] f.kind = "bool" -> Entry(f.key, <<I(EncodeBool(1))>>, At(p, f, 1), TRUE)
      [] f.kind = "cstr" -> Entry(f.key, <<T("uuid", 3)>>, At(p, f, "uuid"), TRUE)
\* A bool that is refused is read as the low bit of its byte all the same
WrongField(f, p) ==
    CASE f.kind \in {"int", "u16"} -> Entry(f.key, <<T("text", 2)>>, << >>, FALSE)
      [] f.kind = "u32" -> Entry(f.key, <<Number(-1)>>, << >>, FALSE)
      [] f.kind = "bool" -> Entry(f.key, <<Number(3)>>, At(p, f, 1), FALSE)
      [] f.kind = "cstr" -> Entry(f.key, <<T("long", 4)>>, << >>, FALSE)
      [] OTHER -> Entry(f.key, <<NilItem>>, << >>, FALSE)
UnknownField ==
    [Entry("zz", <<I(EncodeMap(1)), K("cols"), I(EncodeArray(2)), Number(1), K("rows")>>, << >>, TRUE) EXCEPT !.key = ""]
NumberKey == [UnknownField EXCEPT !.items = <<Number(1), T("long", 4)>>]

MapItems(entries) == <<I(EncodeMap(Len(entries)))>> \o ItemsOf(entries)
AllGood(fields, p) == [i \in DOMAIN fields |-> GoodField(fields[i], p)]
FieldsOf(fields) ==
    AllGood(fields, 0) \o <<WrongField(fields[1], 0), WrongField(fields[Len(fields)], 0), UnknownField, NumberKey>>

IsGood(entries) == \A i \in DOMAIN entries : entries[i].good
\* maps[j] has the fields of placement j
Listing(maps) ==
    LET n == Len(maps)
        Add(a, j) == IF a.good THEN [good |-> IsGood(maps[j]), fields |-> Meaning(maps[j]).fields @@ a.fields] ELSE a
        all == Loop(Add, [good |-> TRUE, fields |-> IF n = 0 THEN << >> ELSE <<0, "out_count">> :> n], n)
    IN  Entry("placements", <<I(EncodeArray(n))>> \o ItemsOf([j \in 1..n |-> [items |-> MapItems(maps[j])]]),
              all.fields, all.good)
Listings ==
    <<Listing(<< >>), Listing(<<AllGood(EntryFields, 1)>>),
      Listing(<< <<GoodField(EntryFields[1], 1)>>, <<UnknownField, GoodField(EntryFields[2], 2)>> >>),
      Listing(<< <<GoodField(EntryFields[5], 1), WrongField(EntryFields[2], 1)>>, <<GoodField(EntryFields[1], 2)>> >>),
      [Listing(<< << >>, << >>, << >>, << >> >>) EXCEPT !.fields = << >>, !.good = FALSE],
      WrongField(ListFields[1], 0), UnknownField, NumberKey>>

Color(i, entries) ==
    Entry(ThemeFields[i].key, MapItems(entries), Meaning(entries).fields, IsGood(entries))
Colors ==
    <<Color(1, AllGood(ColorFields, 1)), Color(2, <<GoodField(ColorFields[2], 2), UnknownField>>),
      Color(1, <<GoodField(ColorFields[1], 1), WrongField(ColorFields[2], 1)>>),
      WrongField(ThemeFields[2], 0), UnknownField>>

EntriesOf(name) ==
    CASE name = "list" -> Listings
      [] name = "theme_changed" -> Colors
      [] name \in DOMAIN Results -> FieldsOf(Results[name])
      [] OTHER -> FieldsOf(Notices[name])

----------------------------------------------------------------------------
(* Messages *)

Response(fn, id, error, result, entries, heard) ==
    LET head == <<I(EncodeArray(IF result = << >> THEN 3 ELSE 4)), Number(1), Number(id)>> \o error
    IN  [call |-> fn, name |-> "response", heard |-> heard, entries |-> entries, items |-> head \o result,
         size |-> Size(head \o result), before |-> Size(head), result |-> Size(result)]
Notice(name, entries, more) ==
    LET items == <<I(EncodeArray(3)), Number(2), K(name), I(EncodeArray(1 + Len(more)))>> \o MapItems(entries) \o more
    IN  [call |-> "notice", name |-> name, heard |-> TRUE, entries |-> entries, items |-> items,
         size |-> Size(items), before |-> 0, result |-> 0]
Unheard(items) ==
    [call |-> "notice", name |-> "none", heard |-> FALSE, entries |-> << >>, items |-> items,
     size |-> Size(items), before |-> 0, result |-> 0]

Message(name, entries) ==
    IF name \in DOMAIN Results THEN Response(name, 1, <<NilItem>>, MapItems(entries), entries, TRUE)
    ELSE Notice(name, entries, IF entries = << >> THEN <<I(EncodeArray(1)), NilItem>> ELSE << >>)

\* The fields of an error, of which the last has no short string as key
ErrorText == Entry("message", <<T("oops", 3)>>, <<0, "message">> :> "oops", TRUE)
ErrorFields ==
    <<[ErrorText EXCEPT !.key = ""],
      [ErrorText EXCEPT !.key = "", !.items = <<K("message"), Number(3)>>, !.fields = << >>, !.good = FALSE],
      UnknownField, NumberKey>>
ErrorMessage(entries) ==
    LET bad == {k \in DOMAIN entries : entries[k] = NumberKey \/ ~entries[k].good}
        first == CHOOSE k \in bad : \A l \in bad : k <= l
    IN  Response("upload", 1, MapItems(entries), <<NilItem>>, entries, bad = {} \/ entries[first] # NumberKey)

\* A fifth element, which nobody reads
WithMore(m) ==
    [m EXCEPT !.items = <<I(EncodeArray(5))>> \o Tail(@) \o <<Number(1)>>, !.size = @ + Size(<<Number(1)>>)]

OddMessages ==
    <<WithMore(Response("upload", 1, <<NilItem>>, <<I(EncodeMap(1)), K("handle"), Number(3)>>,
                        <<Entry("handle", <<Number(3)>>, <<0, "handle">> :> 3, TRUE)>>, TRUE)),
      Response("upload", 1, <<T("text", 2)>>, <<NilItem>>, << >>, TRUE),
      Response("upload", 1, <<Number(3)>>, <<NilItem>>, << >>, TRUE),
      Response("upload", 1, <<NilItem>>, << >>, << >>, TRUE),
      Response("upload", 1, <<NilItem>>, <<I(EncodeArray(2)), NilItem, I(EncodeMap(1)), K("rows"), Number(1)>>, << >>, TRUE),
      Response("upload", 2, <<NilItem>>, <<NilItem>>, << >>, FALSE),
      Unheard(<<I(EncodeArray(4)), Number(5), Number(1), NilItem, NilItem>>),
      Unheard(<<I(EncodeArray(4)), K("rows"), Number(1), NilItem, NilItem>>),
      Unheard(<<I(EncodeArray(4)), Number(1), K("rows"), NilItem, NilItem>>),
      Unheard(<<Number(4)>>),
      Unheard(<<I(EncodeArray(2)), Number(1), Number(1)>>),
      Unheard(<<I(EncodeArray(6)), Number(1), Number(1), NilItem, NilItem, NilItem, NilItem>>),
      Unheard(<<I(EncodeArray(3)), Number(2), K("evicted"), I(EncodeArray(0))>>),
      Unheard(<<I(EncodeArray(3)), Number(2), K("evicted"), NilItem>>),
      Unheard(<<I(EncodeArray(3)), Number(2), T("long", 4), I(EncodeArray(1)), NilItem>>),
      Unheard(<<I(EncodeArray(3)), Number(2), K("other"), I(EncodeArray(2)), I(EncodeArray(1)), NilItem, Number(1)>>)>>

\* What the properties ask of a message
Facts(m) ==
    [call |-> m.call, name |-> m.name, heard |-> m.heard, size |-> m.size, before |-> m.before, result |-> m.result,
     entries |-> [i \in DOMAIN m.entries |->
         [key |-> m.entries[i].key, fields |-> m.entries[i].fields, good |-> m.entries[i].good]]]

----------------------------------------------------------------------------
(* Documents *)

Names == DOMAIN Results \cup DOMAIN Notices

\* For each function and notification, a message with each of the entries alone, with
\* each two of them, with all the good ones, with an unknown one among those, and with
\* none; each error; and each odd message, alone and before another message
DocumentsOf(entries, errors, odd) ==
    LET Good(name) ==
            IF name = "list" THEN <<entries[name][2]>>
            ELSE IF name = "theme_changed" THEN SubSeq(entries[name], 1, 2)
            ELSE SubSeq(entries[name], 1, Len(entries[name]) - 4)
        Chosen(name) ==
            LET each == {entries[name][i] : i \in DOMAIN entries[name]} IN
            {<< >>, Good(name), <<Head(Good(name)), UnknownField>> \o Tail(Good(name))}
            \cup {<<e>> : e \in each} \cup {<<e, f>> : e, f \in each}
        First(m) == IF m.heard THEN Notice("evicted", <<entries["evicted"][1]>>, <<T("long", 4)>>) ELSE m
        lists ==
            UNION {{<<Message(name, e)>> : e \in Chosen(name)} : name \in Names}
            \cup {<<ErrorMessage(e)>> : e \in {<<errors[i]>> : i \in DOMAIN errors}
                                              \cup {<<errors[i], errors[j]>> : i, j \in DOMAIN errors}}
            \cup {<<odd[i]>> : i \in DOMAIN odd}
            \cup {<<m, Message("place", <<entries["place"][1]>>)>> :
                    m \in {First(odd[i]) : i \in DOMAIN odd}
                          \cup {Message("visibility_changed", Good("visibility_changed"))}}
    IN  {[items |-> ItemsOf(m), messages |-> [i \in DOMAIN m |-> Facts(m[i])]] : m \in lists}

ManyDocuments ==
    {[items |-> FreeStreams[i], messages |-> << >>] : i \in DOMAIN FreeStreams}
    \cup DocumentsOf([name \in Names |-> EntriesOf(name)], ErrorFields, OddMessages)

Source(kind, chunk, size, preload, seeks, starved, tracked) ==
    [kind |-> kind, chunk |-> chunk, limit |-> 0, size |-> size, preload |-> preload,
     seeks |-> seeks, starved |-> starved, tracked |-> tracked]
ManySources ==
    {Source("data", 0, 0, 0, FALSE, b, TRUE) : b \in BOOLEAN}
    \cup {Source("stream", c, s, p, FALSE, FALSE, TRUE) : c \in {1, 4}, s \in {4, 5, 8}, p \in {0, 2}}
    \cup {Source("file", 0, 5, 0, b, s, TRUE) : b \in BOOLEAN, s \in BOOLEAN}
    \cup {Source("data", c, 0, 0, FALSE, c = 80, FALSE) : c \in {0, 5, 80}}
=============================================================================
