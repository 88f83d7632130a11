------------------------------ MODULE CReplies ------------------------------
(***************************************************************************)
(* What src/clients/c/kgd.c makes of the daemon's messages with the reader *)
(* of module MpackExpect, in a build without tracking: the frames found in *)
(* the received bytes, process_message, and the functions that parse the   *)
(* result of their call.  The harness of fuzz_msgpack.c calls              *)
(* process_message with any bytes.                                         *)
(*                                                                         *)
(* A loop over a map is on the stack loops: its fields with their kinds,   *)
(* parent (0, or the number of the entry or colour it belongs to), left    *)
(* and taken, the found array.  A field read is out[<<parent, key>>]; one  *)
(* that is not in out is zero, as calloc, memset or an initializer left    *)
(* it.  What the caller's memory held before the call is "unwritten".      *)
(***************************************************************************)
EXTENDS MpackExpect, TLC

CONSTANTS
    Slots,      \* MAX_PENDING (64)
    MapMax,     \* 32, the keys a map may have
    ColorMax,   \* 8, the keys of a colour
    ListMax,    \* 4096, the placements of a list
    ArrayMax,   \* 8, the elements of a message
    ParamMax,   \* 16, the parameters of a notification
    KeyBuffer, TextBuffer   \* sizes of the buffers of error keys and of other texts

VARIABLES
    messages,   \* the messages the document is made of, see CRepliesMC
    driver,     \* free (the caller of MpackExpect), reader or fuzz
    phase,      \* where process_message or the call is
    arrived,    \* bytes read from the socket
    begin,      \* bytes removed from recv_buf
    ends,       \* where the message being processed ends
    call,       \* the function that waits, its msgid being 1
    callbacks,  \* they are set
    msgid, hasError, method, params,    \* locals of process_message
    loops, out,
    slot,       \* of the call: done, error, data
    log,        \* responses taken and callbacks made
    verdict     \* of the call

replyVars == <<messages, driver, phase, arrived, begin, ends, call, callbacks, msgid, hasError, method, params,
               loops, out, slot, log, verdict>>
allVars == <<readerVars, replyVars>>

----------------------------------------------------------------------------
(* The fields each function looks for *)

Field(key, kind) == [key |-> key, kind |-> kind]
HelloFields == <<Field("client_id", "cstr"), Field("cols", "int"), Field("rows", "int"),
                 Field("cell_width", "int"), Field("cell_height", "int"), Field("in_tmux", "bool")>>
UploadFields == <<Field("handle", "u32")>>
PlaceFields == <<Field("placement_id", "u32")>>
ListFields == <<Field("placements", "entries")>>
EntryFields == <<Field("placement_id", "u32"), Field("client_id", "cstr"), Field("handle", "u32"),
                 Field("visible", "bool"), Field("row", "int"), Field("col", "int")>>
StatusFields == <<Field("clients", "int"), Field("placements", "int"), Field("images", "int"),
                  Field("cols", "int"), Field("rows", "int")>>
EvictedFields == <<Field("handle", "u32")>>
TopologyFields == <<Field("cols", "int"), Field("rows", "int"), Field("cell_width", "int"), Field("cell_height", "int")>>
VisibilityFields == <<Field("placement_id", "u32"), Field("visible", "bool")>>
ThemeFields == <<Field("fg", "color"), Field("bg", "color")>>
ColorFields == <<Field("r", "u16"), Field("g", "u16"), Field("b", "u16")>>

Results ==
    [hello |-> HelloFields, upload |-> UploadFields, place |-> PlaceFields, list |-> ListFields,
     status |-> StatusFields]
Notices ==
    [evicted |-> EvictedFields, topology_changed |-> TopologyFields,
     visibility_changed |-> VisibilityFields, theme_changed |-> ThemeFields]

MapLoop(fields, parent, n) ==
    [fields |-> fields, parent |-> parent, left |-> n, taken |-> {}, entries |-> FALSE]
EntryLoop(n) == [fields |-> EntryFields, parent |-> 0, left |-> n, taken |-> {}, entries |-> TRUE]

\* mpack_expect_... of the kind; a colour's part is cast to uint16_t
ReadAs(kind, x) ==
    CASE kind = "int" -> ExpectI(x, 32)
      [] kind = "u32" -> ExpectU(x, 32)
      [] kind = "bool" -> ExpectBoolByte(x)
      [] kind = "u16" -> LET d == ExpectI(x, 32) IN Did(d.r, d.v % (2 * Half[16]))
      [] kind = "cstr" -> LET d == ExpectCstr(x, TextBuffer) IN Did(d.r, TextOf(d.v))

----------------------------------------------------------------------------
(* The loops *)

Inner == loops[Len(loops)]
Outer == SubSeq(loops, 1, Len(loops) - 1)
\* The round of the loop that consumes this key is over
Round(i) == Append(Outer, [Inner EXCEPT !.left = @ - 1, !.taken = @ \cup ({i} \ {0})])
Looping == loops # << >> /\ Inner.left > 0 /\ r.error = "ok" /\ ~Inner.entries
NextKey == KeyCstr(r, [i \in DOMAIN Inner.fields |-> Inner.fields[i].key], Inner.taken)
KindOf(i) == IF i = 0 THEN "unknown" ELSE Inner.fields[i].kind
LoopUnchanged ==
    UNCHANGED <<messages, driver, phase, arrived, begin, ends, call, callbacks, msgid, hasError, method, params,
                slot, log, doc, stream, source, last, found>>

ReadField ==
    /\ Looping
    /\ \E k \in {NextKey} :
        /\ KindOf(k.v) \notin {"unknown", "entries", "color"}
        /\ \E d \in {ReadAs(KindOf(k.v), k.r)} :
            /\ r' = d.r
            /\ out' = (<<Inner.parent, Inner.fields[k.v].key>> :> d.v) @@ out
        /\ loops' = Round(k.v)
    /\ UNCHANGED verdict /\ LoopUnchanged

\* A key it does not know is read with the whole of its value
SkipFieldShallowly ==   \* mutant: of a container only the tag is skipped
    /\ Looping
    /\ \E k \in {NextKey} : k.v = 0 /\ r' = ReadTag(k.r).r
    /\ loops' = Round(0)
    /\ UNCHANGED <<out, verdict>> /\ LoopUnchanged
SkipField ==
    /\ Looping
    /\ \E k \in {NextKey} : k.v = 0 /\ r' = Discard(k.r)
    /\ loops' = Round(0)
    /\ UNCHANGED <<out, verdict>> /\ LoopUnchanged

\* The placements of a list, in an array of that size from calloc
OpenEntries ==
    /\ Looping
    /\ \E k \in {NextKey} :
        /\ KindOf(k.v) = "entries"
        /\ \E d \in {ExpectCount(k.r, "array", ListMax)} :
            /\ r' = d.r
            /\ IF d.r.error # "ok" \/ d.v = 0 THEN loops' = Round(k.v) /\ UNCHANGED <<out, verdict>>
               ELSE IF source.starved THEN loops' = << >> /\ verdict' = "nomem" /\ UNCHANGED out
               ELSE /\ loops' = Append(Round(k.v), EntryLoop(d.v))
                    /\ out' = (<<0, "out_count">> :> d.v) @@ out
                    /\ UNCHANGED verdict
    /\ LoopUnchanged

NextEntry ==
    /\ loops # << >> /\ Inner.entries /\ Inner.left > 0 /\ r.error = "ok"
    /\ LET n == out[<<0, "out_count">>] - Inner.left + 1 IN
       \E d \in {ExpectCount(r, "map", MapMax)} :
           r' = d.r /\ loops' = Append(Round(0), MapLoop(EntryFields, n, d.v))
    /\ UNCHANGED <<out, verdict>> /\ LoopUnchanged

OpenColor ==
    /\ Looping
    /\ \E k \in {NextKey} :
        /\ KindOf(k.v) = "color"
        /\ \E d \in {ExpectCount(k.r, "map", ColorMax)} :
            r' = d.r /\ loops' = Append(Round(k.v), MapLoop(ColorFields, k.v, d.v))
    /\ UNCHANGED <<out, verdict>> /\ LoopUnchanged

\* mpack_done_map and mpack_done_array do nothing without tracking
EndLoop ==
    /\ loops # << >> /\ (Inner.left = 0 \/ r.error # "ok")
    /\ loops' = Outer
    /\ UNCHANGED <<r, out, verdict>> /\ LoopUnchanged

Loops == ReadField \/ SkipField \/ OpenEntries \/ NextEntry \/ OpenColor \/ EndLoop

----------------------------------------------------------------------------
(* reader_thread *)

Inside(from, to) == SubSeq(stream, from + 1, to)

\* read() gives some bytes, which are appended to recv_buf; when no more come the
\* call either has its response or times out
Receive ==
    /\ phase = "read" /\ arrived < source.limit
    /\ arrived' = Least({source.limit, arrived + source.chunk})
    /\ phase' = "frame"
    /\ UNCHANGED <<readerVars, messages, driver, begin, ends, call, callbacks, msgid, hasError, method, params, loops,
                   out, slot, log, verdict>>

\* The first message of recv_buf, if all of it is there
Frame ==
    /\ phase = "frame"
    /\ \E whole \in {Discard(InitData(Inside(begin, arrived), arrived))} :
        LET end == arrived - Remaining(whole) IN
        IF arrived > begin /\ whole.error = "ok"
        THEN phase' = "array" /\ ends' = end /\ r' = InitData(Inside(begin, end), end)
        ELSE phase' = "read" /\ UNCHANGED <<ends, r>>
    /\ UNCHANGED <<doc, stream, source, last, found, messages, driver, arrived, begin, call, callbacks, msgid, hasError, method,
                       params, loops, out, slot, log, verdict>>

ReturnedEmptying(x) ==   \* mutant: everything received is removed
    /\ r' = x
    /\ begin' = arrived
    /\ phase' = IF driver = "fuzz" THEN "done" ELSE "frame"
\* process_message has returned: the bytes of the message are removed
Returned(x) ==
    /\ r' = x
    /\ begin' = ends
    /\ phase' = IF driver = "fuzz" THEN "done" ELSE "frame"

----------------------------------------------------------------------------
(* process_message *)

Kept == UNCHANGED <<doc, stream, source, last, found, messages, driver, arrived, ends, call, callbacks, loops, verdict>>
Locals == <<msgid, hasError, method, params>>
To(next, x) == phase' = next /\ r' = x /\ UNCHANGED begin

ProcessArray ==
    /\ phase = "array"
    /\ \E d \in {ExpectCount(r, "array", ArrayMax)} :
        IF d.v < 3 \/ d.r.error # "ok" THEN Returned(d.r) ELSE To("type", d.r)
    /\ UNCHANGED <<Locals, out, slot, log>> /\ Kept

ProcessType ==
    /\ phase = "type"
    /\ \E d \in {ExpectI(r, 32)} :
        IF d.r.error = "ok" /\ d.v \in {1, 2} THEN To(IF d.v = 1 THEN "msgid" ELSE "method", d.r)
        ELSE Returned(d.r)
    /\ UNCHANGED <<Locals, out, slot, log>> /\ Kept

ProcessMsgid ==
    /\ phase = "msgid"
    /\ \E d \in {ExpectU(r, 32)} :
        /\ IF d.r.error = "ok" THEN To("error", d.r) ELSE Returned(d.r)
        /\ msgid' = d.v
    /\ out' = << >>
    /\ UNCHANGED <<hasError, method, params, slot, log>> /\ Kept

\* The error field: nil, a map, or anything else, whose tag was read when the
\* rest of it is discarded
ProcessError ==
    /\ phase = "error"
    /\ \E t \in {ReadTag(r)} :
        /\ hasError' = (t.v.type # "nil")
        /\ CASE t.v.type = "nil" -> To("result", t.r) /\ UNCHANGED params
             [] t.v.type = "map" -> To("errorKeys", t.r) /\ params' = t.v.v
             [] OTHER -> To("result", Discard(t.r)) /\ UNCHANGED params
    /\ UNCHANGED <<msgid, method, out, slot, log>> /\ Kept

\* One key of the error map; one that is no short string ends process_message
ProcessErrorKey ==
    /\ phase = "errorKeys" /\ params > 0 /\ r.error = "ok"
    /\ \E key \in {ExpectCstr(r, KeyBuffer)} :
        IF key.r.error # "ok" THEN Returned(key.r) /\ UNCHANGED <<params, out>>
        ELSE /\ params' = params - 1
             /\ IF TextOf(key.v) = "message"
                THEN \E text \in {ExpectCstr(key.r, TextBuffer)} :
                        /\ To("errorKeys", text.r)
                        /\ out' = IF text.r.error = "ok" THEN (<<0, "message">> :> TextOf(text.v)) @@ out ELSE out
                ELSE To("errorKeys", Discard(key.r)) /\ UNCHANGED out
    /\ UNCHANGED <<msgid, hasError, method, slot, log>> /\ Kept
ErrorMapEnds ==
    /\ phase = "errorKeys" /\ (params = 0 \/ r.error # "ok")
    /\ To("result", r)
    /\ UNCHANGED <<Locals, out, slot, log>> /\ Kept

\* The raw bytes of the result, for the slot of the call if it waits; its copy
\* may be refused memory
Result(raw) ==
    [done |-> TRUE, error |-> hasError, data |-> IF hasError THEN << >> ELSE raw, src |-> Position(r) + Len(raw)]
\* Its slot is active (the harness has active ones that nobody waits for)
Waits == driver = "fuzz" \/ call \in DOMAIN Results
Respond(raw) ==
    LET mine == Waits /\ msgid % Slots = 1 % Slots IN
    /\ \E copied \in {TRUE, ~source.starved} :
        slot' = IF mine THEN Result(IF copied THEN raw ELSE << >>) ELSE slot
    /\ log' = IF mine THEN Append(log, "response") ELSE log
ProcessResult ==
    LET rest == IF r.error = "ok" THEN Window(r) ELSE << >> IN
    /\ phase = "result"
    /\ Returned(Discard(r))
    /\ \E x \in {Discard(InitData(rest, Position(r) + Len(rest)))} :
        Respond(IF x.error = "ok" THEN SubSeq(rest, 1, Len(rest) - Remaining(x)) ELSE << >>)
    /\ UNCHANGED <<Locals, out>> /\ Kept

SkipParams(x, n) == LET Skip(y, i) == Discard(y) IN Loop(Skip, x, n)

\* A notification: its method and its parameters, of which only the first is read
ProcessMethod ==
    LET Heard(m) == callbacks /\ TextOf(m.v) \in DOMAIN Notices
    IN  /\ phase = "method"
        /\ \E m \in {ExpectCstr(r, TextBuffer)} : \E p \in {ExpectCount(m.r, "array", ParamMax)} :
            /\ method' = TextOf(m.v) /\ params' = p.v
            /\ IF m.r.error # "ok" \/ p.r.error # "ok" \/ p.v = 0 THEN Returned(p.r)
               ELSE IF Heard(m) THEN To("notice", p.r)
               ELSE Returned(SkipParams(p.r, p.v))
        /\ out' = << >>
        /\ UNCHANGED <<msgid, hasError, slot, log>> /\ Kept

ProcessNotice ==
    /\ phase = "notice"
    /\ \E d \in {ExpectCount(r, "map", MapMax)} : r' = d.r /\ loops' = <<MapLoop(Notices[method], 0, d.v)>>
    /\ phase' = "fields"
    /\ UNCHANGED <<doc, stream, source, last, found, messages, driver, arrived, begin, ends, call, callbacks,
                   Locals, out, slot, log, verdict>>

\* The other parameters are skipped and the callback is called, whatever was read
CallBack ==
    /\ phase = "fields" /\ loops = << >>
    /\ Returned(SkipParams(r, params - 1))
    /\ log' = Append(log, method)
    /\ UNCHANGED <<Locals, out, slot>> /\ Kept

----------------------------------------------------------------------------
(* The call: kgd_connect, kgd_upload, kgd_place, kgd_list or kgd_status *)

\* *out_handle and *out_id, unlike the results of the other calls, are not cleared
Uncleared == {"upload", "place"}
LeftByCaller(fn) ==
    IF fn \in Uncleared THEN [p \in {<<0, Results[fn][1].key>>} |-> "unwritten"] ELSE << >>

\* do_call has returned
ParseResult ==
    /\ phase = "read" /\ arrived = source.limit
    /\ IF slot.done /\ ~slot.error
       THEN /\ \E d \in {ExpectCount(InitData(slot.data, slot.src), "map", MapMax)} :
                r' = d.r /\ loops' = <<MapLoop(Results[call], 0, d.v)>>
            /\ phase' = "result fields" /\ out' = LeftByCaller(call)
            /\ UNCHANGED verdict
       ELSE /\ phase' = "done" /\ verdict' = IF slot.done THEN "rpc" ELSE "timeout"
            /\ UNCHANGED <<r, out, loops>>
    /\ UNCHANGED <<doc, stream, source, last, found, messages, driver, arrived, begin, ends, call, callbacks, Locals, slot, log>>

Answered ==
    /\ phase = "result fields" /\ loops = << >>
    /\ phase' = "done"
    /\ verdict' = IF verdict = "nomem" THEN verdict ELSE "ok"
    /\ UNCHANGED <<readerVars, messages, driver, arrived, begin, ends, call, callbacks, Locals, loops, out, slot, log>>

----------------------------------------------------------------------------
NoSlot == [done |-> FALSE, error |-> FALSE, data |-> << >>, src |-> 0]
InitReplies ==
    /\ \E d \in Documents : InitReader(d.items) /\ messages = d.messages
    /\ driver \in IF messages = << >> THEN {"free"} ELSE {"reader", "fuzz"}
    /\ source.tracked = (driver = "free")
    /\ driver = "reader" => source.limit = Len(stream)
    /\ driver = "fuzz" => source.chunk = 0
    /\ callbacks \in IF driver = "reader" THEN BOOLEAN ELSE {TRUE}
    /\ phase = CASE driver = "free" -> "free" [] driver = "fuzz" -> "array" [] OTHER -> "read"
    /\ call = IF driver = "free" THEN "none" ELSE messages[Len(messages)].call
    /\ arrived = 0 /\ begin = 0 /\ ends = IF driver = "fuzz" THEN source.limit ELSE 0
    /\ msgid = 0 /\ hasError = FALSE /\ method = "" /\ params = 0
    /\ loops = << >> /\ out = << >> /\ slot = NoSlot /\ log = << >> /\ verdict = "none"

FreeCall == driver = "free" /\ NextRead /\ UNCHANGED replyVars
NextReplies ==
    \/ FreeCall
    \/ Receive \/ Frame
    \/ ProcessArray \/ ProcessType \/ ProcessMsgid \/ ProcessError \/ ProcessErrorKey \/ ErrorMapEnds \/ ProcessResult
    \/ ProcessMethod \/ ProcessNotice \/ CallBack
    \/ ParseResult \/ Answered
    \/ Loops
ReplySpec == InitReplies /\ [][NextReplies]_allVars

----------------------------------------------------------------------------
(* What the daemon sent *)

\* The fields of a map up to the first that is not what it should be
Meaning(entries) ==
    LET Add(a, k) ==
            LET e == entries[k] IN
            IF ~a.ok THEN a
            ELSE IF e.key \in a.keys THEN [a EXCEPT !.ok = FALSE]
            ELSE [ok |-> e.good, keys |-> a.keys \cup ({e.key} \ {""}), fields |-> e.fields @@ a.fields]
    IN  Loop(Add, [ok |-> TRUE, keys |-> {}, fields |-> << >>], Len(entries))

\* What was read agrees with it.  A field that was not sent, or not as it should
\* be, is zero; one of these was never written, if its key did not come at all.
Agrees(entries, uncleared) ==
    LET sent == Meaning(entries) IN
    /\ \A p \in DOMAIN sent.fields : p \in DOMAIN out /\ out[p] = sent.fields[p]
    /\ \A p \in DOMAIN out \ DOMAIN sent.fields :
          out[p] = IF p[2] \in uncleared \ sent.keys THEN "unwritten"
                   ELSE IF p[2] = "client_id" THEN "" ELSE 0
    /\ \A key \in uncleared \ sent.keys : <<0, key>> \in DOMAIN out

Ends == [i \in DOMAIN messages |-> Loop(LAMBDA n, k : n + messages[k].size, 0, i)]
Taken(m) == IF m.call = "notice" THEN m.heard /\ callbacks ELSE m.heard
Processed == SelectSeq([i \in DOMAIN messages |-> i], LAMBDA i : Ends[i] <= begin)
Sent(m) == IF m.call = "notice" THEN m.name ELSE "response"

Callee == messages[Len(messages)]

\* The slot is given the result, all of it and nothing of what may follow, unless
\* the response has an error or malloc refused the copy
SlotHasResult ==
    (driver = "reader" /\ slot.done) =>
        LET from == Len(stream) - Callee.size + Callee.before IN
        \/ slot.data = IF slot.error THEN << >> ELSE Inside(from, from + Callee.result)
        \/ source.starved /\ slot.data = << >>

\* However reads cut the stream, process_message takes the daemon's messages
\* one by one and in order; each one it understands wakes the call or is told to
\* its callback, once, and the others leave no trace
HandledInOrder ==
    /\ SlotHasResult
    /\ driver = "reader" =>
        /\ begin = 0 \/ \E i \in DOMAIN Ends : begin = Ends[i]
        /\ LET heard == SelectSeq(Processed, LAMBDA i : Taken(messages[i]))
           IN  log = [k \in DOMAIN heard |-> Sent(messages[heard[k]])]

\* A callback is given what its notification says, and a call that returns KGD_OK
\* what its result says: keys in any order, unknown ones with any value skipped,
\* missing ones zero; kgd_last_error has the message of an error.  But a result
\* without its handle or placement id leaves what kgd_upload or kgd_place was to
\* write unwritten (kgd.c:292, 425), and the call returns KGD_OK all the same; and
\* so does one whose result malloc refused to copy, with nothing of it.
FieldsAreSent ==
    /\ (driver = "reader" /\ phase = "fields" /\ loops = << >>) =>
           LET i == CHOOSE i \in DOMAIN Ends : Ends[i] = ends IN Agrees(messages[i].entries, {})
    /\ (phase = "done" /\ verdict = "ok") =>
           Agrees(IF slot.data = << >> THEN << >> ELSE Callee.entries,
                  IF call \in Uncleared THEN {Results[call][1].key} ELSE {})
    /\ (phase = "done" /\ verdict = "rpc") => Agrees(Callee.entries, {})

=============================================================================
