---------------------------- MODULE MpackWriter ----------------------------
(***************************************************************************)
(* The MessagePack writer and its builder (the writer section of           *)
(* src/clients/c/mpack.c).  It writes to a buffer that grows, as every     *)
(* request of the C client is written, to a buffer of the caller's, or to  *)
(* a file through a buffer that is flushed.                                *)
(*                                                                         *)
(* A map whose element count is known is written in place (mpack_start_    *)
(* map).  One whose count is not known is built: while any build is open   *)
(* the writer is diverted into a list of pages, where each build has a     *)
(* header followed by the bytes written until the next header; when the    *)
(* outermost build is completed the pages are walked, each header is       *)
(* replaced by a map or array tag with the number of elements counted, and *)
(* the bytes after it are copied into the real buffer.                     *)
(*                                                                         *)
(* The record w is the mpack_writer_t.  A byte is <<item, i, n>>: the i-th *)
(* byte of the item-th thing written, n being the element count that a     *)
(* tag announces (0 for data).  Memory is a sequence of bytes; any of the  *)
(* allocations of a run may fail.  doc is a history: what the caller wrote *)
(* in order, with the container each thing was written in.                 *)
(***************************************************************************)
EXTENDS Integers, Sequences, FiniteSets, SequencesExt, MpackTrack

CONSTANTS
    PageSize,       \* MPACK_BUILDER_PAGE_SIZE
    PageHeader,     \* sizeof(mpack_builder_page_t)
    BuildSize,      \* sizeof(mpack_build_t)
    Alignment,      \* MPACK_BUILD_ALIGNMENT
    MinBuffer,      \* MPACK_WRITER_MINIMUM_BUFFER_SIZE
    InitialBuffer,  \* MPACK_BUFFER_SIZE, the first size of a buffer the writer allocates
    Sinks,          \* where writers write to: <<"growable", 0>>, <<"fixed", the buffer's
                    \* size>> or <<"file", the bytes it takes before a write is short>>
    FixCount,       \* the largest count a one-byte tag holds (15)
    LongTag,        \* the size of the tag of a larger count
    Scalars,        \* <<tag size, data size>> of the values written
    Counts,         \* the counts given to mpack_start_map and mpack_start_array
    Failures,       \* the sets of allocations, by number, that may fail
    MaxItems,       \* bound on the things one run writes
    MaxFlushed,     \* bound on the buffer size a flush between messages may double
    MaxOpen         \* bound on the containers open at once

ASSUME SizesAssumption ==
    /\ {PageSize, PageHeader, BuildSize, Alignment, MinBuffer, InitialBuffer, LongTag} \subseteq Nat \ {0}
    /\ FixCount \in Nat
    /\ MinBuffer <= InitialBuffer
    \* mpack_builder_check_sizes
    /\ PageSize >= PageHeader + BuildSize + MinBuffer
    \* 8, 32 and 32 bytes where a pointer has 8; nothing in the code asks for the
    \* second, without which the walk of mpack_builder_resolve can stop a page early
    /\ Alignment <= MinBuffer /\ MinBuffer <= BuildSize
    /\ Sinks \subseteq {"growable", "fixed", "file"} \X Nat
    \* what is written in one piece, tags and fixstrs, fits a minimum buffer
    /\ LongTag <= MinBuffer /\ Scalars \subseteq (1..MinBuffer) \X Nat
    /\ Counts \subseteq Nat

VARIABLES
    w,          \* the mpack_writer_t and its builder
    failing,    \* which allocations fail
    at,         \* where mpack_builder_resolve stands
    target,     \* *target_data: NULL, or the bytes handed to the caller
    pc,         \* between calls, inside resolve, or destroyed
    doc,        \* history: the things written without an error
    misuse      \* history: a call that the message grammar does not allow

vars == <<w, failing, at, target, pc, doc, misuse>>

NULL == 0
Fixed(x) == x.sink[1] = "fixed"
ToFile(x) == x.sink[1] = "file"

----------------------------------------------------------------------------
(* The message the caller has written so far *)

\* the container an item is in, 0 for the top level, and those still open
InItem(p) == {i \in DOMAIN doc : doc[i].parent = p}
Innermost == IF \E i \in DOMAIN doc : doc[i].open
             THEN CHOOSE i \in DOMAIN doc :
                      doc[i].open /\ \A j \in DOMAIN doc : doc[j].open => j <= i
             ELSE 0

PerElement(type) == IF type = "map" THEN 2 ELSE 1
Count(i) == IF doc[i].kind = "build" THEN Cardinality(InItem(i)) \div PerElement(doc[i].type)
            ELSE doc[i].n

TagSize(n) == IF n <= FixCount THEN 1 ELSE LongTag
TagBytes(item, n) == [i \in 1..TagSize(n) |-> <<item, i, n>>]
DataBytes(item, from, n) == [i \in 1..n |-> <<item, from + i, 0>>]

ItemBytes(i) == IF doc[i].kind = "value" THEN DataBytes(i, 0, doc[i].n)
                ELSE TagBytes(i, Count(i))
Message == FlattenSeq([i \in DOMAIN doc |-> ItemBytes(i)])

\* One more element, or the end of the innermost container, is in its place
ElementAllowed ==
    LET p == Innermost IN
    (p # 0 /\ doc[p].kind = "start")
        => Cardinality(InItem(p)) < PerElement(doc[p].type) * doc[p].n
EndAllowed(kind, type) ==
    LET p == Innermost IN
    /\ p # 0
    /\ doc[p].kind = kind /\ doc[p].type = type
    /\ IF kind = "start" THEN Cardinality(InItem(p)) = PerElement(type) * doc[p].n
       ELSE Cardinality(InItem(p)) % PerElement(type) = 0

Added(kind, type, n) ==
    Append(doc, [kind |-> kind, type |-> type, n |-> n, parent |-> Innermost, open |-> kind # "value"])
Item == Len(doc) + 1

----------------------------------------------------------------------------
(* Memory and the real buffer *)

Building == w.build # NULL
FlagError(x, e) == IF x.error = "ok" THEN [x EXCEPT !.error = e] ELSE x

Allocation(x) == [x EXCEPT !.allocations = @ + 1]
Fails(x) == x.allocations + 1 \in failing

\* mpack_writer_buffer_left
Left(x) == IF x.build = NULL THEN x.size - Len(x.buffer)
           ELSE PageSize - x.base - Len(x.pending)

Put(x, bytes) == IF x.build = NULL THEN [x EXCEPT !.buffer = @ \o bytes]
                 ELSE [x EXCEPT !.pending = @ \o bytes]

GrownOnce(size, n) == 2 * size   \* mutant: doubled once, whatever has to fit
\* The smallest doubling of the buffer that holds n bytes
Grown(size, n) ==
    LET doubled[k \in 0..(n + 1)] == IF k = 0 THEN size ELSE 2 * doubled[k - 1]
        least == CHOOSE k \in 1..(n + 1) : doubled[k] >= n /\ \A j \in 1..(k - 1) : doubled[j] < n
    IN  doubled[least]

GrowLikeAStream(x, extra) ==   \* mutant: the position stays where flush_unchecked put it
    IF Fails(x) THEN FlagError(Allocation(x), "memory")
    ELSE [Allocation(x) EXCEPT !.size = Grown(x.size, Len(x.buffer) + Len(extra)), !.buffer = extra]
\* mpack_growable_writer_flush: the buffer grows and keeps its bytes, and
\* extra data that did not fit follows them
Grow(x, extra) ==
    IF Fails(x) THEN FlagError(Allocation(x), "memory")
    ELSE [Allocation(x) EXCEPT !.size = Grown(x.size, Len(x.buffer) + Len(extra)),
                               !.buffer = @ \o extra]

\* mpack_file_writer_flush: fwrite writes what the file has room for
WriteToFile(x, bytes) ==
    LET left == x.sink[2] - Len(x.file)
        written == [x EXCEPT !.file = @ \o SubSeq(bytes, 1, IF Len(bytes) <= left THEN Len(bytes) ELSE left)]
    IN  IF Len(bytes) <= left THEN written ELSE FlagError(written, "io")

\* mpack_writer_flush_unchecked, and the flush of extra data that follows it
Flush(x, extra) ==
    IF ToFile(x) THEN WriteToFile([x EXCEPT !.buffer = << >>], x.buffer \o extra) ELSE Grow(x, extra)

----------------------------------------------------------------------------
(* The pages of the builder *)

Remaining(x) == PageSize - x.pages[x.page].used

NewPage == [used |-> PageHeader, memory |-> [i \in 1..PageHeader |-> "header"]]

\* On failure the current page stays the current page
AddPage(x) ==
    IF Fails(x) THEN FlagError(Allocation(x), "memory")
    ELSE [Allocation(x) EXCEPT !.pages = Append(@, NewPage),
                               !.page = Len(x.pages) + 1,
                               !.live = @ \cup {Len(x.pages) + 1}]

\* What was written to the page belongs to the build started last
ApplyWrites(x) ==
    [x EXCEPT !.pages[x.page] = [used |-> @.used + Len(x.pending), memory |-> @.memory \o x.pending],
              !.builds[x.latest].bytes = @ + Len(x.pending)]

ConfigureBuffer(x) ==
    IF x.error # "ok" THEN x
    ELSE [x EXCEPT !.base = x.pages[x.page].used, !.pending = << >>]

BuilderFlush(x) == ConfigureBuffer(AddPage(ApplyWrites(x)))

Align(n) == ((n + Alignment - 1) \div Alignment) * Alignment

\* mpack_builder_begin: the first build diverts the writer to a first page
Begin(x) ==
    IF Fails(x) THEN FlagError(Allocation(x), "memory")
    ELSE [Allocation(x) EXCEPT !.pages = <<NewPage>>, !.page = 1, !.live = {1}, !.builds = << >>]

NewBuild(item, type, parent, page, offset) ==
    [item |-> item, type |-> type, parent |-> parent, page |-> page, offset |-> offset,
     bytes |-> 0, count |-> 0, odd |-> FALSE, nested |-> 0]

\* A header at the next aligned offset of the current page
AddBuild(x, item, type) ==
    LET p == x.pages[x.page]
        offset == Align(p.used)
        n == Len(x.builds) + 1
    IN [x EXCEPT
        !.pages[x.page] = [used |-> offset + BuildSize,
                           memory |-> p.memory \o [i \in 1..(offset + BuildSize - p.used) |-> "header"]],
        !.builds = Append(@, NewBuild(item, type, x.build, x.page, offset)),
        !.build = n,
        !.latest = n]

\* The rest of mpack_builder_build, once the page for the header is chosen: the
\* writer must be left with the minimum buffer
BuildIn(x, item, type) ==
    LET b == AddBuild(x, item, type)
    IN  ConfigureBuffer(IF Remaining(b) \in 0..(MinBuffer - 1) THEN AddPage(b) ELSE b)

StartBuild(x, item, type) ==
    LET a == IF x.build = NULL THEN Begin(x) ELSE ApplyWrites(x)
        full == Align(a.pages[a.page].used) + BuildSize > PageSize
    IN  IF a.error # "ok" THEN a
        ELSE BuildIn(IF full THEN AddPage(a) ELSE a, item, type)

----------------------------------------------------------------------------
(* Writing bytes.  What is put in memory after an error is never delivered *)

EnsureRoomForMore(x, n) ==   \* mutant: a buffer is not filled to its last byte
    IF Left(x) > n THEN x
    ELSE IF x.build # NULL THEN BuilderFlush(x)
    ELSE IF Fixed(x) THEN FlagError(x, "too_big")
    ELSE LET g == Flush(x, << >>)
         IN  IF g.error = "ok" /\ Left(g) < n THEN FlagError(g, "io") ELSE g
\* mpack_writer_ensure
Ensure(x, n) ==
    IF Left(x) >= n THEN x
    ELSE IF x.build # NULL THEN BuilderFlush(x)
    ELSE IF Fixed(x) THEN FlagError(x, "too_big")
    ELSE LET g == Flush(x, << >>)
         IN  IF g.error = "ok" /\ Left(g) < n THEN FlagError(g, "io") ELSE g

\* MPACK_WRITE_ENCODED: a tag, or a short string with its tag, in one piece
WriteTag(x, bytes) ==
    LET e == Ensure(x, Len(bytes))
    IN  IF x.error # "ok" THEN x ELSE IF e.error # "ok" THEN e ELSE Put(e, bytes)

\* A build takes as many pages as it needs
PutByte(x, b) ==
    LET f == IF Left(x) = 0 /\ x.error = "ok" THEN BuilderFlush(x) ELSE x
    IN  IF f.error = "ok" THEN Put(f, <<b>>) ELSE f
PutInPages(x, bytes) ==
    LET after[n \in 0..Len(bytes)] == IF n = 0 THEN x ELSE PutByte(after[n - 1], bytes[n])
    IN  after[Len(bytes)]

\* mpack_write_native and its straddling half
WriteNative(x, bytes) ==
    LET g == Flush(x, << >>)
    IN  IF x.error # "ok" THEN x
        ELSE IF Left(x) >= Len(bytes) THEN Put(x, bytes)
        ELSE IF x.build # NULL THEN PutInPages(x, bytes)
        ELSE IF Fixed(x) THEN FlagError(x, "too_big")
        ELSE IF g.error # "ok" THEN g
        ELSE IF Len(bytes) > Left(g) THEN Flush(g, bytes)
        ELSE Put(g, bytes)

\* mpack_writer_track_element: the tracking, then the count of the open build,
\* which containers opened inside it without a build do not add to
CountElement(b) ==
    IF b.nested # 0 THEN b
    ELSE IF b.type = "map" /\ ~b.odd THEN [b EXCEPT !.odd = TRUE]
    ELSE [b EXCEPT !.odd = FALSE, !.count = @ + 1]

\* mpack_writer_track_push, mpack_writer_track_push_builder: a stack that is full
\* is doubled first, and that may fail
TrackPush(x, pushed) ==
    IF ~Full(x.track, x.capacity) THEN [x EXCEPT !.track = pushed]
    ELSE IF Fails(x) THEN FlagError(Allocation(x), "memory")
    ELSE [Allocation(x) EXCEPT !.track = pushed, !.capacity = 2 * @]

Element(x) ==
    LET t == IF MayAddElement(x.track) THEN [x EXCEPT !.track = AddElement(@)] ELSE FlagError(x, "bug")
    IN  IF t.build = NULL THEN t ELSE [t EXCEPT !.builds[t.build] = CountElement(@)]

----------------------------------------------------------------------------
(* The calls.  After an error only mpack_writer_destroy has an effect *)

Callable == pc = "idle" /\ w.error = "ok"
Room == Len(doc) < MaxItems
OpenCount == Cardinality({i \in DOMAIN doc : doc[i].open})

\* mpack_write_nil, _int, _cstr, _bin ...: a tag and the data after it
WriteScalar(tag, data) ==
    /\ Callable /\ Room
    /\ w' = WriteNative(WriteTag(Element(w), DataBytes(Item, 0, tag)), DataBytes(Item, tag, data))
    /\ doc' = Added("value", "value", tag + data)
    /\ misuse' = (misuse \/ ~ElementAllowed)
    /\ UNCHANGED <<failing, at, target, pc>>

\* mpack_builder_compound_push and _pop
Compounds(x, d) == IF x.build = NULL THEN x ELSE [x EXCEPT !.builds[x.build].nested = @ + d]

\* mpack_start_map, mpack_start_array
StartContainer(type, n) ==
    LET t == WriteTag(Element(w), TagBytes(Item, n))
        p == IF t.error = "ok" THEN TrackPush(t, Push(t.track, type, n)) ELSE t
    IN  /\ Callable /\ Room /\ OpenCount < MaxOpen
        /\ w' = Compounds(p, 1)
        /\ doc' = Added("start", type, n)
        /\ misuse' = (misuse \/ ~ElementAllowed)
        /\ UNCHANGED <<failing, at, target, pc>>

Closed == [i \in DOMAIN doc |-> IF i = Innermost THEN [doc[i] EXCEPT !.open = FALSE] ELSE doc[i]]

\* mpack_finish_map, mpack_finish_array
FinishContainer(type) ==
    /\ Callable
    /\ w' = IF MayPop(w.track, type, FALSE) THEN Compounds([w EXCEPT !.track = Pop(@)], -1)
            ELSE FlagError(w, "bug")
    /\ doc' = Closed
    /\ misuse' = (misuse \/ ~EndAllowed("start", type))
    /\ UNCHANGED <<failing, at, target, pc>>

\* mpack_build_map, mpack_build_array
BuildContainer(type) ==
    LET e == Element(w)
        t == IF e.error = "ok" THEN TrackPush(e, PushBuilder(e.track, type)) ELSE e
    IN  /\ Callable /\ Room /\ OpenCount < MaxOpen
        /\ w' = StartBuild(t, Item, type)
        /\ doc' = Added("build", type, 0)
        /\ misuse' = (misuse \/ ~ElementAllowed)
        /\ UNCHANGED <<failing, at, target, pc>>

\* mpack_complete_map, mpack_complete_array, of a build inside another build
CompleteNested(type) ==
    LET a == ApplyWrites([w EXCEPT !.track = Pop(@)])
    IN  /\ Callable /\ Building
        /\ MayPop(w.track, type, TRUE)
        /\ w.builds[w.build].parent # NULL
        /\ w' = ConfigureBuffer([a EXCEPT !.build = w.builds[w.build].parent])
        /\ doc' = Closed
        /\ misuse' = (misuse \/ ~EndAllowed("build", type))
        /\ UNCHANGED <<failing, at, target, pc>>

\* Of the outermost build: the real buffer is back, the pages are walked
CompleteOutermost(type) ==
    LET a == ApplyWrites([w EXCEPT !.track = Pop(@)])
    IN  /\ Callable /\ Building
        /\ MayPop(w.track, type, TRUE)
        /\ w.builds[w.build].parent = NULL
        /\ w' = [a EXCEPT !.build = NULL, !.latest = NULL, !.pending = << >>]
        /\ at' = [step |-> "tag", page |-> 1, offset |-> Align(PageHeader), left |-> 0]
        /\ pc' = "resolve"
        /\ doc' = Closed
        /\ misuse' = (misuse \/ ~EndAllowed("build", type))
        /\ UNCHANGED <<failing, target>>

CompleteMisused(type) ==
    /\ Callable
    /\ ~MayPop(w.track, type, TRUE)
    /\ w' = FlagError(w, "bug")
    /\ misuse' = (misuse \/ ~EndAllowed("build", type))
    /\ UNCHANGED <<failing, at, target, pc, doc>>

\* mpack_writer_flush_message: a growable buffer only grows
FlushMessage ==
    /\ Callable /\ w.size <= MaxFlushed
    /\ w' = IF Fixed(w) \/ ~MayCheckEmpty(w.track) THEN FlagError(w, "bug")
            ELSE IF w.buffer # << >> THEN Flush(w, << >>) ELSE w
    /\ misuse' = (misuse \/ Innermost # 0 \/ Fixed(w))
    /\ UNCHANGED <<failing, at, target, pc, doc>>

----------------------------------------------------------------------------
(* mpack_builder_resolve, one turn of its loops at a time *)

Free(x, page) == [x EXCEPT !.live = @ \ {page}]

\* The header where the walk stands: its count becomes a tag
ResolveTag ==
    /\ pc = "resolve" /\ at.step = "tag"
    /\ \E b \in DOMAIN w.builds :
           /\ w.builds[b].page = at.page /\ w.builds[b].offset = at.offset
           /\ w' = WriteTag(w, TagBytes(w.builds[b].item, w.builds[b].count))
           /\ at' = [at EXCEPT !.step = "copy", !.offset = @ + BuildSize, !.left = w.builds[b].bytes]
    /\ UNCHANGED <<failing, target, pc, doc, misuse>>

\* The bytes that follow the header, page after page
ResolveCopy ==
    LET p == w.pages[at.page]
        room == p.used - at.offset
        n == IF room < 0 THEN 0 ELSE IF room < at.left THEN room ELSE at.left
        copied == WriteNative(w, SubSeq(p.memory, at.offset + 1, at.offset + n))
    IN  /\ pc = "resolve" /\ at.step = "copy"
        /\ IF at.left = n
           THEN /\ w' = IF n = 0 THEN w ELSE copied
                /\ at' = [at EXCEPT !.step = "next", !.offset = @ + n, !.left = 0]
           ELSE /\ w' = Free(copied, at.page)
                /\ at' = [at EXCEPT !.page = @ + 1, !.offset = PageHeader, !.left = @ - n]
        /\ UNCHANGED <<failing, target, pc, doc, misuse>>

\* Where the next header is, if it is in this page
HeaderFrom(offset) == Align(offset)

\* Another build follows in this page, or in the next one, or nothing does
ResolveNext ==
    LET here == HeaderFrom(at.offset)
        turn == here + BuildSize > PageSize
        page == IF turn THEN at.page + 1 ELSE at.page
        offset == IF turn THEN Align(PageHeader) ELSE here
        kept == IF turn THEN Free(w, at.page) ELSE w
        noPage == page > Len(w.pages)
    IN  /\ pc = "resolve" /\ at.step = "next"
        /\ IF noPage \/ offset + BuildSize > w.pages[page].used
           THEN /\ w' = IF noPage THEN kept ELSE Free(kept, page)
                /\ pc' = "idle"
                /\ UNCHANGED at
           ELSE /\ at' = [at EXCEPT !.step = "tag", !.page = page, !.offset = offset]
                /\ w' = kept
                /\ UNCHANGED pc
        /\ UNCHANGED <<failing, target, doc, misuse>>

----------------------------------------------------------------------------
(* mpack_writer_destroy and mpack_growable_writer_teardown *)

UndivertedIfOk(x) ==   \* mutant: the pages are freed only when nothing failed before
    IF x.build = NULL THEN x
    ELSE [FlagError(x, "bug") EXCEPT !.build = NULL, !.live = IF x.error = "ok" THEN {} ELSE @]
\* An open build is a bug unless an error was flagged; its pages are freed and
\* the writer is back in its real buffer
Undiverted(x) ==
    IF x.build = NULL THEN x
    ELSE [FlagError(x, "bug") EXCEPT !.build = NULL, !.live = {}]

\* A buffer that is not half full is shrunk before it is handed over
Shrunk(x) ==
    IF x.error # "ok" \/ Len(x.buffer) >= x.size \div 2 THEN x
    ELSE IF Fails(x) THEN FlagError(Allocation(x), "memory")
    ELSE [Allocation(x) EXCEPT !.size = IF x.buffer = << >> THEN 1 ELSE Len(x.buffer)]

\* What is left in the buffer is flushed
FlushedRest(x) == IF x.error = "ok" /\ x.buffer # << >> THEN Flush(x, << >>) ELSE x

\* Nothing is torn down with a buffer of the caller's; a file may fail to close
Destroyed(x) ==
    CASE ToFile(x) -> {FlushedRest(x), FlagError(FlushedRest(x), "io")}
      [] Fixed(x) -> {x}
      [] OTHER -> {Shrunk(x)}

Destroy ==
    /\ pc = "idle"
    /\ w' \in Destroyed(Undiverted(w))
    /\ target' = IF w'.error # "ok" THEN << >> ELSE IF ToFile(w) THEN <<w'.file>> ELSE <<w'.buffer>>
    /\ pc' = "destroyed"
    /\ UNCHANGED <<failing, at, doc, misuse>>

----------------------------------------------------------------------------
Writer(to, error, size) ==
    [sink |-> to, file |-> << >>,
     error |-> error, buffer |-> << >>, size |-> size, allocations |-> 0,
     track |-> << >>, capacity |-> TrackCapacity,
     pages |-> << >>, page |-> 0, live |-> {}, base |-> 0, pending |-> << >>,
     builds |-> << >>, build |-> NULL, latest |-> NULL]

\* mpack_writer_init, and mpack_track_init in it
InitWriter(x) == IF Fails(x) THEN FlagError(Allocation(x), "memory") ELSE Allocation(x)

\* mpack_writer_set_flush: the buffer has to hold any tag
WithFlush(x) == IF x.size < MinBuffer THEN FlagError(x, "bug") ELSE x

\* mpack_writer_init_growable: first the buffer is allocated
InitGrowable(to) ==
    LET x == Writer(to, "ok", InitialBuffer)
    IN  w = IF Fails(x) THEN Writer(to, "memory", 0) ELSE WithFlush(InitWriter(Allocation(x)))

\* mpack_writer_init, with a buffer of the caller's
InitFixed(to) == w = InitWriter(Writer(to, "ok", to[2]))

\* mpack_writer_init_filename: the file may not open
InitFile(to) == w = Writer(to, "io", 0) \/ InitGrowable(to)

Init ==
    /\ failing \in Failures
    /\ \E to \in Sinks :
          CASE to[1] = "growable" -> InitGrowable(to)
            [] to[1] = "fixed" -> InitFixed(to)
            [] to[1] = "file" -> InitFile(to)
    /\ at = [step |-> "none", page |-> 0, offset |-> 0, left |-> 0]
    /\ target = << >>
    /\ pc = "idle"
    /\ doc = << >>
    /\ misuse = FALSE

Resolve == ResolveTag \/ ResolveCopy \/ ResolveNext

Call ==
    \/ \E s \in Scalars : WriteScalar(s[1], s[2])
    \/ \E type \in Compound :
        \/ \E n \in Counts : StartContainer(type, n)
        \/ FinishContainer(type)
        \/ BuildContainer(type)
        \/ CompleteNested(type)
        \/ CompleteOutermost(type)
        \/ CompleteMisused(type)
    \/ FlushMessage
    \/ Destroy

Next == Resolve \/ Call

Spec == Init /\ [][Next]_vars


----------------------------------------------------------------------------
Errors == {"ok", "memory", "io", "bug", "too_big"}

\* The type invariant: the parts of the writer, the walk and the histories
TypeOK ==
    /\ w.error \in Errors
    /\ w.size \in Nat /\ w.base \in Nat
    /\ w.allocations \in Nat
    /\ w.build \in 0..Len(w.builds) /\ w.latest \in 0..Len(w.builds)
    /\ w.page \in 0..Len(w.pages) /\ w.live \subseteq DOMAIN w.pages
    /\ \A p \in DOMAIN w.pages : Len(w.pages[p].memory) = w.pages[p].used
    /\ \A b \in DOMAIN w.builds : w.builds[b].parent \in 0..(b - 1)
    /\ at.step \in {"none", "tag", "copy", "next"}
    /\ target = << >> \/ Len(target) = 1
    /\ pc \in {"idle", "resolve", "destroyed"}
    /\ misuse \in BOOLEAN

\* What a writer destroyed without an error hands over is the message the
\* caller wrote: every byte once and in order, and every build under a tag with
\* the number of its elements, however the buffer grew or was flushed and however
\* the builds were spread over the pages.  After an error nothing is handed over,
\* and a file has the beginning of the message: no count was written too early
Delivered ==
    /\ pc = "destroyed" =>
           IF w.error = "ok" THEN target = <<Message>> ELSE target = << >>
    /\ IsPrefix(w.file, Message)

\* A message that fits its buffer is never refused, however it is built
FitsIsWritten == w.error = "too_big" => Len(Message) > w.size

\* mpack_builder_build does not look at what the tracking says before it begins
\* the first build: where the call was a misuse, or the tracking stack was full
\* and could not grow, the new first page is there but no build is open
FirstPageForgotten ==
    /\ w.live = {1} /\ w.builds = << >>
    /\ doc # << >> /\ Last(doc).kind = "build"
    /\ \/ w.error = "bug" /\ misuse
       \/ w.error = "memory" /\ Full(w.track, w.capacity)

\* No page of a finished or abandoned build stays allocated, whichever allocation
\* failed and wherever.  The one page the code does leak is the first page of a
\* build that the tracking refused, or had no memory to follow
NoPageLeaks ==
    (pc # "resolve" /\ ~Building) => w.live = {} \/ FirstPageForgotten

\* The walk over the pages reads a page that is still allocated, and where it
\* expects a header it finds one
WalkFindsHeaders ==
    pc = "resolve" =>
        /\ at.step \in {"tag", "copy"} => at.page \in w.live
        /\ at.step = "tag" =>
               \E b \in DOMAIN w.builds : w.builds[b].page = at.page /\ w.builds[b].offset = at.offset

\* mpack_builder_build does not look whether it got another page for the header
\* either: with no memory for one, the header goes where the full page ends
HeaderPastPage(x, p) ==
    /\ x.error = "memory" /\ x.build # NULL
    /\ LET b == x.builds[x.build]
       IN  b.page = p /\ b.bytes = 0 /\ x.pages[p].used = b.offset + BuildSize

\* Nothing is written past the end of the real buffer, nor of a page that is still
\* allocated, before or after an error, but for the header of a build for which
\* there was no page
Bounded(x) ==
    /\ Len(x.buffer) <= x.size
    /\ x.base + Len(x.pending) <= PageSize
    /\ \A p \in x.live : x.pages[p].used <= PageSize \/ HeaderPastPage(x, p)
NothingOverflows == Bounded(w)

\* The writer's memory accesses are sound in every state, that header apart
InsideMemory == TypeOK /\ NothingOverflows /\ WalkFindsHeaders

\* The tracking flags a bug for exactly the calls the grammar of messages does
\* not allow, the final destroy apart (mpack_writer_destroy ignores what
\* mpack_track_destroy says)
TrackingIsExact ==
    pc # "destroyed" => (misuse <=> w.error = "bug")
=============================================================================
