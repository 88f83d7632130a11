-------------------------- MODULE MpackWriterProofs --------------------------
(***************************************************************************)
(* Proofs about the writer, whatever is written, to whichever sink and     *)
(* whichever allocation fails.  First, the tracking of elements flags      *)
(* exactly the calls that the grammar of messages does not allow.  Then,   *)
(* the builder: the pages and the builds in them lie as the walk of        *)
(* mpack_builder_resolve expects, nothing is written past a page or the    *)
(* real buffer, and no page is leaked.  Last, what the functions of kgd.c  *)
(* write: all of that holds while they do, and none of them is ever told   *)
(* of a misuse, whatever its options.                                      *)
(***************************************************************************)
EXTENDS CRequests, TLAPS, WellFoundedInduction, FiniteSetTheorems, SequenceTheorems

-----------------------------------------------------------------------------
(* What writing bytes leaves alone                                          *)

\* A step of the writer that is not about the tracking: the stack and the open
\* build stay, and an error is flagged only where there was none and is no bug
Trouble == {"memory", "io", "too_big"}
IsWriter(x) == {"error", "track", "build"} \subseteq DOMAIN x
Quiet(x, y) ==
    /\ DOMAIN y = DOMAIN x /\ y.track = x.track
    /\ y.error = x.error \/ (x.error = "ok" /\ y.error \in Trouble)
Silent(x, y) == Quiet(x, y) /\ y.build = x.build

LEMMA SilentSelf == \A x : Silent(x, x)
BY DEF Silent, Quiet

LEMMA SilentThen ==
    ASSUME NEW x, NEW y, NEW z, Silent(x, y), Silent(y, z)
    PROVE  Silent(x, z)
BY DEF Silent, Quiet, Trouble

LEMMA QuietThen ==
    ASSUME NEW x, NEW y, NEW z, Quiet(x, y), Quiet(y, z)
    PROVE  Quiet(x, z)
BY DEF Quiet, Trouble

LEMMA StaysWriter ==
    ASSUME NEW x, NEW y, IsWriter(x), Quiet(x, y)
    PROVE  IsWriter(y)
BY DEF IsWriter, Quiet

LEMMA FlagSilent ==
    ASSUME NEW x, IsWriter(x), NEW e \in Trouble
    PROVE  Silent(x, FlagError(x, e))
BY DEF IsWriter, FlagError, Silent, Quiet

LEMMA AllocationSilent ==
    ASSUME NEW x, IsWriter(x)
    PROVE  Silent(x, Allocation(x)) /\ IsWriter(Allocation(x))
BY DEF IsWriter, Allocation, Silent, Quiet

LEMMA FailedSilent ==
    ASSUME NEW x, IsWriter(x)
    PROVE  Silent(x, FlagError(Allocation(x), "memory"))
<1>1. Silent(x, Allocation(x)) /\ IsWriter(Allocation(x))
  BY AllocationSilent
<1>2. Silent(Allocation(x), FlagError(Allocation(x), "memory"))
  BY <1>1, FlagSilent DEF Trouble
<1> QED
  BY <1>1, <1>2, SilentThen

\* A push that the stack has room or memory for, or an error
LEMMA TrackPushIs ==
    ASSUME NEW x, IsWriter(x), x.error = "ok", NEW s
    PROVE  LET y == TrackPush(x, s) IN
           /\ DOMAIN y = DOMAIN x /\ y.build = x.build
           /\ (y.error = "ok" /\ y.track = s) \/ (y.error = "memory" /\ y.track = x.track)
<1> DEFINE y == TrackPush(x, s)
<1>1. CASE ~Full(x.track, x.capacity)
  <2>1. y = [x EXCEPT !.track = s]
    BY <1>1 DEF TrackPush
  <2> QED
    BY <2>1 DEF IsWriter
<1>2. CASE Full(x.track, x.capacity) /\ Fails(x)
  <2>1. y = FlagError(Allocation(x), "memory")
    BY <1>2 DEF TrackPush
  <2> QED
    BY <2>1 DEF IsWriter, FlagError, Allocation
<1>3. CASE Full(x.track, x.capacity) /\ ~Fails(x)
  <2>1. y = [Allocation(x) EXCEPT !.track = s, !.capacity = 2 * @]
    BY <1>3 DEF TrackPush
  <2> QED
    BY <2>1 DEF IsWriter, Allocation
<1> QED
  BY <1>1, <1>2, <1>3

LEMMA PutSilent ==
    ASSUME NEW x, IsWriter(x), NEW bytes
    PROVE  Silent(x, Put(x, bytes))
BY DEF IsWriter, Put, Silent, Quiet

LEMMA GrowSilent ==
    ASSUME NEW x, IsWriter(x), NEW extra
    PROVE  Silent(x, Grow(x, extra))
<1>1. CASE Fails(x)
  BY <1>1, FailedSilent DEF Grow
<1>2. CASE ~Fails(x)
  <2> DEFINE a == Allocation(x)
             g == [a EXCEPT !.size = Grown(x.size, Len(x.buffer) + Len(extra)), !.buffer = @ \o extra]
  <2>1. Silent(x, a) /\ IsWriter(a)
    BY AllocationSilent
  <2>2. Grow(x, extra) = g
    BY <1>2 DEF Grow
  <2> HIDE DEF a
  <2>3. Silent(a, g)
    BY <2>1 DEF Silent, Quiet, IsWriter
  <2> HIDE DEF g
  <2> QED
    BY <2>1, <2>2, <2>3, SilentThen
<1> QED
  BY <1>1, <1>2

LEMMA FileSilent ==
    ASSUME NEW x, IsWriter(x), NEW bytes
    PROVE  Silent(x, WriteToFile(x, bytes))
<1> DEFINE left == x.sink[2] - Len(x.file)
           y == [x EXCEPT !.file = @ \o SubSeq(bytes, 1, IF Len(bytes) <= left THEN Len(bytes) ELSE left)]
<1>1. Silent(x, y) /\ IsWriter(y)
  BY DEF Silent, Quiet, IsWriter
<1>2. WriteToFile(x, bytes) = y \/ WriteToFile(x, bytes) = FlagError(y, "io")
  BY DEF WriteToFile
<1> HIDE DEF y
<1>3. Silent(y, FlagError(y, "io"))
  BY <1>1, FlagSilent DEF Trouble
<1> QED
  BY <1>1, <1>2, <1>3, SilentThen

LEMMA FlushSilent ==
    ASSUME NEW x, IsWriter(x), NEW extra
    PROVE  Silent(x, Flush(x, extra))
<1> DEFINE y == [x EXCEPT !.buffer = << >>]
<1>1. Silent(x, y) /\ IsWriter(y)
  BY DEF Silent, Quiet, IsWriter
<1>2. Flush(x, extra) = WriteToFile(y, x.buffer \o extra) \/ Flush(x, extra) = Grow(x, extra)
  BY DEF Flush
<1> HIDE DEF y
<1> QED
  BY <1>1, <1>2, FileSilent, GrowSilent, SilentThen

LEMMA AddPageSilent ==
    ASSUME NEW x, IsWriter(x)
    PROVE  Silent(x, AddPage(x))
<1>1. CASE Fails(x)
  BY <1>1, FailedSilent DEF AddPage
<1>2. CASE ~Fails(x)
  <2> DEFINE a == Allocation(x)
             g == [a EXCEPT !.pages = Append(@, NewPage), !.page = Len(x.pages) + 1,
                            !.live = @ \cup {Len(x.pages) + 1}]
  <2>1. Silent(x, a) /\ IsWriter(a)
    BY AllocationSilent
  <2>2. AddPage(x) = g
    BY <1>2 DEF AddPage
  <2> HIDE DEF a
  <2>3. Silent(a, g)
    BY <2>1 DEF Silent, Quiet, IsWriter
  <2> HIDE DEF g
  <2> QED
    BY <2>1, <2>2, <2>3, SilentThen
<1> QED
  BY <1>1, <1>2

LEMMA ApplySilent ==
    ASSUME NEW x, IsWriter(x)
    PROVE  Silent(x, ApplyWrites(x))
BY DEF IsWriter, ApplyWrites, Silent, Quiet

LEMMA ConfigureSilent ==
    ASSUME NEW x, IsWriter(x)
    PROVE  Silent(x, ConfigureBuffer(x))
BY DEF IsWriter, ConfigureBuffer, Silent, Quiet

LEMMA BuilderFlushSilent ==
    ASSUME NEW x, IsWriter(x)
    PROVE  Silent(x, BuilderFlush(x))
<1> DEFINE a == ApplyWrites(x)
           b == AddPage(a)
<1>1. Silent(x, a) /\ IsWriter(a)
  BY ApplySilent, StaysWriter DEF Silent
<1> HIDE DEF a
<1>2. Silent(a, b) /\ IsWriter(b)
  BY <1>1, AddPageSilent, StaysWriter DEF Silent
<1> HIDE DEF b
<1>3. Silent(b, ConfigureBuffer(b))
  BY <1>2, ConfigureSilent
<1>4. Silent(x, ConfigureBuffer(b))
  BY <1>1, <1>2, <1>3, SilentThen
<1> QED
  BY <1>4 DEF BuilderFlush, b, a

LEMMA PutByteSilent ==
    ASSUME NEW x, IsWriter(x), NEW b
    PROVE  Silent(x, PutByte(x, b))
<1> DEFINE f == IF Left(x) = 0 /\ x.error = "ok" THEN BuilderFlush(x) ELSE x
<1>1. Silent(x, f) /\ IsWriter(f)
  BY BuilderFlushSilent, StaysWriter, SilentSelf DEF Silent
<1>2. PutByte(x, b) = IF f.error = "ok" THEN Put(f, <<b>>) ELSE f
  BY DEF PutByte
<1> HIDE DEF f
<1>3. Silent(f, PutByte(x, b))
  BY <1>1, <1>2, PutSilent, SilentSelf
<1> QED
  BY <1>1, <1>3, SilentThen

\* Every non-empty set of naturals has a least element.
LEMMA LeastNatural ==
    ASSUME NEW S, S \subseteq Nat, S # {}
    PROVE  \E n \in S : \A m \in S : n <= m
<1>1. PICK n \in S : \A m \in S : ~(<<m, n>> \in OpToRel(<, Nat))
  BY NatLessThanWellFounded, WFMin
<1>2. ASSUME NEW m \in S PROVE n <= m
  <2>1. m < n => <<m, n>> \in OpToRel(<, Nat)
    BY Zenon DEF OpToRel
  <2>2. ~(m < n)
    BY <1>1, <2>1, Zenon
  <2> QED
    BY <2>2
<1> QED
  BY <1>2

\* The writer after each of the first k bytes
Bytewise(x, bytes, k, g) ==
    g = [n \in 0..k |-> IF n = 0 THEN x ELSE PutByte(g[n - 1], bytes[n])]

Chain(x, bytes, k, g) ==
    g[0] = x /\ \A n \in 1..k : g[n] = PutByte(g[n - 1], bytes[n])

LEMMA BytewiseFacts ==
    ASSUME NEW x, NEW bytes, NEW k \in Nat, NEW g, Bytewise(x, bytes, k, g)
    PROVE  Chain(x, bytes, k, g)
<1> DEFINE step(n) == IF n = 0 THEN x ELSE PutByte(g[n - 1], bytes[n])
           G == [n \in 0..k |-> step(n)]
<1>1. g = G
  BY Zenon DEF Bytewise
<1>2. \A n \in 0..k : G[n] = step(n)
  BY Zenon
<1> HIDE DEF G
<1>3. \A n \in 0..k : g[n] = step(n)
  BY <1>1, <1>2, Zenon
<1>4. 0 \in 0..k /\ \A n \in 1..k : n \in 0..k /\ n # 0
  OBVIOUS
<1>5. g[0] = x
  <2>1. g[0] = step(0)
    BY <1>3, <1>4, Zenon
  <2> QED
    BY <2>1, Zenon
<1>6. ASSUME NEW n \in 1..k PROVE g[n] = PutByte(g[n - 1], bytes[n])
  <2>1. g[n] = step(n) /\ n # 0
    BY <1>3, <1>4, Zenon
  <2> QED
    BY <2>1, Zenon
<1> QED
  BY <1>5, <1>6, Zenon DEF Chain

LEMMA BytewiseMore ==
    ASSUME NEW x, NEW bytes, NEW k \in Nat, NEW g, Bytewise(x, bytes, k, g)
    PROVE  \E h : Bytewise(x, bytes, k + 1, h)
<1> DEFINE last == PutByte(g[k], bytes[k + 1])
           h == [n \in 0..k + 1 |-> IF n <= k THEN g[n] ELSE last]
           step(n) == IF n = 0 THEN x ELSE PutByte(h[n - 1], bytes[n])
<1>1. g[0] = x /\ \A n \in 1..k : g[n] = PutByte(g[n - 1], bytes[n])
  <2>1. Chain(x, bytes, k, g)
    BY BytewiseFacts, Zenon
  <2> QED
    BY <2>1, Zenon DEF Chain
<1>2. \A n \in 0..k : h[n] = g[n]
  OBVIOUS
<1>3. h[k + 1] = last
  OBVIOUS
<1>4. ASSUME NEW n \in 0..k + 1 PROVE h[n] = step(n)
  <2>1. CASE n = 0
    BY <1>1, <1>2, <2>1
  <2>2. CASE n \in 1..k
    <3>1. n - 1 \in 0..k /\ n \in 0..k /\ n # 0
      BY <2>2
    <3> HIDE DEF h
    <3> QED
      BY <1>1, <1>2, <2>2, <3>1
  <2>3. CASE n = k + 1
    <3>1. n - 1 = k /\ k \in 0..k /\ n # 0
      BY <2>3
    <3> HIDE DEF h
    <3> QED
      BY <1>2, <1>3, <2>3, <3>1
  <2> QED
    BY <2>1, <2>2, <2>3
<1>5. h = [n \in 0..k + 1 |-> h[n]]
  OBVIOUS
<1>6. [n \in 0..k + 1 |-> h[n]] = [n \in 0..k + 1 |-> step(n)]
  <2> HIDE DEF h
  <2> QED
    BY <1>4
<1>7. Bytewise(x, bytes, k + 1, h)
  <2> HIDE DEF h
  <2> QED
    BY <1>5, <1>6, Zenon DEF Bytewise
<1> QED
  BY <1>7

LEMMA BytewiseIs ==
    ASSUME NEW x, NEW bytes, NEW k \in Nat
    PROVE  \E g : Bytewise(x, bytes, k, g)
<1> DEFINE S == {n \in Nat : ~\E g : Bytewise(x, bytes, n, g)}
<1>1. SUFFICES ASSUME S # {} PROVE FALSE
  BY <1>1
<1>2. PICK n \in S : \A m \in S : n <= m
  BY <1>1, LeastNatural
<1>3. n \in Nat /\ ~\E g : Bytewise(x, bytes, n, g)
  OBVIOUS
<1>4. n # 0
  <2> DEFINE g == [i \in 0..0 |-> x]
  <2>1. g = [i \in 0..0 |-> IF i = 0 THEN x ELSE PutByte(g[i - 1], bytes[i])]
    OBVIOUS
  <2>2. Bytewise(x, bytes, 0, g)
    <3> HIDE DEF g
    <3> QED
      BY <2>1 DEF Bytewise
  <2> HIDE DEF g
  <2> QED
    BY <1>3, <2>2
<1>5. n - 1 \in Nat /\ ~(n <= n - 1) /\ (n - 1) + 1 = n
  BY <1>3, <1>4
<1>6. PICK g : Bytewise(x, bytes, n - 1, g)
  BY <1>2, <1>5
<1>7. \E h : Bytewise(x, bytes, n, h)
  BY <1>5, <1>6, BytewiseMore
<1> QED
  BY <1>3, <1>7

LEMMA PagesSilent ==
    ASSUME NEW x, IsWriter(x), NEW bytes, Len(bytes) \in Nat
    PROVE  Silent(x, PutInPages(x, bytes))
<1> DEFINE k == Len(bytes)
           f == CHOOSE g : g = [n \in 0..Len(bytes) |-> IF n = 0 THEN x ELSE PutByte(g[n - 1], bytes[n])]
<1>1. PutInPages(x, bytes) = f[k]
  BY DEF PutInPages
<1>2. Bytewise(x, bytes, k, f)
  <2>1. \E g : g = [n \in 0..Len(bytes) |-> IF n = 0 THEN x ELSE PutByte(g[n - 1], bytes[n])]
    <3>1. \E g : Bytewise(x, bytes, Len(bytes), g)
      BY BytewiseIs
    <3> QED
      BY <3>1, Zenon DEF Bytewise
  <2>2. f = [n \in 0..Len(bytes) |-> IF n = 0 THEN x ELSE PutByte(f[n - 1], bytes[n])]
    BY <2>1, Zenon
  <2> HIDE DEF f
  <2> QED
    BY <2>2, Zenon DEF Bytewise
<1> HIDE DEF f, k
<1>3. k \in Nat
  BY DEF k
<1>4. f[0] = x /\ \A n \in 1..k : f[n] = PutByte(f[n - 1], bytes[n])
  <2>1. Chain(x, bytes, k, f)
    BY <1>2, <1>3, BytewiseFacts, Zenon
  <2> QED
    BY <2>1, Zenon DEF Chain
<1> DEFINE S == {n \in 0..k : ~Silent(x, f[n])}
<1>5. SUFFICES ASSUME S # {} PROVE FALSE
  BY <1>1, <1>3, <1>5
<1>6. S \subseteq Nat
  BY <1>3
<1>7. PICK n \in S : \A m \in S : n <= m
  BY <1>5, <1>6, LeastNatural
<1>8. n \in 0..k /\ ~Silent(x, f[n])
  OBVIOUS
<1>9. n # 0
  BY <1>4, <1>8, SilentSelf
<1>10. n \in 1..k /\ n - 1 \in 0..k /\ ~(n <= n - 1)
  BY <1>3, <1>8, <1>9
<1>11. Silent(x, f[n - 1])
  BY <1>7, <1>10
<1>12. IsWriter(f[n - 1])
  BY <1>11, StaysWriter DEF Silent
<1>13. Silent(f[n - 1], f[n])
  BY <1>4, <1>10, <1>12, PutByteSilent
<1> QED
  BY <1>8, <1>11, <1>13, SilentThen

LEMMA EnsureSilent ==
    ASSUME NEW x, IsWriter(x), NEW n
    PROVE  Silent(x, Ensure(x, n))
<1> DEFINE g == Flush(x, << >>)
<1>1. Silent(x, g) /\ IsWriter(g)
  BY FlushSilent, StaysWriter DEF Silent
<1>2. \/ Ensure(x, n) = x \/ Ensure(x, n) = BuilderFlush(x)
      \/ Ensure(x, n) = FlagError(x, "too_big")
      \/ Ensure(x, n) = g \/ Ensure(x, n) = FlagError(g, "io")
  BY Zenon DEF Ensure
<1> HIDE DEF g
<1>3. Silent(x, BuilderFlush(x)) /\ Silent(x, FlagError(x, "too_big"))
  BY BuilderFlushSilent, FlagSilent DEF Trouble
<1>4. Silent(x, FlagError(g, "io"))
  BY <1>1, FlagSilent, SilentThen DEF Trouble
<1> QED
  BY <1>1, <1>2, <1>3, <1>4, SilentSelf

LEMMA TagSilent ==
    ASSUME NEW x, IsWriter(x), NEW bytes
    PROVE  Silent(x, WriteTag(x, bytes))
<1> DEFINE e == Ensure(x, Len(bytes))
<1>1. Silent(x, e) /\ IsWriter(e)
  BY EnsureSilent, StaysWriter DEF Silent
<1>2. WriteTag(x, bytes) = x \/ WriteTag(x, bytes) = e \/ WriteTag(x, bytes) = Put(e, bytes)
  BY Zenon DEF WriteTag
<1> HIDE DEF e
<1>3. Silent(x, Put(e, bytes))
  BY <1>1, PutSilent, SilentThen
<1> QED
  BY <1>1, <1>2, <1>3, SilentSelf

LEMMA NativeSilent ==
    ASSUME NEW x, IsWriter(x), NEW bytes, x.build # NULL => Len(bytes) \in Nat
    PROVE  Silent(x, WriteNative(x, bytes))
<1> DEFINE g == Flush(x, << >>)
           y == WriteNative(x, bytes)
<1>1. Silent(x, g) /\ IsWriter(g)
  BY FlushSilent, StaysWriter DEF Silent
<1>2. \/ y = x \/ y = Put(x, bytes) \/ (x.build # NULL /\ y = PutInPages(x, bytes))
      \/ y = FlagError(x, "too_big")
      \/ y = g \/ y = Flush(g, bytes) \/ y = Put(g, bytes)
  BY Zenon DEF WriteNative
<1> HIDE DEF g, y
<1>3. Silent(x, Put(x, bytes)) /\ Silent(x, FlagError(x, "too_big"))
  BY PutSilent, FlagSilent DEF Trouble
<1>4. Silent(x, Flush(g, bytes)) /\ Silent(x, Put(g, bytes))
  BY <1>1, FlushSilent, PutSilent, SilentThen
<1>5. x.build # NULL => Silent(x, PutInPages(x, bytes))
  BY PagesSilent
<1>6. Silent(x, y)
  BY <1>1, <1>2, <1>3, <1>4, <1>5, SilentSelf
<1> QED
  BY <1>6 DEF y

LEMMA BeginQuiet ==
    ASSUME NEW x, IsWriter(x)
    PROVE  Quiet(x, Begin(x))
<1>1. CASE Fails(x)
  BY <1>1, FailedSilent DEF Begin, Silent
<1>2. CASE ~Fails(x)
  <2> DEFINE a == Allocation(x)
             g == [a EXCEPT !.pages = <<NewPage>>, !.page = 1, !.live = {1}, !.builds = << >>]
  <2>1. Quiet(x, a) /\ IsWriter(a)
    BY AllocationSilent DEF Silent
  <2>2. Begin(x) = g
    BY <1>2 DEF Begin
  <2> HIDE DEF a
  <2>3. Quiet(a, g)
    BY <2>1 DEF Quiet, IsWriter
  <2> HIDE DEF g
  <2> QED
    BY <2>1, <2>2, <2>3, QuietThen
<1> QED
  BY <1>1, <1>2

LEMMA AddBuildQuiet ==
    ASSUME NEW x, IsWriter(x), NEW item, NEW type
    PROVE  Quiet(x, AddBuild(x, item, type))
BY DEF IsWriter, AddBuild, Quiet

LEMMA BuildInQuiet ==
    ASSUME NEW x, IsWriter(x), NEW item, NEW type
    PROVE  Quiet(x, BuildIn(x, item, type))
<1> DEFINE b == AddBuild(x, item, type)
           c == IF Remaining(b) \in 0..(MinBuffer - 1) THEN AddPage(b) ELSE b
<1>1. Quiet(x, b) /\ IsWriter(b)
  BY AddBuildQuiet, StaysWriter
<1>2. BuildIn(x, item, type) = ConfigureBuffer(c)
  BY Zenon DEF BuildIn
<1> HIDE DEF b
<1>3. c = b \/ c = AddPage(b)
  OBVIOUS
<1> HIDE DEF c
<1>4. Quiet(x, c) /\ IsWriter(c)
  BY <1>1, <1>3, AddPageSilent, QuietThen, StaysWriter DEF Silent
<1>5. Quiet(c, ConfigureBuffer(c))
  BY <1>4, ConfigureSilent DEF Silent
<1> QED
  BY <1>2, <1>4, <1>5, QuietThen

LEMMA StartBuildQuiet ==
    ASSUME NEW x, IsWriter(x), NEW item, NEW type
    PROVE  Quiet(x, StartBuild(x, item, type))
<1> DEFINE a == IF x.build = NULL THEN Begin(x) ELSE ApplyWrites(x)
           full == Align(a.pages[a.page].used) + BuildSize > PageSize
           b == IF full THEN AddPage(a) ELSE a
<1>1. a = Begin(x) \/ a = ApplyWrites(x)
  OBVIOUS
<1>2. StartBuild(x, item, type) = a \/ StartBuild(x, item, type) = BuildIn(b, item, type)
  BY Zenon DEF StartBuild
<1> HIDE DEF a
<1>3. Quiet(x, a) /\ IsWriter(a)
  BY <1>1, BeginQuiet, ApplySilent, StaysWriter DEF Silent
<1>4. b = a \/ b = AddPage(a)
  OBVIOUS
<1> HIDE DEF b
<1>5. Quiet(x, b) /\ IsWriter(b)
  BY <1>3, <1>4, AddPageSilent, QuietThen, StaysWriter DEF Silent
<1>6. Quiet(x, BuildIn(b, item, type))
  BY <1>5, BuildInQuiet, QuietThen
<1> QED
  BY <1>2, <1>3, <1>6

LEMMA ElementIs ==
    ASSUME NEW x, IsWriter(x)
    PROVE  /\ IsWriter(Element(x)) /\ Element(x).build = x.build
           /\ MayAddElement(x.track) => /\ Element(x).track = AddElement(x.track)
                                        /\ Element(x).error = x.error
           /\ ~MayAddElement(x.track) => Element(x).error = FlagError(x, "bug").error
<1> DEFINE t == IF MayAddElement(x.track) THEN [x EXCEPT !.track = AddElement(@)] ELSE FlagError(x, "bug")
           e == Element(x)
<1>1. IsWriter(t) /\ t.build = x.build
  BY DEF IsWriter, FlagError
<1>2. MayAddElement(x.track) => t.track = AddElement(x.track) /\ t.error = x.error
  BY DEF IsWriter
<1>3. ~MayAddElement(x.track) => t.error = FlagError(x, "bug").error
  OBVIOUS
<1>4. e = t \/ e = [t EXCEPT !.builds[t.build] = CountElement(@)]
  BY DEF Element
<1> HIDE DEF t
<1>5. IsWriter(e) /\ e.build = t.build /\ e.track = t.track /\ e.error = t.error
  <2> HIDE DEF e
  <2> QED
    BY <1>1, <1>4 DEF IsWriter
<1> QED
  BY <1>1, <1>2, <1>3, <1>5

LEMMA CompoundsSilent ==
    ASSUME NEW x, IsWriter(x), NEW d
    PROVE  Silent(x, Compounds(x, d))
BY DEF IsWriter, Compounds, Silent, Quiet

-----------------------------------------------------------------------------
(* The stack of open elements and the containers that are open in doc        *)

DocItems == [kind : {"value", "start", "build"}, type : Compound \cup {"value"}, n : Nat,
          parent : Nat, open : BOOLEAN]
DocType(d) ==
    /\ d \in Seq(DocItems)
    /\ \A i \in 1..Len(d) : d[i].parent < i

Elements == [type : Compound, left : Nat, builder : BOOLEAN, odd : BOOLEAN]

Kids(d, p) == {i \in DOMAIN d : d[i].parent = p}

\* A stack element stands for a container with so many elements in it
Counted(e, item, count) ==
    /\ item.kind \in {"start", "build"} /\ e.type = item.type
    /\ e.builder <=> item.kind = "build"
    /\ e.type = "array" => ~e.odd
    /\ item.kind = "build" => e.left = 0 /\ (e.type = "map" => (count % 2 = 1 <=> e.odd))
    /\ item.kind = "start" =>
           /\ e.left <= item.n
           /\ e.odd => e.left > 0
           /\ e.type = "map" => count = 2 * (item.n - e.left) + (IF e.odd THEN 1 ELSE 0)
           /\ e.type = "array" => count = item.n - e.left

\* The stack stands for the open items o of the document, the outermost first
Stack(t, d, o) ==
    /\ t \in Seq(Elements) /\ o \in Seq(Nat) /\ Len(o) = Len(t)
    /\ \A j \in 1..Len(o) : /\ o[j] \in 1..Len(d) /\ d[o[j]].open
                            /\ Counted(t[j], d[o[j]], Cardinality(Kids(d, o[j])))
    /\ \A j, k \in 1..Len(o) : j < k => o[j] < o[k]
    /\ \A i \in 1..Len(d) : d[i].open => \E j \in 1..Len(o) : o[j] = i

Inner(o) == IF Len(o) = 0 THEN 0 ELSE o[Len(o)]

AddedTo(e) ==
    IF e.type = "map" /\ ~e.odd THEN [e EXCEPT !.odd = TRUE]
    ELSE [e EXCEPT !.odd = FALSE, !.left = IF e.builder THEN @ ELSE @ - 1]
MayAddTo(e) == e.builder \/ e.left > 0 \/ e.odd

LEMMA CountedMore ==
    ASSUME NEW e \in Elements, NEW item \in DocItems, NEW c \in Nat, Counted(e, item, c), MayAddTo(e)
    PROVE  AddedTo(e) \in Elements /\ Counted(AddedTo(e), item, c + 1)
<1> DEFINE f == AddedTo(e)
<1>1. CASE e.type = "map" /\ ~e.odd
  <2>1. f = [e EXCEPT !.odd = TRUE]
    BY <1>1 DEF AddedTo
  <2>2. f \in Elements /\ f.type = e.type /\ f.left = e.left /\ f.builder = e.builder /\ f.odd = TRUE
    <3> HIDE DEF f
    <3> QED
      BY <2>1 DEF Elements
  <2> HIDE DEF f
  <2>3. item.n \in Nat /\ e.left \in Nat /\ e.builder \in BOOLEAN
    BY DEF DocItems, Elements
  <2>4. Counted(f, item, c + 1)
    BY <1>1, <2>2, <2>3 DEF Counted, MayAddTo
  <2> QED
    BY <2>2, <2>4 DEF f
<1>2. CASE ~(e.type = "map" /\ ~e.odd)
  <2>1. f = [e EXCEPT !.odd = FALSE, !.left = IF e.builder THEN e.left ELSE e.left - 1]
    BY <1>2 DEF AddedTo
  <2>2. item.n \in Nat /\ e.left \in Nat /\ e.builder \in BOOLEAN /\ e.type \in Compound /\ e.odd \in BOOLEAN
    BY DEF DocItems, Elements
  <2>3. ~e.builder => e.left > 0
    BY <2>2 DEF Counted, MayAddTo
  <2>4. (IF e.builder THEN e.left ELSE e.left - 1) \in Nat
    BY <2>2, <2>3
  <2>5. f \in Elements /\ f.type = e.type /\ f.builder = e.builder /\ f.odd = FALSE
         /\ f.left = IF e.builder THEN e.left ELSE e.left - 1
    <3> HIDE DEF f
    <3> QED
      BY <2>1, <2>2, <2>4 DEF Elements
  <2> HIDE DEF f
  <2>6. Counted(f, item, c + 1)
    BY <1>2, <2>2, <2>3, <2>5 DEF Counted, Compound
  <2> QED
    BY <2>5, <2>6 DEF f
<1> QED
  BY <1>1, <1>2

LEMMA KidsFinite ==
    ASSUME NEW d, d \in Seq(DocItems), NEW p
    PROVE  IsFiniteSet(Kids(d, p)) /\ Cardinality(Kids(d, p)) \in Nat
<1>1. DOMAIN d = 1..Len(d) /\ Len(d) \in Nat
  OBVIOUS
<1>2. IsFiniteSet(1..Len(d))
  BY <1>1, FS_Interval
<1>3. Kids(d, p) \subseteq 1..Len(d)
  BY <1>1 DEF Kids
<1>4. IsFiniteSet(Kids(d, p))
  BY <1>2, <1>3, FS_Subset
<1> QED
  BY <1>4, FS_CardinalityType

LEMMA KidsMore ==
    ASSUME NEW d, d \in Seq(DocItems), NEW item \in DocItems, NEW p
    PROVE  Cardinality(Kids(Append(d, item), p)) =
               Cardinality(Kids(d, p)) + (IF item.parent = p THEN 1 ELSE 0)
<1> DEFINE d2 == Append(d, item)
           n == Len(d) + 1
<1>1. Len(d) \in Nat /\ DOMAIN d = 1..Len(d) /\ DOMAIN d2 = 1..n /\ d2[n] = item
      /\ \A i \in 1..Len(d) : d2[i] = d[i]
  OBVIOUS
<1>2. Kids(d2, p) = IF item.parent = p THEN Kids(d, p) \cup {n} ELSE Kids(d, p)
  <2> HIDE DEF d2
  <2>1. 1..n = 1..Len(d) \cup {n} /\ n \notin 1..Len(d)
    BY <1>1
  <2> HIDE DEF n
  <2> QED
    BY <1>1, <2>1 DEF Kids
<1>3. n \notin Kids(d, p)
  BY <1>1 DEF Kids
<1>4. Cardinality(Kids(d, p) \cup {n}) = Cardinality(Kids(d, p)) + 1
  BY <1>3, KidsFinite, FS_AddElement
<1>5. Cardinality(Kids(d, p)) \in Nat
  BY KidsFinite
<1> QED
  BY <1>2, <1>4, <1>5

LEMMA KidsNone ==
    ASSUME NEW d, DocType(d), Len(d) # 0
    PROVE  Cardinality(Kids(d, Len(d))) = 0
<1>1. d \in Seq(DocItems) /\ Len(d) \in Nat /\ DOMAIN d = 1..Len(d)
  BY DEF DocType
<1>2. \A i \in 1..Len(d) : d[i].parent < i /\ d[i].parent \in Nat
  <2>1. \A i \in 1..Len(d) : d[i] \in DocItems
    BY <1>1
  <2>2. \A r \in DocItems : r.parent \in Nat
    BY DEF DocItems
  <2> QED
    BY <2>1, <2>2 DEF DocType
<1>3. \A i \in 1..Len(d) : d[i].parent # Len(d)
  BY <1>1, <1>2
<1>4. Kids(d, Len(d)) = {}
  BY <1>1, <1>3 DEF Kids
<1> QED
  BY <1>4, FS_EmptySet

Replaced(r, S, s, i, v) ==
    /\ r \in Seq(S) /\ Len(r) = Len(s) /\ DOMAIN r = DOMAIN s /\ r[i] = v
    /\ \A j \in 1..Len(s) : j # i => r[j] = s[j]
LEMMA ReplaceOne ==
    ASSUME NEW S, NEW s \in Seq(S), NEW i \in 1..Len(s), NEW v \in S,
           NEW r, r = [s EXCEPT ![i] = v]
    PROVE  Replaced(r, S, s, i, v)
BY DEF Replaced

Appended(r, S, s, v) ==
    /\ r \in Seq(S) /\ Len(r) = Len(s) + 1 /\ r[Len(s) + 1] = v
    /\ \A j \in 1..Len(s) : r[j] = s[j]
LEMMA AppendOne ==
    ASSUME NEW S, NEW s \in Seq(S), NEW v \in S, NEW r, r = Append(s, v)
    PROVE  Appended(r, S, s, v)
BY DEF Appended

LEMMA SameSequence ==
    ASSUME NEW S, NEW s \in Seq(S), NEW r \in Seq(S), Len(s) = Len(r), \A i \in 1..Len(s) : s[i] = r[i]
    PROVE  s = r
OBVIOUS

LEMMA StackAdd ==
    ASSUME NEW t, NEW d, NEW o, DocType(d), Stack(t, d, o), MayAddElement(t),
           NEW item \in DocItems, item.parent = Inner(o), ~item.open
    PROVE  DocType(Append(d, item)) /\ Stack(AddElement(t), Append(d, item), o)
<1> DEFINE d2 == Append(d, item)
           n == Len(d) + 1
           m == Len(o)
           t2 == AddElement(t)
<1>1. d \in Seq(DocItems) /\ Len(d) \in Nat /\ d2 \in Seq(DocItems) /\ Len(d2) = n /\ d2[n] = item
      /\ \A i \in 1..Len(d) : d2[i] = d[i]
  BY DEF DocType
<1>2. m \in Nat /\ t \in Seq(Elements) /\ o \in Seq(Nat) /\ Len(t) = m
  BY DEF Stack
<1>3. Inner(o) \in 0..Len(d)
  <2>1. m # 0 => o[m] \in 1..Len(d)
    BY <1>2 DEF Stack
  <2> QED
    BY <1>1, <2>1 DEF Inner
<1>4. DocType(d2)
  <2> HIDE DEF d2
  <2>1. ASSUME NEW i \in 1..Len(d2) PROVE d2[i].parent < i
    <3>1. CASE i = n
      BY <1>1, <1>3, <3>1
    <3>2. CASE i \in 1..Len(d)
      BY <1>1, <3>2 DEF DocType
    <3> QED
      BY <1>1, <3>1, <3>2
  <2> QED
    BY <1>1, <2>1 DEF DocType
<1>5. m # 0 => t2 = [t EXCEPT ![m] = AddedTo(t[m])] /\ MayAddTo(t[m])
  <2>1. ASSUME m # 0 PROVE t # << >>
    BY <1>2, <2>1
  <2> QED
    BY <1>2, <2>1, Zenon DEF AddElement, WithTop, Top, AddedTo, MayAddElement, MayAddTo
<1>6. m = 0 => t2 = t
  BY <1>2 DEF AddElement
<1>7. \A j \in 1..m : d2[o[j]] = d[o[j]] /\ d[o[j]] \in DocItems /\ o[j] \in 1..Len(d) /\ d[o[j]].open
                      /\ t[j] \in Elements /\ Counted(t[j], d[o[j]], Cardinality(Kids(d, o[j])))
  <2>1. \A j \in 1..m : t[j] \in Elements
    BY <1>2
  <2> HIDE DEF d2
  <2> QED
    BY <1>1, <1>2, <2>1 DEF Stack
<1>8. \A j \in 1..m : o[j] = Inner(o) <=> j = m
  <2>1. ASSUME NEW j \in 1..m, j # m PROVE o[j] # o[m]
    <3>1. j < m /\ m \in 1..m
      BY <1>2, <2>1
    <3>2. o[j] < o[m]
      BY <3>1 DEF Stack
    <3>3. o[j] \in Nat /\ o[m] \in Nat
      BY <1>2, <3>1
    <3> QED
      BY <3>2, <3>3
  <2> QED
    BY <1>2, <2>1 DEF Inner
<1>9. \A p : /\ Cardinality(Kids(d2, p)) = Cardinality(Kids(d, p)) + (IF item.parent = p THEN 1 ELSE 0)
             /\ Cardinality(Kids(d, p)) \in Nat
  BY <1>1, KidsMore, KidsFinite
<1>10. t2 \in Seq(Elements) /\ Len(t2) = m
       /\ \A j \in 1..m : t2[j] = IF j = m THEN AddedTo(t[m]) ELSE t[j]
  <2>1. CASE m = 0
    <3>1. t2 = t /\ \A j \in 1..m : FALSE
      BY <1>6, <2>1
    <3> QED
      BY <1>2, <3>1, Zenon
  <2>2. CASE m # 0
    <3>1. m \in 1..m
      BY <1>2, <2>2
    <3>2. AddedTo(t[m]) \in Elements
      BY <1>5, <1>7, <1>9, <2>2, <3>1, CountedMore
    <3>3. t2 = [t EXCEPT ![m] = AddedTo(t[m])]
      BY <1>5, <2>2
    <3> HIDE DEF t2
    <3> QED
      BY <1>2, <3>1, <3>2, <3>3
  <2> QED
    BY <2>1, <2>2
<1> HIDE DEF d2, t2
<1>11. ASSUME NEW j \in 1..m
       PROVE  /\ o[j] \in 1..Len(d2) /\ d2[o[j]].open
              /\ Counted(t2[j], d2[o[j]], Cardinality(Kids(d2, o[j])))
  <2>1. o[j] \in 1..Len(d2) /\ d2[o[j]].open
    BY <1>1, <1>7
  <2>2. CASE j = m
    <3>1. Cardinality(Kids(d2, o[j])) = Cardinality(Kids(d, o[j])) + 1
      BY <1>8, <1>9, <2>2
    <3>2. MayAddTo(t[j])
      BY <1>2, <1>5, <2>2
    <3>3. Counted(AddedTo(t[j]), d[o[j]], Cardinality(Kids(d, o[j])) + 1)
      BY <1>7, <1>9, <3>2, CountedMore
    <3> QED
      BY <1>7, <1>10, <2>1, <2>2, <3>1, <3>3
  <2>3. CASE j # m
    <3>1. Cardinality(Kids(d2, o[j])) = Cardinality(Kids(d, o[j]))
      BY <1>8, <1>9, <2>3
    <3> QED
      BY <1>7, <1>10, <2>1, <2>3, <3>1
  <2> QED
    BY <2>2, <2>3
<1>12. \A i \in 1..Len(d2) : d2[i].open => \E j \in 1..Len(o) : o[j] = i
  <2>1. ASSUME NEW i \in 1..Len(d2), d2[i].open PROVE \E j \in 1..Len(o) : o[j] = i
    <3>1. i \in 1..Len(d)
      BY <1>1, <2>1
    <3> QED
      BY <1>1, <2>1, <3>1 DEF Stack
  <2> QED
    BY <2>1
<1>13. Stack(t2, d2, o)
  BY <1>2, <1>10, <1>11, <1>12 DEF Stack
<1> QED
  BY <1>4, <1>13 DEF d2, t2

\* The same item, open
OpenedAs(item, v) ==
    /\ v \in DocItems /\ v.open /\ v.parent = item.parent
    /\ v.kind = item.kind /\ v.type = item.type /\ v.n = item.n

LEMMA StackOpen ==
    ASSUME NEW t, NEW d, NEW o, NEW d2, DocType(d), Stack(t, d, o), Len(d) # 0,
           ~d[Len(d)].open, NEW e \in Elements, Counted(e, d[Len(d)], 0),
           NEW item, OpenedAs(d[Len(d)], item), d2 = [d EXCEPT ![Len(d)] = item]
    PROVE  DocType(d2) /\ Stack(Append(t, e), d2, Append(o, Len(d)))
<1> DEFINE n == Len(d)
           m == Len(o)
           t2 == Append(t, e)
           o2 == Append(o, n)
<1>1. d \in Seq(DocItems) /\ n \in Nat /\ n \in 1..n /\ d[n] \in DocItems
  BY DEF DocType
<1>2. item \in DocItems /\ item.open /\ item.parent = d[n].parent
      /\ item.kind = d[n].kind /\ item.type = d[n].type /\ item.n = d[n].n
  BY DEF OpenedAs
<1>3. d2 = [d EXCEPT ![n] = item]
  OBVIOUS
<1>4. d2 \in Seq(DocItems) /\ Len(d2) = n /\ d2[n] = item /\ DOMAIN d2 = DOMAIN d
      /\ \A i \in 1..n : i # n => d2[i] = d[i]
  <2>1. item \in DocItems
    BY <1>2
  <2>2. Replaced(d2, DocItems, d, n, item)
    BY <1>1, <1>3, <2>1, ReplaceOne, Zenon
  <2> QED
    BY <2>2, Zenon DEF Replaced
<1>5. \A i \in 1..n : d2[i].parent = d[i].parent
  BY <1>2, <1>4
<1>6. DocType(d2)
  BY <1>4, <1>5 DEF DocType
<1>7. \A p : Kids(d2, p) = Kids(d, p)
  <2>1. DOMAIN d = 1..n
    BY <1>1
  <2> QED
    BY <1>4, <1>5, <2>1 DEF Kids
<1>8. m \in Nat /\ t \in Seq(Elements) /\ o \in Seq(Nat) /\ Len(t) = m
  BY DEF Stack
<1>9. t2 \in Seq(Elements) /\ o2 \in Seq(Nat) /\ Len(t2) = m + 1 /\ Len(o2) = m + 1
      /\ t2[m + 1] = e /\ o2[m + 1] = n /\ \A j \in 1..m : t2[j] = t[j] /\ o2[j] = o[j]
  BY <1>1, <1>8
<1> HIDE DEF t2, o2
<1>10. \A j \in 1..m : o[j] \in 1..n /\ o[j] # n /\ d[o[j]].open
                       /\ Counted(t[j], d[o[j]], Cardinality(Kids(d, o[j])))
  BY DEF Stack
<1>11. Counted(e, item, Cardinality(Kids(d2, n)))
  <2>1. Cardinality(Kids(d, n)) = 0
    BY <1>1, KidsNone
  <2>2. Counted(e, d[n], 0)
    OBVIOUS
  <2> QED
    BY <1>2, <1>7, <2>1, <2>2 DEF Counted
<1>12. ASSUME NEW j \in 1..m + 1
       PROVE  /\ o2[j] \in 1..Len(d2) /\ d2[o2[j]].open
              /\ Counted(t2[j], d2[o2[j]], Cardinality(Kids(d2, o2[j])))
  <2>1. CASE j = m + 1
    BY <1>1, <1>2, <1>4, <1>9, <1>11, <2>1
  <2>2. CASE j \in 1..m
    <3>1. o2[j] = o[j] /\ t2[j] = t[j]
      BY <1>9, <2>2, Zenon
    <3>2. o[j] \in 1..n /\ o[j] # n /\ d[o[j]].open /\ Counted(t[j], d[o[j]], Cardinality(Kids(d, o[j])))
      BY <1>10, <2>2, Zenon
    <3>3. d2[o[j]] = d[o[j]] /\ o[j] \in 1..Len(d2)
      BY <1>4, <3>2, Zenon
    <3> QED
      BY <1>7, <3>1, <3>2, <3>3, Zenon
  <2>3. j = m + 1 \/ j \in 1..m
    BY <1>8
  <2> QED
    BY <2>1, <2>2, <2>3, Zenon
<1>13. ASSUME NEW j \in 1..m + 1, NEW k \in 1..m + 1, j < k PROVE o2[j] < o2[k]
  <2>1. j \in 1..m
    BY <1>8, <1>13
  <2>2. CASE k = m + 1
    <3>1. o[j] < n
      <4>1. o[j] \in 1..n /\ o[j] # n
        BY <1>10, <2>1
      <4> QED
        BY <1>1, <4>1
    <3>2. o2[k] = n /\ o2[j] = o[j]
      BY <1>9, <2>1, <2>2
    <3> QED
      BY <3>1, <3>2
  <2>3. CASE k \in 1..m
    <3>1. o[j] < o[k]
      BY <1>13, <2>1, <2>3 DEF Stack
    <3> QED
      BY <1>9, <2>1, <2>3, <3>1
  <2>4. k = m + 1 \/ k \in 1..m
    BY <1>8
  <2> QED
    BY <2>2, <2>3, <2>4, Zenon
<1>14. ASSUME NEW i \in 1..Len(d2), d2[i].open PROVE \E j \in 1..m + 1 : o2[j] = i
  <2>1. CASE i = n
    BY <1>8, <1>9, <2>1
  <2>2. CASE i # n
    <3>1. d[i].open /\ i \in 1..n
      BY <1>4, <1>14, <2>2
    <3>2. PICK j \in 1..m : o[j] = i
      BY <3>1 DEF Stack
    <3>3. j \in 1..m + 1 /\ o2[j] = i
      BY <1>8, <1>9, <3>2
    <3> QED
      BY <3>3
  <2> QED
    BY <2>1, <2>2
<1>15. Stack(t2, d2, o2)
  BY <1>9, <1>12, <1>13, <1>14 DEF Stack
<1> QED
  BY <1>6, <1>15 DEF t2, o2

LEMMA StackClose ==
    ASSUME NEW t, NEW d, NEW o, NEW d2, DocType(d), Stack(t, d, o), Len(o) # 0,
           d2 = [i \in DOMAIN d |-> IF i = Inner(o) THEN [d[i] EXCEPT !.open = FALSE] ELSE d[i]]
    PROVE  DocType(d2) /\ Stack(Pop(t), d2, SubSeq(o, 1, Len(o) - 1))
<1> DEFINE n == Len(d)
           m == Len(o)
           p == o[m]
           t2 == Pop(t)
           o2 == SubSeq(o, 1, m - 1)
<1>1. d \in Seq(DocItems) /\ n \in Nat /\ DOMAIN d = 1..n /\ \A i \in 1..n : d[i] \in DocItems
  BY DEF DocType
<1>2. m \in Nat /\ m - 1 \in Nat /\ t \in Seq(Elements) /\ o \in Seq(Nat) /\ Len(t) = m
      /\ m \in 1..m /\ Inner(o) = p
  BY DEF Stack, Inner
<1>3. \A i \in 1..n : [d[i] EXCEPT !.open = FALSE] \in DocItems /\ [d[i] EXCEPT !.open = FALSE].parent = d[i].parent
                      /\ ~[d[i] EXCEPT !.open = FALSE].open
  <2>1. \A r \in DocItems : [r EXCEPT !.open = FALSE] \in DocItems /\ [r EXCEPT !.open = FALSE].parent = r.parent
                      /\ ~[r EXCEPT !.open = FALSE].open
    BY DEF DocItems
  <2> QED
    BY <1>1, <2>1
<1>4. DOMAIN d2 = 1..n /\ \A i \in 1..n : d2[i] = IF i = p THEN [d[i] EXCEPT !.open = FALSE] ELSE d[i]
  BY <1>1, <1>2
<1>5. \A i \in 1..n : d2[i] \in DocItems /\ d2[i].parent = d[i].parent /\ (i # p => d2[i] = d[i])
                      /\ (i = p => ~d2[i].open)
  <2>1. ASSUME NEW i \in 1..n, i # p PROVE d2[i] = d[i]
    BY <1>4, <2>1, Zenon
  <2>2. ASSUME NEW i \in 1..n, i = p PROVE d2[i] = [d[i] EXCEPT !.open = FALSE]
    BY <1>4, <2>2, Zenon
  <2>3. ASSUME NEW i \in 1..n, i = p
        PROVE  d2[i] \in DocItems /\ d2[i].parent = d[i].parent /\ ~d2[i].open
    <3> DEFINE v == [d[i] EXCEPT !.open = FALSE]
    <3>1. v \in DocItems /\ v.parent = d[i].parent /\ ~v.open
      BY <1>3, Zenon
    <3>2. d2[i] = v
      BY <2>2, <2>3, Zenon
    <3> HIDE DEF v
    <3> QED
      BY <3>1, <3>2, Zenon
  <2> QED
    BY <1>1, <2>1, <2>3, Zenon
<1>6. d2 \in Seq(DocItems) /\ Len(d2) = n
  <2>1. d2 \in [1..n -> DocItems]
    <3>1. d2 = [i \in 1..n |-> IF i = Inner(o) THEN [d[i] EXCEPT !.open = FALSE] ELSE d[i]]
      BY <1>1
    <3> QED
      BY <1>2, <1>4, <1>5, <3>1
  <2> QED
    BY <1>1, <2>1
<1>7. DocType(d2)
  BY <1>5, <1>6 DEF DocType
<1>8. \A q : Kids(d2, q) = Kids(d, q)
  BY <1>1, <1>4, <1>5 DEF Kids
<1>9. t2 \in Seq(Elements) /\ o2 \in Seq(Nat) /\ Len(t2) = m - 1 /\ Len(o2) = m - 1
      /\ \A j \in 1..m - 1 : t2[j] = t[j] /\ o2[j] = o[j]
  BY <1>2 DEF Pop
<1> HIDE DEF t2, o2
<1>10. ASSUME NEW j \in 1..m - 1 PROVE j \in 1..m /\ o[j] # p
  <2>1. j \in 1..m /\ j < m
    BY <1>2
  <2>2. o[j] < o[m]
    BY <1>2, <2>1 DEF Stack
  <2>3. o[j] \in Nat /\ o[m] \in Nat
    BY <1>2, <2>1
  <2> QED
    BY <2>1, <2>2, <2>3
<1>11. ASSUME NEW j \in 1..m - 1
       PROVE  /\ o2[j] \in 1..Len(d2) /\ d2[o2[j]].open
              /\ Counted(t2[j], d2[o2[j]], Cardinality(Kids(d2, o2[j])))
  <2>1. o[j] \in 1..n /\ d[o[j]].open /\ Counted(t[j], d[o[j]], Cardinality(Kids(d, o[j])))
    BY <1>10 DEF Stack
  <2>2. d2[o[j]] = d[o[j]]
    BY <1>5, <1>10, <2>1
  <2> QED
    BY <1>6, <1>8, <1>9, <2>1, <2>2
<1>12. ASSUME NEW j \in 1..m - 1, NEW k \in 1..m - 1, j < k PROVE o2[j] < o2[k]
  BY <1>9, <1>10, <1>12 DEF Stack
<1>13. ASSUME NEW i \in 1..Len(d2), d2[i].open PROVE \E j \in 1..m - 1 : o2[j] = i
  <2>1. i \in 1..n /\ i # p
    BY <1>5, <1>6, <1>13
  <2>2. d[i].open
    BY <1>5, <1>13, <2>1
  <2>3. PICK j \in 1..m : o[j] = i
    BY <2>1, <2>2 DEF Stack
  <2>4. j \in 1..m - 1
    BY <1>2, <2>1, <2>3
  <2> QED
    BY <1>9, <2>3, <2>4
<1>14. Stack(t2, d2, o2)
  BY <1>9, <1>11, <1>12, <1>13 DEF Stack
<1> QED
  BY <1>7, <1>14 DEF t2, o2

-----------------------------------------------------------------------------
(* The innermost open container, and what is allowed in it                   *)

LEMMA InnermostIs ==
    ASSUME NEW t, NEW o, DocType(doc), Stack(t, doc, o)
    PROVE  Innermost = Inner(o)
<1> DEFINE m == Len(o)
           IsLast(i) == doc[i].open /\ \A j \in DOMAIN doc : doc[j].open => j <= i
<1>1. doc \in Seq(DocItems) /\ Len(doc) \in Nat /\ DOMAIN doc = 1..Len(doc)
  BY DEF DocType
<1>2. m \in Nat /\ o \in Seq(Nat)
  BY DEF Stack
<1>3. \A i \in DOMAIN doc : doc[i].open => \E j \in 1..m : o[j] = i
  BY <1>1 DEF Stack
<1>4. CASE m = 0
  <2>1. ~\E i \in DOMAIN doc : doc[i].open
    BY <1>3, <1>4
  <2> QED
    BY <1>4, <2>1 DEF Innermost, Inner
<1>5. CASE m # 0
  <2>1. m \in 1..m /\ o[m] \in DOMAIN doc /\ doc[o[m]].open
    BY <1>1, <1>2, <1>5 DEF Stack
  <2>2. ASSUME NEW j \in DOMAIN doc, doc[j].open PROVE j <= o[m]
    <3>1. PICK k \in 1..m : o[k] = j
      BY <1>3, <2>2
    <3>2. o[k] \in Nat /\ o[m] \in Nat
      BY <1>2, <2>1
    <3>3. k = m \/ k < m
      BY <1>2
    <3>4. k < m => o[k] < o[m]
      BY <2>1 DEF Stack
    <3> QED
      BY <3>1, <3>2, <3>3, <3>4
  <2>3. IsLast(o[m])
    BY <2>1, <2>2
  <2>4. ASSUME NEW i \in DOMAIN doc, IsLast(i) PROVE i = o[m]
    <3>1. i <= o[m] /\ o[m] <= i
      BY <2>1, <2>2, <2>4
    <3>2. i \in Nat /\ o[m] \in Nat
      BY <1>1, <2>1
    <3> QED
      BY <3>1, <3>2
  <2>5. Innermost = CHOOSE i \in DOMAIN doc : IsLast(i)
    BY <2>1, Zenon DEF Innermost
  <2>6. Innermost = o[m]
    <3> HIDE DEF IsLast
    <3> QED
      BY <2>1, <2>3, <2>4, <2>5, Zenon
  <2> QED
    BY <1>5, <2>6 DEF Inner
<1> QED
  BY <1>4, <1>5

LEMMA CountedAllowed ==
    ASSUME NEW e \in Elements, NEW item \in DocItems, NEW c \in Nat, Counted(e, item, c)
    PROVE  MayAddTo(e) <=> (item.kind = "start" => c < PerElement(item.type) * item.n)
<1>1. item.n \in Nat /\ e.left \in Nat /\ e.builder \in BOOLEAN /\ e.type \in Compound /\ e.odd \in BOOLEAN
  BY DEF DocItems, Elements
<1>2. CASE item.kind # "start"
  BY <1>1, <1>2 DEF Counted, MayAddTo
<1>3. CASE item.kind = "start"
  <2>1. ~e.builder /\ e.left <= item.n /\ (e.odd => e.left > 0) /\ e.type = item.type
    BY <1>3 DEF Counted
  <2>2. CASE e.type = "map"
    <3>1. c = 2 * (item.n - e.left) + (IF e.odd THEN 1 ELSE 0)
      BY <1>3, <2>2 DEF Counted
    <3>2. PerElement(item.type) = 2
      BY <2>1, <2>2 DEF PerElement
    <3> QED
      BY <1>1, <1>3, <2>1, <3>1, <3>2 DEF MayAddTo
  <2>3. CASE e.type = "array"
    <3>1. c = item.n - e.left /\ ~e.odd
      BY <1>3, <2>3 DEF Counted
    <3>2. PerElement(item.type) = 1
      BY <2>1, <2>3 DEF PerElement
    <3> QED
      BY <1>1, <1>3, <2>1, <3>1, <3>2 DEF MayAddTo
  <2> QED
    BY <1>1, <2>2, <2>3 DEF Compound
<1> QED
  BY <1>2, <1>3

MayPopTop(e, type, builder) == e.type = type /\ ~e.odd /\ e.left = 0 /\ e.builder = builder

LEMMA CountedEnd ==
    ASSUME NEW e \in Elements, NEW item \in DocItems, NEW c \in Nat, Counted(e, item, c),
           NEW kind \in {"start", "build"}, NEW type
    PROVE  MayPopTop(e, type, kind = "build") <=>
               /\ item.kind = kind /\ item.type = type
               /\ IF kind = "start" THEN c = PerElement(type) * item.n ELSE c % PerElement(type) = 0
<1>1. item.n \in Nat /\ e.left \in Nat /\ e.builder \in BOOLEAN /\ e.type \in Compound /\ e.odd \in BOOLEAN
  BY DEF DocItems, Elements
<1>2. e.type = item.type /\ item.kind \in {"start", "build"} /\ (e.builder <=> item.kind = "build")
  BY DEF Counted
<1>3. (e.builder = (kind = "build")) <=> item.kind = kind
  BY <1>1, <1>2
<1>4. CASE ~(item.kind = kind /\ item.type = type)
  BY <1>2, <1>3, <1>4 DEF MayPopTop
<1>5. CASE item.kind = kind /\ item.type = type
  <2>1. MayPopTop(e, type, kind = "build") <=> ~e.odd /\ e.left = 0
    BY <1>2, <1>3, <1>5 DEF MayPopTop
  <2>2. CASE kind = "build"
    <3>1. e.left = 0 /\ (e.type = "map" => (c % 2 = 1 <=> e.odd)) /\ (e.type = "array" => ~e.odd)
      BY <1>5, <2>2 DEF Counted
    <3>2. CASE type = "map"
      <4>1. PerElement(type) = 2 /\ c % 2 \in 0..1
        BY <3>2 DEF PerElement
      <4> QED
        BY <1>2, <1>5, <2>1, <2>2, <3>1, <3>2, <4>1
    <3>3. CASE type = "array"
      <4>1. PerElement(type) = 1 /\ c % 1 = 0
        BY <3>3 DEF PerElement
      <4> QED
        BY <1>2, <1>5, <2>1, <2>2, <3>1, <3>3, <4>1
    <3> QED
      BY <1>1, <1>2, <1>5, <3>2, <3>3 DEF Compound
  <2>3. CASE kind = "start"
    <3>1. e.left <= item.n /\ (e.odd => e.left > 0)
      BY <1>5, <2>3 DEF Counted
    <3>2. CASE type = "map"
      <4>1. PerElement(type) = 2 /\ c = 2 * (item.n - e.left) + (IF e.odd THEN 1 ELSE 0)
        BY <1>2, <1>5, <2>3, <3>2 DEF PerElement, Counted
      <4>2. c = 2 * item.n <=> ~e.odd /\ e.left = 0
        BY <1>1, <3>1, <4>1
      <4> QED
        BY <1>5, <2>1, <2>3, <4>1, <4>2
    <3>3. CASE type = "array"
      <4>1. PerElement(type) = 1 /\ c = item.n - e.left /\ ~e.odd
        BY <1>2, <1>5, <2>3, <3>3 DEF PerElement, Counted
      <4>2. c = 1 * item.n <=> ~e.odd /\ e.left = 0
        BY <1>1, <3>1, <4>1
      <4> QED
        BY <1>5, <2>1, <2>3, <4>1, <4>2
    <3> QED
      BY <1>1, <1>2, <1>5, <3>2, <3>3 DEF Compound
  <2> QED
    BY <2>2, <2>3
<1> QED
  BY <1>4, <1>5

LEMMA TopIs ==
    ASSUME NEW t, NEW o, DocType(doc), Stack(t, doc, o), t # << >>
    PROVE  /\ Len(t) # 0 /\ Innermost \in 1..Len(doc) /\ Innermost # 0
           /\ Top(t) \in Elements /\ doc[Innermost] \in DocItems
           /\ Cardinality(InItem(Innermost)) \in Nat
           /\ Counted(Top(t), doc[Innermost], Cardinality(InItem(Innermost)))
<1> DEFINE m == Len(o)
<1>1. m \in Nat /\ Len(t) = m /\ t \in Seq(Elements) /\ o \in Seq(Nat) /\ doc \in Seq(DocItems)
  BY DEF Stack, DocType
<1>2. m # 0
  BY <1>1
<1>3. m \in 1..m
  BY <1>1, <1>2
<1>4. Innermost = o[m]
  BY <1>2, InnermostIs DEF Inner
<1>5. Top(t) = t[m] /\ t[m] \in Elements
  BY <1>1, <1>3 DEF Top
<1>6. o[m] \in 1..Len(doc) /\ Counted(t[m], doc[o[m]], Cardinality(Kids(doc, o[m])))
  BY <1>3 DEF Stack
<1>7. doc[o[m]] \in DocItems /\ o[m] # 0
  BY <1>1, <1>6
<1>8. InItem(Innermost) = Kids(doc, o[m])
  BY <1>4 DEF InItem, Kids
<1> QED
  BY <1>1, <1>2, <1>4, <1>5, <1>6, <1>7, <1>8, KidsFinite

LEMMA NoTopIs ==
    ASSUME NEW t, NEW o, DocType(doc), Stack(t, doc, o), t = << >>
    PROVE  Innermost = 0
BY InnermostIs DEF Stack, Inner

LEMMA AllowedIs ==
    ASSUME NEW t, NEW o, DocType(doc), Stack(t, doc, o)
    PROVE  ElementAllowed <=> MayAddElement(t)
<1>1. CASE t = << >>
  BY <1>1, NoTopIs DEF ElementAllowed, MayAddElement
<1>2. CASE t # << >>
  <2>1. MayAddTo(Top(t)) <=> (doc[Innermost].kind = "start" =>
            Cardinality(InItem(Innermost)) < PerElement(doc[Innermost].type) * doc[Innermost].n)
    BY <1>2, TopIs, CountedAllowed
  <2>2. Innermost # 0 /\ Top(t).type \in Compound
    BY <1>2, TopIs DEF Elements
  <2>3. MayAddElement(t) <=> MayAddTo(Top(t))
    BY <1>2, <2>2 DEF MayAddElement, MayAddTo
  <2> QED
    BY <2>1, <2>2, <2>3, Zenon DEF ElementAllowed
<1> QED
  BY <1>1, <1>2

LEMMA EndIs ==
    ASSUME NEW t, NEW o, DocType(doc), Stack(t, doc, o), NEW kind \in {"start", "build"}, NEW type
    PROVE  EndAllowed(kind, type) <=> MayPop(t, type, kind = "build")
<1>1. CASE t = << >>
  BY <1>1, NoTopIs DEF EndAllowed, MayPop
<1>2. CASE t # << >>
  <2> DEFINE item == doc[Innermost]
             c == Cardinality(InItem(Innermost))
  <2>1. MayPopTop(Top(t), type, kind = "build") <=>
               /\ item.kind = kind /\ item.type = type
               /\ IF kind = "start" THEN c = PerElement(type) * item.n ELSE c % PerElement(type) = 0
    BY <1>2, TopIs, CountedEnd
  <2>2. Innermost # 0
    BY <1>2, TopIs
  <2>3. MayPop(t, type, kind = "build") <=> MayPopTop(Top(t), type, kind = "build")
    BY <1>2, Zenon DEF MayPop, MayPopTop
  <2> QED
    BY <2>1, <2>2, <2>3, Zenon DEF EndAllowed
<1> QED
  BY <1>1, <1>2

-----------------------------------------------------------------------------
(* The tracking                                                             *)

Told(t, d) == DocType(d) /\ \E o : Stack(t, d, o)

\* The invariant: while no error is flagged the stack stands for the open
\* containers of the document, and a bug has been flagged for each misuse
TrackInv ==
    pc # "destroyed" =>
        /\ IsWriter(w)
        /\ pc = "resolve" => w.build = NULL
        /\ misuse <=> w.error = "bug"
        /\ w.error = "ok" => Told(w.track, doc)

LEMMA TrackInit == Init => TrackInv
<1> SUFFICES ASSUME Init PROVE TrackInv
  OBVIOUS
<1>1. PICK to \in Sinks : CASE to[1] = "growable" -> InitGrowable(to)
                            [] to[1] = "fixed" -> InitFixed(to)
                            [] to[1] = "file" -> InitFile(to)
  BY DEF Init
<1>2. to[1] = "growable" \/ to[1] = "fixed" \/ to[1] = "file"
  BY SizesAssumption
<1>3. InitGrowable(to) \/ InitFixed(to) \/ InitFile(to)
  <2>1. CASE to[1] = "growable"
    BY <1>1, <2>1
  <2>2. CASE to[1] = "fixed"
    BY <1>1, <2>2
  <2>3. CASE to[1] = "file"
    BY <1>1, <2>3
  <2> QED
    BY <1>2, <2>1, <2>2, <2>3
<1>4. ~(InitialBuffer < MinBuffer)
  BY SizesAssumption
<1>5. \A e, n : LET x == Writer(to, e, n) IN
                IsWriter(x) /\ x.error = e /\ x.track = << >> /\ x.size = n
  BY DEF Writer, IsWriter
<1>6. \A n : LET x == InitWriter(Writer(to, "ok", n))
                 y == InitWriter(Allocation(Writer(to, "ok", n))) IN
             /\ IsWriter(x) /\ x.error \in {"ok", "memory"} /\ x.track = << >>
             /\ IsWriter(y) /\ y.error \in {"ok", "memory"} /\ y.track = << >> /\ y.size = n
  BY DEF Writer, IsWriter, InitWriter, Allocation, FlagError
<1>7. IsWriter(w) /\ w.error \in {"ok", "memory", "io"} /\ w.track = << >>
  <2>1. ASSUME InitGrowable(to) PROVE IsWriter(w) /\ w.error \in {"ok", "memory", "io"} /\ w.track = << >>
    <3> DEFINE y == InitWriter(Allocation(Writer(to, "ok", InitialBuffer)))
    <3>1. w = Writer(to, "memory", 0) \/ w = WithFlush(y)
      BY <2>1 DEF InitGrowable
    <3>2. IsWriter(y) /\ y.error \in {"ok", "memory"} /\ y.track = << >> /\ y.size = InitialBuffer
      BY <1>6
    <3> HIDE DEF y
    <3>3. WithFlush(y) = y
      BY <1>4, <3>2 DEF WithFlush
    <3> QED
      BY <1>5, <3>1, <3>2, <3>3
  <2>2. CASE InitFixed(to)
    BY <1>6, <2>2 DEF InitFixed
  <2>3. CASE InitFile(to)
    BY <1>5, <2>1, <2>3 DEF InitFile
  <2> QED
    BY <1>3, <2>1, <2>2, <2>3
<1>8. doc = << >> /\ misuse = FALSE /\ pc = "idle"
  BY DEF Init
<1>9. Told(w.track, doc)
  <2>1. DocType(doc) /\ Stack(w.track, doc, << >>)
    BY <1>7, <1>8 DEF DocType, Stack
  <2> QED
    BY <2>1 DEF Told
<1> QED
  BY <1>7, <1>8, <1>9 DEF TrackInv

\* One element more, of which the tracking was told
LEMMA TrackElement ==
    ASSUME TrackInv, Callable, NEW item \in DocItems, item.parent = Innermost, ~item.open
    PROVE  /\ IsWriter(Element(w)) /\ Element(w).build = w.build
           /\ ElementAllowed => Element(w).error = "ok" /\ Told(Element(w).track, Append(doc, item))
           /\ ~ElementAllowed => Element(w).error = "bug"
<1>1. IsWriter(w) /\ w.error = "ok" /\ Told(w.track, doc)
  BY DEF TrackInv, Callable
<1>2. PICK o : DocType(doc) /\ Stack(w.track, doc, o)
  BY <1>1 DEF Told
<1>3. ElementAllowed <=> MayAddElement(w.track)
  BY <1>2, AllowedIs
<1>4. FlagError(w, "bug").error = "bug"
  BY <1>1 DEF FlagError, IsWriter
<1>5. item.parent = Inner(o)
  BY <1>2, InnermostIs
<1>6. MayAddElement(w.track) => Told(AddElement(w.track), Append(doc, item))
  BY <1>2, <1>5, StackAdd DEF Told
<1> QED
  BY <1>1, <1>3, <1>4, <1>6, ElementIs

\* What is written after that leaves the tracking alone
LEMMA TrackAfter ==
    ASSUME TrackInv, Callable, NEW e, NEW x, Quiet(e, x), NEW t, NEW d,
           IsWriter(e),
           ElementAllowed => e.error = "memory" \/ (e.error = "ok" /\ Told(e.track, d)),
           ~ElementAllowed => e.error = "bug",
           w' = x, doc' = d, misuse' = (misuse \/ ~ElementAllowed), pc' = pc
    PROVE  TrackInv'
<1>1. w.error = "ok" /\ pc = "idle" /\ (misuse <=> FALSE)
  BY DEF TrackInv, Callable
<1>2. IsWriter(x)
  BY StaysWriter
<1>3. CASE ElementAllowed
  <2>1. /\ x.error \in {"ok", "memory", "io", "too_big"}
        /\ x.error = "ok" => x.track = e.track /\ e.error = "ok"
    BY <1>3 DEF Quiet, Trouble
  <2>2. ~misuse'
    BY <1>1, <1>3
  <2> QED
    BY <1>1, <1>2, <1>3, <2>1, <2>2 DEF TrackInv
<1>4. CASE ~ElementAllowed
  <2>1. x.error = "bug"
    BY <1>4 DEF Quiet
  <2>2. misuse'
    BY <1>4
  <2> QED
    BY <1>1, <1>2, <2>1, <2>2 DEF TrackInv
<1> QED
  BY <1>3, <1>4

AddedItem(kind, type, n) ==
    [kind |-> kind, type |-> type, n |-> n, parent |-> Innermost, open |-> FALSE]

LEMMA AddedItemType ==
    ASSUME TrackInv, Callable, NEW kind \in {"value", "start", "build"},
           NEW type \in Compound \cup {"value"}, NEW n \in Nat
    PROVE  /\ AddedItem(kind, type, n) \in DocItems
           /\ AddedItem(kind, type, n).parent = Innermost /\ ~AddedItem(kind, type, n).open
<1>1. PICK o : DocType(doc) /\ Stack(w.track, doc, o)
  BY DEF TrackInv, Callable, Told
<1>2. Innermost \in Nat
  <2>1. CASE w.track = << >>
    BY <1>1, <2>1, NoTopIs
  <2>2. CASE w.track # << >>
    BY <1>1, <2>2, TopIs
  <2> QED
    BY <2>1, <2>2
<1> QED
  BY <1>2 DEF AddedItem, DocItems

AddedOpen(kind, type, n) ==
    [kind |-> kind, type |-> type, n |-> n, parent |-> Innermost, open |-> TRUE]

LEMMA AddedIs ==
    ASSUME NEW kind, kind # "value", NEW type, NEW n
    PROVE  Added(kind, type, n) = Append(doc, AddedOpen(kind, type, n))
<1>1. (kind # "value") = TRUE
  OBVIOUS
<1> QED
  BY <1>1, Zenon DEF Added, AddedOpen

LEMMA AddedOpenType ==
    ASSUME NEW kind, NEW type, NEW n, AddedItem(kind, type, n) \in DocItems
    PROVE  OpenedAs(AddedItem(kind, type, n), AddedOpen(kind, type, n))
BY DEF OpenedAs, AddedItem, AddedOpen, DocItems

\* A container that has just been written is opened on the stack
LEMMA ToldOpen ==
    ASSUME NEW t, NEW d, NEW item \in DocItems, Told(t, Append(d, item)), d \in Seq(DocItems),
           ~item.open, NEW e \in Elements, Counted(e, item, 0), NEW v, OpenedAs(item, v)
    PROVE  Told(Append(t, e), Append(d, v))
<1> DEFINE d1 == Append(d, item)
           d2 == Append(d, v)
           n == Len(d) + 1
           b == [d1 EXCEPT ![n] = v]
<1>1. v \in DocItems
  BY DEF OpenedAs
<1>2. Len(d) \in Nat /\ d1 \in Seq(DocItems) /\ Len(d1) = n /\ n # 0 /\ d1[n] = item /\ n \in 1..Len(d1)
  OBVIOUS
<1>3. \A i \in 1..Len(d) : d1[i] = d[i] /\ i # n /\ i \in 1..n
  BY <1>2
<1>4. d2 \in Seq(DocItems) /\ Len(d2) = n /\ d2[n] = v /\ \A i \in 1..Len(d) : d2[i] = d[i]
  <2>1. Appended(d2, DocItems, d, v)
    BY <1>1, AppendOne, Zenon
  <2> QED
    BY <2>1, Zenon DEF Appended
<1> HIDE DEF d1, d2
<1>5. Replaced(b, DocItems, d1, n, v)
  BY <1>1, <1>2, ReplaceOne, Zenon
<1> HIDE DEF b
<1>6. b \in Seq(DocItems) /\ Len(b) = n /\ b[n] = v /\ \A i \in 1..Len(d) : b[i] = d[i]
  BY <1>2, <1>3, <1>5 DEF Replaced
<1>7. \A i \in 1..n : b[i] = d2[i]
  <2>1. \A i \in 1..n : i \in 1..Len(d) \/ i = n
    BY <1>2
  <2> QED
    BY <1>4, <1>6, <2>1
<1>8. d2 = [d1 EXCEPT ![Len(d1)] = v]
  <2>1. b = d2
    BY <1>4, <1>6, <1>7, SameSequence
  <2> QED
    BY <1>2, <2>1 DEF b
<1>9. PICK o : DocType(d1) /\ Stack(t, d1, o)
  BY DEF Told, d1
<1>10. DocType(d2) /\ Stack(Append(t, e), d2, Append(o, Len(d1)))
  <2>1. ~d1[Len(d1)].open /\ Counted(e, d1[Len(d1)], 0) /\ Len(d1) # 0 /\ OpenedAs(d1[Len(d1)], v)
    BY <1>2
  <2> QED
    BY <1>8, <1>9, <2>1, StackOpen
<1> QED
  BY <1>10 DEF Told, d2

LEMMA DataLength ==
    ASSUME NEW item, NEW from, NEW n \in Nat
    PROVE  Len(DataBytes(item, from, n)) = n
BY DEF DataBytes

LEMMA TrackScalar ==
    ASSUME TrackInv, NEW tag \in Nat, NEW data \in Nat, WriteScalar(tag, data)
    PROVE  TrackInv'
<1> DEFINE item == AddedItem("value", "value", tag + data)
           e == Element(w)
           t == WriteTag(e, DataBytes(Item, 0, tag))
           y == WriteNative(t, DataBytes(Item, tag, data))
<1>1. Callable /\ w' = y /\ doc' = Append(doc, item) /\ misuse' = (misuse \/ ~ElementAllowed) /\ pc' = pc
  BY DEF WriteScalar, Added, AddedItem
<1>2. item \in DocItems /\ item.parent = Innermost /\ ~item.open
  BY <1>1, AddedItemType
<1>3. /\ IsWriter(e)
      /\ ElementAllowed => e.error = "ok" /\ Told(e.track, Append(doc, item))
      /\ ~ElementAllowed => e.error = "bug"
  BY <1>1, <1>2, TrackElement
<1> HIDE DEF item, e
<1>4. Silent(e, t) /\ IsWriter(t)
  BY <1>3, TagSilent, StaysWriter DEF Silent
<1> HIDE DEF t
<1>5. Silent(t, y)
  BY <1>4, DataLength, NativeSilent
<1>6. Quiet(e, y)
  BY <1>4, <1>5, QuietThen DEF Silent
<1> HIDE DEF y
<1> QED
  BY <1>1, <1>3, <1>6, TrackAfter

LEMMA TrackStart ==
    ASSUME TrackInv, NEW type \in Compound, NEW n \in Nat, StartContainer(type, n)
    PROVE  TrackInv'
<1> DEFINE item == AddedItem("start", type, n)
           e == Element(w)
           t == WriteTag(e, TagBytes(Item, n))
           p == IF t.error = "ok" THEN TrackPush(t, Push(t.track, type, n)) ELSE t
           v == AddedOpen("start", type, n)
           d == Append(doc, v)
           y == Compounds(p, 1)
<1>1. Callable /\ w' = y /\ doc' = d /\ misuse' = (misuse \/ ~ElementAllowed) /\ pc' = pc
  <2>1. d = Added("start", type, n)
    BY AddedIs
  <2> HIDE DEF d
  <2> QED
    BY <2>1, Zenon DEF StartContainer
<1>2. item \in DocItems /\ item.parent = Innermost /\ ~item.open
  BY <1>1, AddedItemType
<1>3. item.kind = "start" /\ item.type = type /\ item.n = n
  BY DEF AddedItem
<1>4. /\ IsWriter(e)
      /\ ElementAllowed => e.error = "ok" /\ Told(e.track, Append(doc, item))
      /\ ~ElementAllowed => e.error = "bug"
  BY <1>1, <1>2, TrackElement
<1>5. doc \in Seq(DocItems)
  BY <1>1 DEF TrackInv, Callable, Told, DocType
<1>0. OpenedAs(item, v)
  BY <1>2, AddedOpenType
<1> HIDE DEF item, v, e
<1>6. Silent(e, t) /\ IsWriter(t)
  BY <1>4, TagSilent, StaysWriter DEF Silent
<1> HIDE DEF t
<1>7. /\ IsWriter(p)
      /\ p.error = t.error \/ (t.error = "ok" /\ p.error = "memory")
      /\ p.error = "ok" => p.track = Append(t.track, Opened(type, n, FALSE))
  <2>1. CASE t.error = "ok"
    <3>1. p = TrackPush(t, Push(t.track, type, n))
      BY <2>1
    <3>2. IsWriter(TrackPush(t, Push(t.track, type, n)))
      BY <1>6, <2>1, TrackPushIs DEF IsWriter
    <3> QED
      BY <1>6, <2>1, <3>1, <3>2, TrackPushIs DEF Push
  <2>2. CASE t.error # "ok"
    BY <1>6, <2>2
  <2> QED
    BY <2>1, <2>2
<1> HIDE DEF p
<1>8. Silent(p, y) /\ IsWriter(y)
  BY <1>7, CompoundsSilent, StaysWriter DEF Silent
<1>9. y.error = p.error /\ y.track = p.track
  <2>1. y.error = p.error
    BY <1>7 DEF Compounds, IsWriter
  <2> QED
    BY <1>8, <2>1 DEF Silent, Quiet
<1> HIDE DEF y
<1>10. w.error = "ok" /\ pc = "idle" /\ (misuse <=> FALSE)
  BY <1>1 DEF TrackInv, Callable
<1>11. CASE ~ElementAllowed
  <2>1. p.error = "bug"
    BY <1>4, <1>6, <1>7, <1>11 DEF Silent, Quiet
  <2> QED
    BY <1>1, <1>7, <1>8, <1>9, <1>10, <1>11, <2>1 DEF TrackInv
<1>12. CASE ElementAllowed
  <2>1. t.error \in {"ok", "memory", "io", "too_big"} /\ t.track = e.track
        /\ p.error \in {"ok", "memory", "io", "too_big"}
    BY <1>4, <1>6, <1>7, <1>12 DEF Silent, Quiet, Trouble
  <2>2. ASSUME p.error = "ok" PROVE Told(y.track, d)
    <3>1. Opened(type, n, FALSE) \in Elements
      BY DEF Opened, Elements
    <3>2. Counted(Opened(type, n, FALSE), item, 0)
      BY <1>3 DEF Counted, Opened
    <3>3. Told(e.track, Append(doc, item))
      BY <1>4, <1>12
    <3>4. Told(Append(e.track, Opened(type, n, FALSE)), d)
      BY <1>0, <1>2, <1>5, <3>1, <3>2, <3>3, ToldOpen
    <3>5. y.track = Append(e.track, Opened(type, n, FALSE))
      BY <1>7, <1>9, <2>1, <2>2
    <3> QED
      BY <3>4, <3>5
  <2>3. ~misuse'
    BY <1>1, <1>10, <1>12
  <2> HIDE DEF d
  <2> QED
    BY <1>1, <1>7, <1>8, <1>9, <1>10, <2>1, <2>2, <2>3 DEF TrackInv
<1> QED
  BY <1>11, <1>12

LEMMA TrackBuild ==
    ASSUME TrackInv, NEW type \in Compound, BuildContainer(type)
    PROVE  TrackInv'
<1> DEFINE item == AddedItem("build", type, 0)
           e == Element(w)
           t == IF e.error = "ok" THEN TrackPush(e, PushBuilder(e.track, type)) ELSE e
           v == AddedOpen("build", type, 0)
           d == Append(doc, v)
           y == StartBuild(t, Item, type)
<1>1. Callable /\ w' = y /\ doc' = d /\ misuse' = (misuse \/ ~ElementAllowed) /\ pc' = pc
  <2>1. d = Added("build", type, 0)
    BY AddedIs
  <2> HIDE DEF d
  <2> QED
    BY <2>1, Zenon DEF BuildContainer
<1>2. item \in DocItems /\ item.parent = Innermost /\ ~item.open
  BY <1>1, AddedItemType
<1>3. item.kind = "build" /\ item.type = type
  BY DEF AddedItem
<1>4. /\ IsWriter(e)
      /\ ElementAllowed => e.error = "ok" /\ Told(e.track, Append(doc, item))
      /\ ~ElementAllowed => e.error = "bug"
  BY <1>1, <1>2, TrackElement
<1>5. doc \in Seq(DocItems)
  BY <1>1 DEF TrackInv, Callable, Told, DocType
<1>0. OpenedAs(item, v)
  BY <1>2, AddedOpenType
<1> HIDE DEF item, v, e
<1>6. /\ IsWriter(t)
      /\ t.error = e.error \/ (e.error = "ok" /\ t.error = "memory")
      /\ t.error = "ok" => t.track = Append(e.track, Opened(type, 0, TRUE))
  <2>1. CASE e.error = "ok"
    <3>1. t = TrackPush(e, PushBuilder(e.track, type))
      BY <2>1
    <3>2. IsWriter(TrackPush(e, PushBuilder(e.track, type)))
      BY <1>4, <2>1, TrackPushIs DEF IsWriter
    <3> QED
      BY <1>4, <2>1, <3>1, <3>2, TrackPushIs DEF PushBuilder
  <2>2. CASE e.error # "ok"
    BY <1>4, <2>2
  <2> QED
    BY <2>1, <2>2
<1> HIDE DEF t
<1>7. Quiet(t, y)
  BY <1>6, StartBuildQuiet
<1>8. ElementAllowed /\ t.error = "ok" => Told(t.track, d)
  <2>1. Opened(type, 0, TRUE) \in Elements
    BY DEF Opened, Elements
  <2>2. Counted(Opened(type, 0, TRUE), item, 0)
    BY <1>3 DEF Counted, Opened
  <2>3. ElementAllowed => Told(Append(e.track, Opened(type, 0, TRUE)), d)
    BY <1>0, <1>2, <1>4, <1>5, <2>1, <2>2, ToldOpen
  <2> QED
    BY <1>4, <1>6, <2>3
<1> HIDE DEF y, d
<1>9. /\ ElementAllowed => t.error = "memory" \/ (t.error = "ok" /\ Told(t.track, d))
      /\ ~ElementAllowed => t.error = "bug"
  BY <1>4, <1>6, <1>8
<1> QED
  BY <1>1, <1>6, <1>7, <1>9, TrackAfter

\* The end of the innermost container
LEMMA ToldClose ==
    ASSUME Told(w.track, doc), w.track # << >>
    PROVE  Told(Pop(w.track), Closed)
<1>1. PICK o : DocType(doc) /\ Stack(w.track, doc, o)
  BY DEF Told
<1>2. Len(o) # 0 /\ Innermost = Inner(o)
  BY <1>1, TopIs, InnermostIs DEF Stack
<1>3. Closed = [i \in DOMAIN doc |-> IF i = Inner(o) THEN [doc[i] EXCEPT !.open = FALSE] ELSE doc[i]]
  BY <1>2, Zenon DEF Closed
<1>4. Stack(Pop(w.track), Closed, SubSeq(o, 1, Len(o) - 1)) /\ DocType(Closed)
  BY <1>1, <1>2, <1>3, StackClose
<1> QED
  BY <1>4 DEF Told

LEMMA TrackEnds ==
    ASSUME TrackInv, Callable, NEW kind \in {"start", "build"}, NEW type
    PROVE  EndAllowed(kind, type) <=> MayPop(w.track, type, kind = "build")
<1>1. PICK o : DocType(doc) /\ Stack(w.track, doc, o)
  BY DEF TrackInv, Callable, Told
<1> QED
  BY <1>1, EndIs

LEMMA TrackPopped ==
    ASSUME TrackInv, Callable, NEW builder, NEW type, MayPop(w.track, type, builder)
    PROVE  /\ Told(Pop(w.track), Closed)
           /\ IsWriter([w EXCEPT !.track = Pop(@)]) /\ [w EXCEPT !.track = Pop(@)].error = "ok"
           /\ [w EXCEPT !.track = Pop(@)].track = Pop(w.track)
<1>1. IsWriter(w) /\ w.error = "ok" /\ Told(w.track, doc)
  BY DEF TrackInv, Callable
<1>2. w.track # << >>
  BY DEF MayPop
<1> QED
  BY <1>1, <1>2, ToldClose DEF IsWriter

LEMMA TrackMisused ==
    ASSUME TrackInv, Callable, w' = FlagError(w, "bug"), misuse', pc' = pc
    PROVE  TrackInv'
<1>1. IsWriter(w) /\ w.error = "ok" /\ pc = "idle"
  BY DEF TrackInv, Callable
<1>2. IsWriter(FlagError(w, "bug")) /\ FlagError(w, "bug").error = "bug"
  BY <1>1 DEF FlagError, IsWriter
<1> QED
  BY <1>1, <1>2 DEF TrackInv

LEMMA TrackFinish ==
    ASSUME TrackInv, NEW type, FinishContainer(type)
    PROVE  TrackInv'
<1> DEFINE q == [w EXCEPT !.track = Pop(@)]
           y == Compounds(q, -1)
<1>1. Callable /\ doc' = Closed /\ misuse' = (misuse \/ ~EndAllowed("start", type)) /\ pc' = pc
  BY DEF FinishContainer
<1>2. EndAllowed("start", type) <=> MayPop(w.track, type, FALSE)
  BY <1>1, TrackEnds
<1>3. w.error = "ok" /\ pc = "idle" /\ (misuse <=> FALSE)
  BY <1>1 DEF TrackInv, Callable
<1>4. CASE ~MayPop(w.track, type, FALSE)
  <2>1. w' = FlagError(w, "bug")
    BY <1>4 DEF FinishContainer
  <2> QED
    BY <1>1, <1>2, <1>4, <2>1, TrackMisused
<1>5. CASE MayPop(w.track, type, FALSE)
  <2>1. w' = y
    BY <1>5 DEF FinishContainer
  <2>2. Told(Pop(w.track), Closed) /\ IsWriter(q) /\ q.error = "ok" /\ q.track = Pop(w.track)
    BY <1>1, <1>5, TrackPopped
  <2> HIDE DEF q
  <2>3. y.error = "ok" /\ y.track = q.track /\ IsWriter(y)
    BY <2>2 DEF Compounds, IsWriter
  <2> HIDE DEF y
  <2>4. ~misuse'
    BY <1>1, <1>2, <1>3, <1>5
  <2> QED
    BY <1>1, <1>3, <2>1, <2>2, <2>3, <2>4 DEF TrackInv
<1> QED
  BY <1>4, <1>5

LEMMA TrackNested ==
    ASSUME TrackInv, NEW type, CompleteNested(type)
    PROVE  TrackInv'
<1> DEFINE q == [w EXCEPT !.track = Pop(@)]
           a == ApplyWrites(q)
           b == [a EXCEPT !.build = w.builds[w.build].parent]
           y == ConfigureBuffer(b)
<1>1. Callable /\ doc' = Closed /\ misuse' = (misuse \/ ~EndAllowed("build", type)) /\ pc' = pc
      /\ MayPop(w.track, type, TRUE) /\ w' = y
  BY DEF CompleteNested
<1>2. EndAllowed("build", type)
  BY <1>1, TrackEnds
<1>3. w.error = "ok" /\ pc = "idle" /\ (misuse <=> FALSE)
  BY <1>1 DEF TrackInv, Callable
<1>4. Told(Pop(w.track), Closed) /\ IsWriter(q) /\ q.error = "ok" /\ q.track = Pop(w.track)
  BY <1>1, TrackPopped
<1> HIDE DEF q
<1>5. a.error = "ok" /\ a.track = q.track /\ IsWriter(a)
  BY <1>4 DEF ApplyWrites, IsWriter
<1> HIDE DEF a
<1>6. b.error = "ok" /\ b.track = q.track /\ IsWriter(b)
  BY <1>5 DEF IsWriter
<1> HIDE DEF b
<1>7. y.error = "ok" /\ y.track = q.track /\ IsWriter(y)
  BY <1>6 DEF ConfigureBuffer, IsWriter
<1> HIDE DEF y
<1>8. ~misuse'
  BY <1>1, <1>2, <1>3
<1> QED
  BY <1>1, <1>3, <1>4, <1>7, <1>8 DEF TrackInv

LEMMA TrackOutermost ==
    ASSUME TrackInv, NEW type, CompleteOutermost(type)
    PROVE  TrackInv'
<1> DEFINE q == [w EXCEPT !.track = Pop(@)]
           a == ApplyWrites(q)
           y == [a EXCEPT !.build = NULL, !.latest = NULL, !.pending = << >>]
<1>1. Callable /\ doc' = Closed /\ misuse' = (misuse \/ ~EndAllowed("build", type)) /\ pc' = "resolve"
      /\ MayPop(w.track, type, TRUE) /\ w' = y
  BY DEF CompleteOutermost
<1>2. EndAllowed("build", type)
  BY <1>1, TrackEnds
<1>3. w.error = "ok" /\ (misuse <=> FALSE)
  BY <1>1 DEF TrackInv, Callable
<1>4. Told(Pop(w.track), Closed) /\ IsWriter(q) /\ q.error = "ok" /\ q.track = Pop(w.track)
  BY <1>1, TrackPopped
<1> HIDE DEF q
<1>5. a.error = "ok" /\ a.track = q.track /\ IsWriter(a)
  BY <1>4 DEF ApplyWrites, IsWriter
<1> HIDE DEF a
<1>6. y.error = "ok" /\ y.track = q.track /\ IsWriter(y) /\ y.build = NULL
  BY <1>5 DEF IsWriter
<1> HIDE DEF y
<1>7. ~misuse'
  BY <1>1, <1>2, <1>3
<1> QED
  BY <1>1, <1>3, <1>4, <1>6, <1>7 DEF TrackInv

LEMMA TrackCompleteMisused ==
    ASSUME TrackInv, NEW type, CompleteMisused(type)
    PROVE  TrackInv'
<1>1. Callable /\ w' = FlagError(w, "bug") /\ misuse' = (misuse \/ ~EndAllowed("build", type)) /\ pc' = pc
      /\ ~MayPop(w.track, type, TRUE)
  BY DEF CompleteMisused
<1>2. ~EndAllowed("build", type)
  BY <1>1, TrackEnds
<1> QED
  BY <1>1, <1>2, TrackMisused

LEMMA TrackFlush ==
    ASSUME TrackInv, FlushMessage
    PROVE  TrackInv'
<1>1. Callable /\ misuse' = (misuse \/ Innermost # 0 \/ Fixed(w)) /\ pc' = pc /\ doc' = doc
  BY DEF FlushMessage
<1>2. w.error = "ok" /\ pc = "idle" /\ (misuse <=> FALSE) /\ IsWriter(w) /\ Told(w.track, doc)
  BY <1>1 DEF TrackInv, Callable
<1>3. Innermost = 0 <=> MayCheckEmpty(w.track)
  <2>1. PICK o : DocType(doc) /\ Stack(w.track, doc, o)
    BY <1>2 DEF Told
  <2>2. CASE w.track = << >>
    BY <2>1, <2>2, NoTopIs DEF MayCheckEmpty
  <2>3. CASE w.track # << >>
    BY <2>1, <2>3, TopIs DEF MayCheckEmpty
  <2> QED
    BY <2>2, <2>3
<1>4. CASE Fixed(w) \/ ~MayCheckEmpty(w.track)
  <2>1. w' = FlagError(w, "bug")
    BY <1>4 DEF FlushMessage
  <2> QED
    BY <1>1, <1>3, <1>4, <2>1, TrackMisused
<1>5. CASE ~(Fixed(w) \/ ~MayCheckEmpty(w.track))
  <2>1. w' = Flush(w, << >>) \/ w' = w
    BY <1>5 DEF FlushMessage
  <2>2. Silent(w, w')
    BY <1>2, <2>1, FlushSilent, SilentSelf
  <2>3. IsWriter(w') /\ w'.track = w.track /\ w'.error \in {"ok", "memory", "io", "too_big"}
    BY <1>2, <2>2, StaysWriter DEF Silent, Quiet, Trouble
  <2>4. ~misuse'
    BY <1>1, <1>2, <1>3, <1>5
  <2> QED
    BY <1>1, <1>2, <2>3, <2>4 DEF TrackInv
<1> QED
  BY <1>4, <1>5

\* A turn of mpack_builder_resolve writes bytes and frees pages
LEMMA TrackTurn ==
    ASSUME TrackInv, pc = "resolve", Silent(w, w'), pc' \in {"idle", "resolve"}, UNCHANGED <<doc, misuse>>
    PROVE  TrackInv'
<1>1. IsWriter(w) /\ w.build = NULL /\ (misuse <=> w.error = "bug") /\ (w.error = "ok" => Told(w.track, doc))
  BY DEF TrackInv
<1>2. IsWriter(w') /\ w'.track = w.track /\ w'.build = NULL
      /\ (w'.error = w.error \/ (w.error = "ok" /\ w'.error \in {"memory", "io", "too_big"}))
  BY <1>1, StaysWriter DEF Silent, Quiet, Trouble
<1> QED
  BY <1>1, <1>2 DEF TrackInv

LEMMA FreeSilent ==
    ASSUME NEW x, IsWriter(x), NEW page
    PROVE  Silent(x, Free(x, page)) /\ IsWriter(Free(x, page))
BY DEF IsWriter, Free, Silent, Quiet

LEMMA TrackResolve ==
    ASSUME TrackInv, Resolve
    PROVE  TrackInv'
<1>1. pc = "resolve" /\ UNCHANGED <<doc, misuse>> /\ pc' \in {"idle", "resolve"}
  BY DEF Resolve, ResolveTag, ResolveCopy, ResolveNext
<1>2. IsWriter(w) /\ w.build = NULL
  BY <1>1 DEF TrackInv
<1>3. CASE ResolveTag
  <2>1. \E bytes : w' = WriteTag(w, bytes)
    BY <1>3 DEF ResolveTag
  <2>2. Silent(w, w')
    BY <1>2, <2>1, TagSilent
  <2> QED
    BY <1>1, <2>2, TrackTurn
<1>4. CASE ResolveCopy
  <2>1. \E bytes, page : w' = w \/ w' = WriteNative(w, bytes) \/ w' = Free(WriteNative(w, bytes), page)
    BY <1>4 DEF ResolveCopy
  <2>2. PICK bytes, page : w' = w \/ w' = WriteNative(w, bytes) \/ w' = Free(WriteNative(w, bytes), page)
    BY <2>1
  <2> DEFINE y == WriteNative(w, bytes)
  <2>3. Silent(w, y) /\ IsWriter(y)
    BY <1>2, NativeSilent, StaysWriter DEF Silent
  <2> HIDE DEF y
  <2>4. Silent(w, Free(y, page))
    BY <2>3, FreeSilent, SilentThen
  <2>5. Silent(w, w')
    BY <2>2, <2>3, <2>4, SilentSelf DEF y
  <2> QED
    BY <1>1, <2>5, TrackTurn
<1>5. CASE ResolveNext
  <2>1. \E y, page : y \in {w, Free(w, at.page)} /\ w' \in {y, Free(y, page)}
    BY <1>5 DEF ResolveNext
  <2>2. PICK y, page : y \in {w, Free(w, at.page)} /\ w' \in {y, Free(y, page)}
    BY <2>1
  <2>3. Silent(w, y) /\ IsWriter(y)
    BY <1>2, <2>2, FreeSilent, SilentSelf
  <2>4. Silent(w, Free(y, page))
    BY <2>3, FreeSilent, SilentThen
  <2>5. Silent(w, w')
    BY <2>2, <2>3, <2>4
  <2> QED
    BY <1>1, <2>5, TrackTurn
<1> QED
  BY <1>3, <1>4, <1>5 DEF Resolve

LEMMA TrackStep == TrackInv /\ [Next]_vars => TrackInv'
<1> SUFFICES ASSUME TrackInv, [Next]_vars PROVE TrackInv'
  OBVIOUS
<1>1. CASE \E s \in Scalars : WriteScalar(s[1], s[2])
  <2>1. \A s \in Scalars : s[1] \in Nat /\ s[2] \in Nat
    BY SizesAssumption
  <2> QED
    BY <1>1, <2>1, TrackScalar
<1>2. ASSUME NEW type \in Compound, \E n \in Counts : StartContainer(type, n) PROVE TrackInv'
  <2>1. \A n \in Counts : n \in Nat
    BY SizesAssumption
  <2> QED
    BY <1>2, <2>1, TrackStart
<1>3. CASE FlushMessage
  BY <1>3, TrackFlush
<1>4. CASE Destroy
  BY <1>4 DEF Destroy, TrackInv
<1>5. CASE Resolve
  BY <1>5, TrackResolve
<1>6. CASE UNCHANGED vars
  BY <1>6 DEF vars, TrackInv
<1>7. ASSUME NEW type \in Compound, FinishContainer(type) \/ BuildContainer(type) \/ CompleteNested(type)
               \/ CompleteOutermost(type) \/ CompleteMisused(type)
      PROVE  TrackInv'
  BY <1>7, TrackFinish, TrackBuild, TrackNested, TrackOutermost, TrackCompleteMisused
<1> QED
  BY <1>1, <1>2, <1>3, <1>4, <1>5, <1>6, <1>7 DEF Next, Call

\* In every state the stack of the tracking stands for the containers that are
\* open in what was written, and a bug is flagged for a misuse and for nothing else.
THEOREM TrackingInvariant == Spec => []TrackInv
<1>1. TrackInv /\ [Next]_vars => TrackInv'
  BY TrackStep
<1> QED
  BY TrackInit, <1>1, PTL DEF Spec

\* The tracking of mpack_writer_t flags mpack_error_bug for exactly the calls the
\* grammar of messages does not allow: an element too many in a container of known
\* count, an end that is too early, too late or of another container, a key
\* without its value, a flush within a container.
THEOREM BugsAreMisuses == Spec => []TrackingIsExact
<1>1. TrackInv => TrackingIsExact
  BY DEF TrackInv, TrackingIsExact
<1> QED
  BY TrackingInvariant, <1>1, PTL

-----------------------------------------------------------------------------
(* Where things are in the pages of the builder                             *)

\* Everything written while builds are open is at a position: the pages, without
\* their headers, one after the other; start[p] is the position where page p begins
Position(start, p, offset) == start[p] + (offset - PageHeader)

PagesFit(pages) ==
    \A p \in 1..Len(pages) : pages[p].used \in PageHeader..PageSize

Starts(pages, start) ==
    /\ start \in [1..Len(pages) -> Nat]
    /\ \A p \in 1..Len(pages) : \A q \in 1..Len(pages) :
           p < q => start[p] + (pages[p].used - PageHeader) <= start[q]
    /\ \A p \in 1..Len(pages) :
           p + 1 \in 1..Len(pages) => start[p + 1] = start[p] + (pages[p].used - PageHeader)

\* A position is at the end of what is written to it: not at the header of a page
Ends(pages, start, position, p, offset) ==
    /\ p \in 1..Len(pages)
    /\ offset \in (PageHeader + 1)..pages[p].used
    /\ Position(start, p, offset) = position

\* Where a build ends, and where mpack_builder_build puts the one after it
EndOf(build, start) == Position(start, build.page, build.offset) + (BuildSize + build.bytes)
Turns(offset) == Align(offset) + BuildSize > PageSize
NextPage(p, offset) == IF Turns(offset) THEN p + 1 ELSE p
NextOffset(offset) == IF Turns(offset) THEN Align(PageHeader) ELSE Align(offset)

InPage(pages, build) ==
    /\ build.page \in 1..Len(pages)
    /\ build.offset >= PageHeader
    /\ build.offset + BuildSize <= pages[build.page].used

Follows(pages, start, b, c) ==
    \E p \in 1..Len(pages) : \E offset \in 0..PageSize :
        /\ Ends(pages, start, EndOf(b, start), p, offset)
        /\ c.page = NextPage(p, offset) /\ c.offset = NextOffset(offset)

\* The builds lie one behind the other from the first page to the last
Laid(pages, builds, start) ==
    /\ Len(pages) >= 1 /\ Len(builds) >= 1
    /\ PagesFit(pages) /\ Starts(pages, start)
    /\ builds[1].page = 1 /\ builds[1].offset = Align(PageHeader)
    /\ \A b \in 1..Len(builds) : InPage(pages, builds[b])
    /\ \A b \in 1..Len(builds) :
           b + 1 \in 1..Len(builds) => Follows(pages, start, builds[b], builds[b + 1])
    /\ EndOf(builds[Len(builds)], start) = Position(start, Len(pages), pages[Len(pages)].used)

\* With more bytes the last page is not empty, unless the page before had no room
\* for a header
Filled(pages, more) ==
    \/ pages[Len(pages)].used + more > PageHeader
    \/ /\ Len(pages) >= 2
       /\ pages[Len(pages) - 1].used > PageHeader
       /\ pages[Len(pages) - 1].used + BuildSize > PageSize

Contents == {"header"} \cup (Nat \X Nat \X Nat)
PageRecords == {p \in [used : Nat, memory : Seq(Contents)] : Len(p.memory) = p.used}
BuildRecords == [item : Nat, type : Compound, parent : Nat, page : Nat, offset : Nat,
                 bytes : Nat, count : Nat, odd : BOOLEAN, nested : Int]

LEMMA Sizes ==
    /\ PageSize \in Nat /\ PageHeader \in Nat /\ BuildSize \in Nat /\ Alignment \in Nat
    /\ MinBuffer \in Nat /\ InitialBuffer \in Nat /\ LongTag \in Nat /\ FixCount \in Nat
    /\ PageHeader > 0 /\ BuildSize > 0 /\ Alignment > 0 /\ MinBuffer > 0 /\ LongTag > 0
    /\ MinBuffer <= InitialBuffer /\ PageSize >= PageHeader + BuildSize + MinBuffer
    /\ Alignment <= MinBuffer /\ MinBuffer <= BuildSize /\ LongTag <= MinBuffer
BY SizesAssumption

LEMMA AlignIs ==
    ASSUME NEW n \in Nat
    PROVE  Align(n) \in Nat /\ n <= Align(n) /\ Align(n) < n + Alignment
<1> DEFINE k == n + Alignment - 1
<1>1. k \in Nat /\ Alignment \in Nat \ {0}
  BY Sizes
<1>2. Align(n) = (k \div Alignment) * Alignment
  BY DEF Align
<1> HIDE DEF k
<1>3. (k \div Alignment) * Alignment <= k
  BY <1>1, SMT
<1>4. (k \div Alignment) * Alignment + Alignment > k
  BY <1>1, SMT
<1>5. (k \div Alignment) * Alignment \in Nat
  <2>1. k \div Alignment \in Nat
    BY <1>1, SMT
  <2> QED
    BY <2>1, <1>1, SMT
<1> DEFINE m == (k \div Alignment) * Alignment
<1>6. m \in Nat /\ m <= k /\ m + Alignment > k
  BY <1>3, <1>4, <1>5
<1> HIDE DEF m
<1>7. m \in Nat /\ n <= m /\ m < n + Alignment
  BY <1>1, <1>6, Sizes DEF k
<1> QED
  BY <1>2, <1>7 DEF m

\* The first header fits the first page
LEMMA FirstFits ==
    /\ Align(PageHeader) \in Nat /\ Align(PageHeader) >= PageHeader
    /\ Align(PageHeader) + BuildSize <= PageSize /\ ~Turns(PageHeader)
<1>1. Align(PageHeader) \in Nat /\ PageHeader <= Align(PageHeader) /\ Align(PageHeader) < PageHeader + Alignment
  BY AlignIs, Sizes
<1> QED
  BY <1>1, Sizes DEF Turns

LEMMA PageIs ==
    ASSUME NEW pages, NEW start, PagesFit(pages), Starts(pages, start), NEW p \in 1..Len(pages)
    PROVE  /\ start[p] \in Nat /\ pages[p].used \in Nat
           /\ pages[p].used >= PageHeader /\ pages[p].used <= PageSize
<1>1. start[p] \in Nat
  BY DEF Starts
<1>2. pages[p].used \in PageHeader..PageSize
  BY DEF PagesFit
<1> QED
  BY <1>1, <1>2, Sizes

\* An end is in one place
LEMMA OneEnd ==
    ASSUME NEW pages, Len(pages) \in Nat, NEW start, PagesFit(pages), Starts(pages, start), NEW position,
           NEW p, NEW o, Ends(pages, start, position, p, o),
           NEW q, NEW r, Ends(pages, start, position, q, r)
    PROVE  p = q /\ o = r
<1>1. p \in 1..Len(pages) /\ q \in 1..Len(pages)
  BY DEF Ends
<1> DEFINE s == start[p]
           t == start[q]
           u == pages[p].used
           v == pages[q].used
<1>2. s \in Nat /\ t \in Nat /\ u \in Nat /\ v \in Nat
  BY <1>1, PageIs
<1>3. o \in Nat /\ r \in Nat /\ o > PageHeader /\ r > PageHeader /\ o <= u /\ r <= v
  BY <1>2, Sizes DEF Ends
<1>4. s + (o - PageHeader) = t + (r - PageHeader)
  BY DEF Ends, Position
<1>5. ASSUME p < q PROVE FALSE
  <2>1. s + (u - PageHeader) <= t
    BY <1>1, <1>5 DEF Starts
  <2> HIDE DEF s, t, u, v
  <2> QED
    BY <2>1, <1>2, <1>3, <1>4, Sizes
<1>6. ASSUME q < p PROVE FALSE
  <2>1. t + (v - PageHeader) <= s
    BY <1>1, <1>6 DEF Starts
  <2> HIDE DEF s, t, u, v
  <2> QED
    BY <2>1, <1>2, <1>3, <1>4, Sizes
<1>7. p = q
  BY <1>1, <1>5, <1>6
<1> QED
  BY <1>2, <1>3, <1>4, <1>7, Sizes

LEMMA LastPosition ==
    ASSUME NEW pages, Len(pages) \in Nat, NEW start, PagesFit(pages), Starts(pages, start),
           NEW p \in 1..Len(pages), NEW o \in Int, o <= pages[p].used
    PROVE  Position(start, p, o) <= Position(start, Len(pages), pages[Len(pages)].used)
<1> DEFINE P == Len(pages)
<1>1. P \in 1..Len(pages) /\ p <= P
  OBVIOUS
<1>2. start[p] \in Nat /\ start[P] \in Nat /\ pages[p].used \in Nat /\ pages[P].used \in Nat
      /\ pages[P].used >= PageHeader
  BY <1>1, PageIs
<1>3. p < P => start[p] + (pages[p].used - PageHeader) <= start[P]
  BY <1>1 DEF Starts
<1> DEFINE s == start[p]
           t == start[P]
           u == pages[p].used
           v == pages[P].used
<1>4. p = P => s = t /\ u = v
  OBVIOUS
<1>5. /\ s \in Nat /\ t \in Nat /\ u \in Nat /\ v \in Nat /\ v >= PageHeader /\ PageHeader \in Nat
      /\ o <= u /\ (s + (u - PageHeader) <= t \/ (s = t /\ u = v))
  BY <1>1, <1>2, <1>3, <1>4, Sizes
<1> HIDE DEF s, t, u, v
<1>6. s + (o - PageHeader) <= t + (v - PageHeader)
  BY <1>5
<1> QED
  BY <1>6 DEF Position, P, s, t, u, v

\* Every build ends in the pages
LEMMA EndsInside ==
    ASSUME NEW pages, Len(pages) \in Nat, NEW builds, Len(builds) \in Nat, NEW start,
           Laid(pages, builds, start), NEW b \in 1..Len(builds)
    PROVE  /\ EndOf(builds[b], start) <= Position(start, Len(pages), pages[Len(pages)].used)
<1>1. CASE b = Len(builds)
  <2>1. EndOf(builds[b], start) = Position(start, Len(pages), pages[Len(pages)].used)
    BY <1>1 DEF Laid
  <2>2. Position(start, Len(pages), pages[Len(pages)].used) \in Int
    <3>1. start[Len(pages)] \in Nat /\ pages[Len(pages)].used \in Nat
      <4>1. Len(pages) \in 1..Len(pages) /\ PagesFit(pages) /\ Starts(pages, start)
        BY DEF Laid
      <4> QED
        BY <4>1, PageIs
    <3> DEFINE s == start[Len(pages)]
               u == pages[Len(pages)].used
    <3>0. s \in Nat /\ u \in Nat
      BY <3>1
    <3>2. Position(start, Len(pages), u) = s + (u - PageHeader)
      BY DEF Position
    <3> HIDE DEF s, u
    <3>3. s + (u - PageHeader) \in Int
      BY <3>0, Sizes
    <3> QED
      BY <3>2, <3>3 DEF u
  <2> QED
    BY <2>1, <2>2
<1>2. CASE b # Len(builds)
  <2>1. Follows(pages, start, builds[b], builds[b + 1])
    BY <1>2 DEF Laid
  <2>2. PICK p \in 1..Len(pages), o \in 0..PageSize : Ends(pages, start, EndOf(builds[b], start), p, o)
    BY <2>1 DEF Follows
  <2>3. o \in Int /\ o <= pages[p].used
    BY <2>2, Sizes DEF Ends
  <2>4. Position(start, p, o) <= Position(start, Len(pages), pages[Len(pages)].used)
    BY <2>3, LastPosition DEF Laid
  <2> QED
    BY <2>2, <2>4 DEF Ends
<1> QED
  BY <1>1, <1>2

\* The end of the last build, and where the next one would go
AtTheEnd(pages, p, offset) ==
    \/ p = Len(pages) /\ offset = pages[p].used
    \/ /\ Len(pages) >= 2 /\ p = Len(pages) - 1 /\ offset = pages[p].used
       /\ pages[Len(pages)].used = PageHeader /\ offset + BuildSize > PageSize
LastEnd(pages, builds, start, p, offset) ==
    Ends(pages, start, EndOf(builds[Len(builds)], start), p, offset)

LEMMA LastEnds ==
    ASSUME NEW pages, Len(pages) \in Nat, NEW builds, NEW start,
           Laid(pages, builds, start), Filled(pages, 0)
    PROVE  \E p \in 1..Len(pages) : \E offset \in 0..PageSize :
               LastEnd(pages, builds, start, p, offset) /\ AtTheEnd(pages, p, offset)
<1> DEFINE P == Len(pages)
           used == pages[P].used
           end == EndOf(builds[Len(builds)], start)
<1>1. P \in 1..Len(pages) /\ PagesFit(pages) /\ Starts(pages, start)
  BY DEF Laid
<1>2. used \in Nat /\ used >= PageHeader /\ used <= PageSize /\ start[P] \in Nat
  BY <1>1, PageIs
<1>3. end = Position(start, P, used)
  BY DEF Laid
<1>4. CASE used > PageHeader
  <2>1. used \in (PageHeader + 1)..pages[P].used /\ used \in 0..PageSize
    BY <1>2, <1>4, Sizes
  <2>2. Ends(pages, start, end, P, used)
    BY <1>1, <1>3, <2>1 DEF Ends
  <2>3. LastEnd(pages, builds, start, P, used) /\ AtTheEnd(pages, P, used)
    BY <2>2 DEF LastEnd, AtTheEnd
  <2> QED
    BY <1>1, <2>1, <2>3
<1>5. CASE ~(used > PageHeader)
  <2>1. used = PageHeader
    BY <1>2, <1>5, Sizes
  <2>2. ~(used + 0 > PageHeader)
    BY <1>2, <1>5
  <2>3. P >= 2 /\ pages[P - 1].used > PageHeader /\ pages[P - 1].used + BuildSize > PageSize
    BY <2>2 DEF Filled
  <2> DEFINE Q == P - 1
             o == pages[Q].used
  <2>4. Q \in 1..Len(pages) /\ Q + 1 = P
    BY <2>3
  <2>5. start[P] = start[Q] + (o - PageHeader)
    BY <1>1, <2>4 DEF Starts
  <2>6. o \in Nat /\ o <= PageSize /\ start[Q] \in Nat
    BY <1>1, <2>4, PageIs
  <2>7. o > PageHeader /\ o + BuildSize > PageSize
    BY <2>3
  <2>8. end = Position(start, Q, o)
    <3>1. start[P] + (used - PageHeader) = start[Q] + (o - PageHeader)
      <4> HIDE DEF o, used, P, Q
      <4> QED
        BY <1>2, <2>1, <2>5, <2>6, Sizes
    <3> QED
      BY <1>3, <3>1 DEF Position
  <2>9. o \in (PageHeader + 1)..o /\ o \in 0..PageSize
    BY <2>6, <2>7, Sizes
  <2>10. Ends(pages, start, end, Q, o)
    BY <2>4, <2>8, <2>9 DEF Ends
  <2>11. AtTheEnd(pages, Q, o)
    BY <2>1, <2>3, <2>7 DEF AtTheEnd
  <2>12. LastEnd(pages, builds, start, Q, o)
    BY <2>10 DEF LastEnd
  <2> QED
    BY <2>4, <2>9, <2>11, <2>12
<1> QED
  BY <1>4, <1>5

\* The same pages but for n more bytes in the last one, the same builds but for
\* n more bytes of the last one
SamePage(p, q) == p.used = q.used
SameBuild(b, c) == b.page = c.page /\ b.offset = c.offset /\ b.bytes = c.bytes
MorePages(pages, more, n) ==
    /\ Len(more) = Len(pages)
    /\ \A p \in 1..Len(pages) : p # Len(pages) => more[p].used = pages[p].used
    /\ more[Len(pages)].used = pages[Len(pages)].used + n
MoreBuilds(builds, more, n) ==
    /\ Len(more) = Len(builds)
    /\ \A b \in 1..Len(builds) :
           /\ more[b].page = builds[b].page /\ more[b].offset = builds[b].offset
           /\ b # Len(builds) => more[b].bytes = builds[b].bytes
    /\ more[Len(builds)].bytes = builds[Len(builds)].bytes + n

\* Pages that begin where others do and are no shorter
Longer(pages, more) ==
    /\ Len(pages) <= Len(more)
    /\ \A p \in 1..Len(pages) : more[p].used \in Nat /\ pages[p].used <= more[p].used

LEMMA EndsStays ==
    ASSUME NEW pages, Len(pages) \in Nat, NEW more, Len(more) \in Nat, Longer(pages, more),
           NEW start, PagesFit(pages), Starts(pages, start),
           NEW begin, \A p \in 1..Len(pages) : begin[p] = start[p],
           NEW position, NEW p, NEW o, Ends(pages, start, position, p, o)
    PROVE  Ends(more, begin, position, p, o)
<1>1. p \in 1..Len(pages) /\ o \in (PageHeader + 1)..pages[p].used /\ start[p] + (o - PageHeader) = position
  BY DEF Ends, Position
<1>2. p \in 1..Len(more) /\ begin[p] = start[p]
  BY <1>1 DEF Longer
<1>3. pages[p].used \in Nat /\ more[p].used \in Nat /\ pages[p].used <= more[p].used
  BY <1>1, PageIs DEF Longer
<1>4. o \in (PageHeader + 1)..more[p].used
  <2> DEFINE u == pages[p].used
             v == more[p].used
  <2>1. o \in (PageHeader + 1)..u /\ u \in Nat /\ v \in Nat /\ u <= v
    BY <1>1, <1>3
  <2> HIDE DEF u, v
  <2>2. o \in (PageHeader + 1)..v
    BY <2>1, Sizes
  <2> QED
    BY <2>2 DEF v
<1> QED
  BY <1>1, <1>2, <1>4 DEF Ends, Position

LEMMA InPageStays ==
    ASSUME NEW pages, Len(pages) \in Nat, NEW more, Len(more) \in Nat, Longer(pages, more),
           PagesFit(pages),
           NEW b, b.offset \in Nat, InPage(pages, b), NEW c, c.page = b.page, c.offset = b.offset
    PROVE  InPage(more, c)
<1> DEFINE u == pages[b.page].used
           v == more[b.page].used
           o == b.offset
<1>1. b.page \in 1..Len(pages) /\ o >= PageHeader /\ o + BuildSize <= u
  BY DEF InPage
<1>2. u \in PageHeader..PageSize /\ v \in Nat /\ u <= v
  BY <1>1 DEF Longer, PagesFit
<1>3. o \in Nat
  OBVIOUS
<1>4. b.page \in 1..Len(more)
  BY <1>1 DEF Longer
<1> HIDE DEF u, v, o
<1>5. o + BuildSize <= v
  BY <1>1, <1>2, <1>3, Sizes
<1> QED
  BY <1>1, <1>4, <1>5 DEF InPage, u, v, o

LEMMA FollowsStays ==
    ASSUME NEW pages, Len(pages) \in Nat, NEW more, Len(more) \in Nat, Longer(pages, more),
           NEW start, PagesFit(pages), Starts(pages, start),
           NEW begin, \A p \in 1..Len(pages) : begin[p] = start[p],
           NEW b, NEW c, Follows(pages, start, b, c), b.page \in 1..Len(pages),
           NEW b2, SameBuild(b, b2), NEW c2, c2.page = c.page, c2.offset = c.offset
    PROVE  Follows(more, begin, b2, c2)
<1>1. PICK p \in 1..Len(pages), o \in 0..PageSize :
         Ends(pages, start, EndOf(b, start), p, o) /\ c.page = NextPage(p, o) /\ c.offset = NextOffset(o)
  BY DEF Follows
<1>2. EndOf(b2, begin) = EndOf(b, start)
  BY DEF EndOf, Position, SameBuild
<1>3. Ends(more, begin, EndOf(b2, begin), p, o)
  BY <1>1, <1>2, EndsStays
<1>4. p \in 1..Len(more)
  BY DEF Longer
<1> QED
  BY <1>1, <1>3, <1>4 DEF Follows

LEMMA StartsMore ==
    ASSUME NEW pages, Len(pages) \in Nat, Len(pages) >= 1, NEW more, NEW n \in Nat, MorePages(pages, more, n),
           NEW start, Starts(pages, start)
    PROVE  Starts(more, start)
<1>1. Len(more) = Len(pages) /\ start \in [1..Len(more) -> Nat]
  BY DEF Starts, MorePages
<1>2. \A p \in 1..Len(pages) : p < Len(pages) => more[p].used = pages[p].used
  BY DEF MorePages
<1>3. ASSUME NEW p \in 1..Len(more), NEW q \in 1..Len(more), p < q
      PROVE  start[p] + (more[p].used - PageHeader) <= start[q]
  <2>1. more[p].used = pages[p].used
    BY <1>1, <1>2, <1>3
  <2> QED
    BY <1>1, <1>3, <2>1 DEF Starts
<1>4. ASSUME NEW p \in 1..Len(more), p + 1 \in 1..Len(more)
      PROVE  start[p + 1] = start[p] + (more[p].used - PageHeader)
  <2>1. more[p].used = pages[p].used
    BY <1>1, <1>2, <1>4
  <2> QED
    BY <1>1, <1>4, <2>1 DEF Starts
<1> QED
  BY <1>1, <1>3, <1>4 DEF Starts

LEMMA LaidMore ==
    ASSUME NEW pages, Len(pages) \in Nat, NEW builds, Len(builds) \in Nat, NEW start,
           Laid(pages, builds, start), NEW n \in Nat, pages[Len(pages)].used + n <= PageSize,
           \A b \in 1..Len(builds) : builds[b].offset \in Nat /\ builds[b].bytes \in Nat,
           NEW pages2, MorePages(pages, pages2, n), NEW builds2, MoreBuilds(builds, builds2, n)
    PROVE  Laid(pages2, builds2, start)
<1> DEFINE P == Len(pages)
           B == Len(builds)
<1>1. P >= 1 /\ B >= 1 /\ Len(pages2) = P /\ Len(builds2) = B /\ PagesFit(pages) /\ Starts(pages, start)
      /\ P \in 1..Len(pages) /\ B \in 1..Len(builds)
  BY DEF Laid, MorePages, MoreBuilds
<1>2. PagesFit(pages2) /\ Longer(pages, pages2)
  <2>1. ASSUME NEW p \in 1..P
        PROVE  pages2[p].used \in PageHeader..PageSize /\ pages2[p].used \in Nat /\ pages[p].used <= pages2[p].used
    <3> DEFINE u == pages[p].used
               v == pages2[p].used
    <3>1. u \in Nat /\ u >= PageHeader /\ u <= PageSize
      BY <1>1, PageIs
    <3>2. v = u \/ (v = u + n /\ u + n <= PageSize)
      BY <1>1 DEF MorePages
    <3> HIDE DEF u, v
    <3>3. v \in PageHeader..PageSize /\ v \in Nat /\ u <= v
      BY <3>1, <3>2, Sizes
    <3> QED
      BY <3>3 DEF u, v
  <2>2. \A p \in 1..Len(pages2) : pages2[p].used \in PageHeader..PageSize
    BY <1>1, <2>1
  <2>3. Len(pages) <= Len(pages2)
    BY <1>1
  <2>4. \A p \in 1..Len(pages) : pages2[p].used \in Nat /\ pages[p].used <= pages2[p].used
    BY <2>1
  <2> QED
    BY <2>2, <2>3, <2>4 DEF PagesFit, Longer
<1>3. Starts(pages2, start)
  BY <1>1, StartsMore
<1>4. builds2[1].page = 1 /\ builds2[1].offset = Align(PageHeader)
  BY <1>1 DEF Laid, MoreBuilds
<1>5. ASSUME NEW b \in 1..B PROVE InPage(pages2, builds2[b])
  <2>1. InPage(pages, builds[b]) /\ builds2[b].page = builds[b].page /\ builds2[b].offset = builds[b].offset
    BY DEF Laid, MoreBuilds
  <2> QED
    BY <1>1, <1>2, <2>1, InPageStays
<1>6. ASSUME NEW b \in 1..B, b + 1 \in 1..B PROVE Follows(pages2, start, builds2[b], builds2[b + 1])
  <2>1. Follows(pages, start, builds[b], builds[b + 1]) /\ builds[b].page \in 1..Len(pages)
    BY <1>6 DEF Laid, InPage
  <2>2. SameBuild(builds[b], builds2[b])
    BY <1>6 DEF MoreBuilds, SameBuild
  <2>3. builds2[b + 1].page = builds[b + 1].page /\ builds2[b + 1].offset = builds[b + 1].offset
    <3> DEFINE c == b + 1
    <3>1. c \in 1..B
      BY <1>6
    <3> HIDE DEF c
    <3>2. builds2[c].page = builds[c].page /\ builds2[c].offset = builds[c].offset
      BY <3>1 DEF MoreBuilds
    <3> QED
      BY <3>2 DEF c
  <2> DEFINE f == builds[b]
             f2 == builds2[b]
             g == builds[b + 1]
             g2 == builds2[b + 1]
  <2>4. /\ Follows(pages, start, f, g) /\ f.page \in 1..Len(pages)
        /\ SameBuild(f, f2) /\ g2.page = g.page /\ g2.offset = g.offset
    BY <2>1, <2>2, <2>3
  <2> HIDE DEF f, f2, g, g2
  <2>5. Follows(pages2, start, f2, g2)
    BY <1>1, <1>2, <2>4, FollowsStays
  <2> QED
    BY <2>5 DEF f2, g2
<1>7. EndOf(builds2[B], start) = Position(start, P, pages2[P].used)
  <2> DEFINE s == start[builds[B].page]
             o == builds[B].offset
             n0 == builds[B].bytes
             t == start[P]
             u == pages[P].used
  <2>1. s + (o - PageHeader) + (BuildSize + n0) = t + (u - PageHeader)
    BY DEF Laid, EndOf, Position
  <2>2. s \in Nat /\ t \in Nat /\ u \in Nat /\ o \in Nat /\ n0 \in Nat
    <3>1. builds[B].page \in 1..Len(pages)
      BY <1>1 DEF Laid, InPage
    <3> QED
      BY <3>1, <1>1, PageIs
  <2>3. builds2[B].page = builds[B].page /\ builds2[B].offset = o /\ builds2[B].bytes = n0 + n
    BY <1>1 DEF MoreBuilds
  <2>4. pages2[P].used = u + n
    BY DEF MorePages
  <2>5. EndOf(builds2[B], start) = s + (o - PageHeader) + (BuildSize + (n0 + n))
    BY <2>3 DEF EndOf, Position
  <2>6. Position(start, P, pages2[P].used) = t + ((u + n) - PageHeader)
    BY <2>4 DEF Position
  <2> HIDE DEF s, o, n0, t, u
  <2>7. s + (o - PageHeader) + (BuildSize + (n0 + n)) = t + ((u + n) - PageHeader)
    BY <2>1, <2>2, Sizes
  <2> QED
    BY <2>5, <2>6, <2>7
<1> QED
  BY <1>1, <1>2, <1>3, <1>4, <1>5, <1>6, <1>7 DEF Laid

\* One empty page more
OnePage(pages, more) ==
    /\ Len(more) = Len(pages) + 1
    /\ \A p \in 1..Len(pages) : more[p].used = pages[p].used
    /\ more[Len(pages) + 1].used = PageHeader
OneStart(pages, start) ==
    [p \in 1..(Len(pages) + 1) |->
        IF p <= Len(pages) THEN start[p]
        ELSE start[Len(pages)] + (pages[Len(pages)].used - PageHeader)]

LEMMA StartsPage ==
    ASSUME NEW pages, Len(pages) \in Nat, Len(pages) >= 1, NEW more, OnePage(pages, more),
           NEW start, Starts(pages, start), PagesFit(pages)
    PROVE  Starts(more, OneStart(pages, start))
<1> DEFINE P == Len(pages)
           begin == OneStart(pages, start)
           u == pages[P].used
           s == start[P]
<1>1. P \in 1..Len(pages) /\ P \in Nat /\ Len(more) = P + 1
  BY DEF OnePage
<1>2. s \in Nat /\ u \in Nat /\ u >= PageHeader
  BY <1>1, PageIs
<1>3. s + (u - PageHeader) \in Nat
  <2> HIDE DEF s, u
  <2> QED
    BY <1>2, Sizes
<1>4. \A p \in 1..P : begin[p] = start[p] /\ begin[p] \in Nat
  BY <1>1 DEF Starts, OneStart
<1>5. begin[P + 1] = s + (u - PageHeader)
  BY <1>1 DEF OneStart
<1>6. begin \in [1..Len(more) -> Nat]
  <2>1. \A p \in 1..(P + 1) : (IF p <= P THEN start[p] ELSE s + (u - PageHeader)) \in Nat
    BY <1>1, <1>3 DEF Starts
  <2> QED
    BY <1>1, <2>1 DEF OneStart
<1>7. ASSUME NEW p \in 1..P PROVE start[p] + (pages[p].used - PageHeader) <= begin[P + 1]
  <2>1. Position(start, p, pages[p].used) <= Position(start, P, u)
    <3>1. pages[p].used \in Int /\ pages[p].used <= pages[p].used
      BY PageIs
    <3> QED
      BY <3>1, LastPosition
  <2> QED
    BY <1>5, <2>1 DEF Position
<1>8. ASSUME NEW p \in 1..Len(more), NEW q \in 1..Len(more), p < q
      PROVE  begin[p] + (more[p].used - PageHeader) <= begin[q]
  <2>1. p \in 1..P /\ (q \in 1..P \/ q = P + 1)
    BY <1>1, <1>8
  <2>2. begin[p] = start[p] /\ more[p].used = pages[p].used
    BY <1>4, <2>1 DEF OnePage
  <2>3. CASE q \in 1..P
    <3>1. start[p] + (pages[p].used - PageHeader) <= start[q]
      BY <1>8, <2>1, <2>3 DEF Starts
    <3>2. begin[q] = start[q]
      BY <1>4, <2>3
    <3> QED
      BY <2>2, <3>1, <3>2
  <2>4. CASE q = P + 1
    BY <1>7, <2>1, <2>2, <2>4
  <2> QED
    BY <2>1, <2>3, <2>4
<1>9. ASSUME NEW p \in 1..Len(more), p + 1 \in 1..Len(more)
      PROVE  begin[p + 1] = begin[p] + (more[p].used - PageHeader)
  <2>1. p \in 1..P /\ (p + 1 \in 1..P \/ p = P)
    BY <1>1, <1>9
  <2>2. begin[p] = start[p] /\ more[p].used = pages[p].used
    BY <1>4, <2>1 DEF OnePage
  <2>3. CASE p + 1 \in 1..P
    <3>1. start[p + 1] = start[p] + (pages[p].used - PageHeader)
      BY <2>1, <2>3 DEF Starts
    <3>2. begin[p + 1] = start[p + 1]
      BY <1>4, <2>3
    <3> QED
      BY <2>2, <3>1, <3>2
  <2>4. CASE p = P
    BY <1>5, <2>2, <2>4
  <2> QED
    BY <2>1, <2>3, <2>4
<1> QED
  BY <1>6, <1>8, <1>9 DEF Starts

LEMMA LaidPage ==
    ASSUME NEW pages, Len(pages) \in Nat, NEW builds, Len(builds) \in Nat, NEW start,
           Laid(pages, builds, start), \A b \in 1..Len(builds) : builds[b].offset \in Nat,
           NEW pages2, OnePage(pages, pages2)
    PROVE  /\ Laid(pages2, builds, OneStart(pages, start))
           /\ \A p : \A offset : LastEnd(pages, builds, start, p, offset)
                  => LastEnd(pages2, builds, OneStart(pages, start), p, offset)
<1> DEFINE P == Len(pages)
           B == Len(builds)
           begin == OneStart(pages, start)
           u == pages[P].used
           s == start[P]
<1>1. P >= 1 /\ B >= 1 /\ Len(pages2) = P + 1 /\ Len(pages2) \in Nat /\ PagesFit(pages) /\ Starts(pages, start)
      /\ P \in 1..Len(pages) /\ B \in 1..Len(builds)
  BY DEF Laid, OnePage
<1>2. \A p \in 1..P : pages[p].used \in Nat /\ pages[p].used \in PageHeader..PageSize
  BY <1>1, PageIs DEF PagesFit
<1>3. PagesFit(pages2) /\ Longer(pages, pages2)
  <2>1. \A p \in 1..P : pages2[p].used = pages[p].used
    BY DEF OnePage
  <2>2. PageHeader \in PageHeader..PageSize
    BY Sizes
  <2>3. ASSUME NEW p \in 1..Len(pages2) PROVE pages2[p].used \in PageHeader..PageSize
    <3>1. p \in 1..P \/ p = P + 1
      BY <1>1
    <3> QED
      BY <3>1, <1>2, <2>1, <2>2 DEF OnePage
  <2>4. \A p \in 1..P : pages2[p].used \in Nat /\ pages[p].used <= pages2[p].used
    BY <1>2, <2>1
  <2> QED
    BY <1>1, <2>3, <2>4 DEF PagesFit, Longer
<1>4. Starts(pages2, begin)
  BY <1>1, StartsPage
<1>5. \A p \in 1..P : begin[p] = start[p]
  BY <1>1 DEF OneStart
<1>6. ASSUME NEW b \in 1..B PROVE InPage(pages2, builds[b])
  <2>1. InPage(pages, builds[b])
    BY DEF Laid
  <2> QED
    BY <1>1, <1>3, <2>1, InPageStays
<1>7. ASSUME NEW b \in 1..B, b + 1 \in 1..B PROVE Follows(pages2, begin, builds[b], builds[b + 1])
  <2>1. Follows(pages, start, builds[b], builds[b + 1]) /\ builds[b].page \in 1..Len(pages)
    BY <1>7 DEF Laid, InPage
  <2>2. SameBuild(builds[b], builds[b])
    BY DEF SameBuild
  <2> HIDE DEF begin
  <2> QED
    BY <1>1, <1>3, <1>5, <2>1, <2>2, FollowsStays
<1>8. EndOf(builds[B], begin) = EndOf(builds[B], start)
  <2>1. builds[B].page \in 1..P
    BY <1>1 DEF Laid, InPage
  <2> QED
    BY <1>5, <2>1 DEF EndOf, Position
<1>9. EndOf(builds[B], begin) = Position(begin, P + 1, pages2[P + 1].used)
  <2>1. EndOf(builds[B], start) = s + (u - PageHeader)
    BY DEF Laid, Position
  <2>2. begin[P + 1] = s + (u - PageHeader)
    BY <1>1 DEF OneStart
  <2>3. Position(begin, P + 1, pages2[P + 1].used) = (s + (u - PageHeader)) + (PageHeader - PageHeader)
    BY <2>2 DEF Position, OnePage
  <2>4. s \in Nat /\ u \in Nat
    BY <1>1, PageIs
  <2> HIDE DEF s, u
  <2>5. (s + (u - PageHeader)) + (PageHeader - PageHeader) = s + (u - PageHeader)
    BY <2>4, Sizes
  <2> QED
    BY <1>8, <2>1, <2>3, <2>5
<1>10. Laid(pages2, builds, begin)
  <2>1. builds[1].page = 1 /\ builds[1].offset = Align(PageHeader)
    BY DEF Laid
  <2>2. Len(pages2) >= 1
    BY <1>1
  <2> HIDE DEF begin
  <2> QED
    BY <1>1, <1>3, <1>4, <1>6, <1>7, <1>9, <2>1, <2>2 DEF Laid
<1>11. ASSUME NEW p, NEW o, LastEnd(pages, builds, start, p, o)
       PROVE  LastEnd(pages2, builds, begin, p, o)
  <2>1. Ends(pages, start, EndOf(builds[B], begin), p, o)
    BY <1>8, <1>11 DEF LastEnd
  <2> HIDE DEF begin
  <2>2. Ends(pages2, begin, EndOf(builds[B], begin), p, o)
    BY <1>1, <1>3, <1>5, <2>1, EndsStays
  <2> QED
    BY <2>2 DEF LastEnd
<1> QED
  BY <1>10, <1>11

\* A header at an offset of the last page, which it then fills to the end of the header
HeaderPages(pages, more, offset) ==
    /\ Len(more) = Len(pages)
    /\ \A p \in 1..Len(pages) : p # Len(pages) => more[p].used = pages[p].used
    /\ more[Len(pages)].used = offset + BuildSize
OneBuild(builds, more, page, offset) ==
    /\ Len(more) = Len(builds) + 1
    /\ \A b \in 1..Len(builds) : more[b] = builds[b]
    /\ more[Len(builds) + 1].page = page /\ more[Len(builds) + 1].offset = offset
    /\ more[Len(builds) + 1].bytes = 0
Continues(pages, builds, start, offset) ==
    \E p \in 1..Len(pages) : \E o \in 0..PageSize :
        LastEnd(pages, builds, start, p, o) /\ NextPage(p, o) = Len(pages) /\ NextOffset(o) = offset

LEMMA LaidHeader ==
    ASSUME NEW pages, Len(pages) \in Nat, NEW builds, Len(builds) \in Nat, NEW start,
           Laid(pages, builds, start), \A b \in 1..Len(builds) : builds[b].offset \in Nat,
           NEW offset \in Nat, Continues(pages, builds, start, offset),
           offset >= pages[Len(pages)].used, offset + BuildSize <= PageSize,
           NEW pages2, HeaderPages(pages, pages2, offset),
           NEW builds2, OneBuild(builds, builds2, Len(pages), offset)
    PROVE  Laid(pages2, builds2, start)
<1> DEFINE P == Len(pages)
           B == Len(builds)
           u == pages[P].used
           s == start[P]
<1>1. P >= 1 /\ B >= 1 /\ Len(pages2) = P /\ Len(builds2) = B + 1 /\ Len(builds2) \in Nat
      /\ PagesFit(pages) /\ Starts(pages, start) /\ P \in 1..Len(pages) /\ B \in 1..Len(builds)
  BY DEF Laid, HeaderPages, OneBuild
<1>2. u \in Nat /\ u >= PageHeader /\ s \in Nat
  BY <1>1, PageIs
<1> DEFINE n == offset + BuildSize - u
<1>3. n \in Nat /\ u + n = offset + BuildSize
  <2>1. u <= offset
    OBVIOUS
  <2> HIDE DEF u
  <2> QED
    BY <1>2, <2>1, Sizes
<1>4. MorePages(pages, pages2, n)
  BY <1>3 DEF HeaderPages, MorePages
<1> HIDE DEF n
<1>5. PagesFit(pages2) /\ Longer(pages, pages2)
  <2>1. ASSUME NEW p \in 1..P
        PROVE  pages2[p].used \in PageHeader..PageSize /\ pages2[p].used \in Nat /\ pages[p].used <= pages2[p].used
    <3> DEFINE x == pages[p].used
               y == pages2[p].used
    <3>1. x \in Nat /\ x >= PageHeader /\ x <= PageSize
      BY <1>1, PageIs
    <3>2. y = x \/ (y = offset + BuildSize /\ x <= offset)
      BY <1>1 DEF HeaderPages
    <3> HIDE DEF x, y
    <3>3. y \in PageHeader..PageSize /\ y \in Nat /\ x <= y
      BY <3>1, <3>2, Sizes
    <3> QED
      BY <3>3 DEF x, y
  <2> QED
    BY <2>1, <1>1 DEF PagesFit, Longer
<1>6. Starts(pages2, start)
  BY <1>1, <1>3, <1>4, StartsMore
<1>7. builds2[1].page = 1 /\ builds2[1].offset = Align(PageHeader)
  <2>1. builds2[1] = builds[1]
    BY <1>1 DEF OneBuild
  <2> QED
    BY <2>1 DEF Laid
<1>8. InPage(pages2, builds2[B + 1])
  <2>1. builds2[B + 1].page = P /\ builds2[B + 1].offset = offset /\ pages2[P].used = offset + BuildSize
    BY DEF OneBuild, HeaderPages
  <2>2. offset >= PageHeader
    <3>1. u <= offset
      OBVIOUS
    <3> HIDE DEF u
    <3> QED
      BY <1>2, <3>1, Sizes
  <2>3. offset + BuildSize <= offset + BuildSize
    BY Sizes
  <2> QED
    BY <1>1, <2>1, <2>2, <2>3 DEF InPage
<1>9. ASSUME NEW b \in 1..(B + 1) PROVE InPage(pages2, builds2[b])
  <2>1. b \in 1..B \/ b = B + 1
    BY <1>1
  <2>2. CASE b \in 1..B
    <3>1. InPage(pages, builds[b]) /\ builds2[b] = builds[b] /\ builds[b].offset \in Nat
      BY <2>2 DEF Laid, OneBuild
    <3>2. builds2[b].page = builds[b].page /\ builds2[b].offset = builds[b].offset /\ Len(pages2) \in Nat
      BY <1>1, <3>1
    <3> QED
      BY <1>1, <1>5, <3>1, <3>2, InPageStays
  <2> QED
    BY <1>8, <2>1, <2>2
<1>10. ASSUME NEW b \in 1..B PROVE Follows(pages2, start, builds2[b], builds2[b + 1])
  <2>1. builds2[b] = builds[b] /\ builds[b].page \in 1..Len(pages) /\ Len(pages2) \in Nat
    BY <1>1 DEF OneBuild, Laid, InPage
  <2>2. SameBuild(builds[b], builds2[b])
    BY <2>1 DEF SameBuild
  <2>3. \A p \in 1..Len(pages) : start[p] = start[p]
    OBVIOUS
  <2>4. CASE b = B
    <3>1. PICK p \in 1..Len(pages), o \in 0..PageSize :
             LastEnd(pages, builds, start, p, o) /\ NextPage(p, o) = P /\ NextOffset(o) = offset
      BY DEF Continues
    <3>2. Follows(pages, start, builds[b], builds2[b + 1])
      <4>1. builds2[b + 1].page = P /\ builds2[b + 1].offset = offset
        BY <2>4 DEF OneBuild
      <4>2. Ends(pages, start, EndOf(builds[b], start), p, o)
        BY <2>4, <3>1 DEF LastEnd
      <4> QED
        BY <3>1, <4>1, <4>2 DEF Follows
    <3> QED
      BY <1>1, <1>5, <2>1, <2>2, <2>3, <3>2, FollowsStays
  <2>5. CASE b # B
    <3>1. b + 1 \in 1..B
      BY <1>1, <2>5
    <3>2. Follows(pages, start, builds[b], builds[b + 1]) /\ builds2[b + 1] = builds[b + 1]
      BY <3>1 DEF Laid, OneBuild
    <3> QED
      BY <1>1, <1>5, <2>1, <2>2, <2>3, <3>2, FollowsStays
  <2> QED
    BY <2>4, <2>5
<1>11. EndOf(builds2[B + 1], start) = Position(start, P, pages2[P].used)
  <2>1. builds2[B + 1].page = P /\ builds2[B + 1].offset = offset /\ builds2[B + 1].bytes = 0
        /\ pages2[P].used = offset + BuildSize
    BY DEF OneBuild, HeaderPages
  <2>2. s + (offset - PageHeader) + (BuildSize + 0) = s + ((offset + BuildSize) - PageHeader)
    <3> HIDE DEF s
    <3> QED
      BY <1>2, Sizes
  <2> QED
    BY <2>1, <2>2 DEF EndOf, Position
<1>12. ASSUME NEW b \in 1..Len(builds2), b + 1 \in 1..Len(builds2)
       PROVE  Follows(pages2, start, builds2[b], builds2[b + 1])
  <2>1. b \in 1..B
    BY <1>1, <1>12
  <2> QED
    BY <1>10, <2>1
<1> QED
  BY <1>1, <1>5, <1>6, <1>7, <1>9, <1>11, <1>12 DEF Laid

LEMMA LaidFirst ==
    ASSUME NEW pages, Len(pages) = 1, pages[1].used = Align(PageHeader) + BuildSize,
           NEW builds, Len(builds) = 1, builds[1].page = 1, builds[1].offset = Align(PageHeader),
           builds[1].bytes = 0
    PROVE  \E start : Laid(pages, builds, start)
<1> DEFINE start == [p \in 1..1 |-> 0]
           o == Align(PageHeader)
<1>1. start[1] = 0 /\ start \in [1..1 -> Nat]
  OBVIOUS
<1>2. o \in Nat /\ o >= PageHeader /\ o + BuildSize <= PageSize
  BY FirstFits
<1>3. \A p \in 1..1 : p = 1
  OBVIOUS
<1>4. PagesFit(pages)
  <2>1. o + BuildSize \in PageHeader..PageSize
    <3> HIDE DEF o
    <3> QED
      BY <1>2, Sizes
  <2> QED
    BY <1>3, <2>1 DEF PagesFit
<1>5. Starts(pages, start)
  <2> HIDE DEF start
  <2> QED
    BY <1>1, <1>3 DEF Starts
<1>6. InPage(pages, builds[1])
  <2>1. o + BuildSize <= o + BuildSize
    <3> HIDE DEF o
    <3> QED
      BY <1>2, Sizes
  <2> QED
    BY <1>2, <2>1 DEF InPage
<1>7. EndOf(builds[1], start) = Position(start, 1, pages[1].used)
  <2>1. 0 + (o - PageHeader) + (BuildSize + 0) = 0 + ((o + BuildSize) - PageHeader)
    <3> HIDE DEF o
    <3> QED
      BY <1>2, Sizes
  <2> QED
    BY <1>1, <2>1 DEF EndOf, Position
<1> HIDE DEF start
<1>8. Laid(pages, builds, start)
  BY <1>3, <1>4, <1>5, <1>6, <1>7 DEF Laid
<1> QED
  BY <1>8

-----------------------------------------------------------------------------
(* The parts of a writer                                                    *)

HasFields(x) ==
    {"sink", "file", "error", "buffer", "size", "allocations", "track", "capacity", "pages", "page",
     "live", "base", "pending", "builds", "build", "latest"} \subseteq DOMAIN x

\* The real buffer holds what is in it, and one that can grow is not empty
BufferFits(x) ==
    /\ x.sink \in {"growable", "fixed", "file"} \X Nat
    /\ x.file \in Seq(Contents) /\ Len(x.file) <= x.sink[2]
    /\ x.buffer \in Seq(Contents)
    /\ x.size \in Nat /\ x.allocations \in Nat /\ x.error \in Errors
    /\ Len(x.buffer) <= x.size
    /\ x.error = "ok" => (~Fixed(x) => x.size >= 1)

BuilderTyped(x) ==
    /\ x.pages \in Seq(PageRecords) /\ x.builds \in Seq(BuildRecords)
    /\ \A b \in 1..Len(x.builds) : x.builds[b].parent \in 0..(b - 1)
    /\ x.page \in 0..Len(x.pages) /\ x.live \subseteq 1..Len(x.pages)
    /\ x.base \in Nat /\ x.pending \in Seq(Contents)
    /\ x.build \in 0..Len(x.builds) /\ x.latest \in 0..Len(x.builds)
    /\ x.build # NULL => x.page \in 1..Len(x.pages) /\ x.latest \in 1..Len(x.builds)

Typed(x) == HasFields(x) /\ BufferFits(x) /\ BuilderTyped(x)

\* The pages with all that was applied to them
Applied(x, start) ==
    /\ x.page = Len(x.pages) /\ x.latest = Len(x.builds) /\ x.live = 1..Len(x.pages)
    /\ Laid(x.pages, x.builds, start)
\* The pages while builds are open, with the bytes that are still pending
Open(x, start) ==
    /\ Applied(x, start)
    /\ x.base = x.pages[x.page].used /\ x.base + Len(x.pending) <= PageSize
    /\ Filled(x.pages, Len(x.pending))

\* What holds of a writer between any two of the calls it makes itself
Sound(x) ==
    /\ Typed(x) /\ Bounded(x)
    /\ x.error = "ok" => PagesFit(x.pages)
    /\ x.build = NULL => x.latest = NULL
    /\ x.error = "ok" /\ x.build # NULL => \E start : Open(x, start)

SameBuilder(x, y) ==
    /\ y.pages = x.pages /\ y.page = x.page /\ y.live = x.live /\ y.base = x.base
    /\ y.pending = x.pending /\ y.builds = x.builds /\ y.build = x.build /\ y.latest = x.latest
SameBuffer(x, y) ==
    y.sink = x.sink /\ y.file = x.file /\ y.buffer = x.buffer /\ y.size = x.size

\* Writing leaves the builder of a writer without open builds alone
Written(x, y) ==
    /\ DOMAIN y = DOMAIN x /\ y.sink = x.sink /\ y.build = x.build
    /\ x.build = NULL => SameBuilder(x, y)

LEMMA WrittenSelf == \A x : Written(x, x)
BY DEF Written, SameBuilder

LEMMA WrittenThen ==
    ASSUME NEW x, NEW y, NEW z, Written(x, y), Written(y, z)
    PROVE  Written(x, z)
BY DEF Written, SameBuilder

LEMMA FlagIs ==
    ASSUME NEW x, HasFields(x), NEW e
    PROVE  /\ DOMAIN FlagError(x, e) = DOMAIN x
           /\ SameBuilder(x, FlagError(x, e)) /\ SameBuffer(x, FlagError(x, e))
           /\ FlagError(x, e).allocations = x.allocations
           /\ x.error = "ok" => FlagError(x, e).error = e
           /\ x.error # "ok" => FlagError(x, e) = x
BY DEF HasFields, FlagError, SameBuilder, SameBuffer

LEMMA AllocationIs ==
    ASSUME NEW x, HasFields(x)
    PROVE  /\ DOMAIN Allocation(x) = DOMAIN x
           /\ SameBuilder(x, Allocation(x)) /\ SameBuffer(x, Allocation(x))
           /\ Allocation(x).allocations = x.allocations + 1 /\ Allocation(x).error = x.error
BY DEF HasFields, Allocation, SameBuilder, SameBuffer

LEMMA TypedBy ==
    ASSUME NEW x, Typed(x), NEW y, DOMAIN y = DOMAIN x, SameBuilder(x, y), BufferFits(y)
    PROVE  Typed(y)
<1>1. HasFields(y)
  BY DEF Typed, HasFields
<1>2. BuilderTyped(y)
  BY DEF Typed, BuilderTyped, SameBuilder
<1> QED
  BY <1>1, <1>2 DEF Typed

LEMMA OpenBy ==
    ASSUME NEW x, NEW start, Open(x, start), NEW y, SameBuilder(x, y)
    PROVE  Open(y, start)
BY DEF Open, Applied, SameBuilder

\* Pages that fit leave nothing to overflow, whatever the error
LEMMA BoundedIs ==
    ASSUME NEW x, Typed(x), PagesFit(x.pages), x.base + Len(x.pending) <= PageSize
    PROVE  Bounded(x)
<1>1. Len(x.buffer) <= x.size /\ x.live \subseteq 1..Len(x.pages)
  BY DEF Typed, BufferFits, BuilderTyped
<1>2. \A p \in x.live : x.pages[p].used <= PageSize
  BY <1>1, Sizes DEF PagesFit
<1> QED
  BY <1>1, <1>2 DEF Bounded

LEMMA BoundedBy ==
    ASSUME NEW x, Bounded(x), NEW y, BufferFits(y), SameBuilder(x, y),
           x.error # "ok" => y.error = x.error
    PROVE  Bounded(y)
<1>1. Len(y.buffer) <= y.size
  BY DEF BufferFits
<1>2. y.base + Len(y.pending) <= PageSize
  BY DEF Bounded, SameBuilder
<1>3. \A p \in y.live : y.pages[p].used <= PageSize \/ HeaderPastPage(y, p)
  <2>1. TAKE p \in y.live
  <2>2. x.pages[p].used <= PageSize \/ HeaderPastPage(x, p)
    BY DEF Bounded, SameBuilder
  <2>3. HeaderPastPage(x, p) => HeaderPastPage(y, p)
    BY Zenon DEF HeaderPastPage, SameBuilder
  <2> QED
    BY <2>2, <2>3 DEF SameBuilder
<1> QED
  BY <1>1, <1>2, <1>3 DEF Bounded

LEMMA SoundBy ==
    ASSUME NEW x, Sound(x), NEW y, DOMAIN y = DOMAIN x, SameBuilder(x, y), BufferFits(y),
           x.error # "ok" => y.error = x.error
    PROVE  Sound(y) /\ (y.sink = x.sink => Written(x, y))
<1>0. Bounded(y)
  BY BoundedBy DEF Sound
<1>1. Typed(y)
  BY TypedBy DEF Sound
<1>2. y.error = "ok" => PagesFit(y.pages)
  BY DEF Sound, SameBuilder
<1>3. y.build = NULL => y.latest = NULL
  BY DEF Sound, SameBuilder
<1>4. ASSUME y.error = "ok", y.build # NULL PROVE \E start : Open(y, start)
  <2>1. x.error = "ok" /\ x.build # NULL
    BY <1>4 DEF SameBuilder
  <2>2. PICK start : Open(x, start)
    BY <2>1 DEF Sound
  <2> QED
    BY <2>2, OpenBy
<1>5. y.sink = x.sink => Written(x, y)
  BY DEF Written, SameBuilder
<1> QED
  BY <1>0, <1>1, <1>2, <1>3, <1>4, <1>5 DEF Sound

\* Flagging an error
LEMMA FlagSound ==
    ASSUME NEW x, Sound(x), NEW e \in Errors \ {"ok"}
    PROVE  Sound(FlagError(x, e)) /\ Written(x, FlagError(x, e)) /\ FlagError(x, e).error # "ok"
<1> DEFINE y == FlagError(x, e)
<1>1. HasFields(x) /\ BufferFits(x)
  BY DEF Sound, Typed
<1>2. /\ DOMAIN y = DOMAIN x /\ SameBuilder(x, y) /\ SameBuffer(x, y) /\ y.allocations = x.allocations
      /\ x.error = "ok" => y.error = e
      /\ x.error # "ok" => y = x
  BY <1>1, FlagIs, Zenon
<1> HIDE DEF y
<1>3. y.error # "ok" /\ y.error \in Errors
  BY <1>1, <1>2 DEF BufferFits
<1>4. BufferFits(y)
  BY <1>1, <1>2, <1>3 DEF BufferFits, SameBuffer
<1>5. Sound(y) /\ Written(x, y)
  <2>1. y.sink = x.sink
    BY <1>2 DEF SameBuffer
  <2> QED
    BY <1>2, <1>3, <1>4, <2>1, SoundBy
<1> QED
  BY <1>3, <1>5 DEF y

\* A failed allocation
LEMMA AllocatedSound ==
    ASSUME NEW x, Sound(x)
    PROVE  /\ Sound(Allocation(x)) /\ Written(x, Allocation(x)) /\ Allocation(x).error = x.error
           /\ SameBuilder(x, Allocation(x)) /\ SameBuffer(x, Allocation(x))
<1> DEFINE y == Allocation(x)
<1>1. HasFields(x) /\ BufferFits(x)
  BY DEF Sound, Typed
<1>2. /\ DOMAIN y = DOMAIN x /\ SameBuilder(x, y) /\ SameBuffer(x, y)
      /\ y.allocations = x.allocations + 1 /\ y.error = x.error
  BY <1>1, AllocationIs, Zenon
<1> HIDE DEF y
<1>3. BufferFits(y)
  <2>1. y.allocations \in Nat
    BY <1>1, <1>2 DEF BufferFits
  <2>2. Fixed(y) = Fixed(x)
    BY <1>2 DEF Fixed, SameBuffer
  <2> QED
    BY <1>1, <1>2, <2>1, <2>2 DEF BufferFits, SameBuffer
<1>4. Sound(y) /\ Written(x, y)
  <2>1. y.sink = x.sink
    BY <1>2 DEF SameBuffer
  <2> QED
    BY <1>2, <1>3, <2>1, SoundBy
<1> QED
  BY <1>2, <1>4 DEF y

LEMMA FailedSound ==
    ASSUME NEW x, Sound(x)
    PROVE  /\ Sound(FlagError(Allocation(x), "memory")) /\ Written(x, FlagError(Allocation(x), "memory"))
           /\ FlagError(Allocation(x), "memory").error # "ok"
<1>1. Sound(Allocation(x)) /\ Written(x, Allocation(x))
  BY AllocatedSound
<1>2. "memory" \in Errors \ {"ok"}
  BY DEF Errors
<1> QED
  BY <1>1, <1>2, FlagSound, WrittenThen

-----------------------------------------------------------------------------
(* The real buffer                                                          *)

\* A size doubled k times
Doubles(size, k, g) == g = [n \in 0..k |-> IF n = 0 THEN size ELSE 2 * g[n - 1]]
Doubled(size, k, g) == g[0] = size /\ \A n \in 1..k : g[n] = 2 * g[n - 1]

LEMMA DoublesFacts ==
    ASSUME NEW size, NEW k \in Nat, NEW g, Doubles(size, k, g)
    PROVE  Doubled(size, k, g)
<1> DEFINE step(n) == IF n = 0 THEN size ELSE 2 * g[n - 1]
           G == [n \in 0..k |-> step(n)]
<1>1. g = G
  BY Zenon DEF Doubles
<1>2. \A n \in 0..k : G[n] = step(n)
  BY Zenon
<1> HIDE DEF G
<1>3. \A n \in 0..k : g[n] = step(n)
  BY <1>1, <1>2, Zenon
<1>4. 0 \in 0..k /\ \A n \in 1..k : n \in 0..k /\ n # 0
  OBVIOUS
<1>5. g[0] = size
  <2>1. g[0] = step(0)
    BY <1>3, <1>4, Zenon
  <2> QED
    BY <2>1, Zenon
<1>6. ASSUME NEW n \in 1..k PROVE g[n] = 2 * g[n - 1]
  <2>1. g[n] = step(n) /\ n # 0
    BY <1>3, <1>4, Zenon
  <2> QED
    BY <2>1, Zenon
<1> QED
  BY <1>5, <1>6, Zenon DEF Doubled

LEMMA DoublesMore ==
    ASSUME NEW size, NEW k \in Nat, NEW g, Doubles(size, k, g)
    PROVE  \E h : Doubles(size, k + 1, h)
<1> DEFINE last == 2 * g[k]
           h == [n \in 0..k + 1 |-> IF n <= k THEN g[n] ELSE last]
           step(n) == IF n = 0 THEN size ELSE 2 * h[n - 1]
<1>1. g[0] = size /\ \A n \in 1..k : g[n] = 2 * g[n - 1]
  <2>1. Doubled(size, k, g)
    BY DoublesFacts, Zenon
  <2> QED
    BY <2>1, Zenon DEF Doubled
<1>2. \A n \in 0..k : h[n] = g[n]
  OBVIOUS
<1>3. h[k + 1] = last
  OBVIOUS
<1>4. ASSUME NEW n \in 0..k + 1 PROVE h[n] = step(n)
  <2>1. CASE n = 0
    BY <1>1, <1>2, <2>1
  <2>2. CASE n \in 1..k
    <3>1. n - 1 \in 0..k /\ n \in 0..k /\ n # 0
      BY <2>2
    <3> HIDE DEF h
    <3> QED
      BY <1>1, <1>2, <2>2, <3>1
  <2>3. CASE n = k + 1
    <3>1. n - 1 = k /\ k \in 0..k /\ n # 0
      BY <2>3
    <3> HIDE DEF h
    <3> QED
      BY <1>2, <1>3, <2>3, <3>1
  <2> QED
    BY <2>1, <2>2, <2>3
<1>5. h = [n \in 0..k + 1 |-> h[n]]
  OBVIOUS
<1>6. [n \in 0..k + 1 |-> h[n]] = [n \in 0..k + 1 |-> step(n)]
  <2> HIDE DEF h
  <2> QED
    BY <1>4
<1>7. Doubles(size, k + 1, h)
  <2> HIDE DEF h
  <2> QED
    BY <1>5, <1>6, Zenon DEF Doubles
<1> QED
  BY <1>7

LEMMA DoublesIs ==
    ASSUME NEW size, NEW k \in Nat
    PROVE  \E g : Doubles(size, k, g)
<1> DEFINE S == {n \in Nat : ~\E g : Doubles(size, n, g)}
<1>1. SUFFICES ASSUME S # {} PROVE FALSE
  BY <1>1
<1>2. PICK n \in S : \A m \in S : n <= m
  BY <1>1, LeastNatural
<1>3. n \in Nat /\ ~\E g : Doubles(size, n, g)
  OBVIOUS
<1>4. n # 0
  <2> DEFINE g == [i \in 0..0 |-> size]
  <2>1. g = [i \in 0..0 |-> IF i = 0 THEN size ELSE 2 * g[i - 1]]
    OBVIOUS
  <2>2. Doubles(size, 0, g)
    <3> HIDE DEF g
    <3> QED
      BY <2>1 DEF Doubles
  <2> HIDE DEF g
  <2> QED
    BY <1>3, <2>2
<1>5. n - 1 \in Nat /\ ~(n <= n - 1) /\ (n - 1) + 1 = n
  BY <1>3, <1>4
<1>6. PICK g : Doubles(size, n - 1, g)
  BY <1>2, <1>5
<1>7. \E h : Doubles(size, n, h)
  BY <1>5, <1>6, DoublesMore
<1> QED
  BY <1>3, <1>7

\* A size that is not zero exceeds k when it is doubled k times
LEMMA DoubledExceeds ==
    ASSUME NEW size \in Nat, size >= 1, NEW k \in Nat, NEW g, Doubled(size, k, g), NEW m \in 0..k
    PROVE  g[m] \in Nat /\ g[m] > m
<1> DEFINE S == {n \in 0..k : ~(g[n] \in Nat /\ g[n] > n)}
<1>1. SUFFICES ASSUME S # {} PROVE FALSE
  BY <1>1
<1>2. S \subseteq Nat
  OBVIOUS
<1>3. PICK n \in S : \A j \in S : n <= j
  BY <1>1, <1>2, LeastNatural
<1>4. n \in 0..k /\ ~(g[n] \in Nat /\ g[n] > n)
  OBVIOUS
<1>5. n # 0
  BY <1>4 DEF Doubled
<1>6. n \in 1..k /\ n - 1 \in 0..k /\ ~(n <= n - 1)
  BY <1>4, <1>5
<1>7. g[n - 1] \in Nat /\ g[n - 1] > n - 1
  BY <1>3, <1>6
<1>8. g[n] = 2 * g[n - 1]
  BY <1>6 DEF Doubled
<1> DEFINE a == g[n - 1]
<1>9. a \in Nat /\ a > n - 1 /\ g[n] = 2 * a
  BY <1>7, <1>8
<1> HIDE DEF a
<1>10. 2 * a \in Nat /\ 2 * a > n
  BY <1>6, <1>9
<1> QED
  BY <1>4, <1>9, <1>10

\* It doubles at least, if it is doubled at all
LEMMA DoubledGrows ==
    ASSUME NEW size \in Nat, size >= 1, NEW k \in Nat, NEW g, Doubled(size, k, g), NEW m \in 1..k
    PROVE  g[m] >= 2 * size
<1> DEFINE S == {n \in 1..k : ~(g[n] >= 2 * size)}
<1>1. SUFFICES ASSUME S # {} PROVE FALSE
  BY <1>1
<1>2. S \subseteq Nat
  OBVIOUS
<1>3. PICK n \in S : \A j \in S : n <= j
  BY <1>1, <1>2, LeastNatural
<1>4. n \in 1..k /\ ~(g[n] >= 2 * size) /\ g[n] = 2 * g[n - 1]
  BY DEF Doubled
<1>5. n # 1
  BY <1>4 DEF Doubled
<1>6. n - 1 \in 1..k /\ n - 1 \in 0..k /\ ~(n <= n - 1)
  BY <1>4, <1>5
<1> DEFINE a == g[n - 1]
<1>7. a \in Nat /\ a >= 2 * size /\ g[n] = 2 * a
  BY <1>3, <1>4, <1>6, DoubledExceeds
<1> HIDE DEF a
<1> QED
  BY <1>4, <1>7

\* A buffer that grows for n bytes holds them
LEMMA GrownHolds ==
    ASSUME NEW size \in Nat, size >= 1, NEW n \in Nat
    PROVE  /\ Grown(size, n) \in Nat /\ Grown(size, n) >= n /\ Grown(size, n) >= 1
           /\ Grown(size, n) >= 2 * size
<1> DEFINE K == n + 1
           f == CHOOSE g : g = [k \in 0..(n + 1) |-> IF k = 0 THEN size ELSE 2 * g[k - 1]]
           Fit(k) == f[k] >= n /\ \A j \in 1..(k - 1) : f[j] < n
<1>1. Grown(size, n) = f[CHOOSE k \in 1..(n + 1) : Fit(k)]
  BY DEF Grown
<1>2. Doubles(size, K, f)
  <2>1. \E g : g = [k \in 0..(n + 1) |-> IF k = 0 THEN size ELSE 2 * g[k - 1]]
    <3>1. \E g : Doubles(size, n + 1, g)
      BY DoublesIs
    <3> QED
      BY <3>1, Zenon DEF Doubles
  <2>2. f = [k \in 0..(n + 1) |-> IF k = 0 THEN size ELSE 2 * f[k - 1]]
    BY <2>1, Zenon
  <2> HIDE DEF f
  <2> QED
    BY <2>2, Zenon DEF Doubles
<1> HIDE DEF f
<1>3. Doubled(size, K, f)
  BY <1>2, DoublesFacts
<1>4. \A m \in 0..K : f[m] \in Nat /\ f[m] > m
  BY <1>3, DoubledExceeds
<1> DEFINE S == {k \in 1..K : f[k] >= n}
<1>5. S # {}
  <2>1. K \in 0..K /\ K \in 1..K
    OBVIOUS
  <2>2. f[K] \in Nat /\ f[K] > K
    BY <1>4, <2>1
  <2>3. f[K] >= n
    BY <2>2
  <2> QED
    BY <2>1, <2>3
<1>6. S \subseteq Nat
  OBVIOUS
<1>7. PICK k \in S : \A j \in S : k <= j
  BY <1>5, <1>6, LeastNatural
<1>8. Fit(k)
  <2>1. k \in 1..K /\ f[k] >= n
    OBVIOUS
  <2>2. ASSUME NEW j \in 1..(k - 1) PROVE f[j] < n
    <3>1. j \in 1..K /\ j \in 0..K /\ ~(k <= j)
      BY <2>1
    <3>2. ~(f[j] >= n)
      BY <1>7, <3>1
    <3>3. f[j] \in Nat
      BY <1>4, <3>1
    <3> QED
      BY <3>2, <3>3
  <2> QED
    BY <2>1, <2>2
<1> DEFINE c == CHOOSE i \in 1..(n + 1) : Fit(i)
<1>9. c \in 1..K /\ Fit(c)
  <2>1. \E i \in 1..(n + 1) : Fit(i)
    BY <1>8
  <2> HIDE DEF Fit
  <2> QED
    BY <2>1, Zenon
<1> HIDE DEF c
<1>10. f[c] \in Nat /\ f[c] >= n /\ f[c] > c
  <2>1. c \in 0..K
    BY <1>9
  <2> QED
    BY <1>4, <1>9, <2>1
<1>11. Grown(size, n) = f[c]
  BY <1>1, Zenon DEF c
<1>12. f[c] >= 2 * size
  BY <1>3, <1>9, DoubledGrows
<1> QED
  BY <1>9, <1>10, <1>11, <1>12

LEMMA GrowIs ==
    ASSUME NEW x, HasFields(x), NEW extra, ~Fails(x)
    PROVE  LET y == Grow(x, extra) IN
           /\ DOMAIN y = DOMAIN x /\ SameBuilder(x, y) /\ y.sink = x.sink /\ y.file = x.file
           /\ y.error = x.error /\ y.allocations = x.allocations + 1
           /\ y.size = Grown(x.size, Len(x.buffer) + Len(extra)) /\ y.buffer = x.buffer \o extra
<1> DEFINE a == Allocation(x)
           G == Grown(x.size, Len(x.buffer) + Len(extra))
           g == [a EXCEPT !.size = G, !.buffer = @ \o extra]
<1>1. DOMAIN a = DOMAIN x /\ SameBuilder(x, a) /\ SameBuffer(x, a) /\ a.error = x.error
      /\ a.allocations = x.allocations + 1
  BY AllocationIs
<1>2. Grow(x, extra) = g
  BY DEF Grow
<1> HIDE DEF a, G
<1>3. DOMAIN g = DOMAIN a /\ SameBuilder(a, g) /\ g.sink = a.sink /\ g.file = a.file
      /\ g.error = a.error /\ g.allocations = a.allocations /\ g.size = G /\ g.buffer = a.buffer \o extra
  BY <1>1 DEF HasFields, SameBuilder
<1> HIDE DEF g
<1> QED
  BY <1>1, <1>2, <1>3 DEF SameBuilder, SameBuffer, G

LEMMA GrowSound ==
    ASSUME NEW x, Sound(x), x.error = "ok", ~Fixed(x), NEW extra \in Seq(Contents)
    PROVE  Sound(Grow(x, extra)) /\ Written(x, Grow(x, extra))
<1> DEFINE y == Grow(x, extra)
<1>1. HasFields(x) /\ BufferFits(x)
  BY DEF Sound, Typed
<1>2. CASE Fails(x)
  <2>1. y = FlagError(Allocation(x), "memory")
    BY <1>2 DEF Grow
  <2> HIDE DEF y
  <2>2. Sound(y) /\ Written(x, y)
    BY <2>1, FailedSound
  <2> QED
    BY <2>2 DEF y
<1>3. CASE ~Fails(x)
  <2> DEFINE n == Len(x.buffer) + Len(extra)
  <2>1. /\ DOMAIN y = DOMAIN x /\ SameBuilder(x, y) /\ y.sink = x.sink /\ y.file = x.file
        /\ y.error = x.error /\ y.allocations = x.allocations + 1
        /\ y.size = Grown(x.size, n) /\ y.buffer = x.buffer \o extra
    BY <1>1, <1>3, GrowIs
  <2> HIDE DEF y
  <2>2. n \in Nat /\ x.size \in Nat /\ x.size >= 1 /\ x.buffer \in Seq(Contents) /\ x.allocations \in Nat
    BY <1>1 DEF BufferFits
  <2>3. y.buffer \in Seq(Contents) /\ Len(y.buffer) = n
    BY <2>1, <2>2
  <2> HIDE DEF n
  <2>4. y.size \in Nat /\ y.size >= n /\ y.size >= 1
    BY <2>1, <2>2, GrownHolds
  <2>5. y.allocations \in Nat /\ Len(y.buffer) <= y.size
    BY <2>1, <2>2, <2>3, <2>4
  <2>6. BufferFits(y)
    BY <1>1, <2>1, <2>3, <2>4, <2>5 DEF BufferFits
  <2>7. Sound(y) /\ Written(x, y)
    BY <2>1, <2>6, SoundBy
  <2> QED
    BY <2>7 DEF y
<1> QED
  BY <1>2, <1>3

LEMMA FileSound ==
    ASSUME NEW x, Sound(x), x.error = "ok", NEW bytes \in Seq(Contents)
    PROVE  LET z == WriteToFile([x EXCEPT !.buffer = << >>], bytes) IN
           /\ Sound(z) /\ Written(x, z)
<1> DEFINE e == [x EXCEPT !.buffer = << >>]
           left == e.sink[2] - Len(e.file)
           n == IF Len(bytes) <= left THEN Len(bytes) ELSE left
           y == [e EXCEPT !.file = @ \o SubSeq(bytes, 1, n)]
           z == WriteToFile(e, bytes)
<1>1. HasFields(x) /\ BufferFits(x)
  BY DEF Sound, Typed
<1>2. DOMAIN e = DOMAIN x /\ SameBuilder(x, e) /\ e.sink = x.sink /\ e.file = x.file
      /\ e.error = x.error /\ e.allocations = x.allocations /\ e.size = x.size /\ e.buffer = << >>
  BY <1>1 DEF HasFields, SameBuilder
<1>3. z = IF Len(bytes) <= left THEN y ELSE FlagError(y, "io")
  BY DEF WriteToFile
<1> HIDE DEF e
<1>4. DOMAIN y = DOMAIN e /\ SameBuilder(e, y) /\ y.sink = e.sink /\ y.file = e.file \o SubSeq(bytes, 1, n)
      /\ y.error = e.error /\ y.allocations = e.allocations /\ y.size = e.size /\ y.buffer = e.buffer
  BY <1>1, <1>2 DEF HasFields, SameBuilder
<1>5. left \in Nat /\ Len(bytes) \in Nat /\ e.file \in Seq(Contents)
  <2>1. x.sink[2] \in Nat /\ Len(x.file) \in Nat /\ Len(x.file) <= x.sink[2]
    BY <1>1 DEF BufferFits
  <2> QED
    BY <1>1, <1>2, <2>1 DEF BufferFits
<1>6. n \in 0..Len(bytes) /\ n <= left
  <2> HIDE DEF left
  <2> QED
    BY <1>5
<1> HIDE DEF n
<1>7. SubSeq(bytes, 1, n) \in Seq(Contents) /\ Len(SubSeq(bytes, 1, n)) = n
  <2>1. n \in Int /\ 1 \in Int /\ \A i \in 1..n : i \in 1..Len(bytes)
    <3>1. n \in 0..Len(bytes) /\ Len(bytes) \in Nat
      BY <1>6
    <3> QED
      BY <3>1
  <2>2. \A i \in 1..n : bytes[i] \in Contents
    BY <2>1
  <2>3. /\ SubSeq(bytes, 1, n) \in Seq(Contents)
        /\ Len(SubSeq(bytes, 1, n)) = IF 1 <= n THEN n - 1 + 1 ELSE 0
    BY <2>1, <2>2, SubSeqProperties
  <2>4. (IF 1 <= n THEN n - 1 + 1 ELSE 0) = n
    <3>1. n \in Nat
      BY <1>6
    <3> QED
      BY <3>1
  <2> QED
    BY <2>3, <2>4
<1> DEFINE piece == SubSeq(bytes, 1, n)
<1>8. piece \in Seq(Contents) /\ Len(piece) = n /\ y.file = e.file \o piece
  BY <1>4, <1>7
<1> HIDE DEF piece
<1> HIDE DEF y
<1>9. y.file \in Seq(Contents) /\ Len(y.file) <= y.sink[2]
  <2>1. y.file \in Seq(Contents) /\ Len(y.file) = Len(e.file) + n
    <3>1. e.file \in Seq(Contents)
      BY <1>5
    <3>2. e.file \o piece \in Seq(Contents) /\ Len(e.file \o piece) = Len(e.file) + Len(piece)
      BY <1>8, <3>1, ConcatProperties, Zenon
    <3> QED
      BY <1>8, <3>2
  <2>2. Len(e.file) \in Nat /\ e.sink[2] \in Nat /\ n \in Nat
    BY <1>1, <1>2, <1>5, <1>6 DEF BufferFits
  <2> DEFINE f == Len(e.file)
             c == e.sink[2]
  <2>3. f \in Nat /\ c \in Nat /\ n \in Nat /\ n <= c - f
    BY <1>6, <2>2 DEF left
  <2> HIDE DEF f, c
  <2>4. f + n <= c
    BY <2>3
  <2> QED
    BY <1>4, <2>1, <2>4 DEF f, c
<1>10. BufferFits(y)
  <2>1. Len(y.buffer) = 0 /\ y.buffer \in Seq(Contents)
    BY <1>2, <1>4
  <2>2. y.sink = x.sink /\ y.size = x.size /\ y.error = x.error /\ y.allocations = x.allocations
    BY <1>2, <1>4
  <2>3. Len(y.buffer) <= y.size
    BY <1>1, <2>1, <2>2 DEF BufferFits
  <2> QED
    BY <1>1, <1>9, <2>1, <2>2, <2>3 DEF BufferFits, Fixed
<1>11. Sound(y) /\ Written(x, y)
  <2>1. DOMAIN y = DOMAIN x /\ y.sink = x.sink
    BY <1>2, <1>4
  <2>2. SameBuilder(x, y)
    BY <1>2, <1>4 DEF SameBuilder
  <2> QED
    BY <1>10, <2>1, <2>2, SoundBy
<1>12. Sound(FlagError(y, "io")) /\ Written(x, FlagError(y, "io"))
  <2>1. "io" \in Errors \ {"ok"}
    BY DEF Errors
  <2> QED
    BY <1>11, <2>1, FlagSound, WrittenThen
<1>13. Sound(z) /\ Written(x, z)
  BY <1>3, <1>11, <1>12, Zenon
<1> QED
  BY <1>13 DEF e

LEMMA FlushSound ==
    ASSUME NEW x, Sound(x), x.error = "ok", ~Fixed(x), NEW extra \in Seq(Contents)
    PROVE  Sound(Flush(x, extra)) /\ Written(x, Flush(x, extra))
<1>1. x.buffer \o extra \in Seq(Contents)
  BY DEF Sound, Typed, BufferFits
<1>2. CASE ToFile(x)
  <2>1. Flush(x, extra) = WriteToFile([x EXCEPT !.buffer = << >>], x.buffer \o extra)
    BY <1>2 DEF Flush
  <2> QED
    BY <1>1, <2>1, FileSound
<1>3. CASE ~ToFile(x)
  <2>1. Flush(x, extra) = Grow(x, extra)
    BY <1>3 DEF Flush
  <2> QED
    BY <2>1, GrowSound
<1> QED
  BY <1>2, <1>3

\* Writing to the real buffer
LEMMA PutReal ==
    ASSUME NEW x, Sound(x), x.error = "ok", x.build = NULL,
           NEW bytes \in Seq(Contents), Left(x) >= Len(bytes)
    PROVE  Sound(Put(x, bytes)) /\ Written(x, Put(x, bytes))
<1> DEFINE y == Put(x, bytes)
<1>1. HasFields(x) /\ BufferFits(x)
  BY DEF Sound, Typed
<1>2. DOMAIN y = DOMAIN x /\ SameBuilder(x, y) /\ y.sink = x.sink /\ y.file = x.file
      /\ y.error = x.error /\ y.allocations = x.allocations /\ y.size = x.size /\ y.buffer = x.buffer \o bytes
  BY <1>1 DEF HasFields, SameBuilder, Put
<1> HIDE DEF y
<1>3. y.buffer \in Seq(Contents) /\ Len(y.buffer) = Len(x.buffer) + Len(bytes)
  BY <1>1, <1>2 DEF BufferFits
<1>4. x.size - Len(x.buffer) >= Len(bytes)
  BY DEF Left
<1>5. Len(y.buffer) <= y.size
  <2> DEFINE a == Len(x.buffer)
             b == Len(bytes)
  <2>1. a \in Nat /\ b \in Nat /\ x.size \in Nat /\ x.size - a >= b
    BY <1>1, <1>4 DEF BufferFits
  <2> HIDE DEF a, b
  <2>2. a + b <= x.size
    BY <2>1
  <2> QED
    BY <1>2, <1>3, <2>2 DEF a, b
<1>6. BufferFits(y)
  BY <1>1, <1>2, <1>3, <1>5 DEF BufferFits, Fixed
<1>7. Sound(y) /\ Written(x, y)
  BY <1>2, <1>6, SoundBy
<1> QED
  BY <1>7 DEF y

-----------------------------------------------------------------------------
(* The pages while builds are open                                          *)

PageOf(used, memory) == [used |-> used, memory |-> memory]
LEMMA PageOfIs ==
    ASSUME NEW used \in Nat, NEW memory \in Seq(Contents), Len(memory) = used
    PROVE  PageOf(used, memory) \in PageRecords /\ PageOf(used, memory).used = used
BY DEF PageOf, PageRecords

LEMMA BuildIs ==
    ASSUME NEW b \in BuildRecords
    PROVE  /\ b.item \in Nat /\ b.parent \in Nat /\ b.page \in Nat /\ b.offset \in Nat /\ b.bytes \in Nat
           /\ b.count \in Nat
BY DEF BuildRecords

LEMMA BuildBytes ==
    ASSUME NEW b \in BuildRecords, NEW n \in Nat, NEW c, c = [b EXCEPT !.bytes = @ + n]
    PROVE  /\ c \in BuildRecords /\ c.bytes = b.bytes + n /\ c.page = b.page
           /\ c.offset = b.offset /\ c.parent = b.parent
BY DEF BuildRecords

LEMMA FilledMore ==
    ASSUME NEW pages, Len(pages) \in Nat, pages[Len(pages)].used \in Nat,
           NEW m \in Nat, NEW n \in Nat, m <= n, Filled(pages, m)
    PROVE  Filled(pages, n)
<1> DEFINE u == pages[Len(pages)].used
<1>1. u \in Nat
  OBVIOUS
<1>2. u + m > PageHeader => u + n > PageHeader
  <2> HIDE DEF u
  <2> QED
    BY <1>1, Sizes
<1> QED
  BY <1>2 DEF Filled

LEMMA PutBuild ==
    ASSUME NEW x, Sound(x), x.error = "ok", x.build # NULL,
           NEW bytes \in Seq(Contents), Left(x) >= Len(bytes)
    PROVE  Sound(Put(x, bytes)) /\ Written(x, Put(x, bytes))
<1> DEFINE y == Put(x, bytes)
           P == Len(x.pages)
           a == Len(x.pending)
           n == Len(bytes)
<1>1. HasFields(x) /\ BufferFits(x) /\ BuilderTyped(x)
  BY DEF Sound, Typed
<1>2. /\ DOMAIN y = DOMAIN x /\ y.sink = x.sink /\ y.file = x.file
      /\ y.error = x.error /\ y.allocations = x.allocations /\ y.size = x.size /\ y.buffer = x.buffer
      /\ y.pages = x.pages /\ y.page = x.page /\ y.live = x.live /\ y.base = x.base
      /\ y.builds = x.builds /\ y.build = x.build /\ y.latest = x.latest
      /\ y.pending = x.pending \o bytes
  BY <1>1 DEF HasFields, Put
<1> HIDE DEF y
<1>3. y.pending \in Seq(Contents) /\ Len(y.pending) = a + n
  BY <1>1, <1>2 DEF BuilderTyped
<1>4. Typed(y)
  <2>1. HasFields(y) /\ BufferFits(y)
    BY <1>1, <1>2 DEF HasFields, BufferFits, Fixed
  <2>2. BuilderTyped(y)
    BY <1>1, <1>2, <1>3 DEF BuilderTyped
  <2> QED
    BY <2>1, <2>2 DEF Typed
<1>5. PICK start : Open(x, start)
  BY DEF Sound
<1>6. PageSize - x.base - a >= n /\ x.base \in Nat /\ a \in Nat /\ n \in Nat /\ P \in Nat
  BY <1>1 DEF Left, BuilderTyped
<1>7. x.base + (a + n) <= PageSize
  <2> HIDE DEF a, n
  <2> QED
    BY <1>6, Sizes
<1>8. Filled(x.pages, a + n)
  <2>1. Filled(x.pages, a)
    BY <1>5 DEF Open
  <2>2. x.pages[P].used \in Nat
    <3>1. x.pages[x.page].used = x.base /\ x.page = P
      BY <1>5 DEF Open, Applied
    <3> QED
      BY <1>6, <3>1
  <2>3. a <= a + n /\ a + n \in Nat
    <3> HIDE DEF a, n
    <3> QED
      BY <1>6
  <2> QED
    BY <1>6, <2>1, <2>2, <2>3, FilledMore
<1>9. Open(y, start)
  BY <1>2, <1>3, <1>5, <1>7, <1>8 DEF Open, Applied
<1>10. Sound(y)
  <2>1. Bounded(y)
    <3>1. y.base + Len(y.pending) <= PageSize /\ PagesFit(y.pages)
      BY <1>2, <1>3, <1>7 DEF Sound
    <3> QED
      BY <1>4, <3>1, BoundedIs
  <2> QED
    BY <1>2, <1>4, <1>9, <2>1 DEF Sound
<1>11. Written(x, y)
  BY <1>2 DEF Written
<1> QED
  BY <1>10, <1>11 DEF y

\* What mpack_builder_apply_writes changes
LEMMA ApplyIs ==
    ASSUME NEW x, HasFields(x)
    PROVE  LET y == ApplyWrites(x) IN
           /\ DOMAIN y = DOMAIN x /\ SameBuffer(x, y)
           /\ y.error = x.error /\ y.allocations = x.allocations
           /\ y.page = x.page /\ y.live = x.live /\ y.base = x.base /\ y.pending = x.pending
           /\ y.build = x.build /\ y.latest = x.latest
           /\ y.pages = [x.pages EXCEPT ![x.page] =
                  PageOf(x.pages[x.page].used + Len(x.pending), x.pages[x.page].memory \o x.pending)]
           /\ y.builds = [x.builds EXCEPT ![x.latest] =
                  [x.builds[x.latest] EXCEPT !.bytes = @ + Len(x.pending)]]
BY DEF HasFields, SameBuffer, ApplyWrites, PageOf

AppliedTo(x, y) ==
    /\ Len(y.pages) = Len(x.pages) /\ Len(y.builds) = Len(x.builds)
    /\ \A p \in 1..Len(x.pages) : p # x.page => y.pages[p] = x.pages[p]
    /\ y.pages[x.page].used = x.pages[x.page].used + Len(x.pending)
    /\ \A b \in 1..Len(x.builds) :
           /\ y.builds[b].page = x.builds[b].page /\ y.builds[b].offset = x.builds[b].offset
           /\ b # x.latest => y.builds[b].bytes = x.builds[b].bytes
    /\ y.builds[x.latest].bytes = x.builds[x.latest].bytes + Len(x.pending)

LEMMA ApplyTyped ==
    ASSUME NEW x, Typed(x), x.build # NULL
    PROVE  Typed(ApplyWrites(x)) /\ AppliedTo(x, ApplyWrites(x))
<1> DEFINE y == ApplyWrites(x)
           P == x.page
           L == x.latest
           n == Len(x.pending)
           page == PageOf(x.pages[P].used + n, x.pages[P].memory \o x.pending)
           old == x.builds[L]
           build == [old EXCEPT !.bytes = @ + n]
<1>1. HasFields(x) /\ BufferFits(x) /\ BuilderTyped(x)
  BY DEF Typed
<1>2. /\ DOMAIN y = DOMAIN x /\ SameBuffer(x, y) /\ y.error = x.error /\ y.allocations = x.allocations
      /\ y.page = x.page /\ y.live = x.live /\ y.base = x.base /\ y.pending = x.pending
      /\ y.build = x.build /\ y.latest = x.latest
      /\ y.pages = [x.pages EXCEPT ![P] = page] /\ y.builds = [x.builds EXCEPT ![L] = build]
  BY <1>1, ApplyIs
<1> HIDE DEF y
<1>3. P \in 1..Len(x.pages) /\ L \in 1..Len(x.builds) /\ x.pending \in Seq(Contents) /\ n \in Nat
      /\ x.pages \in Seq(PageRecords) /\ x.builds \in Seq(BuildRecords)
  BY <1>1 DEF BuilderTyped
<1>4. page \in PageRecords /\ page.used = x.pages[P].used + n
  <2>1. x.pages[P] \in PageRecords
    BY <1>3
  <2>2. x.pages[P].used \in Nat /\ x.pages[P].memory \in Seq(Contents) /\ Len(x.pages[P].memory) = x.pages[P].used
    BY <2>1 DEF PageRecords
  <2>3. x.pages[P].memory \o x.pending \in Seq(Contents)
        /\ Len(x.pages[P].memory \o x.pending) = x.pages[P].used + n
    <3> DEFINE m == x.pages[P].memory
               q == x.pending
    <3>1. m \in Seq(Contents) /\ q \in Seq(Contents)
      BY <1>3, <2>2
    <3>2. m \o q \in Seq(Contents) /\ Len(m \o q) = Len(m) + Len(q)
      BY <3>1, ConcatProperties, Zenon
    <3>3. Len(m) = x.pages[P].used
      BY <2>2
    <3> HIDE DEF m, q
    <3>4. Len(m \o q) = x.pages[P].used + Len(q)
      BY <3>2, <3>3
    <3> QED
      BY <3>2, <3>4 DEF m, q
  <2>4. x.pages[P].used + n \in Nat
    <3>1. x.pages[P].used \in Nat /\ n \in Nat
      BY <1>3, <2>2
    <3> HIDE DEF n
    <3> QED
      BY <3>1
  <2> QED
    BY <2>3, <2>4, PageOfIs
<1> HIDE DEF page
<1>5. old \in BuildRecords
  BY <1>3
<1> HIDE DEF old, n
<1>6. /\ build \in BuildRecords /\ build.bytes = old.bytes + n /\ build.page = old.page
      /\ build.offset = old.offset /\ build.parent = old.parent
  BY <1>3, <1>5, BuildBytes
<1> HIDE DEF build
<1>7. Replaced(y.pages, PageRecords, x.pages, P, page)
  BY <1>2, <1>3, <1>4, ReplaceOne
<1>8. Replaced(y.builds, BuildRecords, x.builds, L, build)
  BY <1>2, <1>3, <1>6, ReplaceOne
<1>9. \A b \in 1..Len(x.builds) :
        /\ y.builds[b].page = x.builds[b].page /\ y.builds[b].offset = x.builds[b].offset
        /\ y.builds[b].parent = x.builds[b].parent
        /\ b # x.latest => y.builds[b].bytes = x.builds[b].bytes
  BY <1>6, <1>8 DEF Replaced, old
<1>10. AppliedTo(x, y)
  BY <1>3, <1>4, <1>6, <1>7, <1>8, <1>9 DEF AppliedTo, Replaced, old, n
<1>11. HasFields(y) /\ BufferFits(y)
  BY <1>1, <1>2 DEF HasFields, BufferFits, SameBuffer, Fixed
<1>12. BuilderTyped(y)
  <2>1. y.pages \in Seq(PageRecords) /\ y.builds \in Seq(BuildRecords)
        /\ Len(y.pages) = Len(x.pages) /\ Len(y.builds) = Len(x.builds)
    BY <1>7, <1>8 DEF Replaced
  <2>2. \A b \in 1..Len(y.builds) : y.builds[b].parent \in 0..(b - 1)
    BY <1>1, <1>9, <2>1 DEF BuilderTyped
  <2> QED
    BY <1>1, <1>2, <2>1, <2>2 DEF BuilderTyped
<1>13. Typed(y)
  BY <1>11, <1>12 DEF Typed
<1> QED
  BY <1>10, <1>13 DEF y

LEMMA ApplyLaid ==
    ASSUME NEW x, Typed(x), x.build # NULL, NEW start, Open(x, start)
    PROVE  /\ Applied(ApplyWrites(x), start) /\ Filled(ApplyWrites(x).pages, 0)
           /\ ApplyWrites(x).pages[Len(x.pages)].used = x.base + Len(x.pending)
<1> DEFINE y == ApplyWrites(x)
           P == Len(x.pages)
           B == Len(x.builds)
           n == Len(x.pending)
<1>1. Typed(y) /\ AppliedTo(x, y)
  BY ApplyTyped
<1>2. BuilderTyped(x) /\ HasFields(x)
  BY DEF Typed
<1>3. y.page = x.page /\ y.latest = x.latest /\ y.live = x.live
  BY <1>2, ApplyIs
<1> HIDE DEF y
<1>4. x.page = P /\ x.latest = B /\ x.live = 1..P /\ Laid(x.pages, x.builds, start)
      /\ x.base = x.pages[P].used /\ x.base + n <= PageSize /\ Filled(x.pages, n)
  BY DEF Open, Applied
<1>5. P \in Nat /\ B \in Nat /\ n \in Nat /\ x.base \in Nat
  BY <1>2 DEF BuilderTyped
<1>6. \A b \in 1..B : x.builds[b].offset \in Nat /\ x.builds[b].bytes \in Nat
  <2>1. \A b \in 1..B : x.builds[b] \in BuildRecords
    BY <1>2 DEF BuilderTyped
  <2> QED
    BY <2>1, BuildIs
<1>7. MorePages(x.pages, y.pages, n) /\ MoreBuilds(x.builds, y.builds, n)
  BY <1>1, <1>4 DEF AppliedTo, MorePages, MoreBuilds
<1>8. Len(y.pages) = P /\ Len(y.builds) = B
  BY <1>1 DEF AppliedTo
<1> HIDE DEF n
<1>9. Laid(y.pages, y.builds, start)
  BY <1>4, <1>5, <1>6, <1>7, LaidMore
<1>10. Applied(y, start)
  BY <1>3, <1>4, <1>8, <1>9 DEF Applied
<1>11. y.pages[P].used = x.base + n
  BY <1>4, <1>7 DEF MorePages
<1>12. Filled(y.pages, 0)
  <2>1. CASE x.pages[P].used + n > PageHeader
    <3>1. x.base + n + 0 > PageHeader
      BY <1>4, <1>5, <2>1
    <3> QED
      BY <1>8, <1>11, <3>1 DEF Filled
  <2>2. CASE P >= 2 /\ x.pages[P - 1].used > PageHeader /\ x.pages[P - 1].used + BuildSize > PageSize
    <3>1. P - 1 \in 1..P /\ P - 1 # P
      BY <1>5, <2>2
    <3>2. y.pages[P - 1].used = x.pages[P - 1].used
      BY <1>7, <3>1 DEF MorePages
    <3> QED
      BY <1>8, <2>2, <3>2 DEF Filled
  <2> QED
    BY <1>4, <2>1, <2>2 DEF Filled
<1> QED
  BY <1>10, <1>11, <1>12 DEF y, n

LEMMA NewPageIs == NewPage \in PageRecords /\ NewPage.used = PageHeader
<1> DEFINE memory == [i \in 1..PageHeader |-> "header"]
<1>1. PageHeader \in Nat
  BY Sizes
<1>2. memory \in Seq(Contents) /\ Len(memory) = PageHeader
  <2>1. "header" \in Contents
    BY DEF Contents
  <2> QED
    BY <1>1, <2>1
<1>3. NewPage = PageOf(PageHeader, memory)
  BY DEF NewPage, PageOf
<1> HIDE DEF memory
<1> QED
  BY <1>1, <1>2, <1>3, PageOfIs

\* What mpack_builder_add_page changes, if it gets the page
PagedTo(x, y) ==
    /\ OnePage(x.pages, y.pages)
    /\ y.page = Len(x.pages) + 1 /\ y.live = x.live \cup {Len(x.pages) + 1}

LEMMA AddPageIs ==
    ASSUME NEW x, HasFields(x), ~Fails(x)
    PROVE  LET y == AddPage(x) IN
           /\ DOMAIN y = DOMAIN x /\ SameBuffer(x, y)
           /\ y.error = x.error /\ y.allocations = x.allocations + 1
           /\ y.page = Len(x.pages) + 1 /\ y.live = x.live \cup {Len(x.pages) + 1}
           /\ y.base = x.base /\ y.pending = x.pending
           /\ y.builds = x.builds /\ y.build = x.build /\ y.latest = x.latest
           /\ y.pages = Append(x.pages, NewPage)
<1> DEFINE a == Allocation(x)
           n == Len(x.pages) + 1
           g == [a EXCEPT !.pages = Append(@, NewPage), !.page = n, !.live = @ \cup {n}]
<1>1. DOMAIN a = DOMAIN x /\ SameBuilder(x, a) /\ SameBuffer(x, a) /\ a.error = x.error
      /\ a.allocations = x.allocations + 1
  BY AllocationIs
<1>2. AddPage(x) = g
  BY DEF AddPage
<1> HIDE DEF a, n
<1>3. DOMAIN g = DOMAIN a /\ SameBuffer(a, g) /\ g.error = a.error /\ g.allocations = a.allocations
      /\ g.page = n /\ g.live = a.live \cup {n} /\ g.base = a.base /\ g.pending = a.pending
      /\ g.builds = a.builds /\ g.build = a.build /\ g.latest = a.latest
      /\ g.pages = Append(a.pages, NewPage)
  BY <1>1 DEF HasFields, SameBuffer
<1> HIDE DEF g
<1> QED
  BY <1>1, <1>2, <1>3 DEF SameBuilder, SameBuffer, n

LEMMA AddPageTyped ==
    ASSUME NEW x, Typed(x)
    PROVE  LET y == AddPage(x) IN
           /\ Typed(y) /\ DOMAIN y = DOMAIN x /\ SameBuffer(x, y)
           /\ y.builds = x.builds /\ y.build = x.build /\ y.latest = x.latest
           /\ y.error = "ok" => x.error = "ok" /\ PagedTo(x, y)
           /\ x.error = "ok" /\ y.error # "ok" => y.error = "memory" /\ SameBuilder(x, y)
<1> DEFINE y == AddPage(x)
<1>1. HasFields(x) /\ BufferFits(x) /\ BuilderTyped(x)
  BY DEF Typed
<1>2. CASE Fails(x)
  <2> DEFINE a == Allocation(x)
  <2>1. DOMAIN a = DOMAIN x /\ SameBuilder(x, a) /\ SameBuffer(x, a) /\ a.error = x.error
        /\ a.allocations = x.allocations + 1
    BY <1>1, AllocationIs
  <2>2. y = FlagError(a, "memory")
    BY <1>2 DEF AddPage
  <2> HIDE DEF a
  <2>3. HasFields(a)
    BY <1>1, <2>1 DEF HasFields
  <2>4. /\ DOMAIN y = DOMAIN a /\ SameBuilder(a, y) /\ SameBuffer(a, y) /\ y.allocations = a.allocations
        /\ a.error = "ok" => y.error = "memory"
        /\ a.error # "ok" => y = a
    BY <2>2, <2>3, FlagIs
  <2> HIDE DEF y
  <2>5. y.error # "ok" /\ y.error \in Errors
    BY <1>1, <2>1, <2>4 DEF BufferFits, Errors
  <2>6. DOMAIN y = DOMAIN x /\ SameBuffer(x, y) /\ y.allocations = x.allocations + 1
    BY <2>1, <2>4 DEF SameBuffer
  <2>7. SameBuilder(x, y)
    BY <2>1, <2>4 DEF SameBuilder
  <2>8. BufferFits(y)
    BY <1>1, <2>5, <2>6 DEF BufferFits, SameBuffer
  <2>9. Typed(y)
    BY <2>6, <2>7, <2>8, TypedBy
  <2>10. x.error = "ok" => y.error = "memory"
    BY <2>1, <2>4
  <2> QED
    BY <2>5, <2>6, <2>7, <2>9, <2>10 DEF y, SameBuilder
<1>3. CASE ~Fails(x)
  <2> DEFINE n == Len(x.pages) + 1
  <2>1. /\ DOMAIN y = DOMAIN x /\ SameBuffer(x, y)
        /\ y.error = x.error /\ y.allocations = x.allocations + 1
        /\ y.page = n /\ y.live = x.live \cup {n}
        /\ y.base = x.base /\ y.pending = x.pending
        /\ y.builds = x.builds /\ y.build = x.build /\ y.latest = x.latest
        /\ y.pages = Append(x.pages, NewPage)
    BY <1>1, <1>3, AddPageIs
  <2> HIDE DEF y
  <2>2. x.pages \in Seq(PageRecords)
    BY <1>1 DEF BuilderTyped
  <2>3. Appended(y.pages, PageRecords, x.pages, NewPage)
    BY <2>1, <2>2, NewPageIs, AppendOne
  <2>4. y.pages \in Seq(PageRecords) /\ Len(y.pages) = n /\ OnePage(x.pages, y.pages)
    BY <2>3, NewPageIs DEF Appended, OnePage
  <2>5. n \in 1..n /\ Len(x.pages) \in Nat /\ \A p \in 1..Len(x.pages) : p \in 1..n
    BY <2>2
  <2>6. y.live \subseteq 1..n
    BY <1>1, <2>1, <2>5 DEF BuilderTyped
  <2>7. BuilderTyped(y)
    <3>1. y.page \in 0..n /\ y.page \in 1..n
      BY <2>1, <2>5
    <3> QED
      BY <1>1, <2>1, <2>4, <2>6, <3>1 DEF BuilderTyped
  <2>8. HasFields(y) /\ BufferFits(y)
    <3>1. y.allocations \in Nat
      BY <1>1, <2>1 DEF BufferFits
    <3> QED
      BY <1>1, <2>1, <3>1 DEF HasFields, BufferFits, SameBuffer, Fixed
  <2>9. Typed(y)
    BY <2>7, <2>8 DEF Typed
  <2>10. PagedTo(x, y)
    BY <2>1, <2>4 DEF PagedTo
  <2> QED
    BY <2>1, <2>9, <2>10 DEF y
<1> QED
  BY <1>2, <1>3

LEMMA AddPageBase ==
    ASSUME NEW x, HasFields(x)
    PROVE  AddPage(x).base = x.base /\ AddPage(x).pending = x.pending
<1>1. CASE Fails(x)
  <2> DEFINE a == Allocation(x)
  <2>1. HasFields(a) /\ SameBuilder(x, a)
    BY AllocationIs DEF HasFields
  <2>2. AddPage(x) = FlagError(a, "memory")
    BY <1>1 DEF AddPage
  <2> HIDE DEF a
  <2> QED
    BY <2>1, <2>2, FlagIs DEF SameBuilder
<1> QED
  BY <1>1, AddPageIs

LEMMA AddPageLaid ==
    ASSUME NEW x, Typed(x), NEW start, Applied(x, start),
           AddPage(x).error = "ok"
    PROVE  LET y == AddPage(x)
               begin == OneStart(x.pages, start) IN
           /\ Applied(y, begin)
           /\ (/\ x.pages[Len(x.pages)].used > PageHeader
               /\ x.pages[Len(x.pages)].used + BuildSize > PageSize)
                  => Filled(y.pages, 0)
           /\ \A p : \A offset : LastEnd(x.pages, x.builds, start, p, offset)
                  => LastEnd(y.pages, y.builds, begin, p, offset)
<1> DEFINE y == AddPage(x)
           begin == OneStart(x.pages, start)
           P == Len(x.pages)
           B == Len(x.builds)
<1>1. BuilderTyped(x)
  BY DEF Typed
<1>2. y.builds = x.builds /\ y.latest = x.latest /\ PagedTo(x, y)
  BY AddPageTyped
<1> HIDE DEF y
<1>3. x.latest = B /\ x.live = 1..P /\ Laid(x.pages, x.builds, start)
  BY DEF Applied
<1>4. P \in Nat /\ B \in Nat /\ P >= 1
  BY <1>1, <1>3 DEF BuilderTyped, Laid
<1>5. \A b \in 1..B : x.builds[b].offset \in Nat
  <2>1. \A b \in 1..B : x.builds[b] \in BuildRecords
    BY <1>1 DEF BuilderTyped
  <2> QED
    BY <2>1, BuildIs
<1>6. /\ Laid(y.pages, x.builds, begin)
      /\ \A p : \A offset : LastEnd(x.pages, x.builds, start, p, offset)
             => LastEnd(y.pages, x.builds, begin, p, offset)
  BY <1>2, <1>3, <1>4, <1>5, LaidPage DEF PagedTo
<1> HIDE DEF begin
<1>7. Len(y.pages) = P + 1 /\ y.page = P + 1 /\ y.live = 1..(P + 1)
  <2>1. y.live = (1..P) \cup {P + 1}
    BY <1>2, <1>3 DEF PagedTo
  <2>2. (1..P) \cup {P + 1} = 1..(P + 1)
    BY <1>4
  <2> QED
    BY <1>2, <2>1, <2>2 DEF PagedTo, OnePage
<1>8. Applied(y, begin)
  BY <1>2, <1>3, <1>6, <1>7 DEF Applied
<1>9. ASSUME x.pages[P].used > PageHeader, x.pages[P].used + BuildSize > PageSize
      PROVE  Filled(y.pages, 0)
  <2>1. y.pages[P].used = x.pages[P].used
    BY <1>2, <1>4 DEF PagedTo, OnePage
  <2>2. Len(y.pages) >= 2 /\ Len(y.pages) - 1 = P
    BY <1>4, <1>7
  <2> QED
    BY <1>9, <2>1, <2>2 DEF Filled
<1> QED
  BY <1>2, <1>6, <1>8, <1>9 DEF y, begin

\* mpack_builder_configure_buffer: the buffer is what is left of the page
LEMMA ConfigureSound ==
    ASSUME NEW x, Typed(x), x.build # NULL, x.error # "ok" => Bounded(x),
           x.error = "ok" => \E start : Applied(x, start) /\ Filled(x.pages, 0)
    PROVE  LET y == ConfigureBuffer(x) IN
           /\ Sound(y) /\ DOMAIN y = DOMAIN x /\ SameBuffer(x, y) /\ y.build = x.build /\ y.error = x.error
           /\ x.error = "ok" => y.pages = x.pages /\ Left(y) = PageSize - x.pages[Len(x.pages)].used
<1>1. HasFields(x) /\ BufferFits(x) /\ BuilderTyped(x)
  BY DEF Typed
<1>2. CASE x.error # "ok"
  <2>1. ConfigureBuffer(x) = x
    BY <1>2 DEF ConfigureBuffer
  <2>2. Sound(x)
    BY <1>2 DEF Sound
  <2> QED
    BY <1>2, <2>1, <2>2 DEF SameBuffer
<1>3. CASE x.error = "ok"
  <2> DEFINE y == ConfigureBuffer(x)
             P == Len(x.pages)
  <2>1. /\ DOMAIN y = DOMAIN x /\ SameBuffer(x, y) /\ y.error = x.error /\ y.allocations = x.allocations
        /\ y.pages = x.pages /\ y.page = x.page /\ y.live = x.live
        /\ y.builds = x.builds /\ y.build = x.build /\ y.latest = x.latest
        /\ y.base = x.pages[x.page].used /\ y.pending = << >>
    BY <1>1, <1>3 DEF HasFields, SameBuffer, ConfigureBuffer
  <2> HIDE DEF y
  <2>2. PICK start : Applied(x, start) /\ Filled(x.pages, 0)
    BY <1>3
  <2>3. x.page = P /\ Laid(x.pages, x.builds, start) /\ P \in 1..P
    <3>1. x.page = P /\ Laid(x.pages, x.builds, start)
      BY <2>2 DEF Applied
    <3>2. P \in Nat /\ P >= 1
      BY <1>1, <3>1 DEF BuilderTyped, Laid
    <3> QED
      BY <3>1, <3>2
  <2>4. x.pages[P].used \in Nat /\ x.pages[P].used <= PageSize
    BY <2>3, PageIs DEF Laid
  <2>5. y.pending \in Seq(Contents) /\ Len(y.pending) = 0
    BY <2>1
  <2>6. Typed(y)
    <3>1. HasFields(y) /\ BufferFits(y)
      BY <1>1, <2>1 DEF HasFields, BufferFits, SameBuffer, Fixed
    <3>2. y.base \in Nat
      BY <2>1, <2>3, <2>4
    <3>3. BuilderTyped(y)
      BY <1>1, <2>1, <2>5, <3>2 DEF BuilderTyped
    <3> QED
      BY <3>1, <3>3 DEF Typed
  <2>7. y.base = x.pages[P].used /\ y.base + 0 <= PageSize
    BY <2>1, <2>3, <2>4, Sizes
  <2>8. Open(y, start)
    <3>1. Applied(y, start)
      BY <2>1, <2>2 DEF Applied
    <3>2. Filled(y.pages, 0)
      BY <2>1, <2>2
    <3> QED
      BY <2>1, <2>5, <2>7, <3>1, <3>2 DEF Open
  <2>9. PagesFit(y.pages)
    BY <2>1, <2>3 DEF Laid
  <2>10. Sound(y)
    <3>1. Bounded(y)
      BY <2>5, <2>6, <2>7, <2>9, BoundedIs
    <3> QED
      BY <2>1, <2>6, <2>8, <2>9, <3>1 DEF Sound
  <2>11. Left(y) = PageSize - x.pages[P].used
    <3>1. Left(y) = PageSize - y.base - Len(y.pending)
      BY <2>1 DEF Left
    <3>2. PageSize - y.base - 0 = PageSize - y.base
      BY <2>4, <2>7, Sizes
    <3> QED
      BY <2>5, <2>7, <3>1, <3>2
  <2> QED
    BY <2>1, <2>10, <2>11 DEF y
<1> QED
  BY <1>2, <1>3

\* mpack_builder_flush
LEMMA BuilderFlushSound ==
    ASSUME NEW x, Sound(x), x.error = "ok", x.build # NULL, Left(x) < MinBuffer
    PROVE  LET y == BuilderFlush(x) IN
           /\ Sound(y) /\ Written(x, y)
           /\ y.error = "ok" => Left(y) >= MinBuffer
<1> DEFINE a == ApplyWrites(x)
           b == AddPage(a)
           y == ConfigureBuffer(b)
           P == Len(x.pages)
<1>1. Typed(x) /\ HasFields(x)
  BY DEF Sound, Typed
<1>2. PICK start : Open(x, start)
  BY DEF Sound
<1>3. Typed(a) /\ AppliedTo(x, a) /\ Applied(a, start) /\ Filled(a.pages, 0)
      /\ a.pages[P].used = x.base + Len(x.pending)
  BY <1>1, <1>2, ApplyTyped, ApplyLaid
<1>4. DOMAIN a = DOMAIN x /\ SameBuffer(x, a) /\ a.build = x.build /\ a.error = "ok"
  BY <1>1, ApplyIs
<1> HIDE DEF a
<1>5. Typed(b) /\ DOMAIN b = DOMAIN a /\ SameBuffer(a, b) /\ b.build = a.build
      /\ (b.error = "ok" => PagedTo(a, b))
  BY <1>3, AddPageTyped
<1>6. Len(a.pages) = P
  BY <1>3 DEF AppliedTo
<1>7. a.pages[P].used > PageHeader /\ a.pages[P].used + BuildSize > PageSize
  <2> DEFINE m == x.base
             n == Len(x.pending)
  <2>1. PageSize - m - n < MinBuffer /\ m \in Nat /\ n \in Nat
    BY <1>1 DEF Left, Typed, BuilderTyped
  <2> HIDE DEF m, n
  <2>2. m + n > PageHeader /\ (m + n) + BuildSize > PageSize
    BY <2>1, Sizes
  <2> QED
    BY <1>3, <2>2 DEF m, n
<1>8. b.error = "ok" => Applied(b, OneStart(a.pages, start)) /\ Filled(b.pages, 0)
  BY <1>3, <1>6, <1>7, AddPageLaid
<1>13. b.error # "ok" => SameBuilder(a, b)
  BY <1>3, <1>4, AddPageTyped
<1> HIDE DEF b
<1>14. b.error # "ok" => Bounded(b)
  <2>1. PagesFit(a.pages)
    BY <1>3 DEF Applied, Laid
  <2>2. a.base + Len(a.pending) <= PageSize
    <3>1. a.base = x.base /\ a.pending = x.pending
      BY <1>1, ApplyIs DEF a
    <3> QED
      BY <1>2, <3>1 DEF Open
  <2> QED
    BY <1>5, <1>13, <2>1, <2>2, BoundedIs DEF SameBuilder
<1>9. /\ Sound(y) /\ DOMAIN y = DOMAIN b /\ SameBuffer(b, y) /\ y.build = b.build /\ y.error = b.error
      /\ b.error = "ok" => Left(y) = PageSize - b.pages[Len(b.pages)].used
  <2>1. b.build # NULL
    BY <1>4, <1>5
  <2> QED
    BY <1>5, <1>8, <1>14, <2>1, ConfigureSound
<1>10. BuilderFlush(x) = y
  BY DEF BuilderFlush, a, b
<1> HIDE DEF y
<1>11. y.error = "ok" => Left(y) >= MinBuffer
  <2>1. ASSUME y.error = "ok" PROVE Left(y) >= MinBuffer
    <3>1. b.pages[Len(b.pages)].used = PageHeader
      BY <1>5, <1>9, <2>1 DEF PagedTo, OnePage
    <3>2. Left(y) = PageSize - PageHeader
      BY <1>9, <2>1, <3>1
    <3> QED
      BY <3>2, Sizes
  <2> QED
    BY <2>1
<1>12. Written(x, y)
  BY <1>4, <1>5, <1>9 DEF Written, SameBuffer
<1> QED
  BY <1>9, <1>10, <1>11, <1>12

-----------------------------------------------------------------------------
(* Writing                                                                  *)

LEMMA LeftIs ==
    ASSUME NEW x, Typed(x)
    PROVE  Left(x) \in Int
<1>1. x.size \in Nat /\ Len(x.buffer) \in Nat /\ x.base \in Nat /\ Len(x.pending) \in Nat
  BY DEF Typed, BufferFits, BuilderTyped
<1> QED
  BY <1>1, Sizes DEF Left

LEMMA PutSound ==
    ASSUME NEW x, Sound(x), x.error = "ok", NEW bytes \in Seq(Contents), Left(x) >= Len(bytes)
    PROVE  Sound(Put(x, bytes)) /\ Written(x, Put(x, bytes))
BY PutReal, PutBuild

LEMMA EmptyContents == << >> \in Seq(Contents)
OBVIOUS

\* mpack_writer_ensure
LEMMA EnsureSound ==
    ASSUME NEW x, Sound(x), x.error = "ok", NEW n \in Nat, n <= MinBuffer
    PROVE  LET y == Ensure(x, n) IN
           Sound(y) /\ Written(x, y) /\ (y.error = "ok" => Left(y) >= n)
<1> DEFINE y == Ensure(x, n)
           g == Flush(x, << >>)
           f == BuilderFlush(x)
<1>1. Left(x) \in Int
  BY LeftIs DEF Sound
<1>2. CASE Left(x) >= n
  <2>1. y = x
    BY <1>2 DEF Ensure
  <2> QED
    BY <1>2, <2>1, WrittenSelf
<1>3. CASE ~(Left(x) >= n) /\ x.build # NULL
  <2>1. Ensure(x, n) = f
    BY <1>3 DEF Ensure
  <2>2. Left(x) < MinBuffer
    BY <1>1, <1>3, Sizes
  <2>3. Sound(f) /\ Written(x, f) /\ (f.error = "ok" => Left(f) >= MinBuffer)
    BY <1>3, <2>2, BuilderFlushSound
  <2> HIDE DEF f
  <2>4. Left(f) \in Int
    BY <2>3, LeftIs DEF Sound
  <2>5. f.error = "ok" => Left(f) >= n
    BY <2>3, <2>4, Sizes
  <2> QED
    BY <2>1, <2>3, <2>5
<1>4. CASE ~(Left(x) >= n) /\ x.build = NULL /\ Fixed(x)
  <2>1. Ensure(x, n) = FlagError(x, "too_big")
    BY <1>4 DEF Ensure
  <2>2. "too_big" \in Errors \ {"ok"}
    BY DEF Errors
  <2> QED
    BY <2>1, <2>2, FlagSound
<1>5. CASE ~(Left(x) >= n) /\ x.build = NULL /\ ~Fixed(x)
  <2>1. Ensure(x, n) = IF g.error = "ok" /\ Left(g) < n THEN FlagError(g, "io") ELSE g
    BY <1>5 DEF Ensure
  <2>2. Sound(g) /\ Written(x, g)
    BY <1>5, EmptyContents, FlushSound
  <2> HIDE DEF g
  <2>3. Left(g) \in Int
    BY <2>2, LeftIs DEF Sound
  <2>4. CASE g.error = "ok" /\ Left(g) < n
    <3>1. "io" \in Errors \ {"ok"}
      BY DEF Errors
    <3>2. Ensure(x, n) = FlagError(g, "io")
      BY <2>1, <2>4
    <3> QED
      BY <2>2, <3>1, <3>2, FlagSound, WrittenThen
  <2>5. CASE ~(g.error = "ok" /\ Left(g) < n)
    <3>1. Ensure(x, n) = g
      BY <2>1, <2>5
    <3>2. g.error = "ok" => Left(g) >= n
      BY <2>3, <2>5
    <3> QED
      BY <2>2, <3>1, <3>2
  <2> QED
    BY <2>4, <2>5
<1> QED
  BY <1>2, <1>3, <1>4, <1>5

\* A tag, in one piece
LEMMA TagSound ==
    ASSUME NEW x, Sound(x), NEW bytes \in Seq(Contents), Len(bytes) <= MinBuffer
    PROVE  Sound(WriteTag(x, bytes)) /\ Written(x, WriteTag(x, bytes))
<1> DEFINE e == Ensure(x, Len(bytes))
<1>1. CASE x.error # "ok"
  <2>1. WriteTag(x, bytes) = x
    BY <1>1 DEF WriteTag
  <2> QED
    BY <2>1, WrittenSelf
<1>2. CASE x.error = "ok"
  <2>1. Sound(e) /\ Written(x, e) /\ (e.error = "ok" => Left(e) >= Len(bytes))
    <3>1. Len(bytes) \in Nat
      OBVIOUS
    <3> QED
      BY <1>2, <3>1, EnsureSound
  <2>2. WriteTag(x, bytes) = IF e.error # "ok" THEN e ELSE Put(e, bytes)
    BY <1>2 DEF WriteTag
  <2> HIDE DEF e
  <2>3. CASE e.error # "ok"
    BY <2>1, <2>2, <2>3
  <2>4. CASE e.error = "ok"
    <3>1. Sound(Put(e, bytes)) /\ Written(e, Put(e, bytes))
      BY <2>1, <2>4, PutSound
    <3> QED
      BY <2>1, <2>2, <2>4, <3>1, WrittenThen
  <2> QED
    BY <2>3, <2>4
<1> QED
  BY <1>1, <1>2

LEMMA PutByteSound ==
    ASSUME NEW x, Sound(x), x.build # NULL, NEW b \in Contents
    PROVE  Sound(PutByte(x, b)) /\ Written(x, PutByte(x, b))
<1> DEFINE f == IF Left(x) = 0 /\ x.error = "ok" THEN BuilderFlush(x) ELSE x
<1>1. PutByte(x, b) = IF f.error = "ok" THEN Put(f, <<b>>) ELSE f
  BY DEF PutByte
<1>2. Sound(f) /\ Written(x, f) /\ (f.error = "ok" => Left(f) >= 1)
  <2>1. CASE Left(x) = 0 /\ x.error = "ok"
    <3> DEFINE g == BuilderFlush(x)
    <3>1. Left(x) < MinBuffer
      BY <2>1, Sizes
    <3>2. Sound(g) /\ Written(x, g) /\ (g.error = "ok" => Left(g) >= MinBuffer)
      BY <2>1, <3>1, BuilderFlushSound
    <3>3. f = g
      BY <2>1
    <3> HIDE DEF g
    <3>4. Left(g) \in Int
      BY <3>2, LeftIs DEF Sound
    <3>5. g.error = "ok" => Left(g) >= 1
      BY <3>2, <3>4, Sizes
    <3> QED
      BY <3>2, <3>3, <3>5
  <2>2. CASE ~(Left(x) = 0 /\ x.error = "ok")
    <3>1. f = x
      BY <2>2
    <3>2. x.error = "ok" => Left(x) >= 1
      <4>1. ASSUME x.error = "ok" PROVE Left(x) >= 1
        <5>1. PICK start : Open(x, start)
          BY <4>1 DEF Sound
        <5> DEFINE m == x.base
                   n == Len(x.pending)
        <5>2. m \in Nat /\ n \in Nat /\ m + n <= PageSize /\ Left(x) = PageSize - m - n
          BY <5>1 DEF Open, Left, Sound, Typed, BuilderTyped
        <5>3. Left(x) # 0
          BY <2>2, <4>1
        <5> HIDE DEF m, n
        <5>4. PageSize - m - n >= 0
          BY <5>2, Sizes
        <5> QED
          BY <5>2, <5>3, <5>4, Sizes
      <4> QED
        BY <4>1
    <3> QED
      BY <3>1, <3>2, WrittenSelf
  <2> QED
    BY <2>1, <2>2
<1> HIDE DEF f
<1>3. CASE f.error = "ok"
  <2>1. <<b>> \in Seq(Contents) /\ Len(<<b>>) = 1
    OBVIOUS
  <2>2. Sound(Put(f, <<b>>)) /\ Written(f, Put(f, <<b>>))
    BY <1>2, <1>3, <2>1, PutSound
  <2> QED
    BY <1>1, <1>2, <1>3, <2>2, WrittenThen
<1>4. CASE f.error # "ok"
  BY <1>1, <1>2, <1>4
<1> QED
  BY <1>3, <1>4

LEMMA PagesSound ==
    ASSUME NEW x, Sound(x), x.build # NULL, NEW bytes \in Seq(Contents)
    PROVE  Sound(PutInPages(x, bytes)) /\ Written(x, PutInPages(x, bytes))
<1> DEFINE k == Len(bytes)
           f == CHOOSE g : g = [n \in 0..Len(bytes) |-> IF n = 0 THEN x ELSE PutByte(g[n - 1], bytes[n])]
<1>1. PutInPages(x, bytes) = f[k]
  BY DEF PutInPages
<1>2. Bytewise(x, bytes, k, f)
  <2>1. \E g : g = [n \in 0..Len(bytes) |-> IF n = 0 THEN x ELSE PutByte(g[n - 1], bytes[n])]
    <3>1. Len(bytes) \in Nat
      OBVIOUS
    <3>2. \E g : Bytewise(x, bytes, Len(bytes), g)
      BY <3>1, BytewiseIs
    <3> QED
      BY <3>2, Zenon DEF Bytewise
  <2>2. f = [n \in 0..Len(bytes) |-> IF n = 0 THEN x ELSE PutByte(f[n - 1], bytes[n])]
    BY <2>1, Zenon
  <2> HIDE DEF f
  <2> QED
    BY <2>2, Zenon DEF Bytewise
<1> HIDE DEF f, k
<1>3. k \in Nat /\ \A n \in 1..k : bytes[n] \in Contents
  BY DEF k
<1>4. f[0] = x /\ \A n \in 1..k : f[n] = PutByte(f[n - 1], bytes[n])
  <2>1. Chain(x, bytes, k, f)
    BY <1>2, <1>3, BytewiseFacts, Zenon
  <2> QED
    BY <2>1, Zenon DEF Chain
<1> DEFINE Good(y) == Sound(y) /\ Written(x, y)
           S == {n \in 0..k : ~Good(f[n])}
<1>5. SUFFICES ASSUME S # {} PROVE FALSE
  BY <1>1, <1>3, <1>5
<1>6. S \subseteq Nat
  BY <1>3
<1>7. PICK n \in S : \A m \in S : n <= m
  BY <1>5, <1>6, LeastNatural
<1>8. n \in 0..k /\ ~Good(f[n])
  OBVIOUS
<1>9. n # 0
  BY <1>4, <1>8, WrittenSelf
<1>10. n \in 1..k /\ n - 1 \in 0..k /\ ~(n <= n - 1)
  BY <1>3, <1>8, <1>9
<1>11. Sound(f[n - 1]) /\ Written(x, f[n - 1])
  BY <1>7, <1>10
<1>12. f[n - 1].build # NULL
  BY <1>11 DEF Written
<1>13. Sound(f[n]) /\ Written(f[n - 1], f[n])
  BY <1>3, <1>4, <1>10, <1>11, <1>12, PutByteSound
<1> QED
  BY <1>8, <1>11, <1>13, WrittenThen

\* mpack_write_native and its straddling half
LEMMA NativeSound ==
    ASSUME NEW x, Sound(x), NEW bytes \in Seq(Contents)
    PROVE  Sound(WriteNative(x, bytes)) /\ Written(x, WriteNative(x, bytes))
<1> DEFINE g == Flush(x, << >>)
           y == WriteNative(x, bytes)
<1>1. CASE x.error # "ok"
  <2>1. y = x
    BY <1>1 DEF WriteNative
  <2> QED
    BY <2>1, WrittenSelf
<1>2. CASE x.error = "ok" /\ Left(x) >= Len(bytes)
  <2>1. y = Put(x, bytes)
    BY <1>2 DEF WriteNative
  <2> QED
    BY <1>2, <2>1, PutSound
<1>3. CASE x.error = "ok" /\ ~(Left(x) >= Len(bytes)) /\ x.build # NULL
  <2>1. y = PutInPages(x, bytes)
    BY <1>3 DEF WriteNative
  <2> QED
    BY <1>3, <2>1, PagesSound
<1>4. CASE x.error = "ok" /\ ~(Left(x) >= Len(bytes)) /\ x.build = NULL /\ Fixed(x)
  <2>1. y = FlagError(x, "too_big")
    BY <1>4 DEF WriteNative
  <2>2. "too_big" \in Errors \ {"ok"}
    BY DEF Errors
  <2> QED
    BY <2>1, <2>2, FlagSound
<1>5. CASE x.error = "ok" /\ ~(Left(x) >= Len(bytes)) /\ x.build = NULL /\ ~Fixed(x)
  <2>1. y = IF g.error # "ok" THEN g ELSE IF Len(bytes) > Left(g) THEN Flush(g, bytes) ELSE Put(g, bytes)
    BY <1>5 DEF WriteNative
  <2>2. Sound(g) /\ Written(x, g)
    BY <1>5, EmptyContents, FlushSound
  <2> HIDE DEF g
  <2>3. Left(g) \in Int /\ Len(bytes) \in Nat
    BY <2>2, LeftIs DEF Sound
  <2>4. CASE g.error # "ok"
    BY <2>1, <2>2, <2>4
  <2>5. CASE g.error = "ok" /\ Len(bytes) > Left(g)
    <3>1. ~Fixed(g)
      BY <1>5, <2>2 DEF Written, Fixed
    <3>2. Sound(Flush(g, bytes)) /\ Written(g, Flush(g, bytes))
      BY <2>2, <2>5, <3>1, FlushSound
    <3> QED
      BY <2>1, <2>2, <2>5, <3>2, WrittenThen
  <2>6. CASE g.error = "ok" /\ ~(Len(bytes) > Left(g))
    <3>1. Left(g) >= Len(bytes)
      BY <2>3, <2>6
    <3>2. Sound(Put(g, bytes)) /\ Written(g, Put(g, bytes))
      BY <2>2, <2>6, <3>1, PutSound
    <3> QED
      BY <2>1, <2>2, <2>6, <3>2, WrittenThen
  <2> QED
    BY <2>4, <2>5, <2>6
<1> QED
  BY <1>1, <1>2, <1>3, <1>4, <1>5

-----------------------------------------------------------------------------
(* Counting elements                                                        *)

\* A writer with another stack of containers
LEMMA TrackedSound ==
    ASSUME NEW x, Sound(x), NEW track
    PROVE  Sound([x EXCEPT !.track = track]) /\ Written(x, [x EXCEPT !.track = track])
           /\ [x EXCEPT !.track = track].error = x.error /\ SameBuilder(x, [x EXCEPT !.track = track])
<1> DEFINE y == [x EXCEPT !.track = track]
<1>1. HasFields(x) /\ BufferFits(x)
  BY DEF Sound, Typed
<1>2. DOMAIN y = DOMAIN x /\ SameBuilder(x, y) /\ SameBuffer(x, y) /\ y.error = x.error
      /\ y.allocations = x.allocations
  BY <1>1 DEF HasFields, SameBuilder, SameBuffer
<1> HIDE DEF y
<1>3. BufferFits(y) /\ y.sink = x.sink
  BY <1>1, <1>2 DEF BufferFits, SameBuffer, Fixed
<1>4. Sound(y) /\ Written(x, y)
  BY <1>2, <1>3, SoundBy
<1> QED
  BY <1>2, <1>4 DEF y

\* A writer whose stack of containers took one more, or had no memory for it
LEMMA TrackPushSound ==
    ASSUME NEW x, Sound(x), x.error = "ok", NEW s
    PROVE  LET y == TrackPush(x, s) IN
           /\ Sound(y) /\ Written(x, y) /\ SameBuilder(x, y)
           /\ y.error = "ok" \/ (y.error = "memory" /\ Full(y.track, y.capacity))
<1> DEFINE y == TrackPush(x, s)
           a == Allocation(x)
<1>1. HasFields(x) /\ BufferFits(x)
  BY DEF Sound, Typed
<1>2. CASE ~Full(x.track, x.capacity)
  <2>1. y = [x EXCEPT !.track = s]
    BY <1>2 DEF TrackPush
  <2> QED
    BY <2>1, TrackedSound
<1>3. CASE Full(x.track, x.capacity) /\ Fails(x)
  <2>1. y = FlagError(a, "memory")
    BY <1>3 DEF TrackPush
  <2>2. Sound(y) /\ Written(x, y)
    BY <2>1, FailedSound
  <2>3. HasFields(a) /\ SameBuilder(x, a) /\ a.track = x.track /\ a.capacity = x.capacity /\ a.error = "ok"
    BY <1>1 DEF HasFields, Allocation, SameBuilder
  <2> HIDE DEF a
  <2>4. SameBuilder(a, y) /\ y.track = a.track /\ y.capacity = a.capacity /\ y.error = "memory"
    BY <2>1, <2>3 DEF HasFields, FlagError, SameBuilder
  <2> HIDE DEF y
  <2>5. SameBuilder(x, y)
    BY <2>3, <2>4 DEF SameBuilder
  <2> QED
    BY <1>3, <2>2, <2>3, <2>4, <2>5 DEF y
<1>4. CASE Full(x.track, x.capacity) /\ ~Fails(x)
  <2>1. y = [a EXCEPT !.track = s, !.capacity = 2 * @]
    BY <1>4 DEF TrackPush
  <2>2. HasFields(a) /\ DOMAIN a = DOMAIN x /\ SameBuilder(x, a) /\ SameBuffer(x, a)
        /\ a.error = "ok" /\ a.allocations = x.allocations + 1
    BY <1>1, AllocationIs DEF HasFields
  <2> HIDE DEF a
  <2>3. DOMAIN y = DOMAIN a /\ SameBuilder(a, y) /\ SameBuffer(a, y) /\ y.error = a.error
        /\ y.allocations = a.allocations
    BY <2>1, <2>2 DEF HasFields, SameBuilder, SameBuffer
  <2> HIDE DEF y
  <2>4. DOMAIN y = DOMAIN x /\ SameBuilder(x, y) /\ SameBuffer(x, y) /\ y.error = "ok"
        /\ y.allocations \in Nat
    BY <1>1, <2>2, <2>3 DEF SameBuilder, SameBuffer, BufferFits
  <2>5. BufferFits(y) /\ y.sink = x.sink
    BY <1>1, <2>4 DEF BufferFits, SameBuffer, Fixed
  <2>6. Sound(y) /\ Written(x, y)
    BY <2>4, <2>5, SoundBy
  <2> QED
    BY <2>4, <2>6 DEF y
<1> QED
  BY <1>2, <1>3, <1>4

\* The count of a build says nothing about where it is
Recounted(b, c) ==
    c \in BuildRecords /\ c.page = b.page /\ c.offset = b.offset /\ c.bytes = b.bytes /\ c.parent = b.parent
SameButBuilds(x, y) ==
    /\ DOMAIN y = DOMAIN x /\ SameBuffer(x, y) /\ y.error = x.error /\ y.allocations = x.allocations
    /\ y.pages = x.pages /\ y.page = x.page /\ y.live = x.live /\ y.base = x.base
    /\ y.pending = x.pending /\ y.build = x.build /\ y.latest = x.latest

LEMMA RecountedSound ==
    ASSUME NEW x, Sound(x), x.build # NULL, NEW i \in 1..Len(x.builds),
           NEW c, Recounted(x.builds[i], c),
           NEW y, SameButBuilds(x, y), y.builds = [x.builds EXCEPT ![i] = c]
    PROVE  Sound(y) /\ Written(x, y) /\ ((\E start : Open(x, start)) => \E start : Open(y, start))
<1> DEFINE P == Len(x.pages)
           B == Len(x.builds)
<1>1. HasFields(x) /\ BufferFits(x) /\ BuilderTyped(x)
  BY DEF Sound, Typed
<1>2. x.builds \in Seq(BuildRecords) /\ x.pages \in Seq(PageRecords) /\ P \in Nat /\ B \in Nat
  BY <1>1 DEF BuilderTyped
<1>3. Replaced(y.builds, BuildRecords, x.builds, i, c)
  BY <1>2, ReplaceOne DEF Recounted
<1>4. y.builds \in Seq(BuildRecords) /\ Len(y.builds) = B
      /\ \A b \in 1..B : /\ y.builds[b].page = x.builds[b].page /\ y.builds[b].offset = x.builds[b].offset
                         /\ y.builds[b].bytes = x.builds[b].bytes /\ y.builds[b].parent = x.builds[b].parent
  BY <1>3 DEF Replaced, Recounted
<1>5. BuilderTyped(y)
  <2>1. \A b \in 1..Len(y.builds) : y.builds[b].parent \in 0..(b - 1)
    BY <1>1, <1>4 DEF BuilderTyped
  <2> QED
    BY <1>1, <1>4, <2>1 DEF BuilderTyped, SameButBuilds
<1>6. HasFields(y) /\ BufferFits(y)
  BY <1>1 DEF HasFields, BufferFits, SameBuffer, SameButBuilds, Fixed
<1>7. ASSUME \E start : Open(x, start) PROVE \E start : Open(y, start)
  <2>1. PICK start : Open(x, start)
    BY <1>7
  <2>2. Laid(x.pages, x.builds, start) /\ x.page = P /\ x.latest = B
    BY <2>1 DEF Open, Applied
  <2>3. \A b \in 1..B : x.builds[b].offset \in Nat /\ x.builds[b].bytes \in Nat
    <3>1. \A b \in 1..B : x.builds[b] \in BuildRecords
      BY <1>2
    <3> QED
      BY <3>1, BuildIs
  <2>4. x.pages[P].used \in Nat /\ x.pages[P].used <= PageSize
    <3>1. P \in 1..P
      BY <1>2, <2>2 DEF Laid
    <3> QED
      BY <2>2, <3>1, PageIs DEF Laid
  <2>5. MorePages(x.pages, x.pages, 0) /\ x.pages[P].used + 0 <= PageSize
    <3> DEFINE u == x.pages[P].used
    <3>1. u \in Nat /\ u <= PageSize
      BY <2>4
    <3> HIDE DEF u
    <3>2. u + 0 = u
      BY <3>1
    <3> QED
      BY <3>1, <3>2 DEF MorePages, u
  <2>6. MoreBuilds(x.builds, y.builds, 0)
    <3>1. B \in 1..B
      BY <1>2, <2>2 DEF Laid
    <3> DEFINE n == x.builds[B].bytes
    <3>2. n \in Nat /\ y.builds[B].bytes = n
      BY <1>4, <2>3, <3>1
    <3> HIDE DEF n
    <3>3. y.builds[B].bytes = n + 0
      BY <3>2
    <3> QED
      BY <1>4, <3>3 DEF MoreBuilds, n
  <2>7. Laid(x.pages, y.builds, start)
    BY <1>2, <2>2, <2>3, <2>5, <2>6, LaidMore
  <2> QED
    BY <1>4, <2>1, <2>2, <2>7 DEF Open, Applied, SameButBuilds
<1>10. Bounded(y)
  <2>1. Len(y.buffer) <= y.size /\ y.base + Len(y.pending) <= PageSize
    BY <1>6 DEF Sound, Bounded, BufferFits, SameButBuilds
  <2>2. ASSUME NEW p \in y.live PROVE y.pages[p].used <= PageSize \/ HeaderPastPage(y, p)
    <3>1. x.pages[p].used <= PageSize \/ HeaderPastPage(x, p)
      BY <2>2 DEF Sound, Bounded, SameButBuilds
    <3>2. x.build \in 1..B
      BY <1>1, <1>2 DEF BuilderTyped, NULL
    <3>3. HeaderPastPage(x, p) => HeaderPastPage(y, p)
      BY <1>4, <3>2 DEF HeaderPastPage, SameButBuilds
    <3> QED
      BY <3>1, <3>3 DEF SameButBuilds
  <2> QED
    BY <2>1, <2>2 DEF Bounded
<1>8. Sound(y)
  BY <1>5, <1>6, <1>7, <1>10 DEF Sound, Typed, SameButBuilds
<1>9. Written(x, y)
  BY DEF Written, SameButBuilds, SameBuffer
<1> QED
  BY <1>7, <1>8, <1>9

LEMMA CountElementIs ==
    ASSUME NEW b \in BuildRecords
    PROVE  Recounted(b, CountElement(b))
<1>1. b.count \in Nat
  BY BuildIs
<1>2. CASE b.nested # 0
  BY <1>2 DEF CountElement, Recounted
<1>3. CASE b.nested = 0 /\ b.type = "map" /\ ~b.odd
  BY <1>3 DEF CountElement, Recounted, BuildRecords
<1>4. CASE b.nested = 0 /\ ~(b.type = "map" /\ ~b.odd)
  <2>1. CountElement(b) = [b EXCEPT !.odd = FALSE, !.count = @ + 1]
    BY <1>4 DEF CountElement
  <2>2. b.count + 1 \in Nat
    BY <1>1
  <2> QED
    BY <2>1, <2>2 DEF Recounted, BuildRecords
<1> QED
  BY <1>2, <1>3, <1>4

LEMMA NestedIs ==
    ASSUME NEW b \in BuildRecords, NEW d \in Int
    PROVE  Recounted(b, [b EXCEPT !.nested = @ + d])
BY DEF BuildRecords, Recounted

\* mpack_writer_track_element
LEMMA ElementSound ==
    ASSUME NEW x, Sound(x)
    PROVE  /\ Sound(Element(x)) /\ Written(x, Element(x))
           /\ x.build # NULL /\ (\E start : Open(x, start)) => \E start : Open(Element(x), start)
<1> DEFINE t == IF MayAddElement(x.track) THEN [x EXCEPT !.track = AddElement(@)] ELSE FlagError(x, "bug")
<1>1. Sound(t) /\ Written(x, t) /\ SameBuilder(x, t)
  <2>1. "bug" \in Errors \ {"ok"}
    BY DEF Errors
  <2>2. t = [x EXCEPT !.track = AddElement(x.track)] \/ t = FlagError(x, "bug")
    BY Zenon
  <2>3. HasFields(x)
    BY DEF Sound, Typed
  <2> HIDE DEF t
  <2> QED
    BY <2>1, <2>2, <2>3, TrackedSound, FlagSound, FlagIs
<1>2. Element(x) = IF t.build = NULL THEN t ELSE [t EXCEPT !.builds[t.build] = CountElement(@)]
  BY DEF Element
<1> HIDE DEF t
<1>3. CASE t.build = NULL
  BY <1>1, <1>2, <1>3 DEF SameBuilder
<1>4. CASE t.build # NULL
  <2> DEFINE y == Element(x)
             i == t.build
             c == CountElement(t.builds[i])
  <2>1. HasFields(t) /\ BuilderTyped(t)
    BY <1>1 DEF Sound, Typed
  <2>2. i \in 1..Len(t.builds) /\ t.builds[i] \in BuildRecords
    <3>1. i \in 0..Len(t.builds) /\ i # 0 /\ t.builds \in Seq(BuildRecords)
      BY <1>4, <2>1 DEF BuilderTyped, NULL
    <3>2. i \in 1..Len(t.builds)
      BY <3>1
    <3> QED
      BY <3>1, <3>2
  <2>3. y = [t EXCEPT !.builds = [t.builds EXCEPT ![i] = c]]
    <3>1. y = [t EXCEPT !.builds[i] = CountElement(@)]
      BY <1>2, <1>4, Zenon
    <3> HIDE DEF y
    <3>2. y = [t EXCEPT !.builds = [t.builds EXCEPT ![i] = c]]
      BY <3>1
    <3> QED
      BY <3>2
  <2>4. Recounted(t.builds[i], c)
    BY <2>2, CountElementIs
  <2> HIDE DEF y, c
  <2>5. SameButBuilds(t, y) /\ y.builds = [t.builds EXCEPT ![i] = c]
    BY <2>1, <2>3 DEF HasFields, SameButBuilds, SameBuffer
  <2>6. Sound(y) /\ Written(t, y) /\ ((\E start : Open(t, start)) => \E start : Open(y, start))
    BY <1>1, <1>4, <2>2, <2>4, <2>5, RecountedSound
  <2>7. (\E start : Open(x, start)) => \E start : Open(t, start)
    BY <1>1, OpenBy
  <2> QED
    BY <1>1, <2>6, <2>7, WrittenThen DEF y
<1> QED
  BY <1>3, <1>4

\* mpack_builder_compound_push and _pop
LEMMA CompoundsSound ==
    ASSUME NEW x, Sound(x), NEW d \in Int
    PROVE  Sound(Compounds(x, d)) /\ Written(x, Compounds(x, d))
<1>1. CASE x.build = NULL
  <2>1. Compounds(x, d) = x
    BY <1>1 DEF Compounds
  <2> QED
    BY <2>1, WrittenSelf
<1>2. CASE x.build # NULL
  <2> DEFINE y == Compounds(x, d)
             i == x.build
             c == [x.builds[i] EXCEPT !.nested = @ + d]
  <2>1. HasFields(x) /\ BuilderTyped(x)
    BY DEF Sound, Typed
  <2>2. i \in 1..Len(x.builds) /\ x.builds[i] \in BuildRecords
    <3>1. i \in 0..Len(x.builds) /\ i # 0 /\ x.builds \in Seq(BuildRecords)
      BY <1>2, <2>1 DEF BuilderTyped, NULL
    <3>2. i \in 1..Len(x.builds)
      BY <3>1
    <3> QED
      BY <3>1, <3>2
  <2>3. y = [x EXCEPT !.builds = [x.builds EXCEPT ![i] = c]]
    BY <1>2 DEF Compounds
  <2>4. Recounted(x.builds[i], c)
    BY <2>2, NestedIs
  <2> HIDE DEF y, c
  <2>5. SameButBuilds(x, y) /\ y.builds = [x.builds EXCEPT ![i] = c]
    BY <2>1, <2>3 DEF HasFields, SameButBuilds, SameBuffer
  <2>6. Sound(y) /\ Written(x, y)
    BY <1>2, <2>2, <2>4, <2>5, RecountedSound
  <2> QED
    BY <2>6 DEF y
<1> QED
  BY <1>1, <1>2

-----------------------------------------------------------------------------
(* Starting a build                                                         *)

\* Where the next header goes in the current page
HeaderAt(x) == Align(x.pages[x.page].used)

\* The current page can take the header of the next build: it is the first page
\* and empty, or the last build ends where the code looks for the next
FirstPage(x) ==
    /\ Len(x.pages) = 1 /\ x.page = 1 /\ x.live = 1..1 /\ Len(x.builds) = 0
    /\ x.pages[1].used = PageHeader
NextHeader(x) ==
    \E start : Applied(x, start) /\ Continues(x.pages, x.builds, start, HeaderAt(x))
Takes(x) == FirstPage(x) \/ (NextHeader(x) /\ HeaderAt(x) + BuildSize <= PageSize)

\* What the code adds for a header
HeadedTo(x, y) ==
    /\ HeaderPages(x.pages, y.pages, HeaderAt(x))
    /\ OneBuild(x.builds, y.builds, Len(x.pages), HeaderAt(x))

LEMMA HeaderIs ==
    ASSUME NEW x, Typed(x), x.page \in 1..Len(x.pages)
    PROVE  /\ x.pages[x.page] \in PageRecords /\ x.pages[x.page].used \in Nat
           /\ x.pages[x.page].memory \in Seq(Contents)
           /\ Len(x.pages[x.page].memory) = x.pages[x.page].used
           /\ HeaderAt(x) \in Nat /\ HeaderAt(x) >= x.pages[x.page].used
<1>1. x.pages[x.page] \in PageRecords
  BY DEF Typed, BuilderTyped
<1>2. x.pages[x.page].used \in Nat /\ x.pages[x.page].memory \in Seq(Contents)
      /\ Len(x.pages[x.page].memory) = x.pages[x.page].used
  BY <1>1 DEF PageRecords
<1>3. HeaderAt(x) \in Nat /\ x.pages[x.page].used <= HeaderAt(x)
  BY <1>2, AlignIs DEF HeaderAt
<1> QED
  BY <1>1, <1>2, <1>3

LEMMA AddBuildIs ==
    ASSUME NEW x, HasFields(x), NEW item, NEW type
    PROVE  LET y == AddBuild(x, item, type)
               p == x.pages[x.page]
               n == Len(x.builds) + 1 IN
           /\ DOMAIN y = DOMAIN x /\ SameBuffer(x, y)
           /\ y.error = x.error /\ y.allocations = x.allocations
           /\ y.page = x.page /\ y.live = x.live /\ y.base = x.base /\ y.pending = x.pending
           /\ y.build = n /\ y.latest = n
           /\ y.pages = [x.pages EXCEPT ![x.page] =
                  PageOf(HeaderAt(x) + BuildSize,
                         p.memory \o [i \in 1..(HeaderAt(x) + BuildSize - p.used) |-> "header"])]
           /\ y.builds = Append(x.builds, NewBuild(item, type, x.build, x.page, HeaderAt(x)))
BY DEF HasFields, SameBuffer, AddBuild, PageOf, HeaderAt

LEMMA HeaderBytes ==
    ASSUME NEW n \in Nat
    PROVE  [i \in 1..n |-> "header"] \in Seq(Contents) /\ Len([i \in 1..n |-> "header"]) = n
<1>1. "header" \in Contents
  BY DEF Contents
<1> QED
  BY <1>1

LEMMA AddBuildTyped ==
    ASSUME NEW x, Typed(x), x.page \in 1..Len(x.pages), NEW item \in Nat, NEW type \in Compound
    PROVE  LET y == AddBuild(x, item, type) IN
           /\ Typed(y) /\ DOMAIN y = DOMAIN x /\ SameBuffer(x, y) /\ y.error = x.error
           /\ y.page = x.page /\ y.live = x.live /\ y.base = x.base /\ y.pending = x.pending
           /\ y.build # NULL /\ y.build = Len(x.builds) + 1 /\ y.latest = Len(x.builds) + 1
           /\ Len(y.pages) = Len(x.pages) /\ Len(y.builds) = Len(x.builds) + 1
           /\ x.page = Len(x.pages) => HeadedTo(x, y)
<1> DEFINE y == AddBuild(x, item, type)
           p == x.pages[x.page]
           n == Len(x.builds) + 1
           offset == HeaderAt(x)
           gap == offset + BuildSize - p.used
           more == [i \in 1..gap |-> "header"]
           page == PageOf(offset + BuildSize, p.memory \o more)
           build == NewBuild(item, type, x.build, x.page, offset)
<1>1. HasFields(x) /\ BufferFits(x) /\ BuilderTyped(x)
  BY DEF Typed
<1>2. /\ DOMAIN y = DOMAIN x /\ SameBuffer(x, y) /\ y.error = x.error /\ y.allocations = x.allocations
      /\ y.page = x.page /\ y.live = x.live /\ y.base = x.base /\ y.pending = x.pending
      /\ y.build = n /\ y.latest = n
      /\ y.pages = [x.pages EXCEPT ![x.page] = page] /\ y.builds = Append(x.builds, build)
  BY <1>1, AddBuildIs
<1>3. p.used \in Nat /\ p.memory \in Seq(Contents) /\ Len(p.memory) = p.used
      /\ offset \in Nat /\ offset >= p.used
  BY HeaderIs
<1> HIDE DEF y, offset
<1>4. gap \in Nat /\ p.used + gap = offset + BuildSize /\ offset + BuildSize \in Nat
  <2> DEFINE u == p.used
  <2>1. u \in Nat /\ offset >= u /\ offset \in Nat
    BY <1>3
  <2> HIDE DEF u
  <2>2. offset + BuildSize - u \in Nat /\ u + (offset + BuildSize - u) = offset + BuildSize
        /\ offset + BuildSize \in Nat
    BY <2>1, Sizes
  <2> QED
    BY <2>2 DEF u
<1>5. page \in PageRecords /\ page.used = offset + BuildSize
  <2>1. more \in Seq(Contents) /\ Len(more) = gap
    BY <1>4, HeaderBytes
  <2> HIDE DEF more, gap
  <2>2. p.memory \o more \in Seq(Contents) /\ Len(p.memory \o more) = Len(p.memory) + Len(more)
    BY <1>3, <2>1, ConcatProperties
  <2>3. Len(p.memory \o more) = offset + BuildSize
    BY <1>3, <1>4, <2>1, <2>2
  <2> QED
    BY <1>4, <2>2, <2>3, PageOfIs
<1> HIDE DEF page
<1>6. x.build \in Nat /\ x.page \in Nat /\ x.build \in 0..(n - 1) /\ n \in Nat /\ n # 0 /\ Len(x.builds) \in Nat
      /\ x.builds \in Seq(BuildRecords) /\ x.pages \in Seq(PageRecords)
  BY <1>1 DEF BuilderTyped
<1>7. build \in BuildRecords /\ build.parent = x.build /\ build.page = x.page /\ build.offset = offset
      /\ build.bytes = 0
  <2>1. x.build \in Nat /\ x.page \in Nat /\ offset \in Nat
    BY <1>3, <1>6
  <2>2. build = NewBuild(item, type, x.build, x.page, offset)
    OBVIOUS
  <2> HIDE DEF build
  <2> QED
    BY <2>1, <2>2 DEF NewBuild, BuildRecords
<1> HIDE DEF build
<1>8. Replaced(y.pages, PageRecords, x.pages, x.page, page)
  BY <1>2, <1>5, <1>6, ReplaceOne
<1>9. Appended(y.builds, BuildRecords, x.builds, build)
  BY <1>2, <1>6, <1>7, AppendOne
<1>10. Len(y.pages) = Len(x.pages) /\ Len(y.builds) = n /\ y.builds \in Seq(BuildRecords)
       /\ y.pages \in Seq(PageRecords)
  BY <1>8, <1>9 DEF Replaced, Appended
<1>11. ASSUME x.page = Len(x.pages) PROVE HeadedTo(x, y)
  <2>1. HeaderPages(x.pages, y.pages, offset)
    BY <1>5, <1>8, <1>11 DEF Replaced, HeaderPages
  <2>2. OneBuild(x.builds, y.builds, Len(x.pages), offset)
    BY <1>7, <1>9, <1>11 DEF Appended, OneBuild
  <2> QED
    BY <2>1, <2>2 DEF HeadedTo, offset
<1>12. HasFields(y) /\ BufferFits(y)
  BY <1>1, <1>2 DEF HasFields, BufferFits, SameBuffer, Fixed
<1>13. \A b \in 1..Len(y.builds) : y.builds[b].parent \in 0..(b - 1)
  <2>1. ASSUME NEW b \in 1..n PROVE y.builds[b].parent \in 0..(b - 1)
    <3>1. b \in 1..Len(x.builds) \/ b = n
      BY <1>6
    <3>2. CASE b \in 1..Len(x.builds)
      <4>1. y.builds[b] = x.builds[b]
        BY <1>9, <3>2 DEF Appended
      <4> QED
        BY <1>1, <3>2, <4>1 DEF BuilderTyped
    <3>3. CASE b = n
      <4>1. y.builds[b] = build
        BY <1>9, <3>3 DEF Appended
      <4> QED
        BY <1>6, <1>7, <3>3, <4>1
    <3> QED
      BY <3>1, <3>2, <3>3
  <2> QED
    BY <1>10, <2>1
<1>14. BuilderTyped(y)
  <2>1. n \in 0..n /\ n \in 1..n
    BY <1>6
  <2> QED
    BY <1>1, <1>2, <1>10, <1>13, <2>1 DEF BuilderTyped
<1>15. Typed(y)
  BY <1>12, <1>14 DEF Typed
<1>16. y.build # NULL
  BY <1>2, <1>6 DEF NULL
<1> QED
  BY <1>2, <1>10, <1>11, <1>15, <1>16 DEF y

LEMMA AddBuildLaid ==
    ASSUME NEW x, Typed(x), Takes(x), NEW item \in Nat, NEW type \in Compound
    PROVE  LET y == AddBuild(x, item, type) IN
           \E start :
               /\ Applied(y, start) /\ Filled(y.pages, 0)
               /\ y.pages[Len(y.pages)].used > PageHeader /\ y.pages[Len(y.pages)].used \in Nat
<1> DEFINE y == AddBuild(x, item, type)
           P == Len(x.pages)
           B == Len(x.builds)
           u == x.pages[P].used
           offset == HeaderAt(x)
<1>1. BuilderTyped(x)
  BY DEF Typed
<1>2. P \in Nat /\ B \in Nat
  BY <1>1 DEF BuilderTyped
<1>3. x.page = P /\ P \in 1..P /\ x.live = 1..P
  <2>1. CASE FirstPage(x)
    BY <2>1 DEF FirstPage
  <2>2. CASE NextHeader(x)
    <3>1. x.page = P /\ P >= 1 /\ x.live = 1..P
      BY <2>2 DEF NextHeader, Applied, Laid
    <3> QED
      BY <1>2, <3>1
  <2> QED
    BY <2>1, <2>2 DEF Takes
<1>4. /\ Typed(y) /\ y.page = x.page /\ y.live = x.live /\ y.latest = B + 1
      /\ Len(y.pages) = P /\ Len(y.builds) = B + 1 /\ HeadedTo(x, y)
  BY <1>3, AddBuildTyped
<1> HIDE DEF y
<1>5. offset \in Nat /\ offset >= u /\ u \in Nat
  BY <1>3, HeaderIs
<1>6. u >= PageHeader
  <2>1. CASE FirstPage(x)
    <3>1. u = PageHeader
      BY <2>1 DEF FirstPage
    <3> QED
      BY <3>1, Sizes
  <2>2. CASE NextHeader(x)
    <3>1. PICK start : Laid(x.pages, x.builds, start)
      BY <2>2 DEF NextHeader, Applied
    <3> QED
      BY <1>3, <3>1, PageIs DEF Laid
  <2> QED
    BY <2>1, <2>2 DEF Takes
<1>7. y.pages[P].used = offset + BuildSize
  BY <1>4 DEF HeadedTo, HeaderPages
<1>8. offset + BuildSize > PageHeader /\ offset + BuildSize + 0 > PageHeader /\ offset + BuildSize \in Nat
  <2> HIDE DEF offset, u
  <2> QED
    BY <1>5, <1>6, Sizes
<1>9. Filled(y.pages, 0)
  BY <1>4, <1>7, <1>8 DEF Filled
<1>10. \E start : Laid(y.pages, y.builds, start)
  <2>1. CASE FirstPage(x)
    <3>1. P = 1 /\ B = 0 /\ u = PageHeader /\ x.page = 1
      BY <2>1 DEF FirstPage
    <3>2. offset = Align(PageHeader)
      BY <3>1 DEF HeaderAt
    <3>3. Len(y.pages) = 1 /\ y.pages[1].used = Align(PageHeader) + BuildSize /\ Len(y.builds) = 1
      BY <1>4, <1>7, <3>1, <3>2
    <3>4. y.builds[1].page = 1 /\ y.builds[1].offset = Align(PageHeader) /\ y.builds[1].bytes = 0
      <4>1. OneBuild(x.builds, y.builds, P, offset) /\ B + 1 = 1
        BY <1>4, <3>1 DEF HeadedTo
      <4> QED
        BY <3>1, <3>2, <4>1 DEF OneBuild
    <3> QED
      BY <3>3, <3>4, LaidFirst
  <2>2. CASE NextHeader(x) /\ offset + BuildSize <= PageSize
    <3>1. PICK start : Applied(x, start) /\ Continues(x.pages, x.builds, start, offset)
      BY <2>2 DEF NextHeader
    <3>2. \A b \in 1..B : x.builds[b].offset \in Nat
      <4>1. \A b \in 1..B : x.builds[b] \in BuildRecords
        BY <1>1 DEF BuilderTyped
      <4> QED
        BY <4>1, BuildIs
    <3>3. HeaderPages(x.pages, y.pages, offset) /\ OneBuild(x.builds, y.builds, P, offset)
      BY <1>4 DEF HeadedTo
    <3>4. Laid(x.pages, x.builds, start)
      BY <3>1 DEF Applied
    <3> HIDE DEF offset
    <3>5. Laid(y.pages, y.builds, start)
      BY <1>2, <1>5, <2>2, <3>1, <3>2, <3>3, <3>4, LaidHeader
    <3> QED
      BY <3>5
  <2> QED
    BY <2>1, <2>2 DEF Takes
<1>11. PICK start : Laid(y.pages, y.builds, start)
  BY <1>10
<1>12. Applied(y, start)
  BY <1>3, <1>4, <1>11 DEF Applied
<1> QED
  BY <1>4, <1>7, <1>8, <1>9, <1>12 DEF y

\* The rest of mpack_builder_build
LEMMA BuildInSound ==
    ASSUME NEW x, Typed(x), x.page \in 1..Len(x.pages), NEW item \in Nat, NEW type \in Compound,
           x.base + Len(x.pending) <= PageSize,
           x.error = "ok" => Takes(x),
           x.error # "ok" => /\ x.error = "memory" /\ x.page = Len(x.pages) /\ PagesFit(x.pages)
                             /\ HeaderAt(x) + BuildSize > PageSize
    PROVE  LET y == BuildIn(x, item, type) IN
           Sound(y) /\ DOMAIN y = DOMAIN x /\ y.sink = x.sink /\ y.build # NULL
<1> DEFINE b == AddBuild(x, item, type)
           short == Remaining(b) \in 0..(MinBuffer - 1)
           c == IF short THEN AddPage(b) ELSE b
           y == ConfigureBuffer(c)
           Q == Len(b.pages)
           u == b.pages[Q].used
<1>1. BuildIn(x, item, type) = y
  BY DEF BuildIn
<1>2. /\ Typed(b) /\ DOMAIN b = DOMAIN x /\ b.sink = x.sink /\ b.error = x.error /\ b.build # NULL
      /\ b.build = Len(x.builds) + 1 /\ b.base = x.base /\ b.pending = x.pending
      /\ b.page = x.page /\ b.live = x.live
      /\ x.page = Len(x.pages) => HeadedTo(x, b)
  BY AddBuildTyped DEF SameBuffer
<1>3. x.error = "ok" => \E start :
          Applied(b, start) /\ Filled(b.pages, 0) /\ u > PageHeader /\ u \in Nat
  BY AddBuildLaid
<1> HIDE DEF b
<1>7. ASSUME x.error # "ok" PROVE Bounded(b) /\ ~short
  <2> DEFINE P == Len(x.pages)
             B == Len(x.builds) + 1
             h == HeaderAt(x)
  <2>1. /\ x.error = "memory" /\ x.page = P /\ PagesFit(x.pages) /\ h + BuildSize > PageSize
        /\ HeaderPages(x.pages, b.pages, h) /\ OneBuild(x.builds, b.builds, P, h)
    BY <1>2, <1>7 DEF HeadedTo
  <2>2. h \in Nat
    BY HeaderIs
  <2> HIDE DEF h
  <2>3. HeaderPastPage(b, P)
    <3>1. /\ b.builds[B].page = P /\ b.builds[B].offset = h /\ b.builds[B].bytes = 0
          /\ b.pages[P].used = h + BuildSize
      BY <2>1 DEF HeaderPages, OneBuild
    <3> QED
      BY <1>2, <2>1, <3>1 DEF HeaderPastPage
  <2>4. ASSUME NEW p \in b.live PROVE b.pages[p].used <= PageSize \/ HeaderPastPage(b, p)
    <3>1. p \in 1..P
      BY <1>2 DEF Typed, BuilderTyped
    <3>2. p # P => b.pages[p].used = x.pages[p].used
      BY <2>1, <3>1 DEF HeaderPages
    <3>3. x.pages[p].used <= PageSize
      BY <2>1, <3>1, Sizes DEF PagesFit
    <3> QED
      BY <2>3, <3>2, <3>3
  <2>5. Len(b.buffer) <= b.size
    BY <1>2 DEF Typed, BufferFits
  <2>6. ~short
    <3>1. Remaining(b) = PageSize - (h + BuildSize)
      BY <1>2, <2>1 DEF Remaining, HeaderPages
    <3>2. ~(PageSize - (h + BuildSize) \in 0..(MinBuffer - 1))
      BY <2>1, <2>2, Sizes
    <3> QED
      BY <3>1, <3>2
  <2> QED
    BY <1>2, <2>4, <2>5, <2>6 DEF Bounded
<1>4. Typed(c) /\ DOMAIN c = DOMAIN b /\ c.sink = b.sink /\ c.build = b.build
      /\ (c.error = "ok" => b.error = "ok")
  <2>1. CASE short
    <3>1. c = AddPage(b)
      BY <2>1
    <3> HIDE DEF c
    <3> QED
      BY <1>2, <3>1, AddPageTyped DEF SameBuffer
  <2>2. CASE ~short
    BY <1>2, <2>2
  <2> QED
    BY <2>1, <2>2
<1>5. ASSUME c.error = "ok" PROVE \E start : Applied(c, start) /\ Filled(c.pages, 0)
  <2>1. PICK start : Applied(b, start) /\ Filled(b.pages, 0) /\ u > PageHeader /\ u \in Nat
    BY <1>2, <1>3, <1>4, <1>5
  <2>2. CASE short
    <3>1. c = AddPage(b) /\ AddPage(b).error = "ok"
      BY <1>5, <2>2
    <3>2. Remaining(b) = PageSize - u
      BY <2>1 DEF Remaining, Applied
    <3>3. u + BuildSize > PageSize
      <4>1. PageSize - u \in 0..(MinBuffer - 1)
        BY <2>2, <3>2
      <4> HIDE DEF u
      <4> QED
        BY <2>1, <4>1, Sizes
    <3>4. Applied(c, OneStart(b.pages, start)) /\ Filled(c.pages, 0)
      BY <1>2, <2>1, <3>1, <3>3, AddPageLaid
    <3> QED
      BY <3>4
  <2>3. CASE ~short
    BY <2>1, <2>3
  <2> QED
    BY <2>2, <2>3
<1>8. ASSUME c.error # "ok" PROVE Bounded(c)
  <2>1. CASE x.error # "ok"
    BY <1>7, <2>1
  <2>2. CASE x.error = "ok"
    <3>1. short /\ c = AddPage(b) /\ b.error = "ok"
      BY <1>2, <1>8, <2>2
    <3>2. SameBuilder(b, c)
      BY <1>2, <1>8, <3>1, AddPageTyped
    <3>3. PagesFit(b.pages)
      BY <1>3, <2>2 DEF Applied, Laid
    <3> HIDE DEF c
    <3> QED
      BY <1>2, <1>4, <3>2, <3>3, BoundedIs DEF SameBuilder
  <2> QED
    BY <2>1, <2>2
<1> HIDE DEF c
<1>6. Sound(y) /\ DOMAIN y = DOMAIN c /\ y.sink = c.sink /\ y.build = c.build
  <2>1. c.build # NULL
    BY <1>2, <1>4
  <2> QED
    BY <1>4, <1>5, <1>8, <2>1, ConfigureSound DEF SameBuffer
<1> HIDE DEF y
<1> QED
  BY <1>1, <1>2, <1>4, <1>6

\* What mpack_builder_begin changes, if it gets the page
LEMMA BeginIs ==
    ASSUME NEW x, HasFields(x), ~Fails(x)
    PROVE  LET y == Begin(x) IN
           /\ DOMAIN y = DOMAIN x /\ SameBuffer(x, y)
           /\ y.error = x.error /\ y.allocations = x.allocations + 1
           /\ y.page = 1 /\ y.live = {1} /\ y.base = x.base /\ y.pending = x.pending
           /\ y.builds = << >> /\ y.build = x.build /\ y.latest = x.latest
           /\ y.pages = <<NewPage>> /\ y.track = x.track /\ y.capacity = x.capacity
<1> DEFINE a == Allocation(x)
           g == [a EXCEPT !.pages = <<NewPage>>, !.page = 1, !.live = {1}, !.builds = << >>]
<1>1. DOMAIN a = DOMAIN x /\ SameBuilder(x, a) /\ SameBuffer(x, a) /\ a.error = x.error
      /\ a.allocations = x.allocations + 1
  BY AllocationIs
<1>2. Begin(x) = g
  BY DEF Begin
<1>4. a.track = x.track /\ a.capacity = x.capacity
  BY DEF HasFields, Allocation
<1> HIDE DEF a
<1>3. DOMAIN g = DOMAIN a /\ SameBuffer(a, g) /\ g.error = a.error /\ g.allocations = a.allocations
      /\ g.page = 1 /\ g.live = {1} /\ g.base = a.base /\ g.pending = a.pending
      /\ g.builds = << >> /\ g.build = a.build /\ g.latest = a.latest /\ g.pages = <<NewPage>>
      /\ g.track = a.track /\ g.capacity = a.capacity
  BY <1>1 DEF HasFields, SameBuffer
<1> HIDE DEF g
<1> QED
  BY <1>1, <1>2, <1>3, <1>4 DEF SameBuilder, SameBuffer

\* The first page, or what was pending applied
LEMMA BeginTyped ==
    ASSUME NEW x, Sound(x), x.build = NULL, ~Fails(x)
    PROVE  LET y == Begin(x) IN
           /\ Typed(y) /\ DOMAIN y = DOMAIN x /\ SameBuffer(x, y) /\ y.error = x.error
           /\ y.build = NULL /\ y.latest = NULL /\ FirstPage(y) /\ y.live = {1} /\ y.builds = << >>
           /\ y.track = x.track /\ y.capacity = x.capacity
           /\ y.base + Len(y.pending) <= PageSize /\ Bounded(y)
<1> DEFINE y == Begin(x)
<1>1. HasFields(x) /\ BufferFits(x) /\ BuilderTyped(x) /\ x.latest = NULL
  BY DEF Sound, Typed
<1>2. /\ DOMAIN y = DOMAIN x /\ SameBuffer(x, y) /\ y.error = x.error /\ y.allocations = x.allocations + 1
      /\ y.page = 1 /\ y.live = {1} /\ y.base = x.base /\ y.pending = x.pending
      /\ y.builds = << >> /\ y.build = x.build /\ y.latest = x.latest /\ y.pages = <<NewPage>>
      /\ y.track = x.track /\ y.capacity = x.capacity
  BY <1>1, BeginIs
<1> HIDE DEF y
<1>3. y.pages \in Seq(PageRecords) /\ Len(y.pages) = 1 /\ y.pages[1].used = PageHeader
  BY <1>2, NewPageIs
<1>4. y.builds \in Seq(BuildRecords) /\ Len(y.builds) = 0
  BY <1>2
<1>5. {1} = 1..1 /\ 1 \in 0..1
  OBVIOUS
<1>6. FirstPage(y)
  BY <1>2, <1>3, <1>4, <1>5 DEF FirstPage
<1>7. BuilderTyped(y)
  <2>1. \A b \in 1..0 : y.builds[b].parent \in 0..(b - 1)
    OBVIOUS
  <2>2. y.build \in 0..0 /\ y.latest \in 0..0 /\ y.build = NULL
    BY <1>1, <1>2 DEF NULL
  <2>3. y.page \in 0..Len(y.pages) /\ y.live \subseteq 1..Len(y.pages)
    BY <1>2, <1>3, <1>5
  <2>4. y.base \in Nat /\ y.pending \in Seq(Contents)
    BY <1>1, <1>2 DEF BuilderTyped
  <2> QED
    BY <1>3, <1>4, <2>1, <2>2, <2>3, <2>4 DEF BuilderTyped
<1>8. HasFields(y) /\ BufferFits(y)
  <2>1. y.allocations \in Nat
    BY <1>1, <1>2 DEF BufferFits
  <2> QED
    BY <1>1, <1>2, <2>1 DEF HasFields, BufferFits, SameBuffer, Fixed
<1>9. y.base + Len(y.pending) <= PageSize
  BY <1>2 DEF Sound, Bounded
<1>10. PagesFit(y.pages)
  BY <1>3, Sizes DEF PagesFit
<1>11. Bounded(y)
  BY <1>7, <1>8, <1>9, <1>10, BoundedIs DEF Typed
<1> QED
  BY <1>1, <1>2, <1>6, <1>7, <1>8, <1>9, <1>11 DEF Typed, y

\* An end that is followed by a header in the same page, or that fills it
LEMMA NextIs ==
    ASSUME NEW x, Typed(x), NEW start, Applied(x, start), Filled(x.pages, 0),
           HeaderAt(x) + BuildSize <= PageSize
    PROVE  Takes(x)
<1> DEFINE P == Len(x.pages)
<1>1. Laid(x.pages, x.builds, start) /\ x.page = P /\ P \in Nat
  BY DEF Applied, Typed, BuilderTyped
<1>2. PICK p \in 1..P, o \in 0..PageSize : LastEnd(x.pages, x.builds, start, p, o) /\ AtTheEnd(x.pages, p, o)
  BY <1>1, LastEnds
<1>3. NextPage(p, o) = P /\ NextOffset(o) = HeaderAt(x)
  <2>1. CASE p = P /\ o = x.pages[P].used
    <3>1. HeaderAt(x) = Align(o)
      BY <1>1, <2>1 DEF HeaderAt
    <3>2. o \in Nat
      BY Sizes
    <3>3. Align(o) \in Nat /\ Align(o) + BuildSize <= PageSize
      BY <3>1, <3>2, AlignIs
    <3>4. ~Turns(o)
      BY <3>3, Sizes DEF Turns
    <3> QED
      BY <2>1, <3>1, <3>4 DEF NextPage, NextOffset
  <2>2. CASE p = P - 1 /\ x.pages[P].used = PageHeader /\ o + BuildSize > PageSize
    <3>1. o \in Nat
      BY Sizes
    <3>2. Align(o) \in Nat /\ Align(o) >= o
      BY <3>1, AlignIs
    <3>3. Turns(o)
      <4> DEFINE a == Align(o)
      <4>1. a \in Nat /\ a >= o
        BY <3>2
      <4> HIDE DEF a
      <4>2. a + BuildSize > PageSize
        BY <2>2, <3>1, <4>1, Sizes
      <4> QED
        BY <4>2 DEF Turns, a
    <3>4. p + 1 = P
      BY <1>1, <2>2
    <3>5. HeaderAt(x) = Align(PageHeader)
      BY <1>1, <2>2 DEF HeaderAt
    <3> QED
      BY <3>3, <3>4, <3>5 DEF NextPage, NextOffset
  <2> QED
    BY <1>2, <2>1, <2>2 DEF AtTheEnd
<1>4. Continues(x.pages, x.builds, start, HeaderAt(x))
  BY <1>2, <1>3 DEF Continues
<1> QED
  BY <1>4 DEF Takes, NextHeader

LEMMA TurnIs ==
    ASSUME NEW x, Typed(x), NEW start, Applied(x, start), Filled(x.pages, 0),
           HeaderAt(x) + BuildSize > PageSize, AddPage(x).error = "ok"
    PROVE  Takes(AddPage(x))
<1> DEFINE P == Len(x.pages)
           y == AddPage(x)
           begin == OneStart(x.pages, start)
<1>1. Laid(x.pages, x.builds, start) /\ x.page = P /\ P \in Nat
  BY DEF Applied, Typed, BuilderTyped
<1>2. PICK p \in 1..P, o \in 0..PageSize : LastEnd(x.pages, x.builds, start, p, o) /\ AtTheEnd(x.pages, p, o)
  BY <1>1, LastEnds
<1>3. Applied(y, begin) /\ LastEnd(y.pages, y.builds, begin, p, o)
  BY <1>2, AddPageLaid
<1>4. PagedTo(x, y)
  BY AddPageTyped
<1> HIDE DEF y, begin
<1>5. Len(y.pages) = P + 1 /\ y.page = P + 1 /\ y.pages[P + 1].used = PageHeader
  BY <1>4 DEF PagedTo, OnePage
<1>6. HeaderAt(y) = Align(PageHeader)
  BY <1>5 DEF HeaderAt
<1>7. p = P /\ o = x.pages[P].used
  <2>1. ASSUME x.pages[P].used = PageHeader PROVE FALSE
    <3>1. HeaderAt(x) = Align(PageHeader)
      BY <1>1, <2>1 DEF HeaderAt
    <3>2. Align(PageHeader) \in Nat /\ Align(PageHeader) + BuildSize <= PageSize
      BY FirstFits
    <3> QED
      BY <3>1, <3>2, Sizes
  <2> QED
    BY <1>2, <2>1 DEF AtTheEnd
<1>8. Turns(o)
  BY <1>1, <1>7 DEF HeaderAt, Turns
<1>9. NextPage(p, o) = Len(y.pages) /\ NextOffset(o) = HeaderAt(y)
  BY <1>5, <1>6, <1>7, <1>8 DEF NextPage, NextOffset
<1>10. p \in 1..Len(y.pages)
  BY <1>1, <1>5
<1>11. Continues(y.pages, y.builds, begin, HeaderAt(y))
  BY <1>3, <1>9, <1>10 DEF Continues
<1>12. HeaderAt(y) + BuildSize <= PageSize
  BY <1>6, FirstFits
<1>13. Takes(y)
  BY <1>3, <1>11, <1>12 DEF Takes, NextHeader
<1> QED
  BY <1>13 DEF y

\* mpack_builder_build, whatever the error before it; a first page that could not
\* be had leaves no page behind
LEMMA StartBuildSound ==
    ASSUME NEW x, Sound(x), NEW item \in Nat, NEW type \in Compound,
           x.build # NULL => \E start : Open(x, start)
    PROVE  LET y == StartBuild(x, item, type) IN
           /\ Sound(y) /\ DOMAIN y = DOMAIN x /\ y.sink = x.sink
           /\ y.build = NULL =>
                  /\ x.build = NULL
                  /\ \/ y.live = x.live
                     \/ /\ x.error # "ok" /\ y.live = {1} /\ y.builds = << >>
                        /\ y.error = x.error /\ y.track = x.track /\ y.capacity = x.capacity
<1> DEFINE a == IF x.build = NULL THEN Begin(x) ELSE ApplyWrites(x)
           full == HeaderAt(a) + BuildSize > PageSize
           b == IF full THEN AddPage(a) ELSE a
           y == StartBuild(x, item, type)
<1>1. y = IF a.error # "ok" THEN a ELSE BuildIn(b, item, type)
  BY DEF StartBuild, HeaderAt
<1>2. Typed(x) /\ HasFields(x)
  BY DEF Sound, Typed
<1>3. CASE x.build = NULL /\ Fails(x)
  <2>1. a = FlagError(Allocation(x), "memory")
    BY <1>3 DEF Begin
  <2> HIDE DEF a
  <2>2. Sound(a) /\ Written(x, a) /\ a.error # "ok"
    BY <2>1, FailedSound
  <2>3. y = a
    BY <1>1, <2>2
  <2> QED
    BY <1>3, <2>2, <2>3 DEF Written, SameBuilder
<1>4. CASE x.build = NULL /\ ~Fails(x)
  <2>1. a = Begin(x)
    BY <1>4
  <2> HIDE DEF a
  <2>2. Typed(a) /\ DOMAIN a = DOMAIN x /\ a.sink = x.sink /\ a.error = x.error
        /\ a.build = NULL /\ a.latest = NULL /\ FirstPage(a) /\ a.live = {1} /\ a.builds = << >>
        /\ a.track = x.track /\ a.capacity = x.capacity
        /\ a.base + Len(a.pending) <= PageSize /\ Bounded(a)
    BY <1>4, <2>1, BeginTyped DEF SameBuffer
  <2>3. CASE a.error # "ok"
    <3>1. y = a
      BY <1>1, <2>3
    <3>2. Sound(a)
      BY <2>2, <2>3 DEF Sound
    <3> QED
      BY <1>4, <2>2, <2>3, <3>1, <3>2
  <2>4. CASE a.error = "ok"
    <3>1. HeaderAt(a) = Align(PageHeader)
      BY <2>2 DEF HeaderAt, FirstPage
    <3>2. ~full
      <4>1. Align(PageHeader) \in Nat /\ Align(PageHeader) + BuildSize <= PageSize
        BY FirstFits
      <4> QED
        BY <3>1, <4>1, Sizes
    <3>3. y = BuildIn(a, item, type)
      BY <1>1, <2>4, <3>2
    <3>4. a.page \in 1..Len(a.pages) /\ Takes(a)
      BY <2>2 DEF FirstPage, Takes
    <3> HIDE DEF y
    <3>5. Sound(y) /\ DOMAIN y = DOMAIN a /\ y.sink = a.sink /\ y.build # NULL
      BY <2>2, <2>4, <3>3, <3>4, BuildInSound
    <3>6. Sound(y) /\ DOMAIN y = DOMAIN x /\ y.sink = x.sink /\ y.build # NULL
      BY <2>2, <3>5
    <3> QED
      BY <3>6 DEF y
  <2> QED
    BY <2>3, <2>4
<1>5. CASE x.build # NULL
  <2>1. a = ApplyWrites(x)
    BY <1>5
  <2> HIDE DEF a
  <2>2. Typed(a)
    BY <1>2, <1>5, <2>1, ApplyTyped
  <2>3. DOMAIN a = DOMAIN x /\ a.sink = x.sink /\ a.error = x.error /\ a.build # NULL
    BY <1>2, <1>5, <2>1, ApplyIs DEF SameBuffer
  <2>6. PICK start : Open(x, start)
    BY <1>5
  <2>7. Applied(a, start) /\ Filled(a.pages, 0)
    BY <1>2, <1>5, <2>1, <2>6, ApplyLaid
  <2>8. a.base + Len(a.pending) <= PageSize
    BY <1>2, <2>1, <2>6, ApplyIs DEF Open
  <2>9. PagesFit(a.pages) /\ a.page = Len(a.pages)
    BY <2>7 DEF Applied, Laid
  <2>4. CASE a.error # "ok"
    <3>1. y = a
      BY <1>1, <2>4
    <3>2. Sound(a)
      BY <2>2, <2>3, <2>4, <2>8, <2>9, BoundedIs DEF Sound
    <3> QED
      BY <2>3, <2>4, <3>1, <3>2
  <2>5. CASE a.error = "ok"
    <3>2. Applied(a, start) /\ Filled(a.pages, 0)
      BY <2>7
    <3>3. a.page \in 1..Len(a.pages)
      BY <2>2, <2>3 DEF Typed, BuilderTyped
    <3>4. HeaderAt(a) \in Nat
      BY <2>2, <3>3, HeaderIs
    <3>5. /\ Typed(b) /\ DOMAIN b = DOMAIN a /\ b.sink = a.sink /\ b.build = a.build
          /\ b.base + Len(b.pending) <= PageSize
          /\ b.error = "ok" => Takes(b)
          /\ b.error # "ok" => /\ b.error = "memory" /\ b.page = Len(b.pages) /\ PagesFit(b.pages)
                               /\ HeaderAt(b) + BuildSize > PageSize
      <4>1. CASE full
        <5>1. b = AddPage(a)
          BY <4>1
        <5>2. /\ Typed(b) /\ DOMAIN b = DOMAIN a /\ b.sink = a.sink /\ b.build = a.build
              /\ b.error # "ok" => b.error = "memory" /\ SameBuilder(a, b)
          BY <2>2, <2>5, <5>1, AddPageTyped DEF SameBuffer
        <5>3. b.error = "ok" => Takes(b)
          BY <2>2, <3>2, <4>1, <5>1, TurnIs
        <5>4. b.base = a.base /\ b.pending = a.pending
          <6>1. HasFields(a)
            BY <2>2 DEF Typed
          <6> QED
            BY <5>1, <6>1, AddPageBase
        <5>5. b.error # "ok" => HeaderAt(b) = HeaderAt(a)
          BY <5>2 DEF HeaderAt, SameBuilder
        <5> HIDE DEF b
        <5> QED
          BY <2>8, <2>9, <4>1, <5>2, <5>3, <5>4, <5>5 DEF SameBuilder
      <4>2. CASE ~full
        <5>1. b = a
          BY <4>2
        <5>2. HeaderAt(a) + BuildSize <= PageSize
          BY <3>4, <4>2, Sizes
        <5>3. Takes(a)
          BY <2>2, <3>2, <5>2, NextIs
        <5> QED
          BY <2>2, <2>5, <2>8, <5>1, <5>3
      <4> QED
        BY <4>1, <4>2
    <3>6. y = BuildIn(b, item, type)
      BY <1>1, <2>5
    <3> HIDE DEF b, y
    <3>7. b.page \in 1..Len(b.pages)
      BY <2>3, <3>5 DEF Typed, BuilderTyped
    <3>8. Sound(y) /\ DOMAIN y = DOMAIN b /\ y.sink = b.sink /\ y.build # NULL
      BY <3>5, <3>6, <3>7, BuildInSound
    <3>9. Sound(y) /\ DOMAIN y = DOMAIN x /\ y.sink = x.sink /\ y.build # NULL
      BY <2>3, <3>5, <3>8
    <3> QED
      BY <3>9 DEF y
  <2> QED
    BY <2>4, <2>5
<1> QED
  BY <1>3, <1>4, <1>5

-----------------------------------------------------------------------------
(* The invariant                                                            *)

Places == [step : {"none", "tag", "copy", "next"}, page : Nat, offset : Nat, left : Nat]

\* The walk of mpack_builder_resolve is at a header, inside the bytes of a build or
\* at the end of one; the pages behind it are free, all others are not
Walk(x, place, start) ==
    /\ Laid(x.pages, x.builds, start) /\ Filled(x.pages, 0)
    /\ place.step \in {"tag", "copy", "next"}
    /\ place.page \in 1..Len(x.pages) /\ x.live = place.page..Len(x.pages)
    /\ place.step = "tag" =>
           \E b \in 1..Len(x.builds) :
               x.builds[b].page = place.page /\ x.builds[b].offset = place.offset
    /\ place.step = "copy" =>
           /\ place.offset >= PageHeader /\ place.offset <= x.pages[place.page].used
           /\ place.offset > PageHeader \/ place.left > 0
           /\ \E b \in 1..Len(x.builds) :
                  Position(start, place.page, place.offset) + place.left = EndOf(x.builds[b], start)
    /\ place.step = "next" =>
           \E b \in 1..Len(x.builds) :
               Ends(x.pages, start, EndOf(x.builds[b], start), place.page, place.offset)

\* No page is left where no build is open, but for the first page that is forgotten
Freed == pc # "resolve" /\ w.build = NULL => w.live = {} \/ FirstPageForgotten

MemInv ==
    /\ Typed(w) /\ Bounded(w) /\ at \in Places
    /\ target = << >> \/ Len(target) = 1
    /\ pc \in {"idle", "resolve", "destroyed"} /\ misuse \in BOOLEAN
    /\ w.error = "ok" => PagesFit(w.pages)
    /\ IF pc = "destroyed" THEN w.build = NULL ELSE Sound(w)
    /\ pc = "resolve" => w.build = NULL /\ \E start : Walk(w, at, start)
    /\ Freed

LEMMA WriterSound ==
    ASSUME NEW to \in Sinks, NEW error \in Errors, NEW size \in Nat,
           error = "ok" => to[1] = "fixed" \/ size >= 1
    PROVE  Sound(Writer(to, error, size)) /\ Writer(to, error, size).live = {}
<1> DEFINE x == Writer(to, error, size)
<1>1. /\ HasFields(x)
      /\ x.sink = to /\ x.file = << >> /\ x.error = error /\ x.buffer = << >> /\ x.size = size
      /\ x.allocations = 0 /\ x.pages = << >> /\ x.page = 0 /\ x.live = {} /\ x.base = 0
      /\ x.pending = << >> /\ x.builds = << >> /\ x.build = NULL /\ x.latest = NULL
  BY DEF Writer, HasFields
<1> HIDE DEF x
<1>2. to \in {"growable", "fixed", "file"} \X Nat /\ to[2] \in Nat
  BY SizesAssumption
<1>3. << >> \in Seq(Contents) /\ << >> \in Seq(PageRecords) /\ << >> \in Seq(BuildRecords) /\ Len(<< >>) = 0
  OBVIOUS
<1>4. BufferFits(x)
  BY <1>1, <1>2, <1>3 DEF BufferFits, Fixed
<1>5. BuilderTyped(x)
  <2>1. \A b \in 1..0 : x.builds[b].parent \in 0..(b - 1)
    OBVIOUS
  <2> QED
    BY <1>1, <1>3, <2>1 DEF BuilderTyped, NULL
<1>6. PagesFit(x.pages)
  BY <1>1, <1>3 DEF PagesFit
<1>7. Sound(x)
  <2>1. x.base + Len(x.pending) <= PageSize
    BY <1>1, <1>3, Sizes
  <2> QED
    BY <1>1, <1>4, <1>5, <1>6, <2>1, BoundedIs DEF Sound, Typed
<1> QED
  BY <1>1, <1>7 DEF x

LEMMA InitSound ==
    ASSUME NEW x, Sound(x), x.build = NULL
    PROVE  Sound(InitWriter(x)) /\ Written(x, InitWriter(x))
BY AllocatedSound, FailedSound DEF InitWriter

LEMMA WithFlushSound ==
    ASSUME NEW x, Sound(x)
    PROVE  Sound(WithFlush(x)) /\ Written(x, WithFlush(x))
<1>1. "bug" \in Errors \ {"ok"}
  BY DEF Errors
<1> QED
  BY <1>1, FlagSound, WrittenSelf DEF WithFlush

LEMMA MemInit == Init => MemInv
<1> SUFFICES ASSUME Init PROVE MemInv
  OBVIOUS
<1>1. Sound(w) /\ w.live = {}
  <2>1. PICK to \in Sinks :
          CASE to[1] = "growable" -> InitGrowable(to)
            [] to[1] = "fixed" -> InitFixed(to)
            [] to[1] = "file" -> InitFile(to)
    BY DEF Init
  <2>2. to[1] \in {"growable", "fixed", "file"} /\ to[2] \in Nat
    BY SizesAssumption
  <2>3. ASSUME InitGrowable(to) PROVE Sound(w) /\ w.live = {}
    <3> DEFINE x == Writer(to, "ok", InitialBuffer)
    <3>1. w = Writer(to, "memory", 0) \/ w = WithFlush(InitWriter(Allocation(x)))
      BY <2>3 DEF InitGrowable
    <3>2. InitialBuffer \in Nat /\ InitialBuffer >= 1 /\ 0 \in Nat
      BY Sizes
    <3>3. "memory" \in Errors /\ "ok" \in Errors
      BY DEF Errors
    <3>4. Sound(Writer(to, "memory", 0)) /\ Writer(to, "memory", 0).live = {}
      BY <3>2, <3>3, WriterSound
    <3>5. Sound(x) /\ x.live = {} /\ x.build = NULL
      BY <3>2, <3>3, WriterSound DEF Writer
    <3> HIDE DEF x
    <3> DEFINE a == Allocation(x)
               b == InitWriter(a)
               c == WithFlush(b)
    <3>6. Sound(a) /\ Written(x, a) /\ a.build = NULL
      BY <3>5, AllocatedSound DEF SameBuilder
    <3> HIDE DEF a
    <3>7. Sound(b) /\ Written(a, b)
      BY <3>6, InitSound
    <3> HIDE DEF b
    <3>8. Sound(c) /\ Written(b, c)
      BY <3>7, WithFlushSound
    <3> HIDE DEF c
    <3>9. Written(x, c)
      BY <3>6, <3>7, <3>8, WrittenThen
    <3>10. c.live = {}
      BY <3>5, <3>9 DEF Written, SameBuilder
    <3> QED
      BY <3>1, <3>4, <3>8, <3>10 DEF a, b, c
  <2>4. CASE to[1] = "growable"
    BY <2>1, <2>3, <2>4
  <2>5. CASE to[1] = "fixed"
    <3> DEFINE x == Writer(to, "ok", to[2])
    <3>1. w = InitWriter(x)
      BY <2>1, <2>5 DEF InitFixed
    <3>2. "ok" \in Errors
      BY DEF Errors
    <3>3. Sound(x) /\ x.live = {} /\ x.build = NULL
      BY <2>2, <2>5, <3>2, WriterSound DEF Writer
    <3> HIDE DEF x
    <3>4. Sound(InitWriter(x)) /\ Written(x, InitWriter(x))
      BY <3>3, InitSound
    <3> QED
      BY <3>1, <3>3, <3>4 DEF Written, SameBuilder
  <2>6. CASE to[1] = "file"
    <3>1. w = Writer(to, "io", 0) \/ InitGrowable(to)
      BY <2>1, <2>6 DEF InitFile
    <3>2. "io" \in Errors /\ 0 \in Nat
      BY DEF Errors
    <3>3. Sound(Writer(to, "io", 0)) /\ Writer(to, "io", 0).live = {}
      BY <3>2, WriterSound
    <3> QED
      BY <2>3, <3>1, <3>3
  <2> QED
    BY <2>2, <2>4, <2>5, <2>6
<1>2. at \in Places
  BY DEF Init, Places
<1>3. target = << >> /\ pc = "idle" /\ misuse = FALSE
  BY DEF Init
<1> QED
  BY <1>1, <1>2, <1>3 DEF MemInv, Freed, Sound

\* A call that writes
LEMMA AfterCall ==
    ASSUME MemInv, Callable, Sound(w'), Written(w, w'),
           misuse' \in BOOLEAN, at' = at, target' = target, pc' = pc
    PROVE  MemInv'
<1>1. Typed(w)' /\ Bounded(w)' /\ (w'.error = "ok" => PagesFit(w'.pages))
  BY DEF Sound
<1>2. Freed'
  <2>1. ASSUME w'.build = NULL PROVE w'.live = {}
    <3>1. w.build = NULL
      BY <2>1 DEF Written
    <3>2. w.live = {}
      BY <3>1 DEF MemInv, Freed, FirstPageForgotten, Callable
    <3> QED
      BY <3>1, <3>2 DEF Written, SameBuilder
  <2> QED
    BY <2>1 DEF Freed
<1> QED
  BY <1>1, <1>2 DEF MemInv, Callable

LEMMA Bytes ==
    ASSUME NEW item \in Nat, NEW from \in Nat, NEW n \in Nat
    PROVE  DataBytes(item, from, n) \in Seq(Contents) /\ Len(DataBytes(item, from, n)) = n
<1>1. \A i \in 1..n : <<item, from + i, 0>> \in Contents
  <2>1. \A i \in 1..n : from + i \in Nat
    OBVIOUS
  <2> QED
    BY <2>1 DEF Contents
<1> QED
  BY <1>1 DEF DataBytes

LEMMA TagIsShort ==
    ASSUME NEW item \in Nat, NEW n \in Nat
    PROVE  TagBytes(item, n) \in Seq(Contents) /\ Len(TagBytes(item, n)) <= MinBuffer
<1> DEFINE k == TagSize(n)
<1>1. k \in Nat /\ k <= MinBuffer
  BY Sizes DEF TagSize
<1> HIDE DEF k
<1>2. \A i \in 1..k : <<item, i, n>> \in Contents
  BY DEF Contents
<1>3. TagBytes(item, n) = [i \in 1..k |-> <<item, i, n>>]
  BY DEF TagBytes, k
<1> QED
  BY <1>1, <1>2, <1>3

LEMMA ItemIs == ASSUME TrackInv, Callable PROVE Item \in Nat
<1>1. doc \in Seq(DocItems)
  BY DEF TrackInv, Callable, Told, DocType
<1> QED
  BY <1>1 DEF Item

-----------------------------------------------------------------------------
(* The calls                                                                *)

LEMMA MemScalar ==
    ASSUME TrackInv, MemInv, NEW tag \in 1..MinBuffer, NEW data \in Nat, WriteScalar(tag, data)
    PROVE  MemInv'
<1> DEFINE e == Element(w)
           head == DataBytes(Item, 0, tag)
           rest == DataBytes(Item, tag, data)
           t == WriteTag(e, head)
           y == WriteNative(t, rest)
<1>1. Callable /\ w' = y /\ misuse' = (misuse \/ ~ElementAllowed) /\ at' = at /\ target' = target /\ pc' = pc
  BY DEF WriteScalar
<1>2. Sound(w) /\ pc = "idle" /\ misuse \in BOOLEAN
  BY <1>1 DEF MemInv, Callable
<1>3. tag \in Nat /\ tag <= MinBuffer /\ 0 \in Nat
  BY Sizes
<1>4. head \in Seq(Contents) /\ Len(head) <= MinBuffer /\ rest \in Seq(Contents)
  <2>1. Item \in Nat
    BY <1>1, ItemIs
  <2> QED
    BY <1>3, <2>1, Bytes
<1>5. Sound(e) /\ Written(w, e)
  BY <1>2, ElementSound
<1> HIDE DEF e, head, rest
<1>6. Sound(t) /\ Written(e, t)
  BY <1>4, <1>5, TagSound
<1> HIDE DEF t
<1>7. Sound(y) /\ Written(t, y)
  BY <1>4, <1>6, NativeSound
<1> HIDE DEF y
<1>8. Written(w, y)
  BY <1>5, <1>6, <1>7, WrittenThen
<1> QED
  BY <1>1, <1>2, <1>7, <1>8, AfterCall

LEMMA MemStart ==
    ASSUME TrackInv, MemInv, NEW type, NEW n \in Nat, StartContainer(type, n)
    PROVE  MemInv'
<1> DEFINE e == Element(w)
           head == TagBytes(Item, n)
           t == WriteTag(e, head)
           p == IF t.error = "ok" THEN TrackPush(t, Push(t.track, type, n)) ELSE t
           y == Compounds(p, 1)
<1>1. Callable /\ w' = y /\ misuse' = (misuse \/ ~ElementAllowed) /\ at' = at /\ target' = target /\ pc' = pc
  BY DEF StartContainer
<1>2. Sound(w) /\ pc = "idle" /\ misuse \in BOOLEAN
  BY <1>1 DEF MemInv, Callable
<1>3. head \in Seq(Contents) /\ Len(head) <= MinBuffer
  BY <1>1, ItemIs, TagIsShort
<1>4. Sound(e) /\ Written(w, e)
  BY <1>2, ElementSound
<1> HIDE DEF e, head
<1>5. Sound(t) /\ Written(e, t)
  BY <1>3, <1>4, TagSound
<1> HIDE DEF t
<1>6. Sound(p) /\ Written(t, p)
  BY <1>5, TrackPushSound, WrittenSelf
<1> HIDE DEF p
<1>7. Sound(y) /\ Written(p, y)
  BY <1>6, CompoundsSound
<1> HIDE DEF y
<1>8. Written(w, y)
  BY <1>4, <1>5, <1>6, <1>7, WrittenThen
<1> QED
  BY <1>1, <1>2, <1>7, <1>8, AfterCall

\* A call that flags a bug
LEMMA MemMisused ==
    ASSUME MemInv, Callable, w' = FlagError(w, "bug"), misuse' \in BOOLEAN, misuse => misuse',
           at' = at, target' = target, pc' = pc
    PROVE  MemInv'
<1>1. Sound(w) /\ pc = "idle"
  BY DEF MemInv, Callable
<1>2. "bug" \in Errors \ {"ok"}
  BY DEF Errors
<1>3. Sound(w') /\ Written(w, w')
  BY <1>1, <1>2, FlagSound
<1> QED
  BY <1>1, <1>3, AfterCall

LEMMA MemFinish ==
    ASSUME MemInv, NEW type, FinishContainer(type)
    PROVE  MemInv'
<1> DEFINE q == [w EXCEPT !.track = Pop(@)]
           y == Compounds(q, -1)
<1>1. Callable /\ misuse' = (misuse \/ ~EndAllowed("start", type)) /\ at' = at /\ target' = target /\ pc' = pc
  BY DEF FinishContainer
<1>2. w' = y \/ w' = FlagError(w, "bug")
  BY DEF FinishContainer
<1>3. Sound(w) /\ pc = "idle" /\ misuse \in BOOLEAN
  BY <1>1 DEF MemInv, Callable
<1>4. Sound(q) /\ Written(w, q)
  BY <1>3, TrackedSound
<1> HIDE DEF q
<1>5. Sound(y) /\ Written(q, y)
  BY <1>4, CompoundsSound
<1> HIDE DEF y
<1>6. Written(w, y)
  BY <1>4, <1>5, WrittenThen
<1> QED
  BY <1>1, <1>2, <1>3, <1>5, <1>6, AfterCall, MemMisused

LEMMA MemCompleteMisused ==
    ASSUME MemInv, NEW type, CompleteMisused(type)
    PROVE  MemInv'
<1>1. Callable /\ misuse' = (misuse \/ ~EndAllowed("build", type)) /\ at' = at /\ target' = target /\ pc' = pc
      /\ w' = FlagError(w, "bug")
  BY DEF CompleteMisused
<1> QED
  BY <1>1, MemMisused DEF MemInv

LEMMA MemFlush ==
    ASSUME MemInv, FlushMessage
    PROVE  MemInv'
<1>1. /\ Callable /\ misuse' = (misuse \/ Innermost # 0 \/ Fixed(w))
      /\ at' = at /\ target' = target /\ pc' = pc
  BY DEF FlushMessage
<1>2. w' = FlagError(w, "bug") \/ (~Fixed(w) /\ w' = Flush(w, << >>)) \/ w' = w
  BY DEF FlushMessage
<1>3. Sound(w) /\ pc = "idle" /\ misuse \in BOOLEAN /\ w.error = "ok"
  BY <1>1 DEF MemInv, Callable
<1>4. ~Fixed(w) => Sound(Flush(w, << >>)) /\ Written(w, Flush(w, << >>))
  BY <1>3, EmptyContents, FlushSound
<1>5. misuse' \in BOOLEAN /\ (misuse => misuse')
  BY <1>1, <1>3
<1> QED
  BY <1>1, <1>2, <1>3, <1>4, <1>5, WrittenSelf, AfterCall, MemMisused

LEMMA MemBuild ==
    ASSUME TrackInv, TrackInv', MemInv, NEW type \in Compound, BuildContainer(type)
    PROVE  MemInv'
<1> DEFINE e == Element(w)
           t == IF e.error = "ok" THEN TrackPush(e, PushBuilder(e.track, type)) ELSE e
           y == StartBuild(t, Item, type)
<1>1. /\ Callable /\ w' = y /\ misuse' = (misuse \/ ~ElementAllowed)
      /\ at' = at /\ target' = target /\ pc' = pc /\ doc' = Append(doc, AddedOpen("build", type, 0))
  <2>1. Append(doc, AddedOpen("build", type, 0)) = Added("build", type, 0)
    BY AddedIs
  <2> QED
    BY <2>1, Zenon DEF BuildContainer
<1>2. Sound(w) /\ pc = "idle" /\ misuse \in BOOLEAN /\ w.error = "ok"
  BY <1>1 DEF MemInv, Callable
<1>3. /\ Sound(e) /\ Written(w, e)
      /\ w.build # NULL => \E start : Open(e, start)
  <2>1. w.build # NULL => \E start : Open(w, start)
    BY <1>2 DEF Sound
  <2> QED
    BY <1>2, <2>1, ElementSound
<1>4. IsWriter(w) /\ IsWriter(e)
  <2>1. IsWriter(w)
    BY <1>2 DEF TrackInv
  <2> QED
    BY <2>1, ElementIs
<1>5. e.error = "ok" \/ e.error = "bug"
  BY <1>2, <1>4, ElementIs DEF FlagError, IsWriter
<1> HIDE DEF e
<1>6. /\ Sound(t) /\ Written(e, t) /\ SameBuilder(e, t)
      /\ t.error \in {"ok", "bug"} \/ (t.error = "memory" /\ Full(t.track, t.capacity))
  <2>1. CASE e.error = "ok"
    BY <1>3, <2>1, TrackPushSound
  <2>2. CASE e.error # "ok"
    BY <1>3, <1>5, <2>2, WrittenSelf DEF SameBuilder
  <2> QED
    BY <2>1, <2>2
<1>7. IsWriter(t)
  BY <1>6 DEF Sound, Typed, HasFields, IsWriter
<1> HIDE DEF t
<1>8. Item \in Nat
  BY <1>1, ItemIs
<1>14. t.build # NULL => \E start : Open(t, start)
  BY <1>3, <1>6, OpenBy DEF Written, SameBuilder
<1>9. /\ Sound(y) /\ DOMAIN y = DOMAIN t /\ y.sink = t.sink
      /\ y.build = NULL =>
             /\ t.build = NULL
             /\ \/ y.live = t.live
                \/ /\ t.error # "ok" /\ y.live = {1} /\ y.builds = << >>
                   /\ y.error = t.error /\ y.track = t.track /\ y.capacity = t.capacity
  BY <1>6, <1>8, <1>14, StartBuildSound
<1> HIDE DEF y
<1>10. doc' # << >> /\ Last(doc').kind = "build"
  <2>1. doc \in Seq(DocItems)
    BY <1>1 DEF TrackInv, Callable, Told, DocType
  <2>2. Last(Append(doc, AddedOpen("build", type, 0))) = AddedOpen("build", type, 0)
    BY <2>1 DEF Last
  <2>3. Append(doc, AddedOpen("build", type, 0)) # << >>
    BY <2>1
  <2>4. AddedOpen("build", type, 0).kind = "build"
    BY DEF AddedOpen
  <2> QED
    BY <1>1, <2>2, <2>3, <2>4
<1>11. Freed'
  <2>1. ASSUME w'.build = NULL PROVE w'.live = {} \/ FirstPageForgotten'
    <3>1. y.build = NULL /\ t.build = NULL
      BY <1>1, <1>9, <2>1
    <3>2. w.build = NULL /\ w.live = {}
      BY <1>1, <1>2, <1>3, <1>6, <2>1, <3>1 DEF Written, MemInv, Freed, FirstPageForgotten
    <3>3. t.live = {}
      BY <1>3, <1>6, <3>1, <3>2 DEF Written, SameBuilder
    <3>4. CASE y.live = t.live
      BY <1>1, <3>3, <3>4
    <3>5. CASE /\ t.error # "ok" /\ y.live = {1} /\ y.builds = << >>
               /\ y.error = t.error /\ y.track = t.track /\ y.capacity = t.capacity
      <4>1. y.error = "bug" => misuse'
        BY <1>1, <1>2 DEF TrackInv
      <4>2. y.error = "bug" \/ (y.error = "memory" /\ Full(y.track, y.capacity))
        BY <1>6, <3>5
      <4> QED
        BY <1>1, <1>10, <3>5, <4>1, <4>2 DEF FirstPageForgotten
    <3> QED
      BY <1>9, <3>1, <3>4, <3>5
  <2> QED
    BY <2>1 DEF Freed
<1>12. Sound(w)' /\ Typed(w)' /\ Bounded(w)' /\ (w'.error = "ok" => PagesFit(w'.pages))
  BY <1>1, <1>9 DEF Sound
<1>13. misuse' \in BOOLEAN
  BY <1>1, <1>2
<1> QED
  BY <1>1, <1>2, <1>11, <1>12, <1>13 DEF MemInv

\* The end of a build: what is pending is applied to its page
LEMMA CompletedIs ==
    ASSUME MemInv, Callable, Building, NEW track
    PROVE  LET a == ApplyWrites([w EXCEPT !.track = track]) IN
           /\ Typed(a) /\ a.error = "ok" /\ a.build = w.build /\ a.base <= PageSize
           /\ w.builds[w.build].parent \in 0..(a.build - 1)
           /\ \E start : Applied(a, start) /\ Filled(a.pages, 0)
<1> DEFINE q == [w EXCEPT !.track = track]
           a == ApplyWrites(q)
<1>1. Sound(w) /\ w.error = "ok" /\ w.build # NULL
  BY DEF MemInv, Callable, Building
<1>2. Sound(q) /\ q.error = "ok" /\ SameBuilder(w, q)
  BY <1>1, TrackedSound
<1> HIDE DEF q
<1>3. Typed(q) /\ HasFields(q) /\ q.build = w.build /\ q.build # NULL
  BY <1>1, <1>2 DEF Sound, Typed, SameBuilder
<1>4. PICK start : Open(q, start)
  BY <1>2, <1>3 DEF Sound
<1>5. Typed(a) /\ Applied(a, start) /\ Filled(a.pages, 0)
  BY <1>3, <1>4, ApplyTyped, ApplyLaid
<1>6. a.error = "ok" /\ a.build = w.build /\ a.base = q.base
  BY <1>2, <1>3, ApplyIs
<1>9. q.base <= PageSize
  <2>1. q.base \in Nat /\ Len(q.pending) \in Nat /\ q.base + Len(q.pending) <= PageSize
    BY <1>3, <1>4 DEF Typed, BuilderTyped, Open
  <2> DEFINE u == q.base
             v == Len(q.pending)
  <2>2. u \in Nat /\ v \in Nat /\ u + v <= PageSize
    BY <2>1
  <2> HIDE DEF u, v
  <2>3. u <= PageSize
    BY <2>2, Sizes
  <2> QED
    BY <2>3 DEF u
<1> HIDE DEF a
<1>7. w.builds[w.build].parent \in 0..(w.build - 1)
  <2>1. BuilderTyped(w)
    BY <1>1 DEF Sound, Typed
  <2>2. w.build \in 1..Len(w.builds)
    BY <1>1, <2>1 DEF BuilderTyped, NULL
  <2> QED
    BY <2>1, <2>2 DEF BuilderTyped
<1>8. Typed(a) /\ a.error = "ok" /\ a.build = w.build /\ a.base <= PageSize
      /\ w.builds[w.build].parent \in 0..(a.build - 1)
      /\ \E s : Applied(a, s) /\ Filled(a.pages, 0)
  BY <1>5, <1>6, <1>7, <1>9
<1> QED
  BY <1>8 DEF a, q

LEMMA MemNested ==
    ASSUME MemInv, NEW type, CompleteNested(type)
    PROVE  MemInv'
<1> DEFINE parent == w.builds[w.build].parent
           a == ApplyWrites([w EXCEPT !.track = Pop(@)])
           b == [a EXCEPT !.build = parent]
           y == ConfigureBuffer(b)
<1>1. Callable /\ Building /\ parent # NULL
      /\ misuse' = (misuse \/ ~EndAllowed("build", type)) /\ at' = at /\ target' = target /\ pc' = pc /\ w' = y
  BY DEF CompleteNested
<1>2. /\ Typed(a) /\ a.error = "ok" /\ a.build = w.build
      /\ parent \in 0..(a.build - 1)
      /\ \E start : Applied(a, start) /\ Filled(a.pages, 0)
  BY <1>1, CompletedIs
<1>3. pc = "idle" /\ misuse \in BOOLEAN
  BY <1>1 DEF MemInv, Callable
<1> HIDE DEF a, parent
<1>4. PICK start : Applied(a, start) /\ Filled(a.pages, 0)
  BY <1>2
<1>5. /\ DOMAIN b = DOMAIN a /\ SameBuffer(a, b) /\ b.error = a.error /\ b.allocations = a.allocations
      /\ b.pages = a.pages /\ b.page = a.page /\ b.live = a.live /\ b.base = a.base /\ b.pending = a.pending
      /\ b.builds = a.builds /\ b.latest = a.latest /\ b.build = parent
  BY <1>2 DEF Typed, HasFields, SameBuffer
<1> HIDE DEF b
<1>6. a.build \in 0..Len(a.builds) /\ a.build # NULL
  BY <1>1, <1>2 DEF Typed, BuilderTyped, Building
<1>7. Typed(b)
  <2>1. HasFields(b) /\ BufferFits(b)
    BY <1>2, <1>5 DEF Typed, HasFields, BufferFits, SameBuffer, Fixed
  <2>2. b.build \in 0..Len(b.builds)
    BY <1>2, <1>5, <1>6 DEF Typed, BuilderTyped
  <2>3. BuilderTyped(b)
    BY <1>2, <1>5, <1>6, <2>2 DEF Typed, BuilderTyped
  <2> QED
    BY <2>1, <2>3 DEF Typed
<1>8. Applied(b, start) /\ Filled(b.pages, 0) /\ b.build # NULL
  BY <1>1, <1>4, <1>5 DEF Applied
<1>9. Sound(y) /\ y.build = b.build
  BY <1>2, <1>5, <1>7, <1>8, ConfigureSound
<1> HIDE DEF y
<1>10. Sound(w)' /\ Typed(w)' /\ Bounded(w)' /\ (w'.error = "ok" => PagesFit(w'.pages)) /\ w'.build # NULL
  BY <1>1, <1>8, <1>9 DEF Sound
<1>11. misuse' \in BOOLEAN
  BY <1>1, <1>3
<1> QED
  BY <1>1, <1>3, <1>10, <1>11 DEF MemInv, Freed

LEMMA MemOutermost ==
    ASSUME MemInv, NEW type, CompleteOutermost(type)
    PROVE  MemInv'
<1> DEFINE a == ApplyWrites([w EXCEPT !.track = Pop(@)])
           y == [a EXCEPT !.build = NULL, !.latest = NULL, !.pending = << >>]
<1>1. Callable /\ Building /\ w' = y
      /\ at' = [step |-> "tag", page |-> 1, offset |-> Align(PageHeader), left |-> 0]
      /\ misuse' = (misuse \/ ~EndAllowed("build", type)) /\ target' = target /\ pc' = "resolve"
  BY DEF CompleteOutermost
<1>2. /\ Typed(a) /\ a.error = "ok" /\ a.base <= PageSize
      /\ \E start : Applied(a, start) /\ Filled(a.pages, 0)
  BY <1>1, CompletedIs
<1>3. pc = "idle" /\ misuse \in BOOLEAN
  BY <1>1 DEF MemInv, Callable
<1> HIDE DEF a
<1>4. PICK start : Applied(a, start) /\ Filled(a.pages, 0)
  BY <1>2
<1>15. a.base \in Nat /\ a.base <= PageSize
  BY <1>2 DEF Typed, BuilderTyped
<1>5. /\ DOMAIN y = DOMAIN a /\ SameBuffer(a, y) /\ y.error = a.error /\ y.allocations = a.allocations
      /\ y.pages = a.pages /\ y.page = a.page /\ y.live = a.live /\ y.base = a.base /\ y.pending = << >>
      /\ y.builds = a.builds /\ y.latest = NULL /\ y.build = NULL
  BY <1>2 DEF Typed, HasFields, SameBuffer
<1> HIDE DEF y
<1>6. Typed(y)
  <2>1. HasFields(y) /\ BufferFits(y)
    BY <1>2, <1>5 DEF Typed, HasFields, BufferFits, SameBuffer, Fixed
  <2>2. y.build \in 0..Len(y.builds) /\ y.latest \in 0..Len(y.builds)
    BY <1>2, <1>5 DEF Typed, BuilderTyped, NULL
  <2>3. BuilderTyped(y)
    BY <1>2, <1>5, <2>2, EmptyContents DEF Typed, BuilderTyped
  <2> QED
    BY <2>1, <2>3 DEF Typed
<1>7. Laid(y.pages, y.builds, start) /\ Filled(y.pages, 0) /\ y.live = 1..Len(y.pages)
  BY <1>4, <1>5 DEF Applied
<1>8. PagesFit(y.pages) /\ Len(y.pages) >= 1 /\ Len(y.builds) >= 1
      /\ y.builds[1].page = 1 /\ y.builds[1].offset = Align(PageHeader)
  BY <1>7 DEF Laid
<1>9. Sound(y) /\ Bounded(y)
  <2>1. y.base + Len(y.pending) <= PageSize
    <3>1. Len(y.pending) = 0
      BY <1>5
    <3>2. y.base \in Nat /\ y.base <= PageSize
      BY <1>2, <1>5, <1>15
    <3> QED
      BY <3>1, <3>2, Sizes
  <2> QED
    BY <1>5, <1>6, <1>8, <2>1, BoundedIs DEF Sound
<1>10. Len(y.pages) \in Nat /\ Len(y.builds) \in Nat
  BY <1>6 DEF Typed, BuilderTyped
<1>11. Walk(y, at', start)
  <2>1. at'.step = "tag" /\ at'.page = 1 /\ at'.offset = Align(PageHeader)
    BY <1>1
  <2>2. at'.page \in 1..Len(y.pages) /\ 1 \in 1..Len(y.builds)
    BY <1>8, <1>10, <2>1
  <2> QED
    BY <1>7, <1>8, <2>1, <2>2 DEF Walk
<1>12. at' \in Places
  BY <1>1, FirstFits DEF Places
<1>13. misuse' \in BOOLEAN /\ target' = target
  BY <1>1, <1>3
<1>14. Sound(w)' /\ Typed(w)' /\ Bounded(w)' /\ PagesFit(w'.pages) /\ w'.build = NULL /\ Walk(w', at', start)
  BY <1>1, <1>5, <1>6, <1>8, <1>9, <1>11
<1> QED
  BY <1>1, <1>12, <1>13, <1>14 DEF MemInv, Freed

-----------------------------------------------------------------------------
(* The walk                                                                 *)

LEMMA FreeSound ==
    ASSUME NEW x, Sound(x), x.build = NULL, NEW page
    PROVE  LET y == Free(x, page) IN
           /\ Sound(y) /\ y.pages = x.pages /\ y.builds = x.builds /\ y.build = NULL
           /\ y.live = x.live \ {page}
<1> DEFINE y == Free(x, page)
<1>1. Typed(x) /\ HasFields(x) /\ BufferFits(x) /\ BuilderTyped(x)
  BY DEF Sound, Typed
<1>2. /\ DOMAIN y = DOMAIN x /\ SameBuffer(x, y) /\ y.error = x.error /\ y.allocations = x.allocations
      /\ y.pages = x.pages /\ y.page = x.page /\ y.live = x.live \ {page} /\ y.base = x.base
      /\ y.pending = x.pending /\ y.builds = x.builds /\ y.latest = x.latest /\ y.build = x.build
  BY <1>1 DEF Free, HasFields, SameBuffer
<1> HIDE DEF y
<1>3. HasFields(y) /\ BufferFits(y)
  BY <1>1, <1>2 DEF HasFields, BufferFits, SameBuffer, Fixed
<1>4. y.live \subseteq 1..Len(y.pages)
  BY <1>1, <1>2 DEF BuilderTyped
<1>5. BuilderTyped(y)
  BY <1>1, <1>2, <1>4 DEF BuilderTyped
<1>6. Sound(y)
  <2>1. Bounded(y)
    <3>1. \A p \in y.live : y.pages[p].used <= PageSize \/ HeaderPastPage(y, p)
      BY <1>2 DEF Sound, Bounded, HeaderPastPage
    <3> QED
      BY <1>2, <1>3, <3>1 DEF Sound, Bounded, BufferFits
  <2> QED
    BY <1>2, <1>3, <1>5, <2>1 DEF Sound, Typed
<1> QED
  BY <1>2, <1>6 DEF y

\* A turn of the walk
LEMMA AfterTurn ==
    ASSUME MemInv, pc = "resolve", Sound(w'), w'.build = NULL, at' \in Places,
           pc' = "resolve", misuse' = misuse, target' = target, NEW start, Walk(w', at', start)
    PROVE  MemInv'
<1>1. Sound(w)' /\ Typed(w)' /\ Bounded(w)' /\ (w'.error = "ok" => PagesFit(w'.pages))
  BY DEF Sound
<1> QED
  BY <1>1 DEF MemInv, Freed

LEMMA WalkCopy ==
    ASSUME NEW x, NEW start, Laid(x.pages, x.builds, start), Filled(x.pages, 0),
           NEW place, place.step = "copy", place.page \in 1..Len(x.pages),
           x.live = place.page..Len(x.pages),
           place.offset >= PageHeader, place.offset <= x.pages[place.page].used,
           place.offset > PageHeader \/ place.left > 0,
           NEW b \in 1..Len(x.builds),
           Position(start, place.page, place.offset) + place.left = EndOf(x.builds[b], start)
    PROVE  Walk(x, place, start)
<1>1. \E c \in 1..Len(x.builds) :
          Position(start, place.page, place.offset) + place.left = EndOf(x.builds[c], start)
  OBVIOUS
<1> QED
  BY <1>1, Zenon DEF Walk

LEMMA MemTag ==
    ASSUME MemInv, ResolveTag
    PROVE  MemInv'
<1>1. PICK b \in DOMAIN w.builds :
           /\ w.builds[b].page = at.page /\ w.builds[b].offset = at.offset
           /\ w' = WriteTag(w, TagBytes(w.builds[b].item, w.builds[b].count))
           /\ at' = [at EXCEPT !.step = "copy", !.offset = @ + BuildSize, !.left = w.builds[b].bytes]
  BY DEF ResolveTag
<1>2. pc = "resolve" /\ at.step = "tag" /\ pc' = pc /\ misuse' = misuse /\ target' = target
  BY DEF ResolveTag
<1>3. Sound(w) /\ w.build = NULL /\ at \in Places
  BY <1>2 DEF MemInv
<1>4. PICK start : Walk(w, at, start)
  BY <1>2 DEF MemInv
<1> DEFINE bytes == TagBytes(w.builds[b].item, w.builds[b].count)
           y == WriteTag(w, bytes)
<1>5. b \in 1..Len(w.builds) /\ w.builds[b] \in BuildRecords
  BY <1>1, <1>3 DEF Sound, Typed, BuilderTyped
<1>6. bytes \in Seq(Contents) /\ Len(bytes) <= MinBuffer
  BY <1>5, BuildIs, TagIsShort
<1> HIDE DEF bytes
<1>7. Sound(y) /\ Written(w, y)
  BY <1>3, <1>6, TagSound
<1>8. w' = y
  BY <1>1 DEF bytes
<1> HIDE DEF y
<1>9. SameBuilder(w, y) /\ y.build = NULL
  BY <1>3, <1>7 DEF Written
<1>10. /\ at'.step = "copy" /\ at'.page = at.page /\ at'.offset = at.offset + BuildSize
       /\ at'.left = w.builds[b].bytes
  BY <1>1, <1>3 DEF Places
<1>11. /\ at.page \in Nat /\ at.offset \in Nat /\ w.builds[b].bytes \in Nat
  BY <1>3, <1>5, BuildIs DEF Places
<1>12. at' \in Places
  <2>1. at.offset + BuildSize \in Nat
    BY <1>11, Sizes
  <2> QED
    BY <1>1, <1>3, <1>11, <2>1 DEF Places
<1>13. Laid(w.pages, w.builds, start) /\ at.page \in 1..Len(w.pages)
  BY <1>4 DEF Walk
<1>14. at.offset >= PageHeader /\ at.offset + BuildSize <= w.pages[at.page].used
  BY <1>1, <1>5, <1>13 DEF Laid, InPage
<1>15. start[at.page] \in Nat
  BY <1>13, PageIs DEF Laid
<1>16. Walk(w, at', start)
  <2>1. at'.offset >= PageHeader /\ at'.offset <= w.pages[at'.page].used /\ at'.offset > PageHeader
    BY <1>10, <1>11, <1>14, Sizes
  <2>2. Position(start, at'.page, at'.offset) + at'.left = EndOf(w.builds[b], start)
    <3> DEFINE s == start[at.page]
               o == at.offset
               l == w.builds[b].bytes
    <3>1. s \in Nat /\ o \in Nat /\ l \in Nat
      BY <1>11, <1>15
    <3>2. /\ Position(start, at'.page, at'.offset) + at'.left = s + ((o + BuildSize) - PageHeader) + l
          /\ EndOf(w.builds[b], start) = s + (o - PageHeader) + (BuildSize + l)
      <4>1. Position(start, at'.page, at'.offset) = Position(start, at.page, at.offset + BuildSize)
            /\ at'.left = l
        BY <1>10, Zenon
      <4>2. EndOf(w.builds[b], start) = Position(start, at.page, at.offset) + (BuildSize + l)
        BY <1>1, Zenon DEF EndOf
      <4>3. Position(start, at.page, at.offset) = s + (o - PageHeader)
        BY DEF Position
      <4>4. Position(start, at.page, at.offset + BuildSize) = s + ((o + BuildSize) - PageHeader)
        BY DEF Position
      <4> HIDE DEF s, o, l
      <4> QED
        BY <3>1, <4>1, <4>2, <4>3, <4>4, Sizes
    <3> HIDE DEF s, o, l
    <3>3. s + ((o + BuildSize) - PageHeader) + l = s + (o - PageHeader) + (BuildSize + l)
      BY <3>1, Sizes
    <3> QED
      BY <3>2, <3>3
  <2>3. Filled(w.pages, 0) /\ w.live = at'.page..Len(w.pages) /\ at'.page \in 1..Len(w.pages)
    BY <1>4, <1>10 DEF Walk
  <2> QED
    BY <1>5, <1>10, <1>13, <2>1, <2>2, <2>3, WalkCopy
<1>17. Walk(y, at', start)
  BY <1>9, <1>16 DEF Walk, SameBuilder
<1> QED
  BY <1>2, <1>7, <1>8, <1>9, <1>12, <1>17, AfterTurn

\* What the walk copies from a page
LEMMA PageBytes ==
    ASSUME NEW page \in PageRecords, NEW offset \in Nat, NEW n \in Nat, offset + n <= page.used
    PROVE  SubSeq(page.memory, offset + 1, offset + n) \in Seq(Contents)
<1> DEFINE s == page.memory
           m == offset + 1
           k == offset + n
<1>1. s \in Seq(Contents) /\ Len(s) = page.used /\ page.used \in Nat
  BY DEF PageRecords
<1>2. m \in Int /\ k \in Int /\ m >= 1 /\ k <= Len(s)
  BY <1>1
<1> HIDE DEF s, m, k
<1>3. \A i \in m..k : s[i] \in Contents
  BY <1>1, <1>2
<1>4. SubSeq(s, m, k) \in Seq(Contents)
  BY <1>2, <1>3, SubSeqProperties
<1> QED
  BY <1>4 DEF s, m, k

LEMMA MemCopy ==
    ASSUME MemInv, ResolveCopy
    PROVE  MemInv'
<1> DEFINE p == w.pages[at.page]
           room == p.used - at.offset
           n == IF room < 0 THEN 0 ELSE IF room < at.left THEN room ELSE at.left
           bytes == SubSeq(p.memory, at.offset + 1, at.offset + n)
           y == WriteNative(w, bytes)
           P == Len(w.pages)
<1>1. pc = "resolve" /\ at.step = "copy" /\ pc' = pc /\ misuse' = misuse /\ target' = target
  BY DEF ResolveCopy
<1>2. IF at.left = n
      THEN /\ w' = w \/ w' = y
           /\ at' = [at EXCEPT !.step = "next", !.offset = @ + n, !.left = 0]
      ELSE /\ w' = Free(y, at.page)
           /\ at' = [at EXCEPT !.page = @ + 1, !.offset = PageHeader, !.left = @ - n]
  BY DEF ResolveCopy
<1>3. Sound(w) /\ w.build = NULL /\ at \in Places
  BY <1>1 DEF MemInv
<1>4. PICK start : Walk(w, at, start)
  BY <1>1 DEF MemInv
<1>5. w.pages \in Seq(PageRecords) /\ P \in Nat /\ Len(w.builds) \in Nat
  BY <1>3 DEF Sound, Typed, BuilderTyped
<1>6. Laid(w.pages, w.builds, start) /\ at.page \in 1..P /\ w.live = at.page..P /\ Filled(w.pages, 0)
  BY <1>4 DEF Walk
<1>7. /\ at.offset >= PageHeader /\ at.offset <= p.used
      /\ at.offset > PageHeader \/ at.left > 0
  BY <1>1, <1>4 DEF Walk
<1>8. PICK b \in 1..Len(w.builds) :
          Position(start, at.page, at.offset) + at.left = EndOf(w.builds[b], start)
  BY <1>1, <1>4 DEF Walk
<1>9. p \in PageRecords /\ p.used \in Nat /\ at.offset \in Nat /\ at.left \in Nat
  BY <1>3, <1>5, <1>6 DEF PageRecords, Places
<1>10. n \in Nat /\ at.offset + n <= p.used /\ n <= at.left /\ (at.left # n => at.offset + n = p.used)
  BY <1>7, <1>9
<1>11. bytes \in Seq(Contents)
  BY <1>9, <1>10, PageBytes
<1> HIDE DEF n, room, bytes
<1>12. Sound(y) /\ Written(w, y)
  BY <1>3, <1>11, NativeSound
<1> HIDE DEF y
<1>13. SameBuilder(w, y) /\ y.build = NULL
  BY <1>3, <1>12 DEF Written
<1>14. start[at.page] \in Nat
  BY <1>5, <1>6, PageIs DEF Laid
<1> DEFINE s == start[at.page]
           o == at.offset
           l == at.left
           u == p.used
<1>15. s + (o - PageHeader) + l = EndOf(w.builds[b], start)
  BY <1>8 DEF Position
<1>16. CASE at.left = n
  <2>1. (w' = w \/ w' = y) /\ at' = [at EXCEPT !.step = "next", !.offset = @ + n, !.left = 0]
    BY <1>2, <1>16
  <2>2. Sound(w') /\ SameBuilder(w, w') /\ w'.build = NULL
    BY <1>3, <1>12, <1>13, <2>1 DEF SameBuilder
  <2>3. at'.step = "next" /\ at'.page = at.page /\ at'.offset = o + n
    BY <1>3, <2>1 DEF Places
  <2>4. at' \in Places
    <3>1. o + n \in Nat
      BY <1>9, <1>10
    <3> QED
      BY <1>3, <2>1, <3>1 DEF Places
  <2>5. Ends(w.pages, start, EndOf(w.builds[b], start), at'.page, at'.offset)
    <3>1. o + n \in (PageHeader + 1)..u
      BY <1>7, <1>9, <1>10, <1>16, Sizes
    <3>2. s + ((o + n) - PageHeader) = EndOf(w.builds[b], start)
      <4>1. s \in Nat /\ o \in Nat /\ l \in Nat /\ l = n
        BY <1>9, <1>14, <1>16
      <4> HIDE DEF s, o, l
      <4>2. s + ((o + n) - PageHeader) = s + (o - PageHeader) + l
        BY <4>1, Sizes
      <4> QED
        BY <1>15, <4>2
    <3>3. Position(start, at'.page, at'.offset) = s + ((o + n) - PageHeader)
      <4>1. Position(start, at'.page, at'.offset) = Position(start, at.page, o + n)
        BY <2>3, Zenon
      <4>2. Position(start, at.page, o + n) = s + ((o + n) - PageHeader)
        BY DEF Position
      <4> QED
        BY <4>1, <4>2, Zenon
    <3>4. at'.page \in 1..Len(w.pages) /\ at'.offset \in (PageHeader + 1)..w.pages[at'.page].used
      BY <1>6, <2>3, <3>1
    <3>5. Position(start, at'.page, at'.offset) = EndOf(w.builds[b], start)
      BY <3>2, <3>3, Zenon
    <3> QED
      BY <3>4, <3>5, Zenon DEF Ends
  <2>6. Walk(w', at', start)
    <3>1. \E c \in 1..Len(w.builds) :
              Ends(w.pages, start, EndOf(w.builds[c], start), at'.page, at'.offset)
      BY <2>5
    <3>2. Walk(w, at', start)
      BY <1>6, <2>3, <3>1 DEF Walk
    <3> QED
      BY <2>2, <3>2 DEF Walk, SameBuilder
  <2> QED
    BY <1>1, <2>2, <2>4, <2>6, AfterTurn
<1>17. CASE at.left # n
  <2>1. w' = Free(y, at.page) /\ at' = [at EXCEPT !.page = @ + 1, !.offset = PageHeader, !.left = @ - n]
    BY <1>2, <1>17
  <2>2. /\ Sound(w') /\ w'.pages = w.pages /\ w'.builds = w.builds /\ w'.build = NULL
        /\ w'.live = w.live \ {at.page}
    BY <1>12, <1>13, <2>1, FreeSound DEF SameBuilder
  <2>3. at'.step = "copy" /\ at'.page = at.page + 1 /\ at'.offset = PageHeader /\ at'.left = l - n
    BY <1>1, <1>3, <2>1 DEF Places
  <2>4. l - n \in Nat /\ l - n > 0 /\ o + n = u
    BY <1>9, <1>10, <1>17
  <2>5. at' \in Places
    <3>1. at.page + 1 \in Nat
      BY <1>5, <1>6
    <3> QED
      BY <1>3, <2>1, <2>4, <3>1, Sizes DEF Places
  <2>6. s \in Nat /\ o \in Nat /\ l \in Nat /\ u \in Nat
    BY <1>9, <1>14
  <2>7. at.page # P
    <3>1. EndOf(w.builds[b], start) <= Position(start, P, w.pages[P].used)
      BY <1>5, <1>6, EndsInside
    <3>2. ASSUME at.page = P PROVE FALSE
      <4>1. s + (o - PageHeader) + l <= s + (u - PageHeader)
        BY <1>15, <3>1, <3>2 DEF Position
      <4> HIDE DEF s, o, l, u
      <4> QED
        BY <1>10, <2>4, <2>6, <4>1, Sizes
    <3> QED
      BY <3>2
  <2>8. at.page + 1 \in 1..P
    BY <1>5, <1>6, <2>7
  <2>9. start[at.page + 1] = s + (u - PageHeader)
    BY <1>6, <2>8 DEF Laid, Starts
  <2>10. Position(start, at'.page, at'.offset) + at'.left = EndOf(w.builds[b], start)
    <3>1. Position(start, at'.page, at'.offset) + at'.left
              = s + (u - PageHeader) + (PageHeader - PageHeader) + (l - n)
      BY <2>3, <2>9 DEF Position
    <3> HIDE DEF s, o, l, u
    <3>2. s + (u - PageHeader) + (PageHeader - PageHeader) + (l - n) = s + (o - PageHeader) + l
      BY <1>10, <2>4, <2>6, Sizes
    <3> QED
      BY <1>15, <3>1, <3>2
  <2>11. PageHeader <= w.pages[at.page + 1].used
    <3>1. PagesFit(w.pages)
      BY <1>6 DEF Laid
    <3>2. w.pages[at.page + 1].used \in PageHeader..PageSize
      BY <2>8, <3>1 DEF PagesFit
    <3> QED
      BY <3>2
  <2>12. w'.live = (at.page + 1)..P
    BY <1>5, <1>6, <2>2
  <2>13. Walk(w', at', start)
    <3>1. \E c \in 1..Len(w.builds) :
              Position(start, at'.page, at'.offset) + at'.left = EndOf(w.builds[c], start)
      BY <2>10
    <3>2. /\ at'.page \in 1..P /\ w'.live = at'.page..P
          /\ at'.offset >= PageHeader /\ at'.offset <= w.pages[at'.page].used /\ at'.left > 0
      BY <2>3, <2>4, <2>8, <2>11, <2>12, Sizes
    <3> QED
      BY <1>6, <2>2, <2>3, <3>1, <3>2 DEF Walk
  <2> QED
    BY <1>1, <2>2, <2>5, <2>13, AfterTurn
<1> QED
  BY <1>16, <1>17

\* The walk is over when every page is free
LEMMA AfterWalk ==
    ASSUME MemInv, pc = "resolve", Sound(w'), w'.build = NULL, w'.live = {}, at' = at,
           pc' = "idle", misuse' = misuse, target' = target
    PROVE  MemInv'
<1>1. Sound(w)' /\ Typed(w)' /\ Bounded(w)' /\ (w'.error = "ok" => PagesFit(w'.pages))
  BY DEF Sound
<1> QED
  BY <1>1 DEF MemInv, Freed

\* Where mpack_builder_resolve looks for the next header
LEMMA NextIsFound ==
    ASSUME NEW pages, Len(pages) \in Nat, NEW builds, Len(builds) \in Nat, NEW start,
           Laid(pages, builds, start), Filled(pages, 0),
           NEW b \in 1..Len(builds), NEW p, NEW o,
           Ends(pages, start, EndOf(builds[b], start), p, o)
    PROVE  \/ /\ b + 1 \in 1..Len(builds)
              /\ builds[b + 1].page = NextPage(p, o) /\ builds[b + 1].offset = NextOffset(o)
           \/ b = Len(builds) /\ AtTheEnd(pages, p, o)
<1>1. PagesFit(pages) /\ Starts(pages, start)
  BY DEF Laid
<1>2. CASE b = Len(builds)
  <2>1. PICK q \in 1..Len(pages), r \in 0..PageSize :
            LastEnd(pages, builds, start, q, r) /\ AtTheEnd(pages, q, r)
    BY LastEnds
  <2>2. p = q /\ o = r
    BY <1>1, <1>2, <2>1, OneEnd DEF LastEnd
  <2> QED
    BY <1>2, <2>1, <2>2
<1>3. CASE b # Len(builds)
  <2>1. b + 1 \in 1..Len(builds)
    BY <1>3
  <2>2. Follows(pages, start, builds[b], builds[b + 1])
    BY <2>1 DEF Laid
  <2>3. PICK q \in 1..Len(pages), r \in 0..PageSize :
          /\ Ends(pages, start, EndOf(builds[b], start), q, r)
          /\ builds[b + 1].page = NextPage(q, r) /\ builds[b + 1].offset = NextOffset(r)
    BY <2>2 DEF Follows
  <2>4. p = q /\ o = r
    BY <1>1, <2>3, OneEnd
  <2> QED
    BY <2>1, <2>3, <2>4
<1> QED
  BY <1>2, <1>3

LEMMA WalkTag ==
    ASSUME NEW x, NEW start, Laid(x.pages, x.builds, start), Filled(x.pages, 0),
           NEW place, place.step = "tag", place.page \in 1..Len(x.pages),
           x.live = place.page..Len(x.pages),
           NEW b \in 1..Len(x.builds),
           x.builds[b].page = place.page, x.builds[b].offset = place.offset
    PROVE  Walk(x, place, start)
<1>1. \E c \in 1..Len(x.builds) :
          x.builds[c].page = place.page /\ x.builds[c].offset = place.offset
  OBVIOUS
<1> QED
  BY <1>1, Zenon DEF Walk

LEMMA MemNext ==
    ASSUME MemInv, ResolveNext
    PROVE  MemInv'
<1> DEFINE page == NextPage(at.page, at.offset)
           offset == NextOffset(at.offset)
           kept == IF Turns(at.offset) THEN Free(w, at.page) ELSE w
           P == Len(w.pages)
           noPage == page > P
<1>1. pc = "resolve" /\ at.step = "next" /\ misuse' = misuse /\ target' = target
  BY DEF ResolveNext
<1>2. IF noPage \/ offset + BuildSize > w.pages[page].used
      THEN /\ w' = IF noPage THEN kept ELSE Free(kept, page)
           /\ pc' = "idle" /\ at' = at
      ELSE /\ at' = [at EXCEPT !.step = "tag", !.page = page, !.offset = offset]
           /\ w' = kept /\ pc' = pc
  BY Zenon DEF ResolveNext, HeaderFrom, Turns, NextPage, NextOffset
<1>3. Sound(w) /\ w.build = NULL /\ at \in Places
  BY <1>1 DEF MemInv
<1>4. PICK start : Walk(w, at, start)
  BY <1>1 DEF MemInv
<1>5. w.pages \in Seq(PageRecords) /\ P \in Nat /\ Len(w.builds) \in Nat
  BY <1>3 DEF Sound, Typed, BuilderTyped
<1>6. Laid(w.pages, w.builds, start) /\ at.page \in 1..P /\ w.live = at.page..P /\ Filled(w.pages, 0)
  BY <1>4 DEF Walk
<1>7. PICK b \in 1..Len(w.builds) :
          Ends(w.pages, start, EndOf(w.builds[b], start), at.page, at.offset)
  BY <1>1, <1>4 DEF Walk
<1>8. at.offset \in Nat /\ Align(at.offset) \in Nat /\ at.offset <= Align(at.offset)
  BY <1>3, AlignIs DEF Places
<1>9. /\ Sound(kept) /\ kept.pages = w.pages /\ kept.builds = w.builds /\ kept.build = NULL
      /\ Turns(at.offset) => page = at.page + 1 /\ offset = Align(PageHeader) /\ kept.live = w.live \ {at.page}
      /\ ~Turns(at.offset) => page = at.page /\ offset = Align(at.offset) /\ kept.live = w.live
  <2>1. CASE Turns(at.offset)
    BY <1>3, <2>1, FreeSound DEF NextPage, NextOffset
  <2>2. CASE ~Turns(at.offset)
    BY <1>3, <2>2 DEF NextPage, NextOffset
  <2> QED
    BY <2>1, <2>2
<1>10. offset \in Nat
  BY <1>8, <1>9, FirstFits
<1>11. Sound(Free(kept, page)) /\ Free(kept, page).build = NULL /\ Free(kept, page).live = kept.live \ {page}
  BY <1>9, FreeSound
<1> HIDE DEF kept, page, offset
<1>12. \/ /\ b + 1 \in 1..Len(w.builds)
          /\ w.builds[b + 1].page = page /\ w.builds[b + 1].offset = offset
       \/ b = Len(w.builds) /\ AtTheEnd(w.pages, at.page, at.offset)
  BY <1>5, <1>6, <1>7, NextIsFound DEF page, offset
<1>13. CASE b + 1 \in 1..Len(w.builds) /\ w.builds[b + 1].page = page /\ w.builds[b + 1].offset = offset
  <2>1. page \in 1..P /\ offset + BuildSize <= w.pages[page].used
    BY <1>6, <1>13 DEF Laid, InPage
  <2>2. w.pages[page].used \in Nat
    BY <1>6, <2>1, PageIs DEF Laid
  <2>3. ~(noPage \/ offset + BuildSize > w.pages[page].used)
    <3> DEFINE u == w.pages[page].used
    <3>1. u \in Nat /\ offset + BuildSize <= u /\ page \in 1..P
      BY <2>1, <2>2
    <3> HIDE DEF u
    <3>2. ~(page > P) /\ ~(offset + BuildSize > u)
      BY <1>5, <1>10, <3>1, Sizes
    <3> QED
      BY <3>2 DEF u
  <2>4. at' = [at EXCEPT !.step = "tag", !.page = page, !.offset = offset] /\ w' = kept /\ pc' = pc
    BY <1>2, <2>3
  <2>5. at'.step = "tag" /\ at'.page = page /\ at'.offset = offset
    BY <1>3, <2>4 DEF Places
  <2>6. at' \in Places
    <3>1. page \in Nat
      BY <2>1
    <3> QED
      BY <1>3, <1>10, <2>4, <3>1 DEF Places
  <2>7. w'.live = at'.page..P
    <3>1. kept.live = page..P
      <4>1. CASE Turns(at.offset)
        <5>1. page = at.page + 1 /\ kept.live = (at.page..P) \ {at.page}
          BY <1>6, <1>9, <4>1
        <5>2. (at.page..P) \ {at.page} = (at.page + 1)..P
          BY <1>5, <1>6
        <5> QED
          BY <5>1, <5>2
      <4>2. CASE ~Turns(at.offset)
        BY <1>6, <1>9, <4>2
      <4> QED
        BY <4>1, <4>2
    <3> QED
      BY <2>4, <2>5, <3>1
  <2>8. Walk(w', at', start)
    <3>1. w'.pages = w.pages /\ w'.builds = w.builds
      BY <1>9, <2>4
    <3> DEFINE x == w'
               c == b + 1
    <3>2. /\ Laid(x.pages, x.builds, start) /\ Filled(x.pages, 0)
          /\ at'.page \in 1..Len(x.pages) /\ x.live = at'.page..Len(x.pages)
          /\ c \in 1..Len(x.builds) /\ x.builds[c].page = at'.page /\ x.builds[c].offset = at'.offset
      BY <1>6, <1>13, <2>1, <2>5, <2>7, <3>1
    <3> HIDE DEF x, c
    <3>3. Walk(x, at', start)
      BY <2>5, <3>2, WalkTag
    <3> QED
      BY <3>3 DEF x
  <2> QED
    BY <1>1, <1>9, <2>4, <2>6, <2>8, AfterTurn
<1>14. CASE AtTheEnd(w.pages, at.page, at.offset)
  <2>1. P >= 1 /\ PagesFit(w.pages)
    BY <1>6 DEF Laid
  <2>2. w.pages[P].used \in Nat
    BY <1>5, <1>6, <2>1, PageIs DEF Laid
  <2>3. \/ page = P /\ offset + BuildSize > w.pages[P].used /\ kept.live = {P}
        \/ page = P + 1 /\ kept.live = {}
    <3>1. CASE at.page = P /\ at.offset = w.pages[P].used
      <4>1. w.live = {P}
        BY <1>5, <1>6, <2>1, <3>1
      <4>2. CASE Turns(at.offset)
        BY <1>9, <3>1, <4>1, <4>2
      <4>3. CASE ~Turns(at.offset)
        BY <1>8, <1>9, <2>2, <3>1, <4>1, <4>3, Sizes
      <4> QED
        BY <4>2, <4>3
    <3>2. CASE /\ P >= 2 /\ at.page = P - 1
               /\ w.pages[P].used = PageHeader /\ at.offset + BuildSize > PageSize
      <4>1. Turns(at.offset)
        BY <1>8, <3>2, Sizes DEF Turns
      <4>2. page = P /\ offset = Align(PageHeader) /\ kept.live = w.live \ {P - 1}
        BY <1>5, <1>9, <3>2, <4>1
      <4>3. kept.live = {P}
        BY <1>5, <1>6, <3>2, <4>2
      <4>4. offset + BuildSize > w.pages[P].used
        BY <3>2, <4>2, FirstFits, Sizes
      <4> QED
        BY <4>2, <4>3, <4>4
    <3> QED
      BY <1>14, <3>1, <3>2 DEF AtTheEnd
  <2>4. Sound(w') /\ w'.build = NULL /\ w'.live = {} /\ pc' = "idle" /\ at' = at
    <3>1. CASE page = P /\ offset + BuildSize > w.pages[P].used /\ kept.live = {P}
      <4>1. ~noPage
        BY <1>5, <3>1
      <4>2. w' = Free(kept, page) /\ pc' = "idle" /\ at' = at
        BY <1>2, <3>1, <4>1
      <4> QED
        BY <1>11, <3>1, <4>2
    <3>2. CASE page = P + 1 /\ kept.live = {}
      <4>1. noPage
        BY <1>5, <3>2
      <4>2. w' = kept /\ pc' = "idle" /\ at' = at
        BY <1>2, <4>1
      <4> QED
        BY <1>9, <3>2, <4>2
    <3> QED
      BY <2>3, <3>1, <3>2
  <2> QED
    BY <1>1, <2>4, AfterWalk
<1> QED
  BY <1>12, <1>13, <1>14

-----------------------------------------------------------------------------
(* The end of the writer                                                    *)

LEMMA ShrunkSound ==
    ASSUME NEW x, Sound(x)
    PROVE  Sound(Shrunk(x)) /\ Written(x, Shrunk(x))
<1> DEFINE a == Allocation(x)
           size == IF x.buffer = << >> THEN 1 ELSE Len(x.buffer)
           y == [a EXCEPT !.size = size]
<1>1. Shrunk(x) = x \/ Shrunk(x) = FlagError(Allocation(x), "memory")
      \/ (x.error = "ok" /\ Shrunk(x) = y)
  BY DEF Shrunk
<1>2. Sound(FlagError(Allocation(x), "memory")) /\ Written(x, FlagError(Allocation(x), "memory"))
  BY FailedSound
<1>3. HasFields(x) /\ BufferFits(x)
  BY DEF Sound, Typed
<1>4. HasFields(a) /\ DOMAIN a = DOMAIN x /\ SameBuilder(x, a) /\ SameBuffer(x, a)
      /\ a.allocations = x.allocations + 1 /\ a.error = x.error
  BY <1>3, AllocationIs DEF HasFields
<1> HIDE DEF a
<1>5. x.buffer \in Seq(Contents) /\ Len(x.buffer) \in Nat
  BY <1>3 DEF BufferFits
<1>6. size \in Nat /\ size >= 1 /\ Len(x.buffer) <= size
  BY <1>5
<1> HIDE DEF size
<1>7. /\ DOMAIN y = DOMAIN x /\ SameBuilder(x, y) /\ y.sink = x.sink /\ y.file = x.file
      /\ y.buffer = x.buffer /\ y.size = size /\ y.allocations = x.allocations + 1 /\ y.error = x.error
  BY <1>4 DEF HasFields, SameBuilder, SameBuffer
<1> HIDE DEF y
<1>8. BufferFits(y)
  BY <1>3, <1>6, <1>7 DEF BufferFits, Fixed
<1>9. Sound(y) /\ Written(x, y)
  BY <1>7, <1>8, SoundBy
<1> QED
  BY <1>1, <1>2, <1>9, WrittenSelf

LEMMA RestSound ==
    ASSUME NEW x, Sound(x), ToFile(x)
    PROVE  Sound(FlushedRest(x)) /\ Written(x, FlushedRest(x))
<1>1. ~Fixed(x)
  BY DEF ToFile, Fixed
<1>2. x.error = "ok" => Sound(Flush(x, << >>)) /\ Written(x, Flush(x, << >>))
  BY <1>1, EmptyContents, FlushSound
<1> QED
  BY <1>2, WrittenSelf DEF FlushedRest

LEMMA DestroyedSound ==
    ASSUME NEW x, Sound(x), NEW y \in Destroyed(x)
    PROVE  Sound(y) /\ Written(x, y)
<1> DEFINE f == FlushedRest(x)
<1>1. \/ ToFile(x) /\ (y = f \/ y = FlagError(f, "io"))
      \/ y = x \/ y = Shrunk(x)
  BY DEF Destroyed
<1>2. ToFile(x) => Sound(f) /\ Written(x, f)
  BY RestSound
<1> HIDE DEF f
<1>3. ToFile(x) => Sound(FlagError(f, "io")) /\ Written(f, FlagError(f, "io"))
  <2>1. "io" \in Errors \ {"ok"}
    BY DEF Errors
  <2> QED
    BY <1>2, <2>1, FlagSound
<1>4. ToFile(x) => Written(x, FlagError(f, "io"))
  BY <1>2, <1>3, WrittenThen
<1> QED
  BY <1>1, <1>2, <1>3, <1>4, ShrunkSound, WrittenSelf

\* After an error nothing is written when the writer is destroyed
LEMMA DestroyedFailed ==
    ASSUME NEW x, x.error # "ok", NEW y \in Destroyed(x)
    PROVE  y = x
<1>1. FlushedRest(x) = x /\ FlagError(x, "io") = x /\ Shrunk(x) = x
  BY DEF FlushedRest, FlagError, Shrunk
<1>2. y = FlushedRest(x) \/ y = FlagError(FlushedRest(x), "io") \/ y = x \/ y = Shrunk(x)
  BY DEF Destroyed
<1> QED
  BY <1>1, <1>2

LEMMA MemDestroy ==
    ASSUME MemInv, Destroy
    PROVE  MemInv'
<1> DEFINE f == FlagError(w, "bug")
           y == [f EXCEPT !.build = NULL, !.live = {}]
<1>1. /\ pc = "idle" /\ w' \in Destroyed(Undiverted(w)) /\ pc' = "destroyed"
      /\ at' = at /\ misuse' = misuse /\ doc' = doc
  BY DEF Destroy
<1>2. target' = << >> \/ Len(target') = 1
  BY DEF Destroy
<1>3. Sound(w)
  BY <1>1 DEF MemInv
<1>4. CASE w.build = NULL
  <2>1. Undiverted(w) = w
    BY <1>4 DEF Undiverted
  <2>2. Sound(w') /\ Written(w, w')
    BY <1>1, <1>3, <2>1, DestroyedSound
  <2>3. w'.live = w.live
    BY <1>4, <2>2 DEF Written, SameBuilder
  <2>4. Freed'
    <3>1. CASE w.live = {}
      BY <2>3, <3>1 DEF Freed
    <3>2. CASE FirstPageForgotten
      <4>1. w.error # "ok"
        BY <3>2 DEF FirstPageForgotten
      <4>2. w' = w
        BY <1>1, <2>1, <4>1, DestroyedFailed
      <4> QED
        BY <1>1, <3>2, <4>2 DEF Freed, FirstPageForgotten
    <3> QED
      BY <1>1, <1>4, <3>1, <3>2 DEF MemInv, Freed
  <2>5. Typed(w)' /\ Bounded(w)' /\ (w'.error = "ok" => PagesFit(w'.pages)) /\ w'.build = NULL
    BY <1>4, <2>2 DEF Sound, Written
  <2> QED
    BY <1>1, <1>2, <2>4, <2>5 DEF MemInv
<1>5. CASE w.build # NULL
  <2>1. Undiverted(w) = y
    BY <1>5 DEF Undiverted
  <2>2. "bug" \in Errors \ {"ok"}
    BY DEF Errors
  <2>3. Sound(f) /\ f.error # "ok"
    BY <1>3, <2>2, FlagSound
  <2>4. HasFields(f) /\ BufferFits(f) /\ BuilderTyped(f)
    BY <2>3 DEF Sound, Typed
  <2> HIDE DEF f
  <2>5. /\ DOMAIN y = DOMAIN f /\ SameBuffer(f, y) /\ y.error = f.error /\ y.allocations = f.allocations
        /\ y.pages = f.pages /\ y.page = f.page /\ y.live = {} /\ y.base = f.base
        /\ y.pending = f.pending /\ y.builds = f.builds /\ y.latest = f.latest /\ y.build = NULL
    BY <2>4 DEF HasFields, SameBuffer
  <2> HIDE DEF y
  <2>6. w' = y
    BY <1>1, <2>1, <2>3, <2>5, DestroyedFailed
  <2>7. HasFields(y) /\ BufferFits(y)
    BY <2>4, <2>5 DEF HasFields, BufferFits, SameBuffer, Fixed
  <2>8. y.build \in 0..Len(y.builds) /\ y.live \subseteq 1..Len(y.pages)
    BY <2>4, <2>5 DEF BuilderTyped, NULL
  <2>9. BuilderTyped(y)
    BY <2>4, <2>5, <2>8 DEF BuilderTyped
  <2>11. Bounded(y)
    BY <2>3, <2>5, <2>7 DEF Sound, Bounded, BufferFits
  <2>10. Typed(w)' /\ Bounded(w)' /\ w'.error # "ok" /\ w'.live = {} /\ w'.build = NULL
    BY <2>3, <2>5, <2>6, <2>7, <2>9, <2>11 DEF Typed
  <2> QED
    BY <1>1, <1>2, <2>10 DEF MemInv, Freed
<1> QED
  BY <1>4, <1>5

LEMMA MemStep ==
    ASSUME TrackInv, TrackInv', MemInv, [Next]_vars
    PROVE  MemInv'
<1>1. CASE \E s \in Scalars : WriteScalar(s[1], s[2])
  <2>1. \A s \in Scalars : s[1] \in 1..MinBuffer /\ s[2] \in Nat
    BY SizesAssumption
  <2> QED
    BY <1>1, <2>1, MemScalar
<1>2. ASSUME NEW type \in Compound, \E n \in Counts : StartContainer(type, n) PROVE MemInv'
  <2>1. \A n \in Counts : n \in Nat
    BY SizesAssumption
  <2> QED
    BY <1>2, <2>1, MemStart
<1>3. CASE FlushMessage
  BY <1>3, MemFlush
<1>4. CASE Destroy
  BY <1>4, MemDestroy
<1>5. CASE Resolve
  BY <1>5, MemTag, MemCopy, MemNext DEF Resolve
<1>6. CASE UNCHANGED vars
  BY <1>6 DEF vars, MemInv, Freed, FirstPageForgotten
<1>7. ASSUME NEW type \in Compound, FinishContainer(type) \/ BuildContainer(type) \/ CompleteNested(type)
               \/ CompleteOutermost(type) \/ CompleteMisused(type)
      PROVE  MemInv'
  BY <1>7, MemFinish, MemBuild, MemNested, MemOutermost, MemCompleteMisused
<1> QED
  BY <1>1, <1>2, <1>3, <1>4, <1>5, <1>6, <1>7 DEF Next, Call

\* In every state of the writer its pages and builds lie one behind the other as
\* the code lays them, the walk of mpack_builder_resolve stands where the code
\* expects it, and only the pages that are still needed are allocated.
THEOREM MemoryInvariant == Spec => []MemInv
<1>1. TrackInv /\ TrackInv' /\ MemInv /\ [Next]_vars => MemInv'
  BY MemStep
<1> QED
  BY MemInit, <1>1, TrackingInvariant, PTL DEF Spec

LEMMA MemInside == MemInv => InsideMemory
<1> SUFFICES ASSUME MemInv PROVE InsideMemory
  OBVIOUS
<1>1. Typed(w) /\ HasFields(w) /\ BufferFits(w) /\ BuilderTyped(w)
  BY DEF MemInv, Typed
<1>2. w.pages \in Seq(PageRecords) /\ w.builds \in Seq(BuildRecords)
  BY <1>1 DEF BuilderTyped
<1>3. TypeOK
  <2>1. DOMAIN w.pages = 1..Len(w.pages) /\ DOMAIN w.builds = 1..Len(w.builds)
    BY <1>2
  <2>2. \A p \in DOMAIN w.pages : Len(w.pages[p].memory) = w.pages[p].used
    BY <1>2, <2>1 DEF PageRecords
  <2>3. /\ w.error \in Errors /\ w.size \in Nat /\ w.allocations \in Nat
    BY <1>1 DEF BufferFits
  <2>4. /\ w.base \in Nat
        /\ w.build \in 0..Len(w.builds) /\ w.latest \in 0..Len(w.builds)
        /\ w.page \in 0..Len(w.pages) /\ w.live \subseteq DOMAIN w.pages
        /\ \A b \in DOMAIN w.builds : w.builds[b].parent \in 0..(b - 1)
    BY <1>1, <2>1 DEF BuilderTyped
  <2>5. at.step \in {"none", "tag", "copy", "next"}
    BY DEF MemInv, Places
  <2> QED
    BY <2>2, <2>3, <2>4, <2>5 DEF TypeOK, MemInv
<1>4. NothingOverflows
  BY DEF MemInv, NothingOverflows
<1>5. WalkFindsHeaders
  <2> SUFFICES ASSUME pc = "resolve"
               PROVE  /\ at.step \in {"tag", "copy"} => at.page \in w.live
                      /\ at.step = "tag" =>
                             \E b \in DOMAIN w.builds :
                                 w.builds[b].page = at.page /\ w.builds[b].offset = at.offset
    BY DEF WalkFindsHeaders
  <2>1. PICK start : Walk(w, at, start)
    BY DEF MemInv
  <2>2. at.page \in 1..Len(w.pages) /\ w.live = at.page..Len(w.pages)
    BY <2>1 DEF Walk
  <2>3. at.page \in w.live
    BY <2>2
  <2>4. DOMAIN w.builds = 1..Len(w.builds)
    BY <1>2
  <2> QED
    BY <2>1, <2>3, <2>4 DEF Walk
<1> QED
  BY <1>3, <1>4, <1>5 DEF InsideMemory

\* In every state, before and after an error, the writer has written inside its
\* pages and its real buffer, the header of a build for which no page could be had
\* apart, and the walk of mpack_builder_resolve reads pages that are still
\* allocated and finds a header wherever it expects one, however large the pages
\* and headers are, whatever is written and whichever allocation fails.
THEOREM MemoryIsSafe == Spec => []InsideMemory
<1> QED
  BY MemoryInvariant, MemInside, PTL

\* Whatever the caller writes and whichever allocation fails, those of the tracking
\* included, no page outlives its build: the walk frees every page it passed, and a
\* destroyed writer has none left.  The one exception is the first page of a build
\* that the tracking refused, or had no memory to follow.
THEOREM PagesAreFreed == Spec => []NoPageLeaks
<1>1. MemInv => NoPageLeaks
  BY DEF MemInv, Freed, NoPageLeaks, Building
<1> QED
  BY MemoryInvariant, <1>1, PTL

-----------------------------------------------------------------------------
(* The programs of kgd.c keep to the grammar                                *)

\* A call that is possible at all: a value has a tag, a container a type and a count
IsStep(s) ==
    /\ s.op \in {"start", "finish", "build", "complete", "write"}
    /\ s.op = "write" => s.size[1] \in 1..MinBuffer /\ s.size[2] \in Nat
    /\ s.op # "write" => s.type \in Compound /\ s.n \in Nat
IsProgram(p) == \E S : p \in Seq(S) /\ \A s \in S : IsStep(s)

\* The tracking lets a step pass and has this stack afterwards
Permits(s, t, u) ==
    /\ s.op = "write" => MayAddElement(t) /\ u = AddElement(t)
    /\ s.op = "start" => MayAddElement(t) /\ u = Push(AddElement(t), s.type, s.n)
    /\ s.op = "build" => MayAddElement(t) /\ u = PushBuilder(AddElement(t), s.type)
    /\ s.op = "finish" => MayPop(t, s.type, FALSE) /\ u = Pop(t)
    /\ s.op = "complete" => MayPop(t, s.type, TRUE) /\ u = Pop(t)

\* The stacks t[1], t[2] ... while a program runs
Trail(p, t) == \A i \in 1..Len(p) : Permits(p[i], t[i], t[i + 1])
Does(p, from, to) ==
    /\ IsProgram(p)
    /\ \E t : Trail(p, t) /\ t[1] = from /\ t[Len(p) + 1] = to

LEMMA ProgramBy ==
    ASSUME NEW p, NEW S, p \in Seq(S), \A s \in S : IsStep(s)
    PROVE  IsProgram(p)
BY DEF IsProgram

LEMMA DoesNothing == \A t : Does(<< >>, t, t)
<1> SUFFICES ASSUME NEW t PROVE Does(<< >>, t, t)
  OBVIOUS
<1> DEFINE g == [i \in 1..1 |-> t]
<1>1. Trail(<< >>, g) /\ g[1] = t /\ Len(<< >>) = 0
  BY DEF Trail
<1>2. IsProgram(<< >>)
  <2> DEFINE none == {}
  <2>1. << >> \in Seq(none)
    OBVIOUS
  <2>2. \A r \in none : IsStep(r)
    BY Zenon
  <2> HIDE DEF none
  <2> QED
    BY <2>1, <2>2, ProgramBy
<1> QED
  BY <1>1, <1>2 DEF Does

LEMMA DoesOne ==
    ASSUME NEW s, IsStep(s), NEW t, NEW u, Permits(s, t, u)
    PROVE  Does(<<s>>, t, u)
<1> DEFINE p == <<s>>
           g == [i \in 1..2 |-> IF i = 1 THEN t ELSE u]
<1>1. Len(p) = 1 /\ p[1] = s
  OBVIOUS
<1>0. IsProgram(p)
  <2>1. p \in Seq({s})
    OBVIOUS
  <2>2. \A r \in {s} : IsStep(r)
    BY Zenon
  <2> HIDE DEF p
  <2> QED
    BY <2>1, <2>2, ProgramBy
<1>2. g[1] = t /\ g[2] = u
  OBVIOUS
<1> HIDE DEF p, g
<1>3. Trail(p, g)
  BY <1>1, <1>2 DEF Trail
<1>4. Does(p, t, u)
  BY <1>0, <1>1, <1>2, <1>3 DEF Does
<1> QED
  BY <1>4 DEF p

LEMMA DoesThen ==
    ASSUME NEW p, NEW q, NEW t, NEW u, NEW v, Does(p, t, u), Does(q, u, v)
    PROVE  Does(p \o q, t, v)
<1> DEFINE m == Len(p)
           n == Len(q)
           r == p \o q
<1>1. PICK S, T : p \in Seq(S) /\ q \in Seq(T) /\ \A s \in S \cup T : IsStep(s)
  <2>1. PICK S : p \in Seq(S) /\ \A s \in S : IsStep(s)
    BY DEF Does, IsProgram
  <2>2. PICK T : q \in Seq(T) /\ \A s \in T : IsStep(s)
    BY DEF Does, IsProgram
  <2> QED
    BY <2>1, <2>2
<1>11. p \in Seq(S \cup T) /\ q \in Seq(S \cup T) /\ m \in Nat /\ n \in Nat
  BY <1>1
<1>2. /\ r \in Seq(S \cup T) /\ Len(r) = m + n
      /\ \A i \in 1..m : r[i] = p[i]
      /\ \A i \in 1..(m + n) : i > m => r[i] = q[i - m]
  BY <1>11
<1>3. PICK g : Trail(p, g) /\ g[1] = t /\ g[m + 1] = u
  BY DEF Does
<1>4. PICK h : Trail(q, h) /\ h[1] = u /\ h[n + 1] = v
  BY DEF Does
<1> DEFINE k == [i \in 1..(m + n + 1) |-> IF i <= m THEN g[i] ELSE h[i - m]]
<1>5. \A i \in 1..(m + 1) : k[i] = g[i]
  <2>1. ASSUME NEW i \in 1..(m + 1) PROVE k[i] = g[i]
    <3>1. i \in 1..(m + n + 1)
      BY <1>11
    <3>2. CASE i <= m
      BY <3>1, <3>2
    <3>3. CASE i = m + 1
      BY <1>11, <1>3, <1>4, <3>1, <3>3
    <3> QED
      BY <1>11, <3>2, <3>3
  <2> QED
    BY <2>1
<1>6. \A i \in 1..(n + 1) : k[i + m] = h[i]
  BY <1>11
<1> HIDE DEF k, r
<1>7. k[1] = t /\ k[(m + n) + 1] = v
  <2>1. 1 \in 1..(m + 1) /\ n + 1 \in 1..(n + 1) /\ (m + n) + 1 = (n + 1) + m
    BY <1>11
  <2> QED
    BY <1>3, <1>4, <1>5, <1>6, <2>1
<1>8. ASSUME NEW i \in 1..(m + n) PROVE Permits(r[i], k[i], k[i + 1])
  <2>1. CASE i <= m
    <3>1. i \in 1..m /\ i \in 1..(m + 1) /\ i + 1 \in 1..(m + 1)
      BY <1>11, <2>1
    <3>2. r[i] = p[i] /\ k[i] = g[i] /\ k[i + 1] = g[i + 1]
      BY <1>2, <1>5, <3>1
    <3> QED
      BY <1>3, <3>1, <3>2 DEF Trail
  <2>2. CASE i > m
    <3> DEFINE j == i - m
    <3>1. j \in 1..n /\ j \in 1..(n + 1) /\ j + 1 \in 1..(n + 1) /\ j + m = i /\ (j + 1) + m = i + 1
      BY <1>11, <2>2
    <3>2. r[i] = q[j] /\ k[i] = h[j] /\ k[i + 1] = h[j + 1]
      BY <1>2, <1>6, <2>2, <3>1
    <3> QED
      BY <1>4, <3>1, <3>2 DEF Trail
  <2> QED
    BY <1>11, <2>1, <2>2
<1>9. Trail(r, k)
  BY <1>2, <1>8 DEF Trail
<1>12. IsProgram(r)
  BY <1>1, <1>2 DEF IsProgram
<1>10. Does(r, t, v)
  BY <1>2, <1>7, <1>9, <1>12 DEF Does
<1> QED
  BY <1>10 DEF r

\* The containers an element can go to, and one that waits for n more
Ready == {e \in Elements : e.builder \/ e.left > 0}
BuildOpen == Opened("map", 0, TRUE)
StartOpen(type, n) == Opened(type, n, FALSE)

\* A program that writes one element, where one is allowed
One(p) ==
    /\ Does(p, << >>, << >>)
    /\ \A b \in Seq(Elements), e \in Ready : Does(p, Append(b, e), Append(b, AddedTo(e)))

\* One that writes fields of a map that is built
Built(p) == \A b \in Seq(Elements) : Does(p, Append(b, BuildOpen), Append(b, BuildOpen))

\* One that starts an element: a map that is built, or a container that waits for n more
Opening(p, e) ==
    /\ Does(p, << >>, <<e>>)
    /\ \A b \in Seq(Elements), f \in Ready : Does(p, Append(b, f), Append(Append(b, AddedTo(f)), e))

LEMMA AddedIsElement ==
    ASSUME NEW e \in Ready
    PROVE  AddedTo(e) \in Elements /\ e \in Elements
<1>1. e \in Elements /\ (e.builder \/ e.left > 0) /\ e.left \in Nat /\ e.builder \in BOOLEAN
  BY DEF Ready, Elements
<1> DEFINE left == IF e.builder THEN e.left ELSE e.left - 1
<1>2. left \in Nat
  BY <1>1
<1>3. AddedTo(e) = IF e.type = "map" /\ ~e.odd THEN [e EXCEPT !.odd = TRUE]
                  ELSE [e EXCEPT !.odd = FALSE, !.left = left]
  BY DEF AddedTo
<1> HIDE DEF left
<1>4. [e EXCEPT !.odd = TRUE] \in Elements /\ [e EXCEPT !.odd = FALSE, !.left = left] \in Elements
  BY <1>1, <1>2 DEF Elements
<1> QED
  BY <1>1, <1>3, <1>4

LEMMA OnTop ==
    ASSUME NEW b \in Seq(Elements), NEW e \in Elements
    PROVE  /\ Append(b, e) \in Seq(Elements) /\ Append(b, e) # << >> /\ Top(Append(b, e)) = e
           /\ Pop(Append(b, e)) = b
           /\ \A f \in Elements : WithTop(Append(b, e), f) = Append(b, f)
<1> DEFINE s == Append(b, e)
           n == Len(b)
<1>1. s \in Seq(Elements) /\ Len(s) = n + 1 /\ s[n + 1] = e /\ n \in Nat /\ \A i \in 1..n : s[i] = b[i]
  OBVIOUS
<1> HIDE DEF s
<1>2. s # << >> /\ Top(s) = e
  BY <1>1 DEF Top
<1>3. Pop(s) = b
  <2>1. Pop(s) \in Seq(Elements) /\ Len(Pop(s)) = n /\ \A i \in 1..n : Pop(s)[i] = s[i]
    BY <1>1 DEF Pop
  <2> QED
    BY <1>1, <2>1
<1>4. ASSUME NEW f \in Elements PROVE WithTop(s, f) = Append(b, f)
  <2> DEFINE a == Append(b, f)
             z == WithTop(s, f)
  <2>1. a \in Seq(Elements) /\ Len(a) = n + 1 /\ a[n + 1] = f /\ \A i \in 1..n : a[i] = b[i]
    OBVIOUS
  <2>2. z \in Seq(Elements) /\ Len(z) = n + 1 /\ z[n + 1] = f /\ \A i \in 1..n : z[i] = s[i]
    BY <1>1 DEF WithTop
  <2> HIDE DEF a, z
  <2>3. \A i \in 1..(n + 1) : i \in 1..n \/ i = n + 1
    BY <1>1
  <2>4. \A i \in 1..(n + 1) : a[i] = z[i]
    BY <1>1, <2>1, <2>2, <2>3
  <2>5. a = z
    BY <1>1, <2>1, <2>2, <2>4
  <2> QED
    BY <2>5 DEF a, z
<1> QED
  BY <1>1, <1>2, <1>3, <1>4 DEF s

LEMMA AddedOnTop ==
    ASSUME NEW b \in Seq(Elements), NEW e \in Ready
    PROVE  MayAddElement(Append(b, e)) /\ AddElement(Append(b, e)) = Append(b, AddedTo(e))
<1> DEFINE s == Append(b, e)
<1>1. e \in Elements /\ AddedTo(e) \in Elements /\ e.type \in Compound /\ (e.builder \/ e.left > 0)
  BY AddedIsElement DEF Ready, Elements
<1>2. s # << >> /\ Top(s) = e /\ WithTop(s, AddedTo(e)) = Append(b, AddedTo(e))
  BY <1>1, OnTop
<1> HIDE DEF s
<1>3. MayAddElement(s)
  BY <1>1, <1>2 DEF MayAddElement
<1>4. AddElement(s) = WithTop(s, AddedTo(e))
  BY <1>2, Zenon DEF AddElement, AddedTo
<1> QED
  BY <1>2, <1>3, <1>4 DEF s

LEMMA AddedOnNothing == MayAddElement(<< >>) /\ AddElement(<< >>) = << >>
BY DEF MayAddElement, AddElement

\* What the calls of the programs do
LEMMA WritesOne ==
    ASSUME NEW name, NEW size \in (1..MinBuffer) \X Nat
    PROVE  One(Writes(name, size))
<1> DEFINE s == [op |-> "write", type |-> "value", n |-> 0, name |-> name, size |-> size]
<1>1. IsStep(s) /\ s.op = "write"
  <2>1. size[2] \in Nat /\ size[1] \in 1..MinBuffer /\ s.op = "write" /\ s.size = size
    OBVIOUS
  <2> HIDE DEF s
  <2> QED
    BY <2>1 DEF IsStep
<1>2. Writes(name, size) = <<s>>
  BY DEF Writes
<1> HIDE DEF s
<1>3. \A t : MayAddElement(t) => Does(<<s>>, t, AddElement(t))
  <2>1. ASSUME NEW t, MayAddElement(t) PROVE Permits(s, t, AddElement(t))
    BY <1>1, <2>1 DEF Permits
  <2> QED
    BY <1>1, <2>1, DoesOne
<1>4. Does(<<s>>, << >>, << >>)
  BY <1>3, AddedOnNothing
<1>5. ASSUME NEW b \in Seq(Elements), NEW e \in Ready PROVE Does(<<s>>, Append(b, e), Append(b, AddedTo(e)))
  BY <1>3, AddedOnTop
<1> QED
  BY <1>2, <1>4, <1>5 DEF One

LEMMA OpenElements ==
    /\ BuildOpen \in Elements /\ BuildOpen \in Ready
    /\ \A type \in Compound, n \in Nat : StartOpen(type, n) \in Elements /\ (n > 0 => StartOpen(type, n) \in Ready)
BY DEF BuildOpen, StartOpen, Opened, Elements, Ready, Compound

\* The step that opens or closes a container
Edge(op, type, n) == [op |-> op, type |-> type, n |-> n, name |-> "value", size |-> <<0, 0>>]

LEMMA EdgeIs ==
    ASSUME NEW op \in {"start", "finish", "build", "complete"}, NEW type \in Compound, NEW n \in Nat
    PROVE  /\ Opens(op, type, n) = <<Edge(op, type, n)>>
           /\ IsStep(Edge(op, type, n)) /\ Edge(op, type, n).op = op
           /\ Edge(op, type, n).type = type /\ Edge(op, type, n).n = n
<1> DEFINE s == Edge(op, type, n)
<1>1. s.op = op /\ s.type = type /\ s.n = n
  BY DEF Edge
<1>2. Opens(op, type, n) = <<s>>
  BY DEF Edge, Opens
<1> HIDE DEF s
<1>3. IsStep(s)
  BY <1>1 DEF IsStep
<1> QED
  BY <1>1, <1>2, <1>3 DEF s

LEMMA SameElement ==
    ASSUME NEW e \in Elements, NEW f \in Elements,
           e.type = f.type, e.left = f.left, e.builder = f.builder, e.odd = f.odd
    PROVE  e = f
BY DEF Elements

\* An element of a container of known count: the value of a key, or the item of an array
LEMMA CountedDown ==
    ASSUME NEW e \in Elements, NEW type \in Compound, NEW n \in Nat,
           e.type = type, e.left = n + 1, e.builder = FALSE, type = "array" \/ e.odd = TRUE
    PROVE  AddedTo(e) = StartOpen(type, n)
<1> DEFINE f == [e EXCEPT !.odd = FALSE, !.left = n]
<1>1. AddedTo(e) = [e EXCEPT !.odd = FALSE, !.left = IF e.builder THEN e.left ELSE e.left - 1]
  BY DEF AddedTo
<1>2. (IF e.builder THEN e.left ELSE e.left - 1) = n
  OBVIOUS
<1>3. AddedTo(e) = f
  BY <1>1, <1>2
<1>4. f \in Elements /\ f.type = type /\ f.left = n /\ f.builder = FALSE /\ f.odd = FALSE
  BY DEF Elements
<1> HIDE DEF f
<1>5. StartOpen(type, n) \in Elements /\ StartOpen(type, n).type = type /\ StartOpen(type, n).left = n
      /\ StartOpen(type, n).builder = FALSE /\ StartOpen(type, n).odd = FALSE
  BY OpenElements DEF StartOpen, Opened
<1> QED
  BY <1>3, <1>4, <1>5, SameElement

LEMMA StartOpenIs ==
    ASSUME NEW type \in Compound, NEW n \in Nat
    PROVE  LET e == StartOpen(type, n) IN
           e \in Elements /\ e.type = type /\ e.left = n /\ e.builder = FALSE /\ e.odd = FALSE
BY OpenElements DEF StartOpen, Opened

LEMMA StepOpens ==
    ASSUME NEW s, IsStep(s), NEW e \in Elements,
           \A t : MayAddElement(t) => Permits(s, t, Append(AddElement(t), e))
    PROVE  Opening(<<s>>, e)
<1>1. \A t : MayAddElement(t) => Does(<<s>>, t, Append(AddElement(t), e))
  BY DoesOne
<1>2. Append(<< >>, e) = <<e>>
  OBVIOUS
<1>3. Does(<<s>>, << >>, <<e>>)
  BY <1>1, <1>2, AddedOnNothing
<1>4. ASSUME NEW b \in Seq(Elements), NEW f \in Ready
      PROVE  Does(<<s>>, Append(b, f), Append(Append(b, AddedTo(f)), e))
  BY <1>1, AddedOnTop
<1> QED
  BY <1>3, <1>4 DEF Opening

LEMMA StartOpens ==
    ASSUME NEW type \in Compound, NEW n \in Nat
    PROVE  Opening(Start(type, n), StartOpen(type, n))
<1> DEFINE s == Edge("start", type, n)
<1>1. IsStep(s) /\ s.op = "start" /\ s.type = type /\ s.n = n
  BY EdgeIs
<1>2. Start(type, n) = <<s>>
  BY EdgeIs DEF Start
<1> HIDE DEF s
<1>3. ASSUME NEW t, MayAddElement(t) PROVE Permits(s, t, Append(AddElement(t), StartOpen(type, n)))
  BY <1>1, <1>3 DEF Permits, Push, StartOpen
<1> QED
  BY <1>1, <1>2, <1>3, OpenElements, StepOpens

LEMMA BuildOpens == Opening(Build("map"), BuildOpen)
<1> DEFINE s == Edge("build", "map", 0)
<1>1. IsStep(s) /\ s.op = "build" /\ s.type = "map"
  BY EdgeIs DEF Compound
<1>2. Build("map") = <<s>>
  BY EdgeIs DEF Build, Compound
<1> HIDE DEF s
<1>3. ASSUME NEW t, MayAddElement(t) PROVE Permits(s, t, Append(AddElement(t), BuildOpen))
  BY <1>1, <1>3 DEF Permits, PushBuilder, BuildOpen
<1> QED
  BY <1>1, <1>2, <1>3, OpenElements, StepOpens

LEMMA OpeningThen ==
    ASSUME NEW p, NEW q, NEW e, NEW f, Opening(p, e),
           \A b \in Seq(Elements) : Does(q, Append(b, e), Append(b, f))
    PROVE  Opening(p \o q, f)
<1>1. Does(p \o q, << >>, <<f>>)
  <2>1. Append(<< >>, e) = <<e>> /\ Append(<< >>, f) = <<f>> /\ << >> \in Seq(Elements)
    OBVIOUS
  <2>2. Does(p, << >>, <<e>>) /\ Does(q, <<e>>, <<f>>)
    BY <2>1 DEF Opening
  <2> QED
    BY <2>2, DoesThen
<1>2. ASSUME NEW b \in Seq(Elements), NEW g \in Ready
      PROVE  Does(p \o q, Append(b, g), Append(Append(b, AddedTo(g)), f))
  <2>1. Append(b, AddedTo(g)) \in Seq(Elements)
    BY AddedIsElement
  <2>2. Does(p, Append(b, g), Append(Append(b, AddedTo(g)), e))
    BY DEF Opening
  <2>3. Does(q, Append(Append(b, AddedTo(g)), e), Append(Append(b, AddedTo(g)), f))
    BY <2>1
  <2> QED
    BY <2>2, <2>3, DoesThen
<1> QED
  BY <1>1, <1>2 DEF Opening

\* The end of a container that was opened
LEMMA OpeningEnds ==
    ASSUME NEW p, NEW e \in Elements, Opening(p, e), NEW s, IsStep(s),
           \A b \in Seq(Elements) : Permits(s, Append(b, e), b)
    PROVE  One(p \o <<s>>)
<1>1. \A b \in Seq(Elements) : Does(<<s>>, Append(b, e), b)
  BY DoesOne
<1>2. Does(p \o <<s>>, << >>, << >>)
  <2>1. Append(<< >>, e) = <<e>> /\ << >> \in Seq(Elements)
    OBVIOUS
  <2>2. Does(p, << >>, <<e>>) /\ Does(<<s>>, <<e>>, << >>)
    BY <1>1, <2>1 DEF Opening
  <2> QED
    BY <2>2, DoesThen
<1>3. ASSUME NEW b \in Seq(Elements), NEW f \in Ready
      PROVE  Does(p \o <<s>>, Append(b, f), Append(b, AddedTo(f)))
  <2>1. Append(b, AddedTo(f)) \in Seq(Elements)
    BY AddedIsElement
  <2>2. Does(p, Append(b, f), Append(Append(b, AddedTo(f)), e))
    BY DEF Opening
  <2>3. Does(<<s>>, Append(Append(b, AddedTo(f)), e), Append(b, AddedTo(f)))
    BY <1>1, <2>1
  <2> QED
    BY <2>2, <2>3, DoesThen
<1> QED
  BY <1>2, <1>3 DEF One

LEMMA FinishEnds ==
    ASSUME NEW p, NEW type \in Compound, Opening(p, StartOpen(type, 0))
    PROVE  One(p \o Finish(type))
<1> DEFINE s == Edge("finish", type, 0)
           e == StartOpen(type, 0)
<1>1. IsStep(s) /\ s.op = "finish" /\ s.type = type
  BY EdgeIs
<1>2. Finish(type) = <<s>>
  BY EdgeIs DEF Finish
<1>3. e \in Elements /\ e.type = type /\ e.odd = FALSE /\ e.left = 0 /\ e.builder = FALSE
  BY OpenElements DEF StartOpen, Opened
<1> HIDE DEF s, e
<1>4. ASSUME NEW b \in Seq(Elements) PROVE Permits(s, Append(b, e), b)
  BY <1>1, <1>3, OnTop DEF Permits, MayPop
<1>5. One(p \o <<s>>)
  BY <1>1, <1>3, <1>4, OpeningEnds DEF e
<1> QED
  BY <1>2, <1>5

LEMMA CompleteEnds ==
    ASSUME NEW p, Opening(p, BuildOpen)
    PROVE  One(p \o Complete("map"))
<1> DEFINE s == Edge("complete", "map", 0)
           e == BuildOpen
<1>1. IsStep(s) /\ s.op = "complete" /\ s.type = "map"
  BY EdgeIs DEF Compound
<1>2. Complete("map") = <<s>>
  BY EdgeIs DEF Complete, Compound
<1>3. e \in Elements /\ e.type = "map" /\ e.odd = FALSE /\ e.left = 0 /\ e.builder = TRUE
  BY OpenElements DEF BuildOpen, Opened
<1> HIDE DEF s, e
<1>4. ASSUME NEW b \in Seq(Elements) PROVE Permits(s, Append(b, e), b)
  BY <1>1, <1>3, OnTop DEF Permits, MayPop
<1>5. One(p \o <<s>>)
  BY <1>1, <1>3, <1>4, OpeningEnds DEF e
<1> QED
  BY <1>2, <1>5

\* One element more in an array, one field more in a map
LEMMA ArrayMore ==
    ASSUME NEW p, NEW n \in Nat, NEW m, m = n + 1, Opening(p, StartOpen("array", m)), NEW q, One(q)
    PROVE  Opening(p \o q, StartOpen("array", n))
<1> DEFINE e == StartOpen("array", m)
           f == StartOpen("array", n)
<1>1. e \in Ready
  BY OpenElements DEF Compound
<1>2. AddedTo(e) = f
  <2>1. "array" \in Compound /\ m \in Nat
    BY DEF Compound
  <2> QED
    BY <2>1, StartOpenIs, CountedDown
<1> HIDE DEF e, f
<1>3. \A b \in Seq(Elements) : Does(q, Append(b, e), Append(b, f))
  BY <1>1, <1>2 DEF One
<1> QED
  BY <1>3, OpeningThen DEF e, f

LEMMA FieldDoes ==
    ASSUME NEW name, NEW value, One(value), NEW e \in Ready, e.type = "map", ~e.odd
    PROVE  \A b \in Seq(Elements) :
               Does(Field(name, value), Append(b, e), Append(b, AddedTo([e EXCEPT !.odd = TRUE])))
<1> DEFINE f == [e EXCEPT !.odd = TRUE]
<1>1. AddedTo(e) = f
  BY DEF AddedTo
<1>2. f \in Ready
  BY DEF Ready, Elements
<1>3. One(Name(name))
  BY WrittenSizesAssumption, WritesOne DEF Name
<1> HIDE DEF f
<1> SUFFICES ASSUME NEW b \in Seq(Elements) PROVE Does(Field(name, value), Append(b, e), Append(b, AddedTo(f)))
  BY DEF f
<1>4. Does(Name(name), Append(b, e), Append(b, f))
  BY <1>1, <1>3 DEF One
<1>5. Does(value, Append(b, f), Append(b, AddedTo(f)))
  BY <1>2 DEF One
<1> QED
  BY <1>4, <1>5, DoesThen DEF Field

LEMMA MapMore ==
    ASSUME NEW p, NEW n \in Nat, NEW m, m = n + 1, Opening(p, StartOpen("map", m)),
           NEW name, NEW value, One(value)
    PROVE  Opening(p \o Field(name, value), StartOpen("map", n))
<1> DEFINE e == StartOpen("map", m)
           f == StartOpen("map", n)
<1>1. e \in Ready /\ e.type = "map" /\ ~e.odd
  BY OpenElements DEF StartOpen, Opened, Compound
<1>2. AddedTo([e EXCEPT !.odd = TRUE]) = f
  <2> DEFINE g == [e EXCEPT !.odd = TRUE]
  <2>1. "map" \in Compound /\ m \in Nat
    BY DEF Compound
  <2>2. e \in Elements /\ e.type = "map" /\ e.left = n + 1 /\ e.builder = FALSE
    BY <2>1, StartOpenIs
  <2> HIDE DEF e
  <2>3. g \in Elements /\ g.type = "map" /\ g.left = n + 1 /\ g.builder = FALSE /\ g.odd = TRUE
    BY <2>2 DEF Elements
  <2> HIDE DEF g
  <2>4. AddedTo(g) = f
    BY <2>1, <2>3, CountedDown
  <2> QED
    BY <2>4 DEF g
<1> HIDE DEF e, f
<1>3. \A b \in Seq(Elements) : Does(Field(name, value), Append(b, e), Append(b, f))
  BY <1>1, <1>2, FieldDoes
<1> QED
  BY <1>3, OpeningThen DEF e, f

LEMMA BuiltField ==
    ASSUME NEW name, NEW value, One(value)
    PROVE  Built(Field(name, value))
<1> DEFINE e == BuildOpen
<1>1. e \in Ready /\ e.type = "map" /\ ~e.odd
  BY OpenElements DEF BuildOpen, Opened
<1>2. AddedTo([e EXCEPT !.odd = TRUE]) = e
  BY DEF BuildOpen, Opened, AddedTo
<1> HIDE DEF e
<1>3. \A b \in Seq(Elements) : Does(Field(name, value), Append(b, e), Append(b, e))
  BY <1>1, <1>2, FieldDoes
<1> QED
  BY <1>3 DEF Built, e

LEMMA BuiltNothing == Built(<< >>)
BY DoesNothing DEF Built

LEMMA BuiltThen ==
    ASSUME NEW p, NEW q, Built(p), Built(q)
    PROVE  Built(p \o q)
BY DoesThen DEF Built

LEMMA BuildMore ==
    ASSUME NEW p, NEW q, Opening(p, BuildOpen), Built(q)
    PROVE  Opening(p \o q, BuildOpen)
BY OpeningThen DEF Built

LEMMA BuiltOptional == \A name, options : Built(Optional(name, options))
<1> SUFFICES ASSUME NEW name, NEW options PROVE Built(Optional(name, options))
  OBVIOUS
<1>1. Built(Field(name, Number))
  BY WrittenSizesAssumption, WritesOne, BuiltField DEF Number
<1> QED
  BY <1>1, BuiltNothing DEF Optional

LEMMA Values ==
    /\ One(Number) /\ One(Text) /\ One(Writes("value", BlobSize)) /\ \A name : One(Name(name))
BY WrittenSizesAssumption, WritesOne DEF Number, Text, Name

\* A request and a notification, around one element of parameters
LEMMA RequestIs ==
    ASSUME NEW method, NEW params, One(params)
    PROVE  One(Request(method, params))
<1> DEFINE p0 == Start("array", 4)
           p1 == p0 \o Number
           p2 == p1 \o Number
           p3 == p2 \o Name(method)
           p4 == p3 \o params
<1>1. Opening(p0, StartOpen("array", 4))
  BY StartOpens DEF Compound
<1> HIDE DEF p0
<1>2. Opening(p1, StartOpen("array", 3))
  BY <1>1, Values, ArrayMore
<1> HIDE DEF p1
<1>3. Opening(p2, StartOpen("array", 2))
  BY <1>2, Values, ArrayMore
<1> HIDE DEF p2
<1>4. Opening(p3, StartOpen("array", 1))
  BY <1>3, Values, ArrayMore
<1> HIDE DEF p3
<1>5. Opening(p4, StartOpen("array", 0))
  BY <1>4, ArrayMore
<1> HIDE DEF p4
<1>6. One(p4 \o Finish("array"))
  BY <1>5, FinishEnds DEF Compound
<1> QED
  BY <1>6 DEF Request, p0, p1, p2, p3, p4

LEMMA OnewayIs ==
    ASSUME NEW method, NEW params, One(params)
    PROVE  One(Oneway(method, params))
<1> DEFINE p0 == Start("array", 3)
           p1 == p0 \o Number
           p2 == p1 \o Name(method)
           p3 == p2 \o params
<1>1. Opening(p0, StartOpen("array", 3))
  BY StartOpens DEF Compound
<1> HIDE DEF p0
<1>2. Opening(p1, StartOpen("array", 2))
  BY <1>1, Values, ArrayMore
<1> HIDE DEF p1
<1>3. Opening(p2, StartOpen("array", 1))
  BY <1>2, Values, ArrayMore
<1> HIDE DEF p2
<1>4. Opening(p3, StartOpen("array", 0))
  BY <1>3, ArrayMore
<1> HIDE DEF p3
<1>5. One(p3 \o Finish("array"))
  BY <1>4, FinishEnds DEF Compound
<1> QED
  BY <1>5 DEF Oneway, p0, p1, p2, p3

LEMMA NoParamsIs == One(NoParams)
<1>1. Opening(Start("array", 0), StartOpen("array", 0))
  BY StartOpens DEF Compound
<1> QED
  BY <1>1, FinishEnds DEF NoParams, Compound

LEMMA OneParamIs ==
    ASSUME NEW map, One(map)
    PROVE  One(OneParam(map))
<1> DEFINE p0 == Start("array", 1)
           p1 == p0 \o map
<1>1. Opening(p0, StartOpen("array", 1))
  BY StartOpens DEF Compound
<1> HIDE DEF p0
<1>2. Opening(p1, StartOpen("array", 0))
  BY <1>1, ArrayMore
<1> HIDE DEF p1
<1>3. One(p1 \o Finish("array"))
  BY <1>2, FinishEnds DEF Compound
<1> QED
  BY <1>3 DEF OneParam, p0, p1

LEMMA HelloIs == \A session : One(Hello(session))
<1> SUFFICES ASSUME NEW session PROVE One(Hello(session))
  OBVIOUS
<1> DEFINE p0 == Build("map")
           p1 == p0 \o Field("client_type", Text)
           p2 == p1 \o Field("pid", Number)
           p3 == p2 \o Field("label", Text)
           p4 == p3 \o (IF session THEN Field("session_id", Text) ELSE << >>)
           map == p4 \o Complete("map")
<1>1. \A name : Built(Field(name, Text)) /\ Built(Field(name, Number))
  BY Values, BuiltField
<1>2. Opening(p0, BuildOpen)
  BY BuildOpens
<1> HIDE DEF p0
<1>3. Opening(p1, BuildOpen)
  BY <1>1, <1>2, BuildMore
<1> HIDE DEF p1
<1>4. Opening(p2, BuildOpen)
  BY <1>1, <1>3, BuildMore
<1> HIDE DEF p2
<1>5. Opening(p3, BuildOpen)
  BY <1>1, <1>4, BuildMore
<1> HIDE DEF p3
<1>6. Opening(p4, BuildOpen)
  BY <1>1, <1>5, BuiltNothing, BuildMore
<1> HIDE DEF p4
<1>7. One(map)
  BY <1>6, CompleteEnds
<1>8. Hello(session) = Request("hello", OneParam(map))
  BY DEF Hello, map, p4, p3, p2, p1, p0
<1> HIDE DEF map
<1> QED
  BY <1>7, <1>8, OneParamIs, RequestIs

LEMMA UploadIs == One(Upload)
<1> DEFINE p0 == Start("map", 4)
           p1 == p0 \o Field("data", Writes("value", BlobSize))
           p2 == p1 \o Field("format", Text)
           p3 == p2 \o Field("width", Number)
           p4 == p3 \o Field("height", Number)
           map == p4 \o Finish("map")
<1>1. Opening(p0, StartOpen("map", 4))
  BY StartOpens DEF Compound
<1> HIDE DEF p0
<1>2. Opening(p1, StartOpen("map", 3))
  BY <1>1, Values, MapMore
<1> HIDE DEF p1
<1>3. Opening(p2, StartOpen("map", 2))
  BY <1>2, Values, MapMore
<1> HIDE DEF p2
<1>4. Opening(p3, StartOpen("map", 1))
  BY <1>3, Values, MapMore
<1> HIDE DEF p3
<1>5. Opening(p4, StartOpen("map", 0))
  BY <1>4, Values, MapMore
<1> HIDE DEF p4
<1>6. One(map)
  BY <1>5, FinishEnds DEF Compound
<1>7. Upload = Request("upload", OneParam(map))
  BY DEF Upload, map, p4, p3, p2, p1, p0
<1> HIDE DEF map
<1> QED
  BY <1>6, <1>7, OneParamIs, RequestIs

LEMMA AnchorIs == \A kind, options : One(Anchor(kind, options))
<1> SUFFICES ASSUME NEW kind, NEW options PROVE One(Anchor(kind, options))
  OBVIOUS
<1> DEFINE O(name) == Optional(name, options)
           pane == (IF "pane_id" \in options THEN Field("pane_id", Text) ELSE << >>) \o O("row") \o O("col")
           win == O("win_id") \o O("buf_line") \o O("col")
           other == O("row") \o O("col")
           place == CASE kind = "pane" -> pane [] kind = "nvim_win" -> win [] OTHER -> other
           p0 == Build("map")
           p1 == p0 \o Field("type", Text)
           p2 == p1 \o place
<1>1. \A name : Built(Field(name, Text)) /\ Built(O(name))
  BY Values, BuiltField, BuiltOptional
<1>2. Built(pane)
  BY <1>1, BuiltNothing, BuiltThen
<1>3. Built(win) /\ Built(other)
  BY <1>1, BuiltThen
<1>4. Anchor(kind, options) = p2 \o Complete("map")
  BY DEF Anchor
<1>5. place = pane \/ place = win \/ place = other
  <2> HIDE DEF pane, win, other
  <2> QED
    OBVIOUS
<1> HIDE DEF pane, win, other
<1>6. Built(place)
  BY <1>2, <1>3, <1>5
<1>7. Opening(p0, BuildOpen)
  BY BuildOpens
<1> HIDE DEF place, p0
<1>8. Opening(p1, BuildOpen)
  BY <1>1, <1>7, BuildMore
<1> HIDE DEF p1
<1>9. Opening(p2, BuildOpen)
  BY <1>6, <1>8, BuildMore
<1> HIDE DEF p2
<1> QED
  BY <1>4, <1>9, CompleteEnds

LEMMA PlaceIs == \A kind, options : One(Place(kind, options))
<1> SUFFICES ASSUME NEW kind, NEW options PROVE One(Place(kind, options))
  OBVIOUS
<1> DEFINE O(name) == Optional(name, options)
           p0 == Build("map")
           p1 == p0 \o Field("handle", Number)
           p2 == p1 \o Field("anchor", Anchor(kind, options))
           p3 == p2 \o Field("width", Number)
           p4 == p3 \o Field("height", Number)
           p5 == p4 \o O("src_x")
           p6 == p5 \o O("src_y")
           p7 == p6 \o O("src_w")
           p8 == p7 \o O("src_h")
           p9 == p8 \o O("z_index")
           map == p9 \o Complete("map")
<1>1. \A name : Built(Field(name, Number)) /\ Built(O(name))
  BY Values, BuiltField, BuiltOptional
<1>2. Built(Field("anchor", Anchor(kind, options)))
  BY AnchorIs, BuiltField
<1>3. Opening(p0, BuildOpen)
  BY BuildOpens
<1> HIDE DEF p0
<1>4. Opening(p1, BuildOpen)
  BY <1>1, <1>3, BuildMore
<1> HIDE DEF p1
<1>5. Opening(p2, BuildOpen)
  BY <1>2, <1>4, BuildMore
<1> HIDE DEF p2
<1>6. Opening(p3, BuildOpen)
  BY <1>1, <1>5, BuildMore
<1> HIDE DEF p3
<1>7. Opening(p4, BuildOpen)
  BY <1>1, <1>6, BuildMore
<1> HIDE DEF p4
<1>8. Opening(p5, BuildOpen)
  BY <1>1, <1>7, BuildMore
<1> HIDE DEF p5
<1>9. Opening(p6, BuildOpen)
  BY <1>1, <1>8, BuildMore
<1> HIDE DEF p6
<1>10. Opening(p7, BuildOpen)
  BY <1>1, <1>9, BuildMore
<1> HIDE DEF p7
<1>11. Opening(p8, BuildOpen)
  BY <1>1, <1>10, BuildMore
<1> HIDE DEF p8
<1>12. Opening(p9, BuildOpen)
  BY <1>1, <1>11, BuildMore
<1> HIDE DEF p9
<1>13. One(map)
  BY <1>12, CompleteEnds
<1>14. Place(kind, options) = Request("place", OneParam(map))
  BY DEF Place, map, p9, p8, p7, p6, p5, p4, p3, p2, p1, p0
<1> HIDE DEF map
<1> QED
  BY <1>13, <1>14, OneParamIs, RequestIs

LEMMA SimpleCallIs == \A method, key : One(SimpleCall(method, key))
<1> SUFFICES ASSUME NEW method, NEW key PROVE One(SimpleCall(method, key))
  OBVIOUS
<1> DEFINE p0 == Start("map", 1)
           p1 == p0 \o Field(key, Number)
           map == p1 \o Finish("map")
<1>1. Opening(p0, StartOpen("map", 1))
  BY StartOpens DEF Compound
<1> HIDE DEF p0
<1>2. Opening(p1, StartOpen("map", 0))
  BY <1>1, Values, MapMore
<1> HIDE DEF p1
<1>3. One(map)
  BY <1>2, FinishEnds DEF Compound
<1>4. SimpleCall(method, key) = Request(method, OneParam(map))
  BY DEF SimpleCall, map, p1, p0
<1> HIDE DEF map
<1> QED
  BY <1>3, <1>4, OneParamIs, RequestIs

LEMMA RegisterWinIs == \A pane : One(RegisterWin(pane))
<1> SUFFICES ASSUME NEW pane PROVE One(RegisterWin(pane))
  OBVIOUS
<1> DEFINE p0 == Build("map")
           p1 == p0 \o Field("win_id", Number)
           p2 == p1 \o (IF pane THEN Field("pane_id", Text) ELSE << >>)
           p3 == p2 \o Field("top", Number)
           p4 == p3 \o Field("left", Number)
           p5 == p4 \o Field("width", Number)
           p6 == p5 \o Field("height", Number)
           p7 == p6 \o Field("scroll_top", Number)
           map == p7 \o Complete("map")
<1>1. \A name : Built(Field(name, Text)) /\ Built(Field(name, Number))
  BY Values, BuiltField
<1>2. Opening(p0, BuildOpen)
  BY BuildOpens
<1> HIDE DEF p0
<1>3. Opening(p1, BuildOpen)
  BY <1>1, <1>2, BuildMore
<1> HIDE DEF p1
<1>4. Opening(p2, BuildOpen)
  BY <1>1, <1>3, BuiltNothing, BuildMore
<1> HIDE DEF p2
<1>5. Opening(p3, BuildOpen)
  BY <1>1, <1>4, BuildMore
<1> HIDE DEF p3
<1>6. Opening(p4, BuildOpen)
  BY <1>1, <1>5, BuildMore
<1> HIDE DEF p4
<1>7. Opening(p5, BuildOpen)
  BY <1>1, <1>6, BuildMore
<1> HIDE DEF p5
<1>8. Opening(p6, BuildOpen)
  BY <1>1, <1>7, BuildMore
<1> HIDE DEF p6
<1>9. Opening(p7, BuildOpen)
  BY <1>1, <1>8, BuildMore
<1> HIDE DEF p7
<1>10. One(map)
  BY <1>9, CompleteEnds
<1>11. RegisterWin(pane) = Oneway("register_win", OneParam(map))
  BY DEF RegisterWin, map, p7, p6, p5, p4, p3, p2, p1, p0
<1> HIDE DEF map
<1> QED
  BY <1>10, <1>11, OneParamIs, OnewayIs

LEMMA ScrollAndUnregisterAre == One(UpdateScroll) /\ One(UnregisterWin)
<1> DEFINE p0 == Start("map", 2)
           p1 == p0 \o Field("win_id", Number)
           p2 == p1 \o Field("scroll_top", Number)
           map == p2 \o Finish("map")
           q0 == Start("map", 1)
           q1 == q0 \o Field("win_id", Number)
           single == q1 \o Finish("map")
<1>1. Opening(p0, StartOpen("map", 2)) /\ Opening(q0, StartOpen("map", 1))
  BY StartOpens DEF Compound
<1> HIDE DEF p0, q0
<1>2. Opening(p1, StartOpen("map", 1)) /\ Opening(q1, StartOpen("map", 0))
  BY <1>1, Values, MapMore
<1> HIDE DEF p1, q1
<1>3. Opening(p2, StartOpen("map", 0))
  BY <1>2, Values, MapMore
<1> HIDE DEF p2
<1>4. One(map) /\ One(single)
  BY <1>2, <1>3, FinishEnds DEF Compound
<1>5. UpdateScroll = Oneway("update_scroll", OneParam(map))
      /\ UnregisterWin = Oneway("unregister_win", OneParam(single))
  BY DEF UpdateScroll, UnregisterWin, map, p2, p1, p0, single, q1, q0
<1> HIDE DEF map, single
<1> QED
  BY <1>4, <1>5, OneParamIs, OnewayIs

LEMMA ProgramsAre == \A p \in Programs : Does(p, << >>, << >>)
<1>1. One(List) /\ One(Status) /\ One(UnplaceAll) /\ One(Stop)
  BY NoParamsIs, RequestIs, OnewayIs DEF List, Status, UnplaceAll, Stop
<1>2. \A p \in Programs : One(p)
  BY <1>1, HelloIs, UploadIs, ScrollAndUnregisterAre, PlaceIs, SimpleCallIs, RegisterWinIs DEF Programs
<1> QED
  BY <1>2 DEF One

-----------------------------------------------------------------------------
(* A writer whose buffer grows lacks nothing but memory                      *)

Short(x, y) ==
    /\ DOMAIN y = DOMAIN x /\ y.sink = x.sink
    /\ y.error = x.error \/ (x.error = "ok" /\ y.error = "memory" /\ failing # {})
    /\ x.size >= MinBuffer => y.size >= MinBuffer

\* Build b was opened in build p; writing leaves every build where it is
Within(x, b, p) == b \in DOMAIN x.builds /\ "parent" \in DOMAIN x.builds[b] /\ x.builds[b].parent = p
SameParents(x, y) == \A b, p : Within(x, b, p) => Within(y, b, p)
Lacks(x, y) == Short(x, y) /\ SameParents(x, y)

\* Such a writer; the size says that its first buffer was had
Growing(x) == HasFields(x) /\ x.sink[1] = "growable" /\ (x.error = "ok" => x.size >= MinBuffer)

LEMMA LacksSelf == \A x : Lacks(x, x)
BY DEF Lacks, Short, SameParents

LEMMA SameParentsThen ==
    ASSUME NEW x, NEW y, NEW z, SameParents(x, y), SameParents(y, z)
    PROVE  SameParents(x, z)
BY DEF SameParents

LEMMA ShortThen ==
    ASSUME NEW x, NEW y, NEW z, Short(x, y), Short(y, z)
    PROVE  Short(x, z)
BY DEF Short

LEMMA LacksThen ==
    ASSUME NEW x, NEW y, NEW z, Lacks(x, y), Lacks(y, z)
    PROVE  Lacks(x, z)
BY ShortThen, SameParentsThen DEF Lacks

LEMMA StillFields ==
    ASSUME NEW x, NEW y, HasFields(x), Lacks(x, y) \/ Short(x, y)
    PROVE  HasFields(y)
BY DEF HasFields, Lacks, Short

LEMMA StillGrowing ==
    ASSUME NEW x, NEW y, Growing(x), Lacks(x, y) \/ Short(x, y)
    PROVE  Growing(y)
BY DEF Growing, Lacks, Short, HasFields

LEMMA KeptShort ==
    ASSUME NEW x, NEW y, DOMAIN y = DOMAIN x, SameBuffer(x, y), y.error = x.error
    PROVE  Short(x, y)
BY DEF SameBuffer, Short

LEMMA SameBuilds ==
    ASSUME NEW x, NEW y, y.builds = x.builds
    PROVE  SameParents(x, y)
BY DEF SameParents, Within

LEMMA KeptLacks ==
    ASSUME NEW x, NEW y, DOMAIN y = DOMAIN x, SameBuffer(x, y), y.error = x.error,
           y.builds = x.builds \/ SameParents(x, y)
    PROVE  Lacks(x, y)
BY KeptShort, SameBuilds DEF Lacks

LEMMA FailedLacks ==
    ASSUME NEW x, HasFields(x), Fails(x)
    PROVE  Lacks(x, FlagError(Allocation(x), "memory"))
<1> DEFINE a == Allocation(x)
           y == FlagError(a, "memory")
<1>1. DOMAIN a = DOMAIN x /\ SameBuffer(x, a) /\ a.error = x.error /\ a.builds = x.builds
  BY AllocationIs DEF SameBuilder
<1>2. failing # {}
  BY DEF Fails
<1> HIDE DEF a
<1>3. HasFields(a)
  BY <1>1 DEF HasFields
<1>4. DOMAIN y = DOMAIN a /\ SameBuffer(a, y) /\ (a.error = "ok" => y.error = "memory")
      /\ (a.error # "ok" => y = a) /\ y.builds = a.builds
  BY <1>3, FlagIs DEF SameBuilder
<1> HIDE DEF y
<1>5. Lacks(x, y)
  BY <1>1, <1>2, <1>4, SameBuilds DEF Lacks, Short, SameBuffer, SameBuilder
<1> QED
  BY <1>5 DEF y, a

LEMMA AddPageLacks ==
    ASSUME NEW x, HasFields(x)
    PROVE  Lacks(x, AddPage(x))
<1>1. CASE Fails(x)
  BY <1>1, FailedLacks DEF AddPage
<1>2. CASE ~Fails(x)
  BY <1>2, AddPageIs, KeptLacks
<1> QED
  BY <1>1, <1>2

LEMMA ApplyLacks ==
    ASSUME NEW x, HasFields(x)
    PROVE  Lacks(x, ApplyWrites(x))
<1> DEFINE y == ApplyWrites(x)
           d == Len(x.pending)
<1>1. DOMAIN y = DOMAIN x /\ SameBuffer(x, y) /\ y.error = x.error
      /\ y.builds = [x.builds EXCEPT ![x.latest] = [x.builds[x.latest] EXCEPT !.bytes = @ + d]]
  BY ApplyIs
<1> HIDE DEF y, d
<1>2. SameParents(x, y)
  BY <1>1 DEF SameParents, Within
<1> QED
  BY <1>1, <1>2, KeptLacks DEF y

LEMMA ConfigureLacks ==
    ASSUME NEW x, HasFields(x)
    PROVE  Lacks(x, ConfigureBuffer(x))
<1> DEFINE y == ConfigureBuffer(x)
<1>1. y.builds = x.builds
  BY DEF HasFields, ConfigureBuffer
<1>2. Short(x, y)
  BY DEF HasFields, ConfigureBuffer, Short
<1> QED
  BY <1>1, <1>2, SameBuilds DEF Lacks

LEMMA BuilderFlushLacks ==
    ASSUME NEW x, HasFields(x)
    PROVE  Lacks(x, BuilderFlush(x))
<1> DEFINE a == ApplyWrites(x)
           b == AddPage(a)
<1>1. Lacks(x, a) /\ HasFields(a)
  BY ApplyLacks, StillFields
<1> HIDE DEF a
<1>2. Lacks(a, b) /\ HasFields(b)
  BY <1>1, AddPageLacks, StillFields
<1> HIDE DEF b
<1>3. Lacks(x, ConfigureBuffer(b))
  BY <1>1, <1>2, ConfigureLacks, LacksThen
<1> QED
  BY <1>3 DEF BuilderFlush, b, a

LEMMA PutLacks ==
    ASSUME NEW x, HasFields(x), NEW bytes
    PROVE  Lacks(x, Put(x, bytes))
<1> DEFINE y == Put(x, bytes)
<1>1. y.builds = x.builds
  BY DEF HasFields, Put
<1>2. Short(x, y)
  BY DEF HasFields, Put, Short
<1> QED
  BY <1>1, <1>2, SameBuilds DEF Lacks

LEMMA PutByteLacks ==
    ASSUME NEW x, HasFields(x), NEW b
    PROVE  Lacks(x, PutByte(x, b))
<1> DEFINE f == IF Left(x) = 0 /\ x.error = "ok" THEN BuilderFlush(x) ELSE x
<1>1. f = x \/ f = BuilderFlush(x)
  OBVIOUS
<1>2. PutByte(x, b) = IF f.error = "ok" THEN Put(f, <<b>>) ELSE f
  BY DEF PutByte
<1> HIDE DEF f
<1>3. Lacks(x, f) /\ HasFields(f)
  BY <1>1, BuilderFlushLacks, LacksSelf, StillFields
<1>4. Lacks(f, PutByte(x, b))
  BY <1>2, <1>3, PutLacks, LacksSelf
<1> QED
  BY <1>3, <1>4, LacksThen

LEMMA PagesLacks ==
    ASSUME NEW x, HasFields(x), NEW bytes, Len(bytes) \in Nat
    PROVE  Lacks(x, PutInPages(x, bytes))
<1> DEFINE k == Len(bytes)
           f == CHOOSE g : g = [n \in 0..Len(bytes) |-> IF n = 0 THEN x ELSE PutByte(g[n - 1], bytes[n])]
<1>1. PutInPages(x, bytes) = f[k]
  BY DEF PutInPages
<1>2. Bytewise(x, bytes, k, f)
  <2>1. \E g : g = [n \in 0..Len(bytes) |-> IF n = 0 THEN x ELSE PutByte(g[n - 1], bytes[n])]
    <3>1. \E g : Bytewise(x, bytes, Len(bytes), g)
      BY BytewiseIs
    <3> QED
      BY <3>1, Zenon DEF Bytewise
  <2>2. f = [n \in 0..Len(bytes) |-> IF n = 0 THEN x ELSE PutByte(f[n - 1], bytes[n])]
    BY <2>1, Zenon
  <2> HIDE DEF f
  <2> QED
    BY <2>2, Zenon DEF Bytewise
<1> HIDE DEF f, k
<1>3. k \in Nat
  BY DEF k
<1>4. f[0] = x /\ \A n \in 1..k : f[n] = PutByte(f[n - 1], bytes[n])
  <2>1. Chain(x, bytes, k, f)
    BY <1>2, <1>3, BytewiseFacts, Zenon
  <2> QED
    BY <2>1, Zenon DEF Chain
<1> DEFINE S == {n \in 0..k : ~Lacks(x, f[n])}
<1>5. SUFFICES ASSUME S # {} PROVE FALSE
  BY <1>1, <1>3, <1>5
<1>6. S \subseteq Nat
  BY <1>3
<1>7. PICK n \in S : \A m \in S : n <= m
  BY <1>5, <1>6, LeastNatural
<1>8. n \in 0..k /\ ~Lacks(x, f[n])
  OBVIOUS
<1>9. n # 0
  BY <1>4, <1>8, LacksSelf
<1>10. n \in 1..k /\ n - 1 \in 0..k /\ ~(n <= n - 1)
  BY <1>3, <1>8, <1>9
<1>11. Lacks(x, f[n - 1]) /\ HasFields(f[n - 1])
  BY <1>7, <1>10, StillFields
<1>12. Lacks(f[n - 1], f[n])
  BY <1>4, <1>10, <1>11, PutByteLacks
<1> QED
  BY <1>8, <1>11, <1>12, LacksThen

\* The real buffer
LEMMA GrowLacks ==
    ASSUME NEW x, Sound(x), x.error = "ok", Growing(x), NEW extra \in Seq(Contents)
    PROVE  /\ Lacks(x, Flush(x, extra))
           /\ extra = << >> /\ x.build = NULL /\ Flush(x, extra).error = "ok"
                  => Left(Flush(x, extra)) >= MinBuffer
<1> DEFINE y == Flush(x, extra)
           n == Len(x.buffer) + Len(extra)
<1>1. y = Grow(x, extra)
  BY DEF Flush, Growing, ToFile
<1>2. HasFields(x) /\ BufferFits(x)
  BY DEF Sound, Typed
<1> HIDE DEF y
<1>3. CASE Fails(x)
  <2>1. y = FlagError(Allocation(x), "memory")
    BY <1>1, <1>3 DEF Grow
  <2>2. Lacks(x, y)
    BY <1>2, <1>3, <2>1, FailedLacks
  <2>3. y.error # "ok"
    BY <2>1, FailedSound
  <2> QED
    BY <2>2, <2>3 DEF y
<1>4. CASE ~Fails(x)
  <2>1. /\ DOMAIN y = DOMAIN x /\ y.sink = x.sink /\ y.error = x.error /\ y.build = x.build
        /\ y.size = Grown(x.size, n) /\ y.buffer = x.buffer \o extra /\ y.builds = x.builds
    BY <1>1, <1>2, <1>4, GrowIs DEF SameBuilder
  <2> DEFINE a == Len(x.buffer)
             s == x.size
  <2>2. a \in Nat /\ n \in Nat /\ s \in Nat /\ s >= MinBuffer /\ s >= 1 /\ a <= s
    <3>1. x.buffer \in Seq(Contents) /\ s \in Nat /\ a <= s
      BY <1>2 DEF BufferFits
    <3>2. a \in Nat /\ n \in Nat
      BY <3>1
    <3>3. s >= MinBuffer
      BY DEF Growing
    <3> HIDE DEF s, a, n
    <3> QED
      BY <3>1, <3>2, <3>3, Sizes
  <2> HIDE DEF n
  <2>3. y.size \in Nat /\ y.size >= 2 * s
    BY <2>1, <2>2, GrownHolds
  <2>4. extra = << >> => Len(y.buffer) = a
    BY <1>2, <2>1 DEF BufferFits
  <2> HIDE DEF a, s
  <2>5. y.size >= MinBuffer /\ y.size - a >= MinBuffer
    BY <2>2, <2>3, Sizes
  <2>6. Lacks(x, y)
    BY <2>1, <2>5, SameBuilds DEF Lacks, Short
  <2>7. extra = << >> /\ x.build = NULL => Left(y) >= MinBuffer
    BY <2>1, <2>4, <2>5 DEF Left
  <2> QED
    BY <2>6, <2>7 DEF y
<1> QED
  BY <1>3, <1>4

LEMMA EnsureLacks ==
    ASSUME NEW x, Sound(x), x.error = "ok", Growing(x), NEW n \in Nat, n <= MinBuffer
    PROVE  Lacks(x, Ensure(x, n))
<1> DEFINE g == Flush(x, << >>)
<1>1. CASE Left(x) >= n
  BY <1>1, LacksSelf DEF Ensure
<1>2. CASE ~(Left(x) >= n) /\ x.build # NULL
  BY <1>2, BuilderFlushLacks DEF Ensure, Growing
<1>3. CASE ~(Left(x) >= n) /\ x.build = NULL
  <2>1. ~Fixed(x)
    BY DEF Growing, Fixed
  <2>2. Ensure(x, n) = IF g.error = "ok" /\ Left(g) < n THEN FlagError(g, "io") ELSE g
    BY <1>3, <2>1 DEF Ensure
  <2>3. Lacks(x, g) /\ (g.error = "ok" => Left(g) >= MinBuffer)
    BY <1>3, EmptyContents, GrowLacks
  <2>4. Sound(g)
    BY <2>1, EmptyContents, FlushSound
  <2> HIDE DEF g
  <2>5. Left(g) \in Int
    BY <2>4, LeftIs DEF Sound
  <2>6. ~(g.error = "ok" /\ Left(g) < n)
    BY <2>3, <2>5, Sizes
  <2> QED
    BY <2>2, <2>3, <2>6
<1> QED
  BY <1>1, <1>2, <1>3

LEMMA TagLacks ==
    ASSUME NEW x, Sound(x), Growing(x), NEW bytes \in Seq(Contents), Len(bytes) <= MinBuffer
    PROVE  Lacks(x, WriteTag(x, bytes))
<1> DEFINE e == Ensure(x, Len(bytes))
<1>1. CASE x.error # "ok"
  BY <1>1, LacksSelf DEF WriteTag
<1>2. CASE x.error = "ok"
  <2>1. Lacks(x, e) /\ HasFields(e)
    <3>1. Len(bytes) \in Nat
      OBVIOUS
    <3> QED
      BY <1>2, <3>1, EnsureLacks, StillFields DEF Growing
  <2>2. WriteTag(x, bytes) = IF e.error # "ok" THEN e ELSE Put(e, bytes)
    BY <1>2 DEF WriteTag
  <2> HIDE DEF e
  <2>3. Lacks(e, Put(e, bytes))
    BY <2>1, PutLacks
  <2> QED
    BY <2>1, <2>2, <2>3, LacksThen
<1> QED
  BY <1>1, <1>2

LEMMA NativeLacks ==
    ASSUME NEW x, Sound(x), Growing(x), NEW bytes \in Seq(Contents)
    PROVE  Lacks(x, WriteNative(x, bytes))
<1> DEFINE g == Flush(x, << >>)
           y == WriteNative(x, bytes)
<1>1. HasFields(x) /\ ~Fixed(x) /\ Len(bytes) \in Nat
  BY DEF Growing, Fixed
<1>2. CASE x.error # "ok"
  BY <1>2, LacksSelf DEF WriteNative
<1>3. CASE x.error = "ok"
  <2>1. \/ y = Put(x, bytes) \/ y = PutInPages(x, bytes)
        \/ y = g \/ (g.error = "ok" /\ (y = Flush(g, bytes) \/ y = Put(g, bytes)))
    BY <1>1, <1>3, Zenon DEF WriteNative
  <2>2. Lacks(x, g) /\ Sound(g)
    BY <1>1, <1>3, EmptyContents, GrowLacks, FlushSound
  <2> HIDE DEF g, y
  <2>3. Growing(g) /\ HasFields(g)
    BY <1>1, <2>2, StillGrowing, StillFields
  <2>4. g.error = "ok" => Lacks(x, Flush(g, bytes))
    BY <2>2, <2>3, GrowLacks, LacksThen
  <2>5. Lacks(x, Put(g, bytes))
    BY <2>2, <2>3, PutLacks, LacksThen
  <2>6. Lacks(x, Put(x, bytes)) /\ Lacks(x, PutInPages(x, bytes))
    BY <1>1, PutLacks, PagesLacks
  <2>7. Lacks(x, y)
    BY <2>1, <2>2, <2>4, <2>5, <2>6
  <2> QED
    BY <2>7 DEF y
<1> QED
  BY <1>2, <1>3

\* Containers and builds
LEMMA ElementLacks ==
    ASSUME NEW x, HasFields(x), MayAddElement(x.track)
    PROVE  Lacks(x, Element(x)) /\ Element(x).track = AddElement(x.track)
<1> DEFINE t == [x EXCEPT !.track = AddElement(@)]
           more == [t EXCEPT !.builds[t.build] = CountElement(@)]
           e == Element(x)
<1>1. e = t \/ e = more
  BY DEF Element
<1>2. DOMAIN t = DOMAIN x /\ SameBuffer(x, t) /\ t.error = x.error /\ t.track = AddElement(x.track)
      /\ t.builds = x.builds
  BY DEF HasFields, SameBuffer
<1> HIDE DEF t
<1>3. HasFields(t)
  BY <1>2 DEF HasFields
<1>4. DOMAIN more = DOMAIN t /\ SameBuffer(t, more) /\ more.error = t.error /\ more.track = t.track
      /\ more.builds = [t.builds EXCEPT ![t.build] = CountElement(t.builds[t.build])]
  BY <1>3 DEF HasFields, SameBuffer
<1> HIDE DEF more
<1>5. SameParents(t, more)
  <2>1. ASSUME NEW b, "parent" \in DOMAIN b
        PROVE  "parent" \in DOMAIN CountElement(b) /\ CountElement(b).parent = b.parent
    BY <2>1 DEF CountElement
  <2> HIDE DEF more
  <2> QED
    BY <1>4, <2>1 DEF SameParents, Within
<1>6. Lacks(x, t) /\ Lacks(x, more)
  BY <1>2, <1>4, <1>5, KeptLacks, LacksThen
<1> HIDE DEF e
<1>7. Lacks(x, e) /\ e.track = t.track
  BY <1>1, <1>4, <1>6
<1> QED
  BY <1>2, <1>7 DEF e

LEMMA TrackPushLacks ==
    ASSUME NEW x, HasFields(x), x.error = "ok", NEW track
    PROVE  LET y == TrackPush(x, track) IN
           /\ Lacks(x, y) /\ HasFields(y) /\ y.build = x.build
           /\ y.error = "ok" => y.track = track
<1> DEFINE y == TrackPush(x, track)
           a == Allocation(x)
<1>1. IsWriter(x)
  BY DEF HasFields, IsWriter
<1>2. DOMAIN y = DOMAIN x /\ y.build = x.build /\ (y.error = "ok" => y.track = track)
  BY <1>1, TrackPushIs
<1>3. Lacks(x, y)
  <2>1. CASE ~Full(x.track, x.capacity)
    <3>1. y = [x EXCEPT !.track = track]
      BY <2>1 DEF TrackPush
    <3> HIDE DEF y
    <3>2. DOMAIN y = DOMAIN x /\ SameBuffer(x, y) /\ y.error = x.error /\ y.builds = x.builds
      BY <3>1 DEF HasFields, SameBuffer
    <3> QED
      BY <3>2, KeptLacks
  <2>2. CASE Full(x.track, x.capacity) /\ Fails(x)
    <3>1. y = FlagError(a, "memory")
      BY <2>2 DEF TrackPush
    <3> QED
      BY <2>2, <3>1, FailedLacks
  <2>3. CASE Full(x.track, x.capacity) /\ ~Fails(x)
    <3>1. y = [a EXCEPT !.track = track, !.capacity = 2 * @]
      BY <2>3 DEF TrackPush
    <3>2. DOMAIN a = DOMAIN x /\ SameBuilder(x, a) /\ SameBuffer(x, a) /\ a.error = x.error
      BY AllocationIs
    <3> HIDE DEF a, y
    <3>3. DOMAIN y = DOMAIN x /\ SameBuffer(x, y) /\ y.error = x.error /\ y.builds = x.builds
      BY <3>1, <3>2 DEF HasFields, SameBuffer, SameBuilder
    <3> QED
      BY <3>3, KeptLacks
  <2> QED
    BY <2>1, <2>2, <2>3
<1> QED
  BY <1>2, <1>3 DEF HasFields

LEMMA TrackedLacks ==
    ASSUME NEW x, HasFields(x), NEW track
    PROVE  Lacks(x, [x EXCEPT !.track = track]) /\ [x EXCEPT !.track = track].track = track
<1> DEFINE y == [x EXCEPT !.track = track]
<1>1. DOMAIN y = DOMAIN x /\ SameBuffer(x, y) /\ y.error = x.error /\ y.builds = x.builds /\ y.track = track
  BY DEF HasFields, SameBuffer
<1> QED
  BY <1>1, KeptLacks

LEMMA CompoundsLacks ==
    ASSUME NEW x, HasFields(x), NEW d
    PROVE  Lacks(x, Compounds(x, d)) /\ Compounds(x, d).track = x.track
<1> DEFINE more == [x EXCEPT !.builds[x.build].nested = @ + d]
           y == Compounds(x, d)
<1>1. y = x \/ y = more
  BY DEF Compounds
<1>2. DOMAIN more = DOMAIN x /\ SameBuffer(x, more) /\ more.error = x.error /\ more.track = x.track
      /\ more.builds = [x.builds EXCEPT ![x.build] = [x.builds[x.build] EXCEPT !.nested = @ + d]]
  BY DEF HasFields, SameBuffer
<1> HIDE DEF more, y
<1>3. SameParents(x, more)
  BY <1>2 DEF SameParents, Within
<1>4. Lacks(x, more)
  BY <1>2, <1>3, KeptLacks
<1>5. Lacks(x, y) /\ y.track = x.track
  BY <1>1, <1>2, <1>4, LacksSelf
<1> QED
  BY <1>5 DEF y

\* Starting a build
LEMMA BeginShort ==
    ASSUME NEW x, HasFields(x)
    PROVE  Short(x, Begin(x))
<1>1. CASE Fails(x)
  BY <1>1, FailedLacks DEF Begin, Lacks
<1>2. CASE ~Fails(x)
  <2> DEFINE y == Begin(x)
  <2>1. DOMAIN y = DOMAIN x /\ SameBuffer(x, y) /\ y.error = x.error
    BY <1>2, BeginIs
  <2> HIDE DEF y
  <2>2. Short(x, y)
    BY <2>1, KeptShort
  <2> QED
    BY <2>2 DEF y
<1> QED
  BY <1>1, <1>2

\* Build y.build was opened in the build that was open
NestedIn(x, y) ==
    /\ y.build # NULL /\ Within(y, y.build, x.build)
    /\ x.build # NULL => SameParents(x, y)

LEMMA BuildInShort ==
    ASSUME NEW x, HasFields(x), NEW item, NEW type
    PROVE  LET y == BuildIn(x, item, type) IN
           Short(x, y) /\ (x.builds \in Seq(BuildRecords) => y.build # NULL /\ Within(y, y.build, x.build) /\ SameParents(x, y))
<1> DEFINE b == AddBuild(x, item, type)
           c == IF Remaining(b) \in 0..(MinBuffer - 1) THEN AddPage(b) ELSE b
           y == ConfigureBuffer(c)
           n == Len(x.builds) + 1
           new == NewBuild(item, type, x.build, x.page, HeaderAt(x))
<1>1. DOMAIN b = DOMAIN x /\ SameBuffer(x, b) /\ b.error = x.error /\ b.build = n /\ b.builds = Append(x.builds, new)
  BY DEF HasFields, SameBuffer, AddBuild, HeaderAt
<1>2. BuildIn(x, item, type) = y
  BY Zenon DEF BuildIn
<1> HIDE DEF b
<1>3. c = b \/ c = AddPage(b)
  OBVIOUS
<1> HIDE DEF c
<1>4. Short(x, b) /\ HasFields(b)
  BY <1>1, KeptShort, StillFields
<1>5. Lacks(b, c) /\ c.build = b.build /\ HasFields(c)
  <2>1. Lacks(b, c) /\ Silent(b, c)
    BY <1>3, <1>4, AddPageLacks, AddPageSilent, LacksSelf, SilentSelf DEF IsWriter, HasFields
  <2> QED
    BY <1>4, <2>1, StillFields DEF Silent
<1>6. Lacks(c, y) /\ y.build = c.build
  BY <1>5, ConfigureLacks, ConfigureSilent DEF Silent, IsWriter, HasFields
<1>7. Lacks(b, y) /\ y.build = n
  BY <1>1, <1>5, <1>6, LacksThen
<1>8. ASSUME x.builds \in Seq(BuildRecords) PROVE n # NULL /\ Within(b, n, x.build) /\ SameParents(x, b)
  <2>1. n \in Nat /\ n # NULL /\ "parent" \in DOMAIN new /\ new.parent = x.build
    BY <1>8 DEF NULL, NewBuild
  <2> HIDE DEF new
  <2>2. DOMAIN b.builds = 1..n /\ b.builds[n] = new /\ DOMAIN x.builds = 1..(n - 1)
        /\ \A i \in 1..(n - 1) : b.builds[i] = x.builds[i]
    BY <1>1, <1>8
  <2> HIDE DEF n
  <2>3. n \in 1..n /\ \A i \in 1..(n - 1) : i \in 1..n
    BY <2>1, <1>8 DEF n
  <2>4. Within(b, n, x.build)
    BY <2>1, <2>2, <2>3 DEF Within
  <2>5. SameParents(x, b)
    BY <2>2, <2>3 DEF SameParents, Within
  <2> QED
    BY <2>1, <2>4, <2>5
<1> HIDE DEF y, n
<1>9. Short(x, y) /\ (x.builds \in Seq(BuildRecords) => y.build # NULL /\ Within(y, y.build, x.build) /\ SameParents(x, y))
  <2>1. Short(x, y)
    BY <1>4, <1>7, ShortThen DEF Lacks
  <2>2. ASSUME x.builds \in Seq(BuildRecords)
        PROVE  y.build # NULL /\ Within(y, y.build, x.build) /\ SameParents(x, y)
    BY <1>7, <1>8, <2>2, SameParentsThen DEF Lacks, SameParents
  <2> QED
    BY <2>1, <2>2
<1> QED
  BY <1>2, <1>9

LEMMA StartBuildShort ==
    ASSUME NEW x, Sound(x), NEW item, NEW type
    PROVE  LET y == StartBuild(x, item, type) IN
           Short(x, y) /\ (y.error = "ok" => NestedIn(x, y))
<1> DEFINE a == IF x.build = NULL THEN Begin(x) ELSE ApplyWrites(x)
           full == Align(a.pages[a.page].used) + BuildSize > PageSize
           b == IF full THEN AddPage(a) ELSE a
           z == BuildIn(b, item, type)
           y == StartBuild(x, item, type)
<1>1. y = IF a.error # "ok" THEN a ELSE z
  BY Zenon DEF StartBuild
<1>2. Typed(x) /\ HasFields(x)
  BY DEF Sound, Typed
<1> HIDE DEF y
<1>3. Short(x, a) /\ (a.error = "ok" => a.build = x.build /\ Typed(a) /\ (x.build # NULL => SameParents(x, a)))
  <2>1. CASE x.build = NULL
    <3>1. a = Begin(x)
      BY <2>1
    <3> HIDE DEF a
    <3>2. CASE Fails(x)
      <4>1. a.error # "ok"
        BY <3>1, <3>2, FailedSound DEF Begin
      <4> QED
        BY <1>2, <3>1, <4>1, BeginShort
    <3>3. CASE ~Fails(x)
      BY <1>2, <2>1, <3>1, <3>3, BeginShort, BeginTyped
    <3> QED
      BY <3>2, <3>3
  <2>2. CASE x.build # NULL
    <3>1. a = ApplyWrites(x)
      BY <2>2
    <3> HIDE DEF a
    <3>2. Lacks(x, a) /\ Typed(a)
      BY <1>2, <2>2, <3>1, ApplyLacks, ApplyTyped
    <3>3. a.build = x.build
      BY <1>2, <3>1, ApplyIs
    <3> QED
      BY <3>2, <3>3 DEF Lacks
  <2> QED
    BY <2>1, <2>2
<1> HIDE DEF a
<1>4. HasFields(a)
  BY <1>2, <1>3, StillFields
<1>5. b = a \/ b = AddPage(a)
  OBVIOUS
<1> HIDE DEF b
<1>6. Lacks(a, b) /\ b.build = a.build /\ HasFields(b)
  <2>1. Lacks(a, b) /\ Silent(a, b)
    BY <1>4, <1>5, AddPageLacks, AddPageSilent, LacksSelf, SilentSelf DEF IsWriter, HasFields
  <2> QED
    BY <1>4, <2>1, StillFields DEF Silent
<1>7. a.error = "ok" => b.builds \in Seq(BuildRecords)
  <2>1. ASSUME Typed(a) PROVE b.builds = a.builds
    BY <1>5, <2>1, AddPageTyped
  <2> QED
    BY <1>3, <2>1 DEF Typed, BuilderTyped
<1>8. Short(b, z) /\ (b.builds \in Seq(BuildRecords) => z.build # NULL /\ Within(z, z.build, b.build) /\ SameParents(b, z))
  BY <1>6, BuildInShort
<1> HIDE DEF z
<1>9. Short(x, z)
  BY <1>3, <1>6, <1>8, ShortThen DEF Lacks
<1>10. ASSUME a.error = "ok" PROVE NestedIn(x, z)
  <2>1. z.build # NULL /\ Within(z, z.build, x.build)
    BY <1>3, <1>6, <1>7, <1>8, <1>10
  <2>2. x.build # NULL => SameParents(x, z)
    BY <1>3, <1>6, <1>7, <1>8, <1>10, SameParentsThen DEF Lacks
  <2> QED
    BY <2>1, <2>2 DEF NestedIn
<1>11. Short(x, y) /\ (y.error = "ok" => NestedIn(x, y))
  BY <1>1, <1>3, <1>9, <1>10
<1> QED
  BY <1>11 DEF y

-----------------------------------------------------------------------------
(* Builds are open as the tracking has it                                    *)

\* c[i] is the build that was current when the i-th container on the stack t was
\* the innermost; b is the current one
Nest(x, t, b, c) ==
    /\ c[0] = NULL /\ c[Len(t)] = b
    /\ \A i \in 1..Len(t) :
           IF t[i].builder THEN c[i] # NULL /\ Within(x, c[i], c[i - 1]) ELSE c[i] = c[i - 1]
    /\ \A i, j \in 0..Len(t) : i <= j /\ c[j] = NULL => c[i] = NULL
Linked(x) == \E c : Nest(x, x.track, x.build, c)

\* Elements of the stack, whatever they still wait for
Marks == [type : Compound, left : Int, builder : BOOLEAN, odd : BOOLEAN]

LEMMA NestLater ==
    ASSUME NEW x, NEW y, NEW t, NEW b, NEW c, Nest(x, t, b, c), SameParents(x, y)
    PROVE  Nest(y, t, b, c)
BY DEF Nest, SameParents

LEMMA NestNothing ==
    ASSUME NEW x, NEW y, NEW t \in Seq(Marks), NEW c, Nest(x, t, NULL, c)
    PROVE  Nest(y, t, NULL, c)
<1>1. \A i \in 0..Len(t) : c[i] = NULL
  BY DEF Nest
<1>2. \A i \in 1..Len(t) : i \in 0..Len(t)
  OBVIOUS
<1> QED
  BY <1>1, <1>2 DEF Nest

LEMMA NestAdded ==
    ASSUME NEW x, NEW t \in Seq(Marks), NEW b, NEW c, Nest(x, t, b, c)
    PROVE  AddElement(t) \in Seq(Marks) /\ Nest(x, AddElement(t), b, c)
<1> DEFINE n == Len(t)
           e == t[n]
           left == IF e.builder THEN e.left ELSE e.left - 1
           u == AddElement(t)
<1>1. CASE t = << >>
  BY <1>1 DEF AddElement
<1>2. CASE t # << >>
  <2>1. n \in 1..n /\ e \in Marks /\ e.left \in Int
    <3>1. n \in Nat /\ n # 0
      BY <1>2
    <3>2. e \in Marks
      BY <3>1
    <3> QED
      BY <3>1, <3>2 DEF Marks
  <2>2. left \in Int
    BY <2>1
  <2>3. \/ u = [t EXCEPT ![n] = [e EXCEPT !.odd = TRUE]]
        \/ u = [t EXCEPT ![n] = [e EXCEPT !.odd = FALSE, !.left = left]]
    BY <1>2 DEF AddElement, WithTop, Top
  <2> HIDE DEF u, left
  <2>4. [e EXCEPT !.odd = TRUE] \in Marks /\ [e EXCEPT !.odd = TRUE].builder = e.builder
    BY <2>1 DEF Marks
  <2>5. [e EXCEPT !.odd = FALSE, !.left = left] \in Marks /\ [e EXCEPT !.odd = FALSE, !.left = left].builder = e.builder
    BY <2>1, <2>2 DEF Marks
  <2>6. \E f \in Marks : f.builder = e.builder /\ u = [t EXCEPT ![n] = f]
    BY <2>3, <2>4, <2>5
  <2>7. PICK f \in Marks : f.builder = e.builder /\ u = [t EXCEPT ![n] = f]
    BY <2>6
  <2>8. u \in Seq(Marks) /\ Len(u) = n /\ \A i \in 1..n : u[i].builder = t[i].builder
    BY <2>1, <2>7
  <2>9. Nest(x, u, b, c)
    BY <2>8 DEF Nest
  <2> QED
    BY <2>8, <2>9 DEF u
<1> QED
  BY <1>1, <1>2

LEMMA NestOpened ==
    ASSUME NEW x, NEW t \in Seq(Marks), NEW b, NEW c, Nest(x, t, b, c), NEW e \in Marks,
           NEW p, IF e.builder THEN p # NULL /\ Within(x, p, b) ELSE p = b
    PROVE  \E d : Nest(x, Append(t, e), p, d)
<1> DEFINE n == Len(t)
           u == Append(t, e)
           d == [i \in 0..(n + 1) |-> IF i <= n THEN c[i] ELSE p]
<1>1. n \in Nat /\ Len(u) = n + 1 /\ u[n + 1] = e /\ \A i \in 1..n : u[i] = t[i]
  OBVIOUS
<1> HIDE DEF u
<1>2. d[n + 1] = p /\ \A i \in 0..n : d[i] = c[i]
  BY <1>1
<1> HIDE DEF d
<1>3. c[0] = NULL /\ c[n] = b
  BY DEF Nest
<1>4. \A i \in 1..n : IF t[i].builder THEN c[i] # NULL /\ Within(x, c[i], c[i - 1]) ELSE c[i] = c[i - 1]
  BY DEF Nest
<1>5. \A i, j \in 0..n : i <= j /\ c[j] = NULL => c[i] = NULL
  BY DEF Nest
<1>6. d[0] = NULL
  BY <1>1, <1>2, <1>3
<1>7. ASSUME NEW i \in 1..(n + 1)
      PROVE  IF u[i].builder THEN d[i] # NULL /\ Within(x, d[i], d[i - 1]) ELSE d[i] = d[i - 1]
  <2>1. CASE i = n + 1
    <3>1. d[i] = p /\ u[i] = e
      BY <1>1, <1>2, <2>1
    <3>2. i - 1 = n /\ n \in 0..n
      BY <1>1, <2>1
    <3>3. d[i - 1] = b
      BY <1>2, <1>3, <3>2
    <3> QED
      BY <3>1, <3>3
  <2>2. CASE i # n + 1
    <3>1. i \in 1..n /\ i \in 0..n /\ i - 1 \in 0..n
      BY <1>1, <2>2
    <3>2. d[i] = c[i] /\ d[i - 1] = c[i - 1] /\ u[i] = t[i]
      BY <1>1, <1>2, <3>1
    <3> QED
      BY <1>4, <3>1, <3>2
  <2> QED
    BY <2>1, <2>2
<1>8. ASSUME NEW i \in 0..(n + 1), NEW j \in 0..(n + 1), i <= j, d[j] = NULL PROVE d[i] = NULL
  <2>1. p = NULL => b = NULL
    BY DEF NULL
  <2>2. CASE j <= n
    <3>1. i \in 0..n /\ j \in 0..n
      BY <1>1, <1>8, <2>2
    <3> QED
      BY <1>2, <1>5, <1>8, <3>1
  <2>3. CASE ~(j <= n)
    <3>1. j = n + 1
      BY <1>1, <2>3
    <3>2. p = NULL /\ b = NULL
      BY <1>2, <1>8, <2>1, <3>1
    <3>3. CASE i = n + 1
      BY <1>2, <3>2, <3>3
    <3>4. CASE i # n + 1
      <4>1. i \in 0..n /\ n \in 0..n /\ i <= n
        BY <1>1, <3>4
      <4> QED
        BY <1>2, <1>3, <1>5, <3>2, <4>1
    <3> QED
      BY <3>3, <3>4
  <2> QED
    BY <2>2, <2>3
<1>9. Nest(x, u, p, d)
  BY <1>1, <1>2, <1>6, <1>7, <1>8 DEF Nest
<1> QED
  BY <1>9 DEF u

LEMMA NestClosed ==
    ASSUME NEW x, NEW t \in Seq(Marks), t # << >>, NEW b, NEW c, Nest(x, t, b, c),
           NEW p, IF Top(t).builder THEN Within(x, b, p) ELSE p = b
    PROVE  Nest(x, Pop(t), p, c)
<1> DEFINE n == Len(t) - 1
           u == Pop(t)
<1>1. n \in Nat /\ Len(t) = n + 1 /\ Len(u) = n /\ \A i \in 1..n : u[i] = t[i]
  <2>1. Len(t) \in Nat /\ Len(t) # 0
    OBVIOUS
  <2>2. n \in Nat /\ Len(t) = n + 1 /\ u = SubSeq(t, 1, n)
    BY <2>1 DEF Pop
  <2> HIDE DEF n, u
  <2>3. SubSeq(t, 1, n) \in Seq(Marks) /\ Len(SubSeq(t, 1, n)) = n /\ \A i \in 1..n : SubSeq(t, 1, n)[i] = t[i]
    BY <2>2
  <2> QED
    BY <2>2, <2>3
<1> HIDE DEF u
<1>2. Top(t) = t[n + 1]
  BY DEF Top
<1> HIDE DEF n
<1>3. c[n] = p
  <2>1. n + 1 \in 1..Len(t) /\ (n + 1) - 1 = n
    BY <1>1
  <2>2. IF t[n + 1].builder THEN Within(x, c[n + 1], c[n]) ELSE c[n + 1] = c[n]
    BY <2>1 DEF Nest
  <2>3. c[n + 1] = b
    BY <1>1 DEF Nest
  <2> QED
    BY <1>2, <2>2, <2>3 DEF Within
<1>4. \A i \in 1..n : i \in 1..Len(t)
  BY <1>1
<1>5. \A i \in 0..n : i \in 0..Len(t)
  BY <1>1
<1>6. c[0] = NULL /\ c[Len(u)] = p
  BY <1>1, <1>3 DEF Nest
<1>7. ASSUME NEW i \in 1..Len(u)
      PROVE  IF u[i].builder THEN c[i] # NULL /\ Within(x, c[i], c[i - 1]) ELSE c[i] = c[i - 1]
  <2>1. i \in 1..Len(t) /\ u[i] = t[i]
    BY <1>1, <1>4
  <2> QED
    BY <2>1 DEF Nest
<1>8. \A i, j \in 0..Len(u) : i <= j /\ c[j] = NULL => c[i] = NULL
  BY <1>1, <1>5 DEF Nest
<1>9. Nest(x, u, p, c)
  BY <1>6, <1>7, <1>8 DEF Nest
<1> QED
  BY <1>9 DEF u

-----------------------------------------------------------------------------
(* What a call that the tracking lets pass leaves                            *)

Leaves(track) ==
    Lacks(w, w') /\ (w'.error = "ok" => w'.track = track /\ w'.build = w.build)
LeavesBuild(track) ==
    Short(w, w') /\ (w'.error = "ok" => w'.track = track /\ NestedIn(w, w'))
LeavesParent(track) ==
    /\ Lacks(w, w')
    /\ w'.error = "ok" => w'.track = track /\ w.build # NULL /\ w'.build = w.builds[w.build].parent

LEMMA ScalarLeaves ==
    ASSUME TrackInv, MemInv, Growing(w), NEW tag \in 1..MinBuffer, NEW data \in Nat, WriteScalar(tag, data),
           MayAddElement(w.track)
    PROVE  Leaves(AddElement(w.track))
<1> DEFINE e == Element(w)
           head == DataBytes(Item, 0, tag)
           rest == DataBytes(Item, tag, data)
           t == WriteTag(e, head)
           y == WriteNative(t, rest)
<1>1. Callable /\ w' = y
  BY DEF WriteScalar
<1>2. Sound(w) /\ IsWriter(w) /\ HasFields(w)
  BY <1>1 DEF MemInv, TrackInv, Callable, Growing
<1>3. tag \in Nat /\ tag <= MinBuffer /\ 0 \in Nat
  BY Sizes
<1>4. head \in Seq(Contents) /\ Len(head) <= MinBuffer /\ rest \in Seq(Contents)
  BY <1>1, <1>3, ItemIs, Bytes
<1>5. Lacks(w, e) /\ e.track = AddElement(w.track) /\ e.build = w.build
  BY <1>2, ElementLacks, ElementIs
<1>6. Sound(e) /\ IsWriter(e) /\ Growing(e)
  BY <1>2, <1>5, ElementSound, ElementIs, StillGrowing
<1>7. Len(rest) \in Nat
  BY <1>4
<1> HIDE DEF e, head, rest
<1>8. Lacks(e, t) /\ Silent(e, t) /\ Sound(t)
  BY <1>4, <1>6, TagLacks, TagSilent, TagSound
<1>9. IsWriter(t) /\ Growing(t)
  BY <1>6, <1>8, StaysWriter, StillGrowing DEF Silent
<1> HIDE DEF t
<1>10. Lacks(t, y) /\ Silent(t, y)
  BY <1>4, <1>7, <1>8, <1>9, NativeLacks, NativeSilent
<1> HIDE DEF y
<1>11. Lacks(w, y)
  BY <1>5, <1>8, <1>10, LacksThen
<1>12. y.track = AddElement(w.track) /\ y.build = w.build
  BY <1>5, <1>8, <1>10 DEF Silent, Quiet
<1> QED
  BY <1>1, <1>11, <1>12 DEF Leaves

LEMMA StartLeaves ==
    ASSUME TrackInv, MemInv, Growing(w), NEW type \in Compound, NEW n \in Nat, StartContainer(type, n),
           MayAddElement(w.track)
    PROVE  Leaves(Push(AddElement(w.track), type, n))
<1> DEFINE e == Element(w)
           head == TagBytes(Item, n)
           t == WriteTag(e, head)
           track == Push(t.track, type, n)
           p == IF t.error = "ok" THEN TrackPush(t, track) ELSE t
           y == Compounds(p, 1)
<1>1. Callable /\ w' = y
  BY DEF StartContainer
<1>2. Sound(w) /\ IsWriter(w) /\ HasFields(w)
  BY <1>1 DEF MemInv, TrackInv, Callable, Growing
<1>3. head \in Seq(Contents) /\ Len(head) <= MinBuffer
  BY <1>1, ItemIs, TagIsShort
<1>4. Lacks(w, e) /\ e.track = AddElement(w.track) /\ e.build = w.build
  BY <1>2, ElementLacks, ElementIs
<1>5. Sound(e) /\ IsWriter(e) /\ Growing(e)
  BY <1>2, <1>4, ElementSound, ElementIs, StillGrowing
<1> HIDE DEF e, head
<1>6. Lacks(e, t) /\ Silent(e, t) /\ HasFields(t)
  BY <1>3, <1>5, TagLacks, TagSilent, StillFields DEF Growing
<1>7. t.track = AddElement(w.track) /\ t.build = w.build /\ IsWriter(t)
  BY <1>4, <1>5, <1>6, StaysWriter DEF Silent, Quiet
<1> HIDE DEF t
<1>8. Lacks(t, p) /\ HasFields(p) /\ (p.error = "ok" => p.track = track) /\ p.build = t.build
  <2> HIDE DEF track
  <2>1. CASE t.error = "ok"
    BY <1>6, <2>1, TrackPushLacks
  <2>2. CASE t.error # "ok"
    BY <1>6, <2>2, LacksSelf
  <2> QED
    BY <2>1, <2>2
<1> HIDE DEF p, track
<1>9. Lacks(p, y) /\ y.track = p.track /\ y.build = p.build
  <2>1. IsWriter(p)
    BY <1>8 DEF IsWriter, HasFields
  <2> QED
    BY <1>8, <2>1, CompoundsLacks, CompoundsSilent DEF Silent
<1> HIDE DEF y
<1>10. Lacks(w, y)
  BY <1>4, <1>6, <1>8, <1>9, LacksThen
<1>11. y.error = "ok" => y.track = track /\ y.build = w.build
  BY <1>7, <1>8, <1>9 DEF Lacks, Short
<1> QED
  BY <1>1, <1>7, <1>10, <1>11 DEF Leaves, track

LEMMA BuildLeaves ==
    ASSUME TrackInv, MemInv, Growing(w), NEW type \in Compound, BuildContainer(type), MayAddElement(w.track)
    PROVE  LeavesBuild(PushBuilder(AddElement(w.track), type))
<1> DEFINE e == Element(w)
           track == PushBuilder(e.track, type)
           t == IF e.error = "ok" THEN TrackPush(e, track) ELSE e
           y == StartBuild(t, Item, type)
<1>1. Callable /\ w' = y
  BY Zenon DEF BuildContainer
<1>2. IsWriter(w) /\ HasFields(w) /\ Sound(w)
  BY <1>1 DEF MemInv, TrackInv, Callable, Growing
<1>3. Lacks(w, e) /\ e.track = AddElement(w.track) /\ IsWriter(e) /\ HasFields(e)
      /\ e.build = w.build /\ Sound(e)
  BY <1>2, ElementLacks, ElementIs, ElementSound, StillFields
<1> HIDE DEF e
<1>4. /\ Lacks(e, t) /\ HasFields(t) /\ (t.error = "ok" => t.track = track)
      /\ t.build = e.build /\ Sound(t)
  <2> HIDE DEF track
  <2>1. CASE e.error = "ok"
    BY <1>3, <2>1, TrackPushLacks, TrackPushSound
  <2>2. CASE e.error # "ok"
    BY <1>3, <2>2, LacksSelf
  <2> QED
    BY <2>1, <2>2
<1>5. IsWriter(t) /\ t.build = e.build /\ Sound(t)
  BY <1>4 DEF IsWriter, HasFields
<1> HIDE DEF t
<1>6. Short(t, y) /\ Quiet(t, y) /\ (y.error = "ok" => NestedIn(t, y))
  BY <1>4, <1>5, StartBuildShort, StartBuildQuiet
<1> HIDE DEF y
<1>7. Short(w, y)
  BY <1>3, <1>4, <1>6, ShortThen DEF Lacks
<1>8. y.error = "ok" => y.track = track
  BY <1>4, <1>6 DEF Quiet, Short, Lacks
<1>9. y.error = "ok" => NestedIn(w, y)
  BY <1>3, <1>4, <1>5, <1>6, SameParentsThen DEF NestedIn, Lacks
<1> QED
  BY <1>1, <1>3, <1>7, <1>8, <1>9 DEF LeavesBuild

LEMMA FinishLeaves ==
    ASSUME Growing(w), NEW type, FinishContainer(type), MayPop(w.track, type, FALSE)
    PROVE  Leaves(Pop(w.track))
<1> DEFINE track == Pop(w.track)
           q == [w EXCEPT !.track = track]
           y == Compounds(q, -1)
<1>1. w' = y
  BY DEF FinishContainer
<1>2. Lacks(w, q) /\ q.track = track /\ HasFields(q) /\ q.build = w.build
  <2>1. q.build = w.build
    BY DEF Growing, HasFields
  <2> QED
    BY <2>1, TrackedLacks, StillFields DEF Growing
<1> HIDE DEF q
<1>3. Lacks(q, y) /\ y.track = track /\ y.build = q.build
  <2>1. IsWriter(q)
    BY <1>2 DEF IsWriter, HasFields
  <2> QED
    BY <1>2, <2>1, CompoundsLacks, CompoundsSilent DEF Silent
<1> QED
  BY <1>1, <1>2, <1>3, LacksThen DEF Leaves

LEMMA CompleteLeaves ==
    ASSUME Growing(w), NEW type, MayPop(w.track, type, TRUE),
           CompleteNested(type) \/ CompleteOutermost(type) \/ CompleteMisused(type)
    PROVE  LeavesParent(Pop(w.track))
<1> DEFINE track == Pop(w.track)
           q == [w EXCEPT !.track = track]
           a == ApplyWrites(q)
           parent == w.builds[w.build].parent
           b == [a EXCEPT !.build = parent]
           c == [a EXCEPT !.build = NULL, !.latest = NULL, !.pending = << >>]
<1>1. w.build # NULL /\ (w' = ConfigureBuffer(b) \/ (w' = c /\ parent = NULL))
  BY DEF CompleteNested, CompleteOutermost, CompleteMisused, Building
<1>2. Lacks(w, q) /\ q.track = track /\ HasFields(q)
  BY TrackedLacks, StillFields DEF Growing
<1> HIDE DEF q, track
<1>3. Lacks(q, a) /\ a.track = q.track /\ HasFields(a)
  <2>1. Silent(q, a)
    BY <1>2, ApplySilent DEF IsWriter, HasFields
  <2> QED
    BY <1>2, <2>1, ApplyLacks, StillFields DEF Silent, Quiet
<1> HIDE DEF a, parent
<1>4. /\ Lacks(a, b) /\ b.track = a.track /\ b.build = parent
      /\ Lacks(a, c) /\ c.track = a.track /\ c.build = NULL
  <2>1. DOMAIN b = DOMAIN a /\ SameBuffer(a, b) /\ b.error = a.error /\ b.builds = a.builds
        /\ b.track = a.track /\ b.build = parent
    BY <1>3 DEF HasFields, SameBuffer
  <2>2. DOMAIN c = DOMAIN a /\ SameBuffer(a, c) /\ c.error = a.error /\ c.builds = a.builds
        /\ c.track = a.track /\ c.build = NULL
    BY <1>3 DEF HasFields, SameBuffer
  <2> HIDE DEF b, c
  <2> QED
    BY <2>1, <2>2, KeptLacks
<1> HIDE DEF b, c
<1>5. HasFields(b)
  BY <1>3, <1>4, StillFields
<1>6. Lacks(b, ConfigureBuffer(b)) /\ ConfigureBuffer(b).track = b.track
      /\ ConfigureBuffer(b).build = b.build
  <2>1. Silent(b, ConfigureBuffer(b))
    BY <1>5, ConfigureSilent DEF IsWriter, HasFields
  <2> QED
    BY <1>5, <2>1, ConfigureLacks DEF Silent, Quiet
<1>7. Lacks(w, ConfigureBuffer(b)) /\ Lacks(w, c)
  BY <1>2, <1>3, <1>4, <1>6, LacksThen
<1>8. Lacks(w, w') /\ w'.track = track /\ w'.build = parent
  BY <1>1, <1>2, <1>3, <1>4, <1>6, <1>7
<1> QED
  BY <1>1, <1>8 DEF LeavesParent, track, parent


LEMMA FreeLacks ==
    ASSUME NEW x, HasFields(x), NEW page
    PROVE  Lacks(x, Free(x, page)) /\ HasFields(Free(x, page))
<1> DEFINE y == Free(x, page)
<1>1. DOMAIN y = DOMAIN x /\ SameBuffer(x, y) /\ y.error = x.error /\ y.builds = x.builds
  BY DEF HasFields, Free, SameBuffer
<1> HIDE DEF y
<1>2. Lacks(x, y) /\ HasFields(y)
  BY <1>1, KeptLacks, StillFields
<1> QED
  BY <1>2 DEF y

\* A turn of mpack_builder_resolve
LEMMA ResolveLeaves ==
    ASSUME TrackInv, MemInv, Growing(w), Resolve
    PROVE  Leaves(w.track)
<1>1. pc = "resolve"
  BY DEF Resolve, ResolveTag, ResolveCopy, ResolveNext
<1>2. Sound(w) /\ w.build = NULL /\ at \in Places /\ HasFields(w) /\ IsWriter(w)
  BY <1>1 DEF MemInv, Growing, TrackInv
<1>3. CASE ResolveTag
  <2>1. PICK b \in DOMAIN w.builds : w' = WriteTag(w, TagBytes(w.builds[b].item, w.builds[b].count))
    BY <1>3 DEF ResolveTag
  <2> DEFINE bytes == TagBytes(w.builds[b].item, w.builds[b].count)
             y == WriteTag(w, bytes)
  <2>2. w.builds[b] \in BuildRecords
    BY <1>2 DEF Sound, Typed, BuilderTyped
  <2>3. bytes \in Seq(Contents) /\ Len(bytes) <= MinBuffer
    BY <2>2, BuildIs, TagIsShort
  <2> HIDE DEF bytes
  <2>4. Lacks(w, y) /\ Silent(w, y)
    BY <1>2, <2>3, TagLacks, TagSilent
  <2> HIDE DEF y
  <2>5. w' = y
    BY <2>1 DEF y, bytes
  <2> QED
    BY <2>4, <2>5 DEF Leaves, Silent, Quiet
<1>4. CASE ResolveCopy
  <2> DEFINE p == w.pages[at.page]
             room == p.used - at.offset
             n == IF room < 0 THEN 0 ELSE IF room < at.left THEN room ELSE at.left
             bytes == SubSeq(p.memory, at.offset + 1, at.offset + n)
             y == WriteNative(w, bytes)
             z == Free(y, at.page)
  <2>1. w' = w \/ w' = y \/ w' = z
    BY <1>4 DEF ResolveCopy
  <2>2. PICK start : Walk(w, at, start)
    BY <1>1 DEF MemInv
  <2>3. at.step = "copy"
    BY <1>4 DEF ResolveCopy
  <2>4. w.pages \in Seq(PageRecords) /\ at.page \in 1..Len(w.pages) /\ at.offset <= p.used
    BY <1>2, <2>2, <2>3 DEF Walk, Sound, Typed, BuilderTyped
  <2>5. p \in PageRecords /\ p.used \in Nat /\ at.offset \in Nat /\ at.left \in Nat
    BY <1>2, <2>4 DEF PageRecords, Places
  <2>6. n \in Nat /\ at.offset + n <= p.used
    BY <2>4, <2>5
  <2>7. bytes \in Seq(Contents)
    BY <2>5, <2>6, PageBytes
  <2> HIDE DEF bytes, n
  <2>8. Len(bytes) \in Nat
    BY <2>7
  <2>9. Lacks(w, y) /\ Silent(w, y) /\ HasFields(y) /\ IsWriter(y)
    BY <1>2, <2>7, <2>8, NativeLacks, NativeSilent, StillFields, StaysWriter DEF Silent
  <2> HIDE DEF y
  <2>10. Lacks(w, z) /\ Silent(w, z)
    BY <2>9, FreeLacks, FreeSilent, LacksThen, SilentThen
  <2> HIDE DEF z
  <2>11. Lacks(w, w') /\ Silent(w, w')
    BY <2>1, <2>9, <2>10, LacksSelf, SilentSelf
  <2> QED
    BY <2>11 DEF Leaves, Silent, Quiet
<1>5. CASE ResolveNext
  <2>1. \E y, page : y \in {w, Free(w, at.page)} /\ w' \in {y, Free(y, page)}
    BY <1>5 DEF ResolveNext
  <2>2. PICK y, page : y \in {w, Free(w, at.page)} /\ w' \in {y, Free(y, page)}
    BY <2>1
  <2>3. Lacks(w, y) /\ Silent(w, y) /\ HasFields(y) /\ IsWriter(y)
    BY <1>2, <2>2, FreeLacks, FreeSilent, LacksSelf, SilentSelf
  <2>4. Lacks(w, Free(y, page)) /\ Silent(w, Free(y, page))
    BY <2>3, FreeLacks, FreeSilent, LacksThen, SilentThen
  <2>5. Lacks(w, w') /\ Silent(w, w')
    BY <2>2, <2>3, <2>4
  <2> QED
    BY <2>5 DEF Leaves, Silent, Quiet
<1> QED
  BY <1>3, <1>4, <1>5 DEF Resolve

\* mpack_writer_destroy of a writer without open builds, unless an error was flagged
LEMMA DestroyLeaves ==
    ASSUME Growing(w), w.error = "ok" => w.build = NULL, Destroy
    PROVE  /\ HasFields(w') /\ w'.sink = w.sink
           /\ w'.error = w.error \/ (w.error = "ok" /\ w'.error = "memory" /\ failing # {})
<1>1. HasFields(w) /\ w.sink[1] = "growable" /\ w' \in Destroyed(Undiverted(w))
  BY DEF Growing, Destroy
<1>2. CASE w.build = NULL
  <2> DEFINE a == Allocation(w)
             size == IF w.buffer = << >> THEN 1 ELSE Len(w.buffer)
             y == [a EXCEPT !.size = size]
  <2>1. Undiverted(w) = w
    BY <1>2 DEF Undiverted
  <2>2. ~ToFile(w) /\ ~Fixed(w)
    BY <1>1 DEF ToFile, Fixed
  <2>3. w' = Shrunk(w)
    BY <1>1, <2>1, <2>2 DEF Destroyed
  <2>4. w' = w \/ (Fails(w) /\ w' = FlagError(Allocation(w), "memory")) \/ (w.error = "ok" /\ w' = y)
    BY <2>3 DEF Shrunk
  <2>5. DOMAIN a = DOMAIN w /\ SameBuffer(w, a) /\ a.error = w.error
    BY <1>1, AllocationIs
  <2> HIDE DEF a, size
  <2>6. DOMAIN y = DOMAIN w /\ y.sink = w.sink /\ y.error = w.error
    BY <1>1, <2>5 DEF HasFields, SameBuffer
  <2> HIDE DEF y
  <2>7. Fails(w) => Short(w, FlagError(Allocation(w), "memory"))
    BY <1>1, FailedLacks DEF Lacks
  <2> QED
    BY <1>1, <2>4, <2>6, <2>7 DEF Short, HasFields
<1>3. CASE w.build # NULL
  <2> DEFINE f == FlagError(w, "bug")
             y == [f EXCEPT !.build = NULL, !.live = {}]
  <2>1. Undiverted(w) = y
    BY <1>3 DEF Undiverted
  <2>2. w.error # "ok" /\ f = w
    BY <1>3 DEF FlagError
  <2> HIDE DEF f
  <2>3. DOMAIN y = DOMAIN w /\ y.sink = w.sink /\ y.error = w.error
    BY <1>1, <2>2 DEF HasFields
  <2> HIDE DEF y
  <2>4. w' = y
    BY <1>1, <2>1, <2>2, <2>3, DestroyedFailed
  <2> QED
    BY <1>1, <2>3, <2>4 DEF HasFields
<1> QED
  BY <1>2, <1>3

-----------------------------------------------------------------------------
(* A step of a program                                                       *)

\* The program goes on with this stack, unless it ran out of memory
GoesOn(track) ==
    Short(w, w') /\ (w'.error = "ok" => w'.track = track /\ Linked(w'))

LEMMA StackMarks ==
    ASSUME TrackInv, Callable
    PROVE  w.track \in Seq(Marks)
<1>1. w.track \in Seq(Elements)
  BY DEF TrackInv, Callable, Told, Stack
<1>2. \A e \in Elements : e \in Marks
  BY DEF Elements, Marks
<1> QED
  BY <1>1, <1>2

LEMMA ScalarGoes ==
    ASSUME TrackInv, MemInv, Growing(w), Linked(w), NEW tag \in 1..MinBuffer, NEW data \in Nat,
           WriteScalar(tag, data), MayAddElement(w.track)
    PROVE  GoesOn(AddElement(w.track))
<1>1. Leaves(AddElement(w.track))
  BY ScalarLeaves
<1>2. w.track \in Seq(Marks)
  BY StackMarks DEF WriteScalar
<1>3. PICK c : Nest(w, w.track, w.build, c)
  BY DEF Linked
<1>4. Nest(w', AddElement(w.track), w.build, c)
  BY <1>1, <1>2, <1>3, NestAdded, NestLater DEF Leaves, Lacks
<1> QED
  BY <1>1, <1>4 DEF Leaves, Lacks, GoesOn, Linked

LEMMA StartGoes ==
    ASSUME TrackInv, MemInv, Growing(w), Linked(w), NEW type \in Compound, NEW n \in Nat,
           StartContainer(type, n), MayAddElement(w.track)
    PROVE  GoesOn(Push(AddElement(w.track), type, n))
<1> DEFINE t == AddElement(w.track)
           e == Opened(type, n, FALSE)
<1>1. Leaves(Push(t, type, n))
  BY StartLeaves
<1>2. w.track \in Seq(Marks)
  BY StackMarks DEF StartContainer
<1>3. PICK c : Nest(w, w.track, w.build, c)
  BY DEF Linked
<1>4. t \in Seq(Marks) /\ Nest(w, t, w.build, c)
  BY <1>2, <1>3, NestAdded
<1>5. Nest(w', t, w.build, c)
  BY <1>1, <1>4, NestLater DEF Leaves, Lacks
<1>6. e \in Marks /\ ~e.builder /\ Push(t, type, n) = Append(t, e)
  BY DEF Marks, Opened, Push
<1> HIDE DEF t, e
<1>7. \E d : Nest(w', Append(t, e), w.build, d)
  BY <1>4, <1>5, <1>6, NestOpened
<1> QED
  BY <1>1, <1>6, <1>7 DEF Leaves, Lacks, GoesOn, Linked, t

LEMMA BuildGoes ==
    ASSUME TrackInv, MemInv, Growing(w), Linked(w), NEW type \in Compound, BuildContainer(type),
           MayAddElement(w.track)
    PROVE  GoesOn(PushBuilder(AddElement(w.track), type))
<1> DEFINE t == AddElement(w.track)
           e == Opened(type, 0, TRUE)
<1>1. LeavesBuild(PushBuilder(t, type))
  BY BuildLeaves
<1>2. w.track \in Seq(Marks)
  BY StackMarks DEF BuildContainer
<1>3. PICK c : Nest(w, w.track, w.build, c)
  BY DEF Linked
<1>4. t \in Seq(Marks) /\ Nest(w, t, w.build, c)
  BY <1>2, <1>3, NestAdded
<1>5. e \in Marks /\ e.builder /\ PushBuilder(t, type) = Append(t, e)
  BY DEF Marks, Opened, PushBuilder
<1> HIDE DEF t, e
<1>6. ASSUME w'.error = "ok" PROVE Linked(w')
  <2>1. NestedIn(w, w') /\ w'.track = Append(t, e)
    BY <1>1, <1>5, <1>6 DEF LeavesBuild
  <2>2. Nest(w', t, w.build, c)
    BY <1>4, <2>1, NestNothing, NestLater DEF NestedIn
  <2>3. w'.build # NULL /\ Within(w', w'.build, w.build)
    BY <2>1 DEF NestedIn
  <2>4. \E d : Nest(w', Append(t, e), w'.build, d)
    BY <1>4, <1>5, <2>2, <2>3, NestOpened
  <2> QED
    BY <2>1, <2>4 DEF Linked
<1> QED
  BY <1>1, <1>6 DEF LeavesBuild, GoesOn, t

LEMMA FinishGoes ==
    ASSUME TrackInv, MemInv, Growing(w), Linked(w), NEW type, FinishContainer(type),
           MayPop(w.track, type, FALSE)
    PROVE  GoesOn(Pop(w.track))
<1>1. Leaves(Pop(w.track))
  BY FinishLeaves
<1>2. w.track \in Seq(Marks) /\ w.track # << >> /\ ~Top(w.track).builder
  BY StackMarks DEF FinishContainer, MayPop
<1>3. PICK c : Nest(w, w.track, w.build, c)
  BY DEF Linked
<1>4. Nest(w, Pop(w.track), w.build, c)
  BY <1>2, <1>3, NestClosed
<1>5. Nest(w', Pop(w.track), w.build, c)
  BY <1>1, <1>4, NestLater DEF Leaves, Lacks
<1> QED
  BY <1>1, <1>5 DEF Leaves, Lacks, GoesOn, Linked

LEMMA CompleteGoes ==
    ASSUME TrackInv, MemInv, Growing(w), Linked(w), NEW type, MayPop(w.track, type, TRUE), Callable,
           CompleteNested(type) \/ CompleteOutermost(type) \/ CompleteMisused(type)
    PROVE  GoesOn(Pop(w.track))
<1>1. LeavesParent(Pop(w.track))
  BY CompleteLeaves
<1>2. w.track \in Seq(Marks) /\ w.track # << >> /\ Top(w.track).builder
  BY StackMarks DEF MayPop
<1>3. PICK c : Nest(w, w.track, w.build, c)
  BY DEF Linked
<1> DEFINE parent == w.builds[w.build].parent
<1>4. ASSUME w.build # NULL PROVE Within(w, w.build, parent)
  <2>1. w.builds \in Seq(BuildRecords) /\ w.build \in 1..Len(w.builds)
    BY <1>4 DEF MemInv, Typed, BuilderTyped, NULL
  <2>2. w.build \in DOMAIN w.builds /\ w.builds[w.build] \in BuildRecords
    BY <2>1
  <2> QED
    BY <2>2 DEF Within, BuildRecords
<1> HIDE DEF parent
<1>5. ASSUME w'.error = "ok" PROVE Linked(w')
  <2>1. w.build # NULL /\ w'.build = parent /\ w'.track = Pop(w.track) /\ SameParents(w, w')
    BY <1>1, <1>5 DEF LeavesParent, Lacks, parent
  <2>2. Nest(w, Pop(w.track), parent, c)
    BY <1>2, <1>3, <1>4, <2>1, NestClosed
  <2>3. Nest(w', Pop(w.track), parent, c)
    BY <2>1, <2>2, NestLater
  <2> QED
    BY <2>1, <2>3 DEF Linked
<1> QED
  BY <1>1, <1>5 DEF LeavesParent, Lacks, GoesOn

LEMMA ResolveGoes ==
    ASSUME TrackInv, MemInv, Growing(w), w.error = "ok" => Linked(w), Resolve
    PROVE  GoesOn(w.track)
<1>1. Leaves(w.track)
  BY ResolveLeaves
<1>2. ASSUME w'.error = "ok" PROVE Linked(w')
  <2>1. w.error = "ok" /\ SameParents(w, w') /\ w'.track = w.track /\ w'.build = w.build
    BY <1>1, <1>2 DEF Leaves, Lacks, Short
  <2>2. PICK c : Nest(w, w.track, w.build, c)
    BY <2>1 DEF Linked
  <2>3. Nest(w', w.track, w.build, c)
    BY <2>1, <2>2, NestLater
  <2> QED
    BY <2>1, <2>3 DEF Linked
<1> QED
  BY <1>1, <1>2 DEF Leaves, Lacks, GoesOn

-----------------------------------------------------------------------------
(* The invariant of a program                                                *)

\* Where a program is: the stack is the one its steps so far leave, and the last
\* leaves none
Upto(t) ==
    /\ Trail(program, t) /\ t[Len(program) + 1] = << >>
    /\ pc # "destroyed" /\ w.error = "ok" => w.track = t[next] /\ Linked(w)

Obeys ==
    /\ IsProgram(program) /\ next \in 1..(Len(program) + 1)
    /\ \E t : Upto(t)
    /\ pc # "destroyed" => Growing(w)
    /\ w.error \in {"ok", "memory"} /\ (failing = {} => w.error = "ok")
    /\ ~misuse
    /\ pc = "destroyed" /\ w.error = "ok" => Innermost = 0

RequestInv == TrackInv /\ MemInv /\ (program # << >> => Obeys)

LEMMA InitWriterIs ==
    ASSUME NEW x, HasFields(x)
    PROVE  LET y == InitWriter(x) IN
           /\ HasFields(y) /\ y.sink = x.sink /\ y.size = x.size /\ y.track = x.track /\ y.build = x.build
           /\ y.error = x.error \/ (x.error = "ok" /\ y.error = "memory" /\ failing # {})
<1> DEFINE a == Allocation(x)
<1>1. HasFields(a) /\ a.sink = x.sink /\ a.size = x.size /\ a.track = x.track /\ a.build = x.build
      /\ a.error = x.error
  BY DEF HasFields, Allocation
<1>2. InitWriter(x) = IF Fails(x) THEN FlagError(a, "memory") ELSE a
  BY DEF InitWriter
<1>3. Fails(x) => failing # {}
  BY DEF Fails
<1> HIDE DEF a
<1> QED
  BY <1>1, <1>2, <1>3 DEF FlagError, HasFields

\* What the writer of a request is when the first call is made
LEMMA GrowableIs ==
    ASSUME NEW to, InitGrowable(to)
    PROVE  /\ HasFields(w) /\ w.sink = to /\ w.track = << >> /\ w.build = NULL
           /\ w.error \in {"ok", "memory"} /\ (failing = {} => w.error = "ok")
           /\ w.error = "ok" => w.size = InitialBuffer
<1> DEFINE x == Writer(to, "ok", InitialBuffer)
           a == Allocation(x)
           y == InitWriter(a)
<1>1. /\ HasFields(x) /\ x.sink = to /\ x.track = << >> /\ x.build = NULL
      /\ x.error = "ok" /\ x.size = InitialBuffer
  BY DEF Writer, HasFields
<1>2. w = IF Fails(x) THEN Writer(to, "memory", 0) ELSE WithFlush(y)
  BY DEF InitGrowable
<1>3. Fails(x) => failing # {}
  BY DEF Fails
<1> HIDE DEF x
<1>4. /\ HasFields(a) /\ a.sink = to /\ a.track = << >> /\ a.build = NULL
      /\ a.error = "ok" /\ a.size = InitialBuffer
  BY <1>1 DEF HasFields, Allocation
<1> HIDE DEF a
<1>5. /\ HasFields(y) /\ y.sink = to /\ y.size = InitialBuffer /\ y.track = << >> /\ y.build = NULL
      /\ y.error = "ok" \/ (y.error = "memory" /\ failing # {})
  BY <1>4, InitWriterIs
<1> HIDE DEF y
<1>6. WithFlush(y) = y
  BY <1>5, Sizes DEF WithFlush
<1>7. CASE Fails(x)
  <2>1. w = Writer(to, "memory", 0)
    BY <1>2, <1>7
  <2> QED
    BY <1>3, <1>7, <2>1 DEF Writer, HasFields
<1>8. CASE ~Fails(x)
  BY <1>2, <1>5, <1>6, <1>8
<1> QED
  BY <1>7, <1>8

LEMMA RequestInit == InitRequest => RequestInv
<1> SUFFICES ASSUME InitRequest PROVE RequestInv
  OBVIOUS
<1>1. TrackInv /\ MemInv
  BY TrackInit, MemInit DEF InitRequest
<1>2. ASSUME program # << >> PROVE Obeys
  <2>1. w.sink[1] = "growable" /\ program \in Programs
    BY <1>2 DEF InitRequest
  <2>2. PICK t : IsProgram(program) /\ Trail(program, t) /\ t[1] = << >> /\ t[Len(program) + 1] = << >>
    BY <2>1, ProgramsAre DEF Does
  <2>3. Len(program) \in Nat /\ next = 1
    <3>1. PICK S : program \in Seq(S)
      BY <2>2 DEF IsProgram
    <3> QED
      BY <3>1 DEF InitRequest
  <2>4. PICK to \in Sinks :
          CASE to[1] = "growable" -> InitGrowable(to)
            [] to[1] = "fixed" -> InitFixed(to)
            [] to[1] = "file" -> InitFile(to)
    BY DEF InitRequest, Init
  <2>6. to[1] = "growable"
    <3>1. to[1] \in {"growable", "fixed", "file"}
      BY SizesAssumption
    <3>2. ASSUME w = Writer(to, "io", 0) \/ w = InitWriter(Writer(to, "ok", to[2])) PROVE w.sink = to
      <4> DEFINE x == Writer(to, "ok", to[2])
      <4>1. HasFields(x) /\ x.sink = to
        BY DEF Writer, HasFields
      <4> HIDE DEF x
      <4>2. InitWriter(x).sink = to
        BY <4>1, InitWriterIs
      <4>3. Writer(to, "io", 0).sink = to
        BY DEF Writer
      <4> QED
        BY <3>2, <4>2, <4>3 DEF x
    <3>3. w.sink = to
      BY <2>4, <3>1, <3>2, GrowableIs DEF InitFixed, InitFile
    <3> QED
      BY <2>1, <3>3
  <2>8. /\ w.error \in {"ok", "memory"} /\ (failing = {} => w.error = "ok")
        /\ w.error = "ok" => w.size = InitialBuffer
        /\ w.sink = to /\ w.track = << >> /\ w.build = NULL /\ HasFields(w)
    BY <2>4, <2>6, GrowableIs
  <2>9. Growing(w)
    BY <2>1, <2>8, Sizes DEF Growing
  <2>10. Linked(w)
    <3> DEFINE c == [i \in 0..0 |-> NULL]
    <3>1. Len(w.track) = 0 /\ c[0] = NULL
      BY <2>8
    <3> HIDE DEF c
    <3>2. Nest(w, w.track, w.build, c)
      BY <2>8, <3>1 DEF Nest
    <3> QED
      BY <3>2 DEF Linked
  <2>11. pc = "idle" /\ misuse = FALSE
    BY DEF InitRequest, Init
  <2>12. Upto(t)
    BY <2>2, <2>3, <2>8, <2>10 DEF Upto
  <2>13. next \in 1..(Len(program) + 1)
    BY <2>3
  <2> QED
    BY <2>2, <2>8, <2>9, <2>11, <2>12, <2>13 DEF Obeys
<1> QED
  BY <1>1, <1>2 DEF RequestInv

\* Whatever step is next, the tracking and the memory stay as they have to be
LEMMA RequestKeeps ==
    ASSUME RequestInv, [NextRequest]_allVars
    PROVE  TrackInv' /\ MemInv'
<1>1. TrackInv /\ MemInv
  BY DEF RequestInv
<1>2. CASE Step
  <2> DEFINE s == program[next]
  <2>1. IsStep(s) /\ next \in 1..Len(program)
    <3>1. PICK S : program \in Seq(S) /\ \A r \in S : IsStep(r)
      BY <1>2 DEF Step, Runs, RequestInv, Obeys, IsProgram
    <3>2. next \in 1..Len(program)
      <4>1. next \in 1..(Len(program) + 1) /\ next <= Len(program) /\ Len(program) \in Nat
        BY <1>2, <3>1 DEF Step, Runs, RequestInv, Obeys
      <4> QED
        BY <4>1
    <3> QED
      BY <3>1, <3>2
  <2>2. \/ s.op = "start" /\ StartContainer(s.type, s.n)
        \/ s.op = "finish" /\ FinishContainer(s.type)
        \/ s.op = "build" /\ BuildContainer(s.type)
        \/ s.op = "complete" /\ (CompleteNested(s.type) \/ CompleteOutermost(s.type) \/ CompleteMisused(s.type))
        \/ s.op = "write" /\ WriteScalar(s.size[1], s.size[2])
    BY <1>2, <2>1, Zenon DEF Step, IsStep
  <2> HIDE DEF s
  <2>3. CASE s.op = "start" /\ StartContainer(s.type, s.n)
    BY <1>1, <2>1, <2>3, TrackStart, MemStart DEF IsStep
  <2>4. CASE s.op = "finish" /\ FinishContainer(s.type)
    BY <1>1, <2>4, TrackFinish, MemFinish
  <2>5. CASE s.op = "build" /\ BuildContainer(s.type)
    <3>1. s.type \in Compound
      BY <2>1, <2>5 DEF IsStep
    <3>2. TrackInv'
      BY <1>1, <2>5, <3>1, TrackBuild
    <3> QED
      BY <1>1, <2>5, <3>1, <3>2, MemBuild
  <2>6. CASE s.op = "complete" /\ (CompleteNested(s.type) \/ CompleteOutermost(s.type) \/ CompleteMisused(s.type))
    BY <1>1, <2>6, TrackNested, TrackOutermost, TrackCompleteMisused, MemNested, MemOutermost, MemCompleteMisused
  <2>7. CASE s.op = "write" /\ WriteScalar(s.size[1], s.size[2])
    <3>1. s.size[1] \in 1..MinBuffer /\ s.size[2] \in Nat
      BY <2>1, <2>7 DEF IsStep
    <3>2. s.size[1] \in Nat
      BY <3>1, Sizes
    <3> QED
      BY <1>1, <2>7, <3>1, <3>2, TrackScalar, MemScalar
  <2> QED
    BY <2>2, <2>3, <2>4, <2>5, <2>6, <2>7
<1>3. CASE Next
  <2>1. TrackInv'
    BY <1>1, <1>3, TrackStep
  <2> QED
    BY <1>1, <1>3, <2>1, MemStep
<1>4. CASE UNCHANGED vars
  <2>1. TrackInv'
    BY <1>1, <1>4, TrackStep
  <2> QED
    BY <1>1, <1>4, <2>1, MemStep
<1>5. Step \/ Next \/ UNCHANGED vars
  BY DEF NextRequest, StepWithError, DestroyRequest, FreeCall, Next, Call, allVars, vars
<1> QED
  BY <1>2, <1>3, <1>4, <1>5

\* A step of the program that the tracking lets pass, or that resolves what it built
LEMMA StillObeys ==
    ASSUME TrackInv', Obeys, pc # "destroyed", pc' # "destroyed", NEW t, Upto(t),
           program' = program, failing' = failing, next' \in 1..(Len(program) + 1),
           GoesOn(t[next'])
    PROVE  Obeys'
<1>1. Short(w, w') /\ (w'.error = "ok" => w'.track = t[next'] /\ Linked(w'))
  BY DEF GoesOn
<1>2. Growing(w) /\ w.error \in {"ok", "memory"} /\ (failing = {} => w.error = "ok")
  BY DEF Obeys
<1>3. Growing(w')
  BY <1>1, <1>2, StillGrowing
<1>4. w'.error \in {"ok", "memory"} /\ (failing' = {} => w'.error = "ok")
  BY <1>1, <1>2 DEF Short
<1>5. ~misuse'
  BY <1>4 DEF TrackInv
<1>6. Upto(t)'
  BY <1>1 DEF Upto, Trail, Linked, Nest, Within
<1>7. IsProgram(program)'
  BY DEF Obeys, IsProgram
<1> QED
  BY <1>3, <1>4, <1>5, <1>6, <1>7 DEF Obeys, Growing

LEMMA StepObeys ==
    ASSUME RequestInv, TrackInv', program # << >>, Step
    PROVE  Obeys'
<1> DEFINE s == program[next]
<1>1. TrackInv /\ MemInv /\ Obeys
  BY DEF RequestInv
<1>2. next' = next + 1 /\ program' = program /\ next <= Len(program) /\ pc = "idle" /\ w.error = "ok"
  BY DEF Step, Runs
<1>3. PICK S : program \in Seq(S) /\ \A r \in S : IsStep(r)
  BY <1>1 DEF Obeys, IsProgram
<1>4. next \in 1..Len(program) /\ next' \in 1..(Len(program) + 1) /\ IsStep(s)
  <2>1. next \in 1..(Len(program) + 1) /\ Len(program) \in Nat
    BY <1>1, <1>3 DEF Obeys
  <2>2. next \in 1..Len(program)
    BY <1>2, <2>1
  <2> QED
    BY <1>2, <1>3, <2>1, <2>2
<1>5. PICK t : Upto(t)
  BY <1>1 DEF Obeys
<1>6. Permits(s, t[next], t[next']) /\ w.track = t[next] /\ Linked(w)
  BY <1>2, <1>4, <1>5 DEF Upto, Trail
<1>7. Growing(w) /\ Callable
  BY <1>1, <1>2 DEF Obeys, Callable
<1>8. \/ s.op = "start" /\ StartContainer(s.type, s.n)
      \/ s.op = "finish" /\ FinishContainer(s.type)
      \/ s.op = "build" /\ BuildContainer(s.type)
      \/ s.op = "complete" /\ (CompleteNested(s.type) \/ CompleteOutermost(s.type) \/ CompleteMisused(s.type))
      \/ s.op = "write" /\ WriteScalar(s.size[1], s.size[2])
  BY <1>4, Zenon DEF Step, IsStep
<1> HIDE DEF s
<1>9. GoesOn(t[next']) /\ pc' # "destroyed" /\ failing' = failing
  <2>1. CASE s.op = "start" /\ StartContainer(s.type, s.n)
    <3>1. s.type \in Compound /\ s.n \in Nat
      BY <1>4, <2>1 DEF IsStep
    <3>2. MayAddElement(w.track) /\ t[next'] = Push(AddElement(w.track), s.type, s.n)
      BY <1>6, <2>1 DEF Permits
    <3>3. GoesOn(t[next'])
      BY <1>1, <1>6, <1>7, <2>1, <3>1, <3>2, StartGoes
    <3> QED
      BY <1>2, <2>1, <3>3 DEF StartContainer
  <2>2. CASE s.op = "finish" /\ FinishContainer(s.type)
    <3>1. MayPop(w.track, s.type, FALSE) /\ t[next'] = Pop(w.track)
      BY <1>6, <2>2 DEF Permits
    <3>2. GoesOn(t[next'])
      BY <1>1, <1>6, <1>7, <2>2, <3>1, FinishGoes
    <3> QED
      BY <1>2, <2>2, <3>2 DEF FinishContainer
  <2>3. CASE s.op = "build" /\ BuildContainer(s.type)
    <3>1. s.type \in Compound
      BY <1>4, <2>3 DEF IsStep
    <3>2. MayAddElement(w.track) /\ t[next'] = PushBuilder(AddElement(w.track), s.type)
      BY <1>6, <2>3 DEF Permits
    <3>3. GoesOn(t[next'])
      BY <1>1, <1>6, <1>7, <2>3, <3>1, <3>2, BuildGoes
    <3> QED
      BY <1>2, <2>3, <3>3 DEF BuildContainer
  <2>4. CASE s.op = "complete" /\ (CompleteNested(s.type) \/ CompleteOutermost(s.type) \/ CompleteMisused(s.type))
    <3>1. MayPop(w.track, s.type, TRUE) /\ t[next'] = Pop(w.track)
      BY <1>6, <2>4 DEF Permits
    <3>2. GoesOn(t[next'])
      BY <1>1, <1>6, <1>7, <2>4, <3>1, CompleteGoes
    <3> QED
      BY <1>2, <2>4, <3>2 DEF CompleteNested, CompleteOutermost, CompleteMisused
  <2>5. CASE s.op = "write" /\ WriteScalar(s.size[1], s.size[2])
    <3>1. s.size[1] \in 1..MinBuffer /\ s.size[2] \in Nat
      BY <1>4, <2>5 DEF IsStep
    <3>2. MayAddElement(w.track) /\ t[next'] = AddElement(w.track)
      BY <1>6, <2>5 DEF Permits
    <3>3. GoesOn(t[next'])
      BY <1>1, <1>6, <1>7, <2>5, <3>1, <3>2, ScalarGoes
    <3> QED
      BY <1>2, <2>5, <3>3 DEF WriteScalar
  <2> QED
    BY <1>8, <2>1, <2>2, <2>3, <2>4, <2>5
<1> QED
  BY <1>1, <1>2, <1>4, <1>5, <1>9, StillObeys

LEMMA StopObeys ==
    ASSUME RequestInv, program # << >>, StepWithError
    PROVE  Obeys'
<1>1. Obeys /\ w.error # "ok" /\ pc = "idle"
  BY DEF RequestInv, StepWithError, Runs
<1>2. next' = Len(program) + 1 /\ UNCHANGED <<w, failing, pc, doc, misuse, program>>
  BY DEF StepWithError, vars
<1>3. PICK S : program \in Seq(S)
  BY <1>1 DEF Obeys, IsProgram
<1>4. next' \in 1..(Len(program) + 1)
  BY <1>2, <1>3
<1>5. PICK t : Upto(t)
  BY <1>1 DEF Obeys
<1>6. Upto(t)'
  BY <1>1, <1>2, <1>5 DEF Upto, Trail
<1>7. IsProgram(program)'
  BY <1>1, <1>2 DEF Obeys, IsProgram
<1> QED
  BY <1>1, <1>2, <1>4, <1>6, <1>7 DEF Obeys, Growing

LEMMA EndObeys ==
    ASSUME RequestInv, program # << >>, DestroyRequest
    PROVE  Obeys'
<1>1. TrackInv /\ Obeys /\ Destroy /\ pc = "idle" /\ pc' = "destroyed"
  BY DEF RequestInv, DestroyRequest, Destroy
<1>2. next > Len(program) /\ UNCHANGED <<failing, doc, misuse, program, next>>
  BY DEF DestroyRequest, Destroy, requestVars
<1>3. PICK S : program \in Seq(S)
  BY <1>1 DEF Obeys, IsProgram
<1>4. next = Len(program) + 1
  <2>1. Len(program) \in Nat /\ next \in 1..(Len(program) + 1)
    BY <1>1, <1>3 DEF Obeys
  <2> QED
    BY <1>2, <2>1
<1>5. PICK t : Upto(t)
  BY <1>1 DEF Obeys
<1>6. w.error = "ok" => w.track = << >> /\ Linked(w)
  BY <1>1, <1>4, <1>5 DEF Upto
<1>7. w.error = "ok" => w.build = NULL
  <2>1. ASSUME w.error = "ok" PROVE w.build = NULL
    <3>1. PICK c : Nest(w, w.track, w.build, c)
      BY <1>6, <2>1 DEF Linked
    <3>2. Len(w.track) = 0
      BY <1>6, <2>1
    <3> QED
      BY <3>1, <3>2 DEF Nest
  <2> QED
    BY <2>1
<1>8. w.error = "ok" => Innermost = 0
  <2>1. ASSUME w.error = "ok" PROVE Innermost = 0
    <3>1. PICK o : DocType(doc) /\ Stack(w.track, doc, o)
      BY <1>1, <2>1 DEF TrackInv, Told
    <3> QED
      BY <1>6, <2>1, <3>1, NoTopIs
  <2> QED
    BY <2>1
<1>9. w'.error = w.error \/ (w.error = "ok" /\ w'.error = "memory" /\ failing # {})
  BY <1>1, <1>7, DestroyLeaves DEF Obeys
<1>10. Innermost' = Innermost
  BY <1>2 DEF Innermost
<1>11. Upto(t)'
  BY <1>1, <1>2, <1>5 DEF Upto, Trail
<1>12. IsProgram(program)'
  BY <1>1, <1>2 DEF Obeys, IsProgram
<1> QED
  BY <1>1, <1>2, <1>8, <1>9, <1>10, <1>11, <1>12 DEF Obeys

LEMMA ResolveObeys ==
    ASSUME RequestInv, TrackInv', program # << >>, Resolve, UNCHANGED requestVars
    PROVE  Obeys'
<1>1. TrackInv /\ MemInv /\ Obeys
  BY DEF RequestInv
<1>2. pc = "resolve" /\ pc' \in {"idle", "resolve"} /\ failing' = failing
  BY DEF Resolve, ResolveTag, ResolveCopy, ResolveNext
<1>3. next' = next /\ program' = program
  BY DEF requestVars
<1>4. PICK t : Upto(t)
  BY <1>1 DEF Obeys
<1>5. GoesOn(w.track)
  BY <1>1, <1>2, <1>4, ResolveGoes DEF Obeys, Upto
<1>6. GoesOn(t[next'])
  <2>1. w'.error = "ok" => w.error = "ok"
    BY <1>5 DEF GoesOn, Short
  <2>2. w.error = "ok" => w.track = t[next']
    BY <1>2, <1>3, <1>4 DEF Upto
  <2> QED
    BY <1>5, <2>1, <2>2 DEF GoesOn
<1> QED
  BY <1>1, <1>2, <1>3, <1>4, <1>6, StillObeys DEF Obeys

LEMMA RequestStep == RequestInv /\ [NextRequest]_allVars => RequestInv'
<1> SUFFICES ASSUME RequestInv, [NextRequest]_allVars PROVE RequestInv'
  OBVIOUS
<1>1. TrackInv' /\ MemInv'
  BY RequestKeeps
<1>2. program' = program
  BY DEF NextRequest, Step, StepWithError, DestroyRequest, FreeCall, allVars, requestVars
<1>3. ASSUME program # << >> PROVE Obeys'
  <2>1. CASE Step
    BY <1>1, <1>3, <2>1, StepObeys
  <2>2. CASE StepWithError
    BY <1>3, <2>2, StopObeys
  <2>3. CASE DestroyRequest
    BY <1>3, <2>3, EndObeys
  <2>4. CASE Resolve /\ UNCHANGED requestVars
    BY <1>1, <1>3, <2>4, ResolveObeys
  <2>5. CASE UNCHANGED allVars
    <3>1. Obeys
      BY <1>3 DEF RequestInv
    <3>2. UNCHANGED <<w, failing, pc, doc, misuse, program, next>>
      BY <2>5 DEF allVars, vars, requestVars
    <3>3. PICK t : Upto(t)
      BY <3>1 DEF Obeys
    <3>4. Upto(t)' /\ IsProgram(program)' /\ Innermost' = Innermost
      BY <3>1, <3>2, <3>3 DEF Obeys, Upto, Trail, IsProgram, Innermost
    <3> QED
      BY <3>1, <3>2, <3>4 DEF Obeys, Growing
  <2> QED
    BY <1>3, <2>1, <2>2, <2>3, <2>4, <2>5 DEF NextRequest, FreeCall
<1> QED
  BY <1>1, <1>2, <1>3 DEF RequestInv

\* Whatever a function of kgd.c writes and whatever allocation fails, or whatever the
\* free caller does: the tracking stack stands for the open containers, pages and
\* walk are sound, and a function is at the stack its own steps ask for.
THEOREM RequestInvariant == RequestSpec => []RequestInv
<1>1. RequestInv /\ [NextRequest]_allVars => RequestInv'
  BY RequestStep
<1> QED
  BY RequestInit, <1>1, PTL DEF RequestSpec

\* While the functions of kgd.c write, tracking flags a bug for misuse and nothing else.
THEOREM RequestsAreTracked == RequestSpec => []TrackingIsExact
<1>1. RequestInv => TrackingIsExact
  BY DEF RequestInv, TrackInv, TrackingIsExact
<1> QED
  BY RequestInvariant, <1>1, PTL

\* The functions of kgd.c, whatever their options and whatever allocation fails, never
\* have the writer read or write outside its pages and its buffer, with one exception
\* in mpack_builder_build itself: the header of a build goes past the end of a full
\* page where there is no memory for the next.
THEOREM RequestsAreSafe == RequestSpec => []InsideMemory
<1>1. RequestInv => InsideMemory
  BY MemInside DEF RequestInv
<1> QED
  BY RequestInvariant, <1>1, PTL

\* No function of kgd.c leaves a page of the builder allocated, unless its first build
\* is the one for which the tracking stack had to grow and could not.
THEOREM RequestsFreePages == RequestSpec => []NoPageLeaks
<1>1. RequestInv => NoPageLeaks
  BY DEF RequestInv, MemInv, Freed, NoPageLeaks, Building
<1> QED
  BY RequestInvariant, <1>1, PTL

\* No function of kgd.c misuses the writer, with any set of options: it opens and
\* closes what it announced, writes as many elements as it announced, and the only
\* error it can meet is an allocation that fails; where none does, and the
\* writer is destroyed, the message is complete.
THEOREM RequestsNeverMisuse == RequestSpec => []NeverMisuses
<1>1. RequestInv => NeverMisuses
  <2> SUFFICES ASSUME RequestInv, program # << >> PROVE NeverMisuses
    BY DEF NeverMisuses
  <2>1. Obeys
    BY DEF RequestInv
  <2> QED
    BY <2>1 DEF Obeys, NeverMisuses
<1> QED
  BY RequestInvariant, <1>1, PTL
=============================================================================
