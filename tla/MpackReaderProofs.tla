------------------------- MODULE MpackReaderProofs -------------------------
(***************************************************************************)
(* Proofs about the reader of the C client, whatever is read, from         *)
(* whichever source and in whatever portions it comes: what the buffer     *)
(* holds unread is what the stream has next, and the bytes a call returns  *)
(* are those of the stream where the call read them.                       *)
(***************************************************************************)
EXTENDS CReplies, TLAPS, WellFoundedInduction, SequenceTheorems

-----------------------------------------------------------------------------
(* Bytes of the stream                                                      *)

B == Nat \X Nat

\* v is what the stream has up to its byte p
From(v, p) ==
    \A k \in 1..Len(v) : /\ (p - Len(v)) + k \in 1..Len(stream)
                         /\ v[k] = stream[(p - Len(v)) + k]

Items == Seq([form : Forms, text : STRING])

\* What does not change: the document, its bytes and where they come from
World ==
    /\ doc \in Items
    /\ stream \in Seq(B) /\ \A k \in 1..Len(stream) : stream[k][1] \in 1..Len(doc)
    /\ source.kind \in {"data", "stream", "file"}
    /\ source.chunk \in Nat /\ source.limit \in Nat /\ source.limit <= Len(stream)
    /\ source.size \in Nat /\ source.preload \in Nat /\ source.preload <= source.limit
    /\ source.kind = "stream" => source.preload <= source.size
    /\ source.kind = "file" => source.size > 0

LEMMA FromNothing == \A p : From(<< >>, p)
BY DEF From

LEMMA FromJoin ==
    ASSUME World, NEW u \in Seq(B), NEW v \in Seq(B), NEW p \in Int,
           From(u, p - Len(v)), From(v, p)
    PROVE  u \o v \in Seq(B) /\ From(u \o v, p)
<1> DEFINE m == Len(u)
           n == Len(v)
           w == u \o v
<1>1. m \in Nat /\ n \in Nat /\ w \in Seq(B) /\ Len(w) = m + n
  OBVIOUS
<1>2. \A k \in 1..(m + n) : w[k] = IF k <= m THEN u[k] ELSE v[k - m]
  OBVIOUS
<1>3. \A k \in 1..m : ((p - n) - m) + k \in 1..Len(stream) /\ u[k] = stream[((p - n) - m) + k]
  BY DEF From
<1>4. \A k \in 1..n : (p - n) + k \in 1..Len(stream) /\ v[k] = stream[(p - n) + k]
  BY DEF From
<1> HIDE DEF m, n, w
<1>5. ASSUME NEW k \in 1..Len(w)
      PROVE  (p - Len(w)) + k \in 1..Len(stream) /\ w[k] = stream[(p - Len(w)) + k]
  <2>1. CASE k <= m
    <3>1. k \in 1..m /\ k \in 1..(m + n) /\ (p - Len(w)) + k = ((p - n) - m) + k
      BY <1>1, <2>1
    <3> QED
      BY <1>2, <1>3, <2>1, <3>1
  <2>2. CASE ~(k <= m)
    <3>1. k - m \in 1..n /\ k \in 1..(m + n) /\ (p - Len(w)) + k = (p - n) + (k - m)
      BY <1>1, <2>2
    <3> QED
      BY <1>2, <1>4, <2>2, <3>1
  <2> QED
    BY <2>1, <2>2
<1> QED
  BY <1>1, <1>5 DEF From, w

LEMMA FromPart ==
    ASSUME World, NEW v \in Seq(B), NEW p \in Int, From(v, p),
           NEW a \in Nat, NEW b \in Nat, b <= Len(v)
    PROVE  /\ SubSeq(v, a + 1, b) \in Seq(B)
           /\ Len(SubSeq(v, a + 1, b)) = IF a <= b THEN b - a ELSE 0
           /\ From(SubSeq(v, a + 1, b), p - (Len(v) - b))
<1> DEFINE n == Len(v)
           w == SubSeq(v, a + 1, b)
           m == Len(w)
<1>1. n \in Nat /\ m \in Nat /\ w \in Seq(B) /\ m = IF a <= b THEN b - a ELSE 0
  OBVIOUS
<1>2. \A k \in 1..m : w[k] = v[a + k]
  OBVIOUS
<1>3. \A k \in 1..n : (p - n) + k \in 1..Len(stream) /\ v[k] = stream[(p - n) + k]
  BY DEF From
<1>4. b <= n
  OBVIOUS
<1> HIDE DEF n, w, m
<1>5. ASSUME NEW k \in 1..m
      PROVE  ((p - (n - b)) - m) + k \in 1..Len(stream) /\ w[k] = stream[((p - (n - b)) - m) + k]
  <2>1. a + k \in 1..n /\ ((p - (n - b)) - m) + k = (p - n) + (a + k)
    BY <1>1, <1>4
  <2> QED
    BY <1>2, <1>3, <2>1
<1> QED
  BY <1>1, <1>5 DEF From, w, m, n

LEMMA FromStream ==
    ASSUME World, NEW a \in Nat, NEW b \in Nat, b <= Len(stream)
    PROVE  /\ SubSeq(stream, a + 1, b) \in Seq(B)
           /\ Len(SubSeq(stream, a + 1, b)) = IF a <= b THEN b - a ELSE 0
           /\ From(SubSeq(stream, a + 1, b), b)
<1>1. stream \in Seq(B) /\ Len(stream) \in Nat
  BY DEF World
<1>2. From(stream, Len(stream))
  <2> DEFINE n == Len(stream)
  <2>1. n \in Nat
    BY <1>1
  <2>2. \A k \in 1..n : (n - n) + k \in 1..n /\ (n - n) + k = k
    BY <2>1
  <2> QED
    BY <2>2 DEF From
<1>3. Len(stream) - (Len(stream) - b) = b
  BY <1>1
<1> QED
  BY <1>1, <1>2, <1>3, FromPart

LEMMA FromIs ==
    ASSUME World, NEW v \in Seq(B), NEW p \in Int, From(v, p), v # << >>
    PROVE  /\ (p - Len(v)) \in Nat /\ p \in Nat /\ p <= Len(stream)
           /\ v = SubSeq(stream, (p - Len(v)) + 1, p)
<1> DEFINE n == Len(v)
           w == SubSeq(stream, (p - n) + 1, p)
<1>1. stream \in Seq(B) /\ Len(stream) \in Nat /\ n \in Nat /\ n # 0
  BY DEF World
<1>2. \A k \in 1..n : (p - n) + k \in 1..Len(stream) /\ v[k] = stream[(p - n) + k]
  BY DEF From
<1>3. (p - n) + 1 \in 1..Len(stream) /\ (p - n) + n \in 1..Len(stream)
  BY <1>1, <1>2
<1>4. (p - n) \in Nat /\ p \in Nat /\ p <= Len(stream)
  BY <1>1, <1>3
<1>5. w \in Seq(B) /\ Len(w) = n /\ \A k \in 1..n : w[k] = stream[(p - n) + k]
  BY <1>1, <1>4
<1>6. v \in Seq(B) /\ Len(v) = Len(w) /\ \A k \in 1..Len(v) : v[k] = w[k]
  BY <1>2, <1>5
<1> HIDE DEF w
<1>7. v = w
  BY <1>5, <1>6
<1> QED
  BY <1>4, <1>7 DEF w


-----------------------------------------------------------------------------
(* The recursive definitions of the reader                                  *)

\* One round of each: what it makes of a, where p is what it is given
Make(kind, p, a, n) ==
    CASE kind = "bytes" -> a \o [k \in 1..ItemSize(p[n]) |-> <<n, k>>]
      [] kind = "fill" -> IF a.r.error # "ok" \/ Len(a.v) >= p[1] THEN a
                          ELSE Did(Fill(a.r, p[2] - Len(a.v)).r, a.v \o Fill(a.r, p[2] - Len(a.v)).v)
      [] kind = "drop" -> IF a.error # "ok" THEN a ELSE FillRange(a, source.size, source.size).r
      [] kind = "discard" -> DiscardRound(a)
      [] kind = "skip" -> Discard(a)
      [] kind = "match" -> IF a.error # "ok" THEN a
                           ELSE LET y == Ensure(a, 1)
                                    same == y.mem[y.data + 1][2] > 1 /\ Item(y.mem[y.data + 1][1]).text = p
                                IN  IF y.error # "ok" THEN y
                                    ELSE IF same THEN Advance(y, 1) ELSE Flag(Advance(y, 1), "type")

\* f has what k rounds from x on make of it
Rounds(kind, p, x, k, f) ==
    f = [n \in 0..k |-> IF n = 0 THEN x ELSE Make(kind, p, f[n - 1], n)]
Chain(kind, p, x, k, f) ==
    f[0] = x /\ \A n \in 1..k : f[n] = Make(kind, p, f[n - 1], n)

LEMMA LeastNatural ==
    ASSUME NEW S, S \subseteq Nat, S # {}
    PROVE  \E n \in S : \A m \in S : n <= m
<1>1. PICK n \in S : \A m \in S : ~(<<m, n>> \in OpToRel(<, Nat))
  BY NatLessThanWellFounded, WFMin
<1>2. ASSUME NEW m \in S PROVE n <= m
  <2>1. m < n => <<m, n>> \in OpToRel(<, Nat)
    BY Zenon DEF OpToRel
  <2>2. ~(m < n)
    BY <1>1, <2>1, Zenon
  <2> QED
    BY <2>2
<1> QED
  BY <1>2

LEMMA RoundsChain ==
    ASSUME NEW kind, NEW p, NEW x, NEW k \in Nat, NEW f, Rounds(kind, p, x, k, f)
    PROVE  Chain(kind, p, x, k, f)
<1> DEFINE step(n) == IF n = 0 THEN x ELSE Make(kind, p, f[n - 1], n)
           F == [n \in 0..k |-> step(n)]
<1>1. f = F
  BY Zenon DEF Rounds
<1>2. \A n \in 0..k : F[n] = step(n)
  BY Zenon
<1> HIDE DEF F
<1>3. \A n \in 0..k : f[n] = step(n)
  BY <1>1, <1>2, Zenon
<1>4. 0 \in 0..k /\ \A n \in 1..k : n \in 0..k /\ n # 0
  OBVIOUS
<1>5. f[0] = x
  <2>1. f[0] = step(0)
    BY <1>3, <1>4, Zenon
  <2> QED
    BY <2>1, Zenon
<1>6. ASSUME NEW n \in 1..k PROVE f[n] = Make(kind, p, f[n - 1], n)
  <2>1. f[n] = step(n) /\ n # 0
    BY <1>3, <1>4, Zenon
  <2> QED
    BY <2>1, Zenon
<1> QED
  BY <1>5, <1>6, Zenon DEF Chain

LEMMA RoundsMore ==
    ASSUME NEW kind, NEW p, NEW x, NEW k \in Nat, NEW f, Rounds(kind, p, x, k, f)
    PROVE  \E h : Rounds(kind, p, x, k + 1, h)
<1> DEFINE next == Make(kind, p, f[k], k + 1)
           h == [n \in 0..k + 1 |-> IF n <= k THEN f[n] ELSE next]
           step(n) == IF n = 0 THEN x ELSE Make(kind, p, h[n - 1], n)
<1>1. f[0] = x /\ \A n \in 1..k : f[n] = Make(kind, p, f[n - 1], n)
  <2>1. Chain(kind, p, x, k, f)
    BY RoundsChain, Zenon
  <2> QED
    BY <2>1, Zenon DEF Chain
<1>2. \A n \in 0..k : h[n] = f[n]
  OBVIOUS
<1>3. h[k + 1] = next
  OBVIOUS
<1>4. ASSUME NEW n \in 0..k + 1 PROVE h[n] = step(n)
  <2>1. CASE n = 0
    BY <1>1, <1>2, <2>1
  <2>2. CASE n \in 1..k
    <3>1. n - 1 \in 0..k /\ n \in 0..k /\ n # 0
      BY <2>2
    <3> HIDE DEF h
    <3> QED
      BY <1>1, <1>2, <2>2, <3>1
  <2>3. CASE n = k + 1
    <3>1. n - 1 = k /\ k \in 0..k /\ n # 0
      BY <2>3
    <3> HIDE DEF h
    <3> QED
      BY <1>2, <1>3, <2>3, <3>1
  <2> QED
    BY <2>1, <2>2, <2>3
<1>5. h = [n \in 0..k + 1 |-> h[n]]
  OBVIOUS
<1>6. [n \in 0..k + 1 |-> h[n]] = [n \in 0..k + 1 |-> step(n)]
  <2> HIDE DEF h
  <2> QED
    BY <1>4
<1>7. Rounds(kind, p, x, k + 1, h)
  <2> HIDE DEF h
  <2> QED
    BY <1>5, <1>6, Zenon DEF Rounds
<1> QED
  BY <1>7

LEMMA RoundsExist ==
    ASSUME NEW kind, NEW p, NEW x, NEW k \in Nat
    PROVE  \E f : Rounds(kind, p, x, k, f)
<1> DEFINE S == {n \in Nat : ~\E f : Rounds(kind, p, x, n, f)}
<1>1. SUFFICES ASSUME S # {} PROVE FALSE
  BY <1>1
<1>2. PICK n \in S : \A m \in S : n <= m
  BY <1>1, LeastNatural
<1>3. n \in Nat /\ ~\E f : Rounds(kind, p, x, n, f)
  OBVIOUS
<1>4. n # 0
  <2> DEFINE f == [i \in 0..0 |-> x]
  <2>1. f = [i \in 0..0 |-> IF i = 0 THEN x ELSE Make(kind, p, f[i - 1], i)]
    OBVIOUS
  <2>2. Rounds(kind, p, x, 0, f)
    <3> HIDE DEF f
    <3> QED
      BY <2>1 DEF Rounds
  <2> HIDE DEF f
  <2> QED
    BY <1>3, <2>2
<1>5. n - 1 \in Nat /\ ~(n <= n - 1) /\ (n - 1) + 1 = n
  BY <1>3, <1>4
<1>6. PICK f : Rounds(kind, p, x, n - 1, f)
  BY <1>2, <1>5
<1>7. \E h : Rounds(kind, p, x, n, h)
  BY <1>5, <1>6, RoundsMore
<1> QED
  BY <1>3, <1>7

LEMMA BytesRounds ==
    ASSUME NEW items, Len(items) \in Nat
    PROVE  \E f : /\ Chain("bytes", items, << >>, Len(items), f)
                  /\ BytesOf(items) = f[Len(items)]
<1> DEFINE body(a, n) == a \o [j \in 1..ItemSize(items[n]) |-> <<n, j>>]
           f == CHOOSE g : g = [n \in 0..Len(items) |-> IF n = 0 THEN << >> ELSE body(g[n - 1], n)]
<1>1. BytesOf(items) = f[Len(items)]
  BY DEF BytesOf, Loop
<1>2. \A a, n : Make("bytes", items, a, n) = body(a, n)
  BY DEF Make
<1> HIDE DEF body
<1>3. \A g, n : (IF n = 0 THEN << >> ELSE Make("bytes", items, g[n - 1], n))
                    = (IF n = 0 THEN << >> ELSE body(g[n - 1], n))
  BY <1>2, Zenon
<1>4. \A g : Rounds("bytes", items, << >>, Len(items), g)
                 <=> g = [n \in 0..Len(items) |-> IF n = 0 THEN << >> ELSE body(g[n - 1], n)]
  BY <1>3 DEF Rounds
<1>5. Rounds("bytes", items, << >>, Len(items), f)
  BY <1>4, RoundsExist, Zenon
<1> HIDE DEF f
<1> QED
  BY <1>1, <1>5, RoundsChain

-----------------------------------------------------------------------------
(* The document and its bytes                                               *)

\* Where there is a length or a count, it is a natural number
IsTag(t) == t.type \in {"str", "bin", "array", "map"} => t.v \in Nat

LEMMA FormFacts ==
    ASSUME NEW f \in Forms
    PROVE  /\ FormSize(f) \in Nat /\ FormSize(f) >= 1 /\ f.raw \in Nat
           /\ f.width \in {0} \cup Widths
           /\ FormError(f) = "ok" => IsTag(Parse(f)) /\ f # NoForm
<1>1. \/ f.code \in Codes.fixed /\ f.width = 0 /\ f.raw \in Nat
      \/ f.code \in Codes.sized /\ f.width \in Widths /\ f.raw \in Nat
  BY DEF Forms
<1>2. f.width \in {0} \cup Widths /\ f.raw \in Nat
  BY <1>1
<1>3. FormSize(f) \in Nat /\ FormSize(f) >= 1
  BY <1>2 DEF FormSize, Widths
<1>4. ASSUME FormError(f) = "ok" PROVE IsTag(Parse(f)) /\ f # NoForm
  <2>1. f.code # "reserved" /\ f.code # "ext"
    BY <1>4 DEF FormError
  <2>2. CASE f.width = 0
    <3>1. f.code \in {"fixuint", "fixint", "fixmap", "fixarray", "fixstr", "nil", "bool"}
      BY <1>1, <2>1, <2>2 DEF Codes, Widths
    <3>2. IsTag(ParseFixed(f))
      BY <1>2, <3>1 DEF ParseFixed, IsTag, Tag, NilTag
    <3> QED
      BY <2>2, <3>1, <3>2 DEF Parse, NoForm, Fixed
  <2>3. CASE f.width # 0
    <3>1. IsTag(ParseSized(f))
      BY <1>2 DEF ParseSized, IsTag, Tag
    <3> QED
      BY <2>3, <3>1 DEF Parse, NoForm, Fixed
  <2> QED
    BY <2>2, <2>3
<1> QED
  BY <1>2, <1>3, <1>4

LEMMA ItemSizes ==
    ASSUME NEW items \in Items, NEW i \in 1..Len(items)
    PROVE  items[i].form \in Forms /\ ItemSize(items[i]) \in Nat
<1>1. items[i].form \in Forms
  <2> DEFINE R == [form : Forms, text : STRING]
  <2>1. \A e \in R : e.form \in Forms
    OBVIOUS
  <2>2. items \in Seq(R)
    BY DEF Items
  <2> HIDE DEF R
  <2>3. items[i] \in R
    BY <2>2
  <2> QED
    BY <2>1, <2>3
<1> DEFINE f == items[i].form
<1>2. FormSize(f) \in Nat /\ f.raw \in Nat
  BY <1>1, FormFacts
<1> HIDE DEF f
<1>3. Content(items[i]) \in Nat
  BY <1>2 DEF Content, f
<1>4. FormSize(f) + Content(items[i]) \in Nat /\ 1 \in Nat
  BY <1>2, <1>3
<1> QED
  BY <1>1, <1>4, Zenon DEF ItemSize, f

LEMMA BytesTyped ==
    ASSUME NEW items \in Items
    PROVE  /\ BytesOf(items) \in Seq(B)
           /\ \A k \in 1..Len(BytesOf(items)) : BytesOf(items)[k][1] \in 1..Len(items)
<1> DEFINE c == Len(items)
           T == Seq((1..c) \X Nat)
<1>1. c \in Nat
  BY DEF Items
<1>2. PICK f : Chain("bytes", items, << >>, c, f) /\ BytesOf(items) = f[c]
  BY <1>1, BytesRounds
<1>3. f[0] = << >> /\ \A n \in 1..c : f[n] = Make("bytes", items, f[n - 1], n)
  BY <1>2 DEF Chain
<1> HIDE DEF c
<1>4. ASSUME NEW n \in 1..c, f[n - 1] \in T PROVE f[n] \in T
  <2> DEFINE z == ItemSize(items[n])
             more == [j \in 1..z |-> <<n, j>>]
  <2>1. z \in Nat
    BY ItemSizes DEF c
  <2>2. f[n] = f[n - 1] \o more
    BY <1>3 DEF Make
  <2> HIDE DEF z
  <2>3. more \in T
    BY <1>1, <2>1
  <2> HIDE DEF more
  <2>4. f[n - 1] \o more \in T
    BY <1>4, <2>3
  <2> QED
    BY <2>2, <2>4, Zenon
<1> DEFINE S == {n \in 0..c : f[n] \notin T}
<1>5. S = {}
  <2> SUFFICES ASSUME S # {} PROVE FALSE
    OBVIOUS
  <2>1. S \subseteq Nat
    BY <1>1
  <2>2. PICK n \in S : \A m \in S : n <= m
    BY <2>1, LeastNatural
  <2>3. n \in 0..c /\ f[n] \notin T
    OBVIOUS
  <2>4. n # 0
    <3>1. << >> \in T
      OBVIOUS
    <3> QED
      BY <1>3, <2>3, <3>1, Zenon
  <2>5. n \in 1..c /\ n - 1 \in 0..c /\ ~(n <= n - 1)
    BY <1>1, <2>3, <2>4
  <2>6. f[n - 1] \in T
    BY <2>2, <2>5
  <2> QED
    BY <1>4, <2>3, <2>5, <2>6
<1>6. f[c] \in T
  BY <1>1, <1>5
<1>7. \A t \in T : t \in Seq(B) /\ \A k \in 1..Len(t) : t[k][1] \in 1..c
  <2>1. \A e \in (1..c) \X Nat : e \in B /\ e[1] \in 1..c
    BY <1>1 DEF B
  <2> TAKE t \in T
  <2>2. Len(t) \in Nat /\ \A k \in 1..Len(t) : t[k] \in (1..c) \X Nat
    OBVIOUS
  <2>3. t \in Seq(B)
    BY <2>1, <2>2
  <2> QED
    BY <2>1, <2>2, <2>3
<1> QED
  BY <1>2, <1>6, <1>7 DEF c

-----------------------------------------------------------------------------
(* The reader                                                               *)

Typed(x) ==
    /\ DOMAIN x = {"mem", "data", "src", "eof", "fills", "error", "track"}
    /\ x.mem \in Seq(B) /\ x.data \in 0..Len(x.mem) /\ x.src \in Nat
    /\ x.fills => /\ source.kind \in {"stream", "file"}
                  /\ source.size > 0 /\ Len(x.mem) <= source.size

\* What it holds unread is what the stream has next; after an error it holds nothing
IsReader(x) ==
    /\ Typed(x)
    /\ x.error = "ok" => From(Window(x), x.src)
    /\ x.error # "ok" => x.data = Len(x.mem)

\* y is a reader x may become
Reads(x, y) ==
    IsReader(y) /\ y.fills = x.fills /\ (~x.fills => y.src = x.src)

\* and the bytes d.v were read last
Gives(x, d) ==
    /\ Reads(x, d.r) /\ d.v \in Seq(B)
    /\ d.r.error = "ok" => From(d.v, Position(d.r))

LEMMA ReadsSelf == \A x : IsReader(x) => Reads(x, x)
BY DEF Reads

LEMMA ReadsThen ==
    ASSUME NEW x, NEW y, NEW z, Reads(x, y), Reads(y, z)
    PROVE  Reads(x, z)
BY DEF Reads

LEMMA WindowTyped ==
    ASSUME NEW x, Typed(x)
    PROVE  /\ Left(x) \in Nat /\ Left(x) = Len(x.mem) - x.data /\ Left(x) <= Len(x.mem)
           /\ Window(x) \in Seq(B) /\ Len(Window(x)) = Left(x)
           /\ Len(x.mem) \in Nat /\ x.data \in Nat /\ x.src \in Nat /\ Position(x) \in Int
           /\ x.mem \in Seq(B) /\ Position(x) = x.src - Left(x)
BY DEF Typed, Window, Left, Position

\* An error: nothing is left
LEMMA Flagged ==
    ASSUME World, NEW x, Typed(x), x.error # "ok" => x.data = Len(x.mem), NEW e, e # "ok"
    PROVE  Reads(x, Flag(x, e)) /\ Flag(x, e).error # "ok" /\ Flag(x, e).src = x.src
<1>1. CASE x.error = "ok"
  <2> DEFINE m == SubSeq(x.mem, 1, x.data)
             y == [x EXCEPT !.error = e, !.mem = m]
  <2>1. x.mem \in Seq(B) /\ x.data \in 0..Len(x.mem) /\ Len(x.mem) \in Nat
    BY WindowTyped DEF Typed
  <2>2. m \in Seq(B) /\ Len(m) = x.data
    BY <2>1
  <2>3. y = Flag(x, e)
    BY <1>1 DEF Flag
  <2> HIDE DEF m
  <2>4. /\ DOMAIN y = DOMAIN x /\ y.mem = m /\ y.error = e /\ y.data = x.data /\ y.src = x.src
        /\ y.fills = x.fills
    BY DEF Typed
  <2> HIDE DEF y
  <2>5. Typed(y) /\ y.data = Len(y.mem)
    <3>1. y.mem \in Seq(B) /\ Len(y.mem) = x.data /\ x.data \in Nat /\ x.data <= Len(x.mem)
      BY <2>1, <2>2, <2>4
    <3>2. y.data \in 0..Len(y.mem) /\ y.data = Len(y.mem)
      BY <2>4, <3>1
    <3>3. y.fills => Len(y.mem) <= source.size /\ source.kind \in {"stream", "file"} /\ source.size > 0
      <4> DEFINE z == source.size
      <4>1. x.fills => Len(x.mem) <= z /\ source.kind \in {"stream", "file"} /\ z > 0
        BY DEF Typed
      <4>2. x.fills => z \in Nat
        BY DEF World
      <4> QED
        BY <2>1, <2>4, <3>1, <4>1, <4>2
    <3> QED
      BY <2>4, <3>1, <3>2, <3>3 DEF Typed
  <2> QED
    BY <2>3, <2>4, <2>5 DEF Reads, IsReader
<1>2. CASE x.error # "ok"
  BY <1>2 DEF Flag, Reads, IsReader
<1> QED
  BY <1>1, <1>2

LEMMA FlagReads ==
    ASSUME World, NEW x, IsReader(x), NEW e, e # "ok"
    PROVE  Reads(x, Flag(x, e)) /\ Flag(x, e).error # "ok"
BY Flagged DEF IsReader

\* The tracking keeps apart from what is read
LEMMA TrackReads ==
    ASSUME NEW x, IsReader(x), NEW s
    PROVE  LET y == Track(x, s) IN
           /\ Reads(x, y) /\ y.mem = x.mem /\ y.data = x.data /\ y.src = x.src /\ y.error = x.error
           /\ y.fills = x.fills /\ y.eof = x.eof /\ Left(y) = Left(x) /\ Position(y) = Position(x)
<1> DEFINE y == Track(x, s)
<1>1. /\ DOMAIN y = DOMAIN x /\ y.mem = x.mem /\ y.data = x.data /\ y.src = x.src /\ y.error = x.error
      /\ y.fills = x.fills /\ y.eof = x.eof
  BY DEF Track, IsReader, Typed
<1> HIDE DEF y
<1>2. Left(y) = Left(x) /\ Position(y) = Position(x) /\ Window(y) = Window(x)
  BY <1>1 DEF Left, Position, Window
<1>3. Reads(x, y)
  BY <1>1, <1>2 DEF Reads, IsReader, Typed
<1> QED
  BY <1>1, <1>2, <1>3 DEF y

LEMMA AdvanceReads ==
    ASSUME World, NEW x, IsReader(x), NEW n \in 0..Left(x)
    PROVE  /\ Reads(x, Advance(x, n))
           /\ Advance(x, n).mem = x.mem /\ Advance(x, n).error = x.error /\ Advance(x, n).src = x.src
           /\ Left(Advance(x, n)) = Left(x) - n
           /\ Advance(x, n).data = x.data + n /\ Advance(x, n).eof = x.eof
<1> DEFINE y == Advance(x, n)
<1>1. /\ DOMAIN y = DOMAIN x /\ y.mem = x.mem /\ y.data = x.data + n /\ y.src = x.src /\ y.error = x.error
      /\ y.fills = x.fills /\ y.eof = x.eof
  BY DEF Advance, IsReader, Typed
<1> HIDE DEF y
<1>2. /\ Left(x) \in Nat /\ Left(x) = Len(x.mem) - x.data /\ Len(x.mem) \in Nat /\ x.data \in Nat
      /\ x.mem \in Seq(B) /\ x.src \in Nat
  BY WindowTyped DEF IsReader
<1>3. Left(y) = Left(x) - n /\ y.data \in 0..Len(y.mem)
  BY <1>1, <1>2 DEF Left
<1>4. Typed(y)
  BY <1>1, <1>3 DEF Typed, IsReader
<1>5. ASSUME x.error = "ok" PROVE From(Window(y), y.src)
  <2> DEFINE w == Window(x)
  <2>1. From(w, x.src) /\ w \in Seq(B) /\ Len(w) = Left(x)
    BY <1>5, WindowTyped DEF IsReader
  <2>2. From(SubSeq(w, n + 1, Left(x)), x.src - (Len(w) - Left(x)))
    BY <1>2, <2>1, FromPart
  <2>3. x.src - (Len(w) - Left(x)) = x.src
    BY <1>2, <2>1
  <2>4. SubSeq(w, n + 1, Left(x)) = Window(y)
    <3> DEFINE d == x.data
               e == Len(x.mem)
    <3>1. d \in Nat /\ e \in Nat /\ d <= e /\ Left(x) = e - d /\ n \in 0..(e - d)
      BY <1>2
    <3>2. w = SubSeq(x.mem, d + 1, e) /\ Window(y) = SubSeq(x.mem, (d + n) + 1, e)
      BY <1>1 DEF Window
    <3> HIDE DEF d, e, w
    <3> DEFINE u == SubSeq(w, n + 1, e - d)
               v == SubSeq(x.mem, (d + n) + 1, e)
    <3>6. Len(x.mem) = e
      BY DEF e
    <3>3. w \in Seq(B) /\ Len(w) = e - d /\ \A k \in 1..(e - d) : w[k] = x.mem[d + k]
      BY <1>2, <3>1, <3>2, <3>6
    <3>4. u \in Seq(B) /\ Len(u) = (e - d) - n /\ \A k \in 1..((e - d) - n) : u[k] = x.mem[d + (n + k)]
      <4>1. u \in Seq(B) /\ Len(u) = (e - d) - n /\ \A k \in 1..((e - d) - n) : u[k] = w[n + k]
        BY <3>1, <3>3
      <4>2. \A k \in 1..((e - d) - n) : n + k \in 1..(e - d)
        BY <3>1
      <4> HIDE DEF u
      <4> QED
        BY <3>3, <4>1, <4>2
    <3>5. v \in Seq(B) /\ Len(v) = (e - d) - n /\ \A k \in 1..((e - d) - n) : v[k] = x.mem[(d + n) + k]
      BY <1>2, <3>1, <3>6
    <3>7. \A k \in 1..((e - d) - n) : d + (n + k) = (d + n) + k
      BY <3>1
    <3>8. \A k \in 1..((e - d) - n) : u[k] = v[k]
      <4> HIDE DEF u, v
      <4> QED
        BY <3>4, <3>5, <3>7
    <3>9. u = v
      <4> HIDE DEF u, v
      <4> QED
        BY <3>4, <3>5, <3>8
    <3>10. SubSeq(w, n + 1, Left(x)) = u
      BY <3>1
    <3>11. Window(y) = v
      BY <3>2
    <3> QED
      BY <3>9, <3>10, <3>11
  <2> QED
    BY <1>1, <2>2, <2>3, <2>4
<1>6. x.error # "ok" => y.data = Len(y.mem)
  BY <1>1, <1>2, <1>3 DEF IsReader
<1> QED
  BY <1>1, <1>3, <1>4, <1>5, <1>6 DEF Reads, IsReader, y

-----------------------------------------------------------------------------
(* The fill functions                                                       *)

LEMMA LeastOf ==
    ASSUME NEW a \in Int, NEW b \in Int, NEW C, C = {} \/ \E c \in Int : C = {c}
    PROVE  Least({a, b} \cup C) \in Int /\ Least({a, b} \cup C) <= a /\ Least({a, b} \cup C) <= b
<1> DEFINE S == {a, b} \cup C
<1>1. \E m \in S : \A n \in S : m <= n
  <2> DEFINE m == IF a <= b THEN a ELSE b
  <2>1. m \in Int /\ m <= a /\ m <= b /\ m \in S
    OBVIOUS
  <2>2. CASE C = {}
    BY <2>1, <2>2
  <2>3. CASE \E c \in Int : C = {c}
    <3>1. PICK c \in Int : C = {c}
      BY <2>3
    <3>2. CASE m <= c
      BY <2>1, <3>1, <3>2
    <3>3. CASE ~(m <= c)
      BY <2>1, <3>1, <3>3
    <3> QED
      BY <3>2, <3>3
  <2> QED
    BY <2>2, <2>3
<1>2. S \subseteq Int /\ a \in S /\ b \in S
  OBVIOUS
<1> HIDE DEF S
<1>3. Least(S) \in S /\ \A n \in S : Least(S) <= n
  BY <1>1, Zenon DEF Least
<1> QED
  BY <1>2, <1>3 DEF S

\* A reader of which nothing is left
Dead(x) == Typed(x) /\ x.error # "ok" /\ x.data = Len(x.mem)

\* y is x with more taken from the source
Took(x, y) ==
    /\ DOMAIN y = DOMAIN x /\ y.mem = x.mem /\ y.data = x.data /\ y.fills = x.fills
    /\ x.error = "ok" /\ y.error = "ok" /\ y.src \in Nat

LEMMA TookTyped ==
    ASSUME NEW x, NEW y, Typed(x), Took(x, y)
    PROVE  Typed(y)
BY DEF Took, Typed

LEMMA FillTakes ==
    ASSUME World, NEW x, Typed(x), x.error = "ok", NEW max \in Nat
    PROVE  LET f == Fill(x, max) IN
           \/ Dead(f.r) /\ f.r.fills = x.fills /\ f.v = << >>
           \/ /\ Took(x, f.r) /\ f.v \in Seq(B) /\ f.r.src = x.src + Len(f.v)
              /\ Len(f.v) \in 1..max /\ From(f.v, f.r.src)
<1> DEFINE others == IF source.kind = "file" THEN {} ELSE {source.chunk}
           n == Least({max, source.limit - x.src} \cup others)
           y == [x EXCEPT !.eof = source.kind = "file" /\ n < max]
           z == [y EXCEPT !.src = @ + n]
           v == SubSeq(stream, x.src + 1, x.src + n)
<1>1. Fill(x, max) = IF x.eof THEN Did(Flag(x, "eof"), << >>)
                     ELSE IF n <= 0 THEN Did(Flag(y, "io"), << >>) ELSE Did(z, v)
  BY Zenon DEF Fill
<1>2. x.src \in Nat /\ source.limit \in Nat /\ source.chunk \in Nat /\ source.limit <= Len(stream) /\ Len(stream) \in Nat
  BY DEF World, Typed
<1>3. n \in Int /\ n <= max /\ n <= source.limit - x.src
  <2>1. others = {} \/ \E c \in Int : others = {c}
    BY <1>2
  <2>2. source.limit - x.src \in Int /\ max \in Int
    BY <1>2
  <2> QED
    BY <2>1, <2>2, LeastOf
<1> HIDE DEF n
<1>4. DOMAIN y = DOMAIN x /\ y.mem = x.mem /\ y.data = x.data /\ y.fills = x.fills /\ y.error = "ok" /\ y.src = x.src
  BY DEF Typed
<1> HIDE DEF y
<1>5. Typed(y)
  BY <1>4 DEF Typed
<1>6. DOMAIN z = DOMAIN x /\ z.mem = x.mem /\ z.data = x.data /\ z.fills = x.fills /\ z.error = "ok" /\ z.src = x.src + n
  BY <1>4 DEF Typed
<1> HIDE DEF z
<1>7. ASSUME NEW u, Typed(u), u.error = "ok", u.fills = x.fills, NEW e, e # "ok", Fill(x, max) = Did(Flag(u, e), << >>)
      PROVE  LET f == Fill(x, max) IN Dead(f.r) /\ f.r.fills = x.fills /\ f.v = << >>
  <2>1. Reads(u, Flag(u, e)) /\ Flag(u, e).error # "ok"
    BY <1>7, Flagged
  <2>2. Dead(Flag(u, e)) /\ Flag(u, e).fills = x.fills
    BY <1>7, <2>1 DEF Reads, IsReader, Dead
  <2> QED
    BY <1>7, <2>2 DEF Did
<1>8. CASE x.eof
  <2>1. Fill(x, max) = Did(Flag(x, "eof"), << >>)
    BY <1>1, <1>8
  <2> QED
    BY <1>7, <2>1
<1>9. CASE ~x.eof /\ n <= 0
  <2>1. Fill(x, max) = Did(Flag(y, "io"), << >>)
    BY <1>1, <1>9
  <2> QED
    BY <1>4, <1>5, <1>7, <2>1
<1>10. CASE ~x.eof /\ ~(n <= 0)
  <2>1. Fill(x, max) = Did(z, v)
    BY <1>1, <1>10
  <2>2. n \in Nat /\ n \in 1..max /\ x.src + n \in Nat /\ x.src + n <= Len(stream)
    BY <1>2, <1>3, <1>10
  <2>3. v \in Seq(B) /\ Len(v) = n /\ From(v, x.src + n)
    <3>1. x.src <= x.src + n /\ (x.src + n) - x.src = n
      BY <1>2, <2>2
    <3> QED
      BY <1>2, <2>2, <3>1, FromStream
  <2>4. Took(x, z)
    BY <1>6, <2>2 DEF Took
  <2> HIDE DEF v
  <2> QED
    BY <1>6, <2>1, <2>2, <2>3, <2>4 DEF Did
<1> QED
  BY <1>8, <1>9, <1>10

\* What x was given so far, of max bytes at most
Fed(x, a, max) ==
    /\ a.v \in Seq(B)
    /\ a.r.error = "ok" => /\ Took(x, a.r) /\ From(a.v, a.r.src)
                           /\ a.r.src = x.src + Len(a.v) /\ Len(a.v) <= max
    /\ a.r.error # "ok" => Dead(a.r) /\ a.r.fills = x.fills

\* Of one round more, with at least one byte if it is not the end
LEMMA FedMore ==
    ASSUME World, NEW x, Typed(x), NEW min \in Nat, NEW max \in Nat, min <= max,
           NEW a, Fed(x, a, max), NEW k \in Nat, a.r.error = "ok" => Len(a.v) >= min \/ Len(a.v) >= k,
           NEW n
    PROVE  LET b == Make("fill", <<min, max>>, a, n) IN
           Fed(x, b, max) /\ (b.r.error = "ok" => Len(b.v) >= min \/ Len(b.v) >= k + 1)
<1> DEFINE b == Make("fill", <<min, max>>, a, n)
           f == Fill(a.r, max - Len(a.v))
<1>1. b = IF a.r.error # "ok" \/ Len(a.v) >= min THEN a ELSE Did(f.r, a.v \o f.v)
  BY DEF Make
<1>2. CASE a.r.error # "ok" \/ Len(a.v) >= min
  BY <1>1, <1>2
<1>3. CASE ~(a.r.error # "ok" \/ Len(a.v) >= min)
  <2> DEFINE m == Len(a.v)
  <2>1. m \in Nat /\ m <= max /\ max - m \in Nat /\ a.r.error = "ok" /\ a.v \in Seq(B) /\ m >= k /\ x.src \in Nat
        /\ Took(x, a.r) /\ From(a.v, a.r.src) /\ a.r.src = x.src + m /\ Typed(a.r)
    <3>1. a.v \in Seq(B) /\ m \in Nat /\ m <= max /\ a.r.error = "ok" /\ m >= k /\ x.src \in Nat
          /\ Took(x, a.r) /\ From(a.v, a.r.src) /\ a.r.src = x.src + m
      BY <1>3 DEF Fed, Typed
    <3>2. Typed(a.r)
      BY <3>1, TookTyped
    <3> QED
      BY <3>1, <3>2
  <2>2. b = Did(f.r, a.v \o f.v)
    BY <1>1, <1>3
  <2>3. \/ Dead(f.r) /\ f.r.fills = a.r.fills /\ f.v = << >>
        \/ /\ Took(a.r, f.r) /\ f.v \in Seq(B) /\ f.r.src = a.r.src + Len(f.v)
           /\ Len(f.v) \in 1..(max - m) /\ From(f.v, f.r.src)
    BY <2>1, FillTakes
  <2> HIDE DEF f, b
  <2>4. CASE Dead(f.r) /\ f.r.fills = a.r.fills /\ f.v = << >>
    <3>1. a.v \o f.v \in Seq(B)
      BY <2>1, <2>4
    <3>2. b.r = f.r /\ b.v = a.v \o f.v
      BY <2>2 DEF Did
    <3>3. b.r.error # "ok" /\ b.r.fills = x.fills /\ Dead(b.r)
      BY <2>1, <2>4, <3>2 DEF Dead, Took
    <3>4. Fed(x, b, max)
      BY <3>1, <3>2, <3>3 DEF Fed
    <3> QED
      BY <3>3, <3>4 DEF b
  <2>5. CASE /\ Took(a.r, f.r) /\ f.v \in Seq(B) /\ f.r.src = a.r.src + Len(f.v)
             /\ Len(f.v) \in 1..(max - m) /\ From(f.v, f.r.src)
    <3> DEFINE l == Len(f.v)
    <3>1. l \in Nat /\ l >= 1 /\ l <= max - m
      <4>1. l \in 1..(max - m) /\ max - m \in Nat
        BY <2>1, <2>5
      <4> HIDE DEF l
      <4> QED
        BY <4>1
    <3> DEFINE g == f.r.src
               h == a.r.src
    <3>10. h = x.src + m /\ x.src \in Nat /\ g = h + l
      BY <2>1, <2>5
    <3> HIDE DEF l, g, h, m
    <3>11. g \in Int /\ g - l = h
      BY <2>1, <3>1, <3>10
    <3> USE DEF l, m
    <3>2. f.r.src \in Int /\ f.r.src - l = a.r.src
      BY <3>11 DEF g, h
    <3>3. a.v \o f.v \in Seq(B) /\ From(a.v \o f.v, f.r.src)
      BY <2>1, <2>5, <3>2, FromJoin
    <3>4. Len(a.v \o f.v) = m + l
      BY <2>1, <2>5
    <3>5. Took(x, f.r)
      BY <2>1, <2>5 DEF Took
    <3> HIDE DEF l, m
    <3>12. m \in Nat /\ m >= k
      BY <2>1
    <3>13. m + l <= max /\ m + l >= k + 1 /\ g = x.src + (m + l)
      BY <3>1, <3>10, <3>12
    <3>6. m + l <= max /\ m + l >= k + 1 /\ f.r.src = x.src + (m + l)
      BY <3>13 DEF g
    <3>7. b.r = f.r /\ b.v = a.v \o f.v
      BY <2>2 DEF Did
    <3>8. f.r.error = "ok"
      BY <3>5 DEF Took
    <3>9. Fed(x, b, max)
      BY <3>3, <3>4, <3>5, <3>6, <3>7, <3>8 DEF Fed
    <3> QED
      BY <3>4, <3>6, <3>7, <3>9 DEF b
  <2> QED
    BY <2>3, <2>4, <2>5
<1> QED
  BY <1>2, <1>3

LEMMA FillRounds ==
    ASSUME NEW x, NEW min \in Nat, NEW max
    PROVE  \E f : /\ Chain("fill", <<min, max>>, Did(x, << >>), min, f)
                  /\ FillRange(x, min, max)
                        = Did(f[min].r, IF f[min].r.error = "ok" THEN f[min].v ELSE << >>)
<1> DEFINE body(a) == IF a.r.error # "ok" \/ Len(a.v) >= min THEN a
                      ELSE Did(Fill(a.r, max - Len(a.v)).r, a.v \o Fill(a.r, max - Len(a.v)).v)
           f == CHOOSE g : g = [n \in 0..min |-> IF n = 0 THEN Did(x, << >>) ELSE body(g[n - 1])]
           p == <<min, max>>
<1>1. FillRange(x, min, max) = Did(f[min].r, IF f[min].r.error = "ok" THEN f[min].v ELSE << >>)
  BY DEF FillRange
<1>2. \A a, n : Make("fill", p, a, n) = body(a)
  BY DEF Make
<1> HIDE DEF body, p
<1>3. \A g, n : (IF n = 0 THEN Did(x, << >>) ELSE Make("fill", p, g[n - 1], n))
                    = (IF n = 0 THEN Did(x, << >>) ELSE body(g[n - 1]))
  BY <1>2, Zenon
<1>4. \A g : Rounds("fill", p, Did(x, << >>), min, g)
                 <=> g = [n \in 0..min |-> IF n = 0 THEN Did(x, << >>) ELSE body(g[n - 1])]
  BY <1>3 DEF Rounds
<1>5. Rounds("fill", p, Did(x, << >>), min, f)
  BY <1>4, RoundsExist, Zenon
<1> HIDE DEF f
<1>6. Chain("fill", p, Did(x, << >>), min, f)
  BY <1>5, RoundsChain
<1> QED
  BY <1>1, <1>6 DEF p

LEMMA FillRangeGives ==
    ASSUME World, NEW x, Typed(x), x.error = "ok" \/ Dead(x),
           NEW min \in Nat, NEW max \in Nat, min <= max
    PROVE  LET f == FillRange(x, min, max) IN
           Fed(x, f, max) /\ (f.r.error = "ok" => Len(f.v) >= min)
<1> DEFINE start == Did(x, << >>)
           p == <<min, max>>
           Good(a, k) == Fed(x, a, max) /\ (a.r.error = "ok" => Len(a.v) >= min \/ Len(a.v) >= k)
<1>1. PICK g : /\ Chain("fill", p, start, min, g)
               /\ FillRange(x, min, max) = Did(g[min].r, IF g[min].r.error = "ok" THEN g[min].v ELSE << >>)
  BY FillRounds
<1>2. g[0] = start /\ \A n \in 1..min : g[n] = Make("fill", p, g[n - 1], n)
  BY <1>1 DEF Chain
<1>3. Good(start, 0)
  <2>1. x.error = "ok" => Took(x, x) /\ x.src \in Nat
    BY DEF Took, Typed
  <2>2. << >> \in Seq(B) /\ Len(<< >>) = 0
    OBVIOUS
  <2>3. x.src \in Nat => x.src = x.src + 0
    OBVIOUS
  <2>4. start.r = x /\ start.v = << >>
    BY DEF Did
  <2>5. From(<< >>, x.src)
    BY FromNothing
  <2> HIDE DEF start
  <2>6. Fed(x, start, max)
    <3>1. ASSUME x.error = "ok"
          PROVE  Took(x, start.r) /\ From(start.v, start.r.src) /\ start.r.src = x.src + Len(start.v) /\ Len(start.v) <= max
      BY <2>1, <2>2, <2>3, <2>4, <2>5, <3>1
    <3> QED
      BY <2>2, <2>4, <3>1 DEF Fed
  <2>7. Len(start.v) >= 0
    BY <2>2, <2>4
  <2> QED
    BY <2>6, <2>7
<1>4. ASSUME NEW n \in 1..min, Good(g[n - 1], n - 1) PROVE Good(g[n], n)
  <2>1. n - 1 \in Nat /\ (n - 1) + 1 = n
    OBVIOUS
  <2>2. g[n] = Make("fill", p, g[n - 1], n)
    BY <1>2
  <2> QED
    BY <1>4, <2>1, <2>2, FedMore
<1> DEFINE S == {n \in 0..min : ~Good(g[n], n)}
<1>5. S = {}
  <2> HIDE DEF Good, start, p
  <2> SUFFICES ASSUME S # {} PROVE FALSE
    OBVIOUS
  <2>1. S \subseteq Nat
    OBVIOUS
  <2>2. PICK n \in S : \A m \in S : n <= m
    BY <2>1, LeastNatural
  <2>3. n \in 0..min /\ ~Good(g[n], n)
    OBVIOUS
  <2>4. n # 0
    BY <1>2, <1>3, <2>3
  <2>5. n \in 1..min /\ n - 1 \in 0..min /\ ~(n <= n - 1)
    BY <2>3, <2>4
  <2>6. Good(g[n - 1], n - 1)
    BY <2>2, <2>5
  <2> QED
    BY <1>4, <2>3, <2>5, <2>6
<1>6. Good(g[min], min)
  <2> HIDE DEF Good
  <2>1. min \in 0..min
    OBVIOUS
  <2> QED
    BY <1>5, <2>1
<1> DEFINE f == FillRange(x, min, max)
<1>7. f.r = g[min].r /\ (f.r.error = "ok" => f.v = g[min].v) /\ (f.r.error # "ok" => f.v = << >>)
  BY <1>1 DEF Did
<1>8. << >> \in Seq(B)
  OBVIOUS
<1> HIDE DEF f
<1>9. Fed(x, f, max) /\ (f.r.error = "ok" => Len(f.v) >= min)
  BY <1>6, <1>7, <1>8 DEF Fed
<1> QED
  BY <1>9 DEF f

-----------------------------------------------------------------------------
(* Reading through the buffer                                               *)

\* Nothing of a sequence is cut off
LEMMA SubSeqWhole ==
    ASSUME NEW v \in Seq(B)
    PROVE  SubSeq(v, 1, Len(v)) = v
<1> DEFINE w == SubSeq(v, 1, Len(v))
<1>1. w \in Seq(B) /\ Len(w) = Len(v) /\ \A k \in 1..Len(v) : w[k] = v[k]
  OBVIOUS
<1> HIDE DEF w
<1>2. w = v
  BY <1>1
<1> QED
  BY <1>2 DEF w

\* A part of a sequence, byte by byte
LEMMA SubSeqIs ==
    ASSUME NEW v \in Seq(B), NEW a \in Nat, NEW b \in Nat, a <= b, b <= Len(v)
    PROVE  /\ SubSeq(v, a + 1, b) \in Seq(B)
           /\ Len(SubSeq(v, a + 1, b)) = b - a
           /\ \A k \in 1..(b - a) : SubSeq(v, a + 1, b)[k] = v[a + k]
OBVIOUS

LEMMA Joined ==
    ASSUME NEW u \in Seq(B), NEW v \in Seq(B)
    PROVE  u \o v \in Seq(B) /\ Len(u \o v) = Len(u) + Len(v)
OBVIOUS

LEMMA DeadReads ==
    ASSUME NEW x, NEW y, Dead(y), y.fills = x.fills, x.fills
    PROVE  Reads(x, y)
BY DEF Dead, Reads, IsReader

LEMMA EnsureReads ==
    ASSUME World, NEW x, IsReader(x), NEW n \in Nat
    PROVE  LET y == Ensure(x, n) IN
           Reads(x, y) /\ (y.error = "ok" => n <= Left(y) /\ Position(y) = Position(x))
<1> DEFINE y == Ensure(x, n)
           l == Left(x)
           z == source.size
           moved == [x EXCEPT !.mem = Window(x), !.data = 0]
           f == FillRange(moved, n - l, z - l)
<1>1. /\ l \in Nat /\ Len(x.mem) \in Nat /\ l <= Len(x.mem) /\ x.src \in Nat /\ z \in Nat
      /\ Window(x) \in Seq(B) /\ Len(Window(x)) = l
  BY WindowTyped DEF IsReader, World
<1>2. y = IF n <= l THEN x
          ELSE IF ~x.fills THEN Flag(x, "invalid")
          ELSE IF n > z THEN Flag(x, "too_big")
          ELSE IF f.r.error = "ok" THEN [f.r EXCEPT !.mem = @ \o f.v] ELSE f.r
  BY Zenon DEF Ensure
<1> HIDE DEF y
<1>3. CASE n <= l
  <2>1. y = x
    BY <1>2, <1>3
  <2>2. Reads(x, y) /\ n <= Left(y) /\ Position(y) = Position(x)
    BY <1>3, <2>1, ReadsSelf
  <2> QED
    BY <2>2 DEF y
<1>4. CASE ~(n <= l) /\ (~x.fills \/ n > z)
  <2>1. y = Flag(x, "invalid") \/ y = Flag(x, "too_big")
    BY <1>2, <1>4
  <2>2. Reads(x, y) /\ y.error # "ok"
    BY <2>1, FlagReads
  <2> QED
    BY <2>2 DEF y
<1>5. CASE ~(n <= l) /\ ~(~x.fills \/ n > z)
  <2>1. n - l \in Nat /\ z - l \in Nat /\ n - l <= z - l /\ n - l >= 1 /\ x.fills
    BY <1>1, <1>5
  <2>2. /\ DOMAIN moved = DOMAIN x /\ moved.mem = Window(x) /\ moved.data = 0 /\ moved.src = x.src
        /\ moved.error = x.error /\ moved.fills = x.fills
    BY DEF IsReader, Typed
  <2> HIDE DEF moved
  <2>3. Typed(moved) /\ (moved.error = "ok" \/ Dead(moved))
    <3>1. Len(moved.mem) = l /\ l <= z /\ source.kind \in {"stream", "file"} /\ z > 0
      BY <1>1, <2>1, <2>2 DEF IsReader, Typed
    <3>2. Typed(moved)
      BY <1>1, <2>2, <3>1 DEF IsReader, Typed
    <3>3. ASSUME moved.error # "ok" PROVE moved.data = Len(moved.mem)
      <4>1. x.data = Len(x.mem)
        BY <2>2, <3>3 DEF IsReader
      <4>2. l = 0
        BY <1>1, <4>1 DEF Left
      <4> QED
        BY <2>2, <3>1, <4>2
    <3> QED
      BY <3>2, <3>3 DEF Dead
  <2>4. Fed(moved, f, z - l) /\ (f.r.error = "ok" => Len(f.v) >= n - l)
    BY <2>1, <2>3, FillRangeGives
  <2>5. y = IF f.r.error = "ok" THEN [f.r EXCEPT !.mem = @ \o f.v] ELSE f.r
    BY <1>2, <1>5
  <2> HIDE DEF f
  <2>6. CASE f.r.error = "ok"
    <3> DEFINE m == Len(f.v)
               u == Window(x)
               t == f.r.src
    <3>1. Took(moved, f.r) /\ From(f.v, t) /\ t = x.src + m /\ m \in Nat /\ m <= z - l /\ m >= n - l /\ f.v \in Seq(B)
      BY <2>2, <2>4, <2>6 DEF Fed
    <3>2. /\ DOMAIN y = DOMAIN x /\ y.mem = u \o f.v /\ y.data = 0 /\ y.src = t /\ y.fills = x.fills /\ y.error = "ok"
      BY <2>2, <2>5, <2>6, <3>1 DEF Took, IsReader, Typed
    <3>3. x.error = "ok"
      BY <2>2, <3>1 DEF Took
    <3>4. From(u, x.src)
      BY <3>3 DEF IsReader
    <3>5. t \in Nat /\ t - m = x.src /\ l + m <= z /\ n <= l + m /\ t - (l + m) = x.src - l
      <4> HIDE DEF t, m, l, z
      <4> QED
        BY <1>1, <3>1
    <3>14. u \in Seq(B) /\ Len(u) = l
      BY <1>1
    <3>6. u \o f.v \in Seq(B) /\ From(u \o f.v, t)
      <4>1. From(u, t - m) /\ t \in Int
        BY <3>4, <3>5
      <4>2. From(f.v, t) /\ f.v \in Seq(B)
        BY <3>1
      <4> HIDE DEF u, t
      <4> QED
        BY <3>14, <4>1, <4>2, FromJoin, Zenon
    <3>7. Len(u \o f.v) = l + m
      <4>1. f.v \in Seq(B)
        BY <3>1
      <4> HIDE DEF u
      <4>2. Len(u \o f.v) = Len(u) + Len(f.v)
        BY <3>14, <4>1, Joined
      <4> QED
        BY <3>14, <4>2
    <3> HIDE DEF u, t, m
    <3>8. Window(y) = y.mem /\ Left(y) = l + m
      <4>1. y.mem \in Seq(B) /\ Len(y.mem) = l + m /\ l + m \in Nat
        BY <1>1, <3>1, <3>2, <3>6, <3>7
      <4>2. y.data + 1 = 1 /\ (l + m) - 0 = l + m
        BY <3>2, <4>1
      <4> QED
        BY <3>2, <4>1, <4>2, SubSeqWhole DEF Window, Left
    <3>9. y.mem \in Seq(B) /\ y.data \in 0..Len(y.mem)
      <4>1. Len(y.mem) \in Nat
        BY <3>2, <3>6
      <4> QED
        BY <3>2, <3>6, <4>1
    <3>10. Typed(y)
      BY <1>5, <3>2, <3>5, <3>7, <3>9 DEF IsReader, Typed
    <3>11. IsReader(y)
      BY <3>2, <3>6, <3>8, <3>10 DEF IsReader
    <3>12. Position(y) = Position(x)
      BY <3>2, <3>5, <3>8 DEF Position
    <3>13. Reads(x, y) /\ n <= Left(y)
      BY <3>2, <3>5, <3>8, <3>11, <2>1 DEF Reads
    <3> QED
      BY <3>12, <3>13 DEF y
  <2>7. CASE f.r.error # "ok"
    <3>1. y = f.r /\ Dead(y) /\ y.fills = x.fills
      BY <2>2, <2>4, <2>5, <2>7 DEF Fed
    <3>2. Reads(x, y) /\ y.error # "ok"
      BY <2>1, <3>1, DeadReads DEF Dead
    <3> QED
      BY <3>2 DEF y
  <2> QED
    BY <2>6, <2>7
<1> QED
  BY <1>3, <1>4, <1>5

LEMMA ZerosTyped ==
    ASSUME NEW n \in Nat
    PROVE  Zeros(n) \in Seq(B)
<1>1. Undefined \in B
  BY DEF Undefined, B
<1>2. [k \in 1..n |-> Undefined] \in Seq(B)
  BY <1>1
<1> QED
  BY <1>2 DEF Zeros

\* The bytes in the buffer
LEMMA TakeGives ==
    ASSUME World, NEW x, IsReader(x), NEW n \in 0..Left(x)
    PROVE  Gives(x, Did(Advance(x, n), SubSeq(x.mem, x.data + 1, x.data + n)))
<1> DEFINE y == Advance(x, n)
           v == SubSeq(x.mem, x.data + 1, x.data + n)
           d == Did(y, v)
<1>1. /\ Left(x) \in Nat /\ Left(x) = Len(x.mem) - x.data /\ Len(x.mem) \in Nat /\ x.data \in Nat
      /\ x.mem \in Seq(B) /\ x.src \in Nat /\ Window(x) \in Seq(B) /\ Len(Window(x)) = Left(x)
  BY WindowTyped DEF IsReader
<1>2. Reads(x, y) /\ y.error = x.error /\ y.src = x.src /\ Left(y) = Left(x) - n
  BY AdvanceReads
<1>3. v \in Seq(B)
  BY <1>1
<1>4. ASSUME x.error = "ok" PROVE From(v, Position(y))
  <2> DEFINE w == Window(x)
             l == Left(x)
  <2>1. From(w, x.src)
    BY <1>4 DEF IsReader
  <2>2. From(SubSeq(w, 0 + 1, n), x.src - (l - n))
    <3>1. n \in Nat /\ n <= Len(w) /\ l = Len(w) /\ w \in Seq(B) /\ x.src \in Int /\ 0 \in Nat
      <4>1. w \in Seq(B) /\ l = Len(w) /\ x.src \in Int
        BY <1>1
      <4>2. n \in Nat /\ n <= l
        BY <1>1
      <4> QED
        BY <4>1, <4>2
    <3> HIDE DEF w, l
    <3>2. From(SubSeq(w, 0 + 1, n), x.src - (Len(w) - n))
      BY <2>1, <3>1, FromPart, Zenon
    <3> QED
      BY <3>1, <3>2
  <2>3. Position(y) = x.src - (l - n)
    BY <1>1, <1>2 DEF Position
  <2>4. SubSeq(w, 0 + 1, n) = v
    <3> DEFINE mem == x.mem
               a == x.data
               e == Len(mem)
               u == SubSeq(w, 0 + 1, n)
    <3>1. mem \in Seq(B) /\ a \in Nat /\ e \in Nat /\ a <= e /\ l = e - a /\ n \in Nat /\ n <= e - a
      BY <1>1
    <3>2. w = SubSeq(mem, a + 1, e) /\ v = SubSeq(mem, a + 1, a + n)
      BY DEF Window
    <3> HIDE DEF mem, a, w, v, l, u
    <3>3. w \in Seq(B) /\ Len(w) = e - a /\ \A k \in 1..(e - a) : w[k] = mem[a + k]
      BY <3>1, <3>2, SubSeqIs
    <3>4. v \in Seq(B) /\ Len(v) = n /\ \A k \in 1..n : v[k] = mem[a + k]
      <4>1. a + n \in Nat /\ a <= a + n /\ a + n <= e /\ (a + n) - a = n
        BY <3>1
      <4> HIDE DEF e
      <4>2. a + n <= Len(mem)
        BY <4>1 DEF e
      <4> QED
        BY <3>1, <3>2, <4>1, <4>2, SubSeqIs
    <3>5. u \in Seq(B) /\ Len(u) = n /\ \A k \in 1..n : u[k] = w[k]
      <4>1. n <= Len(w) /\ 0 \in Nat /\ 0 <= n /\ n - 0 = n /\ \A k \in 1..n : 0 + k = k
        BY <3>1, <3>3
      <4> QED
        BY <3>1, <3>3, <4>1, SubSeqIs DEF u
    <3> HIDE DEF e
    <3>6. \A k \in 1..n : k \in 1..(e - a)
      BY <3>1
    <3>7. \A k \in 1..n : u[k] = v[k]
      BY <3>3, <3>4, <3>5, <3>6
    <3>8. u = v
      BY <3>4, <3>5, <3>7
    <3> QED
      BY <3>8 DEF u
  <2> QED
    BY <2>2, <2>3, <2>4
<1>5. d.r = y /\ d.v = v
  BY DEF Did
<1> HIDE DEF y, v, d
<1>6. Gives(x, d)
  BY <1>2, <1>3, <1>4, <1>5 DEF Gives
<1> QED
  BY <1>6 DEF d, y, v

LEMMA ReadStraddleGives ==
    ASSUME World, NEW x, IsReader(x), NEW n \in Nat, n > Left(x)
    PROVE  Gives(x, ReadStraddle(x, n))
<1> DEFINE d == ReadStraddle(x, n)
           l == Left(x)
           z == source.size
           rest == n - l
           max == IF rest <= z \div SmallFraction THEN z ELSE rest
           a == Advance(x, l)
           f == FillRange(a, rest, max)
<1>1. Zeros(n) \in Seq(B)
  BY ZerosTyped
<1>2. ASSUME NEW y, Reads(x, y), y.error # "ok", d = Did(y, Zeros(n)) PROVE Gives(x, d)
  <2>1. d.r = y /\ d.v = Zeros(n)
    BY <1>2 DEF Did
  <2> HIDE DEF d
  <2> QED
    BY <1>1, <1>2, <2>1 DEF Gives
<1>3. CASE x.error # "ok"
  <2>1. d = Did(x, Zeros(n))
    BY <1>3 DEF ReadStraddle
  <2> QED
    BY <1>2, <1>3, <2>1, ReadsSelf
<1>4. CASE x.error = "ok" /\ ~x.fills
  <2>1. d = Did(Flag(x, "invalid"), Zeros(n))
    BY <1>4 DEF ReadStraddle
  <2> QED
    BY <1>2, <2>1, FlagReads
<1>5. CASE x.error = "ok" /\ x.fills
  <2>1. d = IF f.r.error # "ok" THEN Did(f.r, Zeros(n))
            ELSE Did(IF rest <= z \div SmallFraction THEN [f.r EXCEPT !.mem = f.v, !.data = rest] ELSE f.r,
                     Window(x) \o SubSeq(f.v, 1, rest))
    BY <1>5, Zenon DEF ReadStraddle, Straddled
  <2>2. /\ l \in Nat /\ Window(x) \in Seq(B) /\ Len(Window(x)) = l /\ x.src \in Nat /\ z \in Nat /\ z > 0
        /\ From(Window(x), x.src)
    BY <1>5, WindowTyped DEF IsReader, World, Typed
  <2>3. rest \in Nat /\ rest >= 1
    BY <2>2
  <2>4. max \in Nat /\ rest <= max /\ (rest <= z \div SmallFraction => max = z) /\ (~(rest <= z \div SmallFraction) => max = rest)
    <3>1. z \div SmallFraction \in Nat /\ z \div SmallFraction <= z
      <4>1. SmallFraction \in Nat /\ SmallFraction > 0
        BY ReadersAssumption
      <4> HIDE DEF z
      <4> QED
        BY <2>2, <4>1
    <3> HIDE DEF z, rest
    <3> QED
      BY <2>2, <2>3, <3>1
  <2>5. l \in 0..l
    BY <2>2
  <2>6. Reads(x, a) /\ a.mem = x.mem /\ a.error = x.error /\ a.src = x.src /\ Left(a) = 0
    BY <2>2, <2>5, AdvanceReads
  <2>7. IsReader(a) /\ Typed(a) /\ a.error = "ok" /\ a.fills /\ a.data = Len(a.mem)
    <3>1. IsReader(a) /\ Typed(a) /\ a.error = "ok" /\ a.fills
      BY <1>5, <2>6 DEF Reads, IsReader
    <3>2. a.data = Len(a.mem)
      BY <2>6, <3>1, WindowTyped
    <3> QED
      BY <3>1, <3>2
  <2> HIDE DEF a, max
  <2>8. Fed(a, f, max) /\ (f.r.error = "ok" => Len(f.v) >= rest)
    BY <2>3, <2>4, <2>7, FillRangeGives
  <2> HIDE DEF f, d
  <2>9. CASE f.r.error # "ok"
    <3>1. Dead(f.r) /\ f.r.fills = x.fills
      BY <2>7, <2>8, <2>9, <1>5 DEF Fed
    <3>2. Reads(x, f.r)
      BY <1>5, <3>1, DeadReads
    <3> QED
      BY <1>2, <2>1, <2>9, <3>2 DEF d
  <2>10. CASE f.r.error = "ok"
    <3> DEFINE y == IF rest <= z \div SmallFraction THEN [f.r EXCEPT !.mem = f.v, !.data = rest] ELSE f.r
               m == Len(f.v)
               t == f.r.src
               part == SubSeq(f.v, 1, rest)
               v == Window(x) \o part
    <3>1. Took(a, f.r) /\ From(f.v, t) /\ t = x.src + m /\ m \in Nat /\ m <= max /\ m >= rest /\ f.v \in Seq(B)
      BY <2>6, <2>8, <2>10 DEF Fed
    <3>2. t \in Nat /\ t = x.src + m /\ x.src \in Nat
      BY <2>2, <3>1 DEF Took
    <3>3. d.r = y /\ d.v = v
      BY <2>1, <2>10 DEF Did
    <3>4. /\ DOMAIN y = DOMAIN x /\ y.fills = x.fills /\ y.error = "ok" /\ y.src = t
          /\ rest <= z \div SmallFraction => y.mem = f.v /\ y.data = rest
          /\ ~(rest <= z \div SmallFraction) => y.mem = a.mem /\ y.data = a.data
      <4>1. DOMAIN f.r = DOMAIN x /\ f.r.fills = x.fills /\ f.r.error = "ok" /\ f.r.mem = a.mem /\ f.r.data = a.data
            /\ DOMAIN x = {"mem", "data", "src", "eof", "fills", "error", "track"}
        BY <1>5, <2>7, <3>1 DEF Took, IsReader, Typed
      <4> HIDE DEF rest, z
      <4> QED
        BY <4>1
    <3> HIDE DEF y
    <3>5. part \in Seq(B) /\ Len(part) = rest /\ From(part, t - (m - rest))
      <4>1. 0 + 1 = 1 /\ 0 \in Nat /\ 0 <= rest /\ rest - 0 = rest /\ t \in Int
        BY <2>3, <3>2
      <4> HIDE DEF t, rest
      <4> QED
        BY <2>3, <3>1, <4>1, FromPart
    <3>6. (t - (m - rest)) - rest = x.src /\ (t - (m - rest)) \in Int
      <4> HIDE DEF t, m, rest
      <4> QED
        BY <2>3, <3>1, <3>2
    <3> HIDE DEF part
    <3>7. v \in Seq(B) /\ From(v, t - (m - rest))
      <4> DEFINE p == t - (m - rest)
                 u == Window(x)
      <4>1. From(u, p - Len(part)) /\ From(part, p) /\ u \in Seq(B) /\ p \in Int
        BY <2>2, <3>5, <3>6
      <4> HIDE DEF u, p
      <4>2. u \o part \in Seq(B) /\ From(u \o part, p)
        BY <3>5, <4>1, FromJoin
      <4> QED
        BY <4>2 DEF u, p
    <3> HIDE DEF v
    <3>8. IsReader(y) /\ Position(y) = t - (m - rest)
      <4>1. CASE rest <= z \div SmallFraction
        <5>1. y.mem = f.v /\ y.data = rest /\ m <= z
          BY <2>4, <3>1, <3>4, <4>1
        <5>2. Typed(y)
          <6>1. y.data \in 0..Len(y.mem) /\ y.mem \in Seq(B) /\ Len(y.mem) <= z
            <7> HIDE DEF rest, z
            <7> QED
              BY <2>3, <3>1, <5>1
          <6> QED
            BY <1>5, <3>2, <3>4, <6>1 DEF Typed, IsReader
        <5>3. Window(y) = SubSeq(f.v, rest + 1, m) /\ Left(y) = m - rest
          BY <5>1 DEF Window, Left
        <5>4. From(SubSeq(f.v, rest + 1, m), t - (m - m))
          <6> HIDE DEF rest, t
          <6>1. t \in Int /\ m <= Len(f.v)
            BY <3>1, <3>2
          <6> QED
            BY <2>3, <3>1, <6>1, FromPart
        <5>5. t - (m - m) = t
          <6> HIDE DEF t, m
          <6> QED
            BY <3>1, <3>2
        <5>6. From(Window(y), y.src)
          BY <3>4, <5>3, <5>4, <5>5
        <5>7. Position(y) = t - (m - rest)
          BY <3>4, <5>3 DEF Position
        <5> QED
          BY <3>4, <5>2, <5>6, <5>7 DEF IsReader
      <4>2. CASE ~(rest <= z \div SmallFraction)
        <5>1. y.mem = a.mem /\ y.data = a.data /\ m = rest
          <6>1. y.mem = a.mem /\ y.data = a.data /\ max = rest
            BY <2>4, <3>4, <4>2
          <6> HIDE DEF rest
          <6> QED
            BY <2>3, <3>1, <6>1
        <5>2. Typed(y)
          BY <1>5, <2>7, <3>2, <3>4, <5>1 DEF Typed, IsReader
        <5>3. Left(y) = 0
          BY <2>6, <5>1 DEF Left
        <5>4. Window(y) \in Seq(B) /\ Len(Window(y)) = 0
          BY <5>2, <5>3, WindowTyped
        <5>5. From(Window(y), y.src)
          BY <5>4 DEF From
        <5>6. Position(y) = t - (m - rest)
          <6>1. Position(y) = t - 0
            BY <3>4, <5>3 DEF Position
          <6> HIDE DEF rest, m, t
          <6> QED
            BY <2>3, <3>1, <3>2, <5>1, <6>1
        <5> QED
          BY <3>4, <5>2, <5>5, <5>6 DEF IsReader
      <4> QED
        BY <4>1, <4>2
    <3>9. Reads(x, y)
      BY <1>5, <3>4, <3>8 DEF Reads
    <3> QED
      BY <3>3, <3>7, <3>8, <3>9 DEF Gives, d
  <2> QED
    BY <2>9, <2>10
<1> QED
  BY <1>3, <1>4, <1>5

LEMMA ReadNativeGives ==
    ASSUME World, NEW x, IsReader(x), NEW n \in Nat
    PROVE  Gives(x, ReadNative(x, n))
<1>1. Left(x) \in Nat
  BY WindowTyped DEF IsReader
<1>2. CASE n <= Left(x)
  <2>1. n \in 0..Left(x)
    BY <1>1, <1>2
  <2> QED
    BY <1>2, <2>1, TakeGives DEF ReadNative
<1>3. CASE ~(n <= Left(x))
  <2>1. n > Left(x)
    BY <1>1, <1>3
  <2> QED
    BY <1>3, <2>1, ReadStraddleGives DEF ReadNative
<1> QED
  BY <1>2, <1>3

LEMMA InplaceGives ==
    ASSUME World, NEW x, IsReader(x), NEW n \in Nat
    PROVE  Gives(x, Inplace(x, n))
<1> DEFINE y == Ensure(x, n)
           Take(u) == IF u.error # "ok" THEN Did(u, << >>)
                      ELSE Did(Advance(u, n), SubSeq(u.mem, u.data + 1, u.data + n))
<1>1. Inplace(x, n) = IF x.error # "ok" THEN Did(x, << >>) ELSE Take(y)
  BY Zenon DEF Inplace
<1>2. << >> \in Seq(B)
  OBVIOUS
<1>3. ASSUME NEW u, Reads(x, u), u.error # "ok" PROVE Gives(x, Did(u, << >>))
  BY <1>2, <1>3 DEF Gives, Did
<1>4. CASE x.error # "ok"
  BY <1>1, <1>3, <1>4, ReadsSelf
<1>5. CASE x.error = "ok"
  <2>1. Reads(x, y) /\ (y.error = "ok" => n <= Left(y))
    BY EnsureReads
  <2>2. Inplace(x, n) = Take(y)
    BY <1>1, <1>5
  <2> HIDE DEF y
  <2>3. CASE y.error # "ok"
    BY <1>3, <2>1, <2>2, <2>3
  <2>4. CASE y.error = "ok"
    <3>1. IsReader(y) /\ Left(y) \in Nat
      BY <2>1, WindowTyped DEF Reads, IsReader
    <3>2. n \in 0..Left(y)
      BY <2>1, <2>4, <3>1
    <3>3. Gives(y, Take(y))
      BY <2>4, <3>1, <3>2, TakeGives
    <3> HIDE DEF Take
    <3> QED
      BY <2>1, <2>2, <3>3, ReadsThen DEF Gives
  <2> QED
    BY <2>3, <2>4
<1> QED
  BY <1>4, <1>5

\* A reader with nothing left in the buffer
LEMMA Emptied ==
    ASSUME NEW x, Typed(x), x.data = Len(x.mem)
    PROVE  IsReader(x) /\ Left(x) = 0
<1>1. Left(x) = 0
  BY WindowTyped
<1>2. Window(x) \in Seq(B) /\ Len(Window(x)) = 0
  BY <1>1, WindowTyped
<1>3. From(Window(x), x.src)
  BY <1>2 DEF From
<1> QED
  BY <1>1, <1>3 DEF IsReader

-----------------------------------------------------------------------------
(* Skipping                                                                 *)

LEMMA Remainder ==
    ASSUME NEW n \in Nat, n >= 1, NEW z \in Nat, z > 0
    PROVE  /\ (n - 1) \div z \in Nat
           /\ n - (((n - 1) \div z) * z) \in 1..z
<1> DEFINE m == n - 1
           q == m \div z
           e == m % z
<1>1. m \in Nat
  OBVIOUS
<1>2. q \in Nat /\ e \in 0..(z - 1) /\ m = z * q + e
  <2> HIDE DEF m
  <2> QED
    BY <1>1
<1>3. q * z = z * q /\ z * q \in Nat
  <2> HIDE DEF q
  <2> QED
    BY <1>2
<1> HIDE DEF q, e
<1> DEFINE y == z * q
<1>4. m = y + e /\ y \in Nat
  BY <1>2, <1>3
<1> HIDE DEF y
<1>5. n - y \in 1..z
  BY <1>2, <1>4
<1>6. n - (q * z) \in 1..z
  BY <1>3, <1>5 DEF y
<1> QED
  BY <1>2, <1>6 DEF q

\* Nothing of it is left, and there is more where it came from
Drained(x, y) == IsReader(y) /\ y.data = Len(y.mem) /\ y.fills = x.fills

\* What comes next may be dropped
LEMMA DropDrains ==
    ASSUME World, NEW x, x.fills, Drained(x, x), NEW y, Drained(x, y), NEW p, NEW n
    PROVE  Drained(x, Make("drop", p, y, n))
<1> DEFINE z == source.size
           f == FillRange(y, z, z)
           m == Make("drop", p, y, n)
<1>1. m = IF y.error # "ok" THEN y ELSE f.r
  BY DEF Make
<1>2. CASE y.error # "ok"
  BY <1>1, <1>2
<1>3. CASE y.error = "ok"
  <2>1. z \in Nat /\ z <= z /\ Typed(y)
    BY DEF World, Drained, IsReader
  <2>2. Fed(y, f, z)
    BY <1>3, <2>1, FillRangeGives
  <2>3. m = f.r
    BY <1>1, <1>3
  <2> HIDE DEF f, m
  <2>4. CASE f.r.error = "ok"
    <3>1. Took(y, f.r)
      BY <2>2, <2>4 DEF Fed
    <3>2. Typed(f.r) /\ f.r.data = Len(f.r.mem) /\ f.r.fills = x.fills
      BY <2>1, <3>1, TookTyped DEF Took, Drained
    <3> QED
      BY <2>3, <3>2, Emptied DEF Drained, m
  <2>5. CASE f.r.error # "ok"
    <3>1. Dead(f.r) /\ f.r.fills = x.fills
      BY <2>2, <2>5 DEF Fed, Drained
    <3>2. Typed(f.r) /\ f.r.data = Len(f.r.mem)
      BY <3>1 DEF Dead
    <3> QED
      BY <2>3, <3>1, <3>2, Emptied DEF Drained, m
  <2> QED
    BY <2>4, <2>5
<1> QED
  BY <1>2, <1>3

\* What remains of n bytes comes with as much more as fits
Finished(y, rest) ==
    LET f == FillRange([y EXCEPT !.mem = << >>, !.data = 0], rest, source.size) IN
    IF y.error # "ok" THEN y ELSE IF f.r.error # "ok" THEN f.r ELSE [f.r EXCEPT !.mem = f.v, !.data = rest]

LEMMA SkipRounds ==
    ASSUME NEW x, NEW n, (n - 1) \div source.size \in Nat
    PROVE  \E g : /\ Chain("drop", 0, x, (n - 1) \div source.size, g)
                  /\ SkipUsingFill(x, n) = Finished(g[(n - 1) \div source.size],
                                                    n - (((n - 1) \div source.size) * source.size))
<1> DEFINE body(a) == IF a.error # "ok" THEN a ELSE FillRange(a, source.size, source.size).r
           whole == (n - 1) \div source.size
           rest == n - (whole * source.size)
           g == CHOOSE h : h = [i \in 0..whole |-> IF i = 0 THEN x ELSE body(h[i - 1])]
<1>1. SkipUsingFill(x, n) = Finished(g[whole], rest)
  BY DEF SkipUsingFill, Finished
<1>2. \A a, i : Make("drop", 0, a, i) = body(a)
  BY DEF Make
<1>7. whole \in Nat
  OBVIOUS
<1> HIDE DEF body, whole
<1>3. \A h, i : (IF i = 0 THEN x ELSE Make("drop", 0, h[i - 1], i)) = (IF i = 0 THEN x ELSE body(h[i - 1]))
  BY <1>2, Zenon
<1>4. \A h : Rounds("drop", 0, x, whole, h) <=> h = [i \in 0..whole |-> IF i = 0 THEN x ELSE body(h[i - 1])]
  BY <1>3 DEF Rounds
<1>5. Rounds("drop", 0, x, whole, g)
  BY <1>4, <1>7, RoundsExist, Zenon
<1> HIDE DEF g
<1>6. Chain("drop", 0, x, whole, g)
  BY <1>5, <1>7, RoundsChain
<1> QED
  BY <1>1, <1>6 DEF whole

LEMMA SkipUsingFillReads ==
    ASSUME World, NEW x, IsReader(x), x.fills, x.data = Len(x.mem), NEW n \in Nat, n >= 1
    PROVE  Reads(x, SkipUsingFill(x, n))
<1> DEFINE z == source.size
           whole == (n - 1) \div z
           rest == n - (whole * z)
<1>1. z \in Nat /\ z > 0
  BY DEF World, IsReader, Typed
<1>2. whole \in Nat /\ rest \in 1..z
  <2> HIDE DEF z
  <2> QED
    BY <1>1, Remainder
<1>3. PICK g : Chain("drop", 0, x, whole, g) /\ SkipUsingFill(x, n) = Finished(g[whole], rest)
  <2>1. (n - 1) \div source.size \in Nat
    BY <1>2
  <2> QED
    BY <2>1, SkipRounds, Zenon
<1> DEFINE y == g[whole]
           start == [y EXCEPT !.mem = << >>, !.data = 0]
           f == FillRange(start, rest, z)
           s == SkipUsingFill(x, n)
           end == [f.r EXCEPT !.mem = f.v, !.data = rest]
<1>4. s = IF y.error # "ok" THEN y ELSE IF f.r.error # "ok" THEN f.r ELSE end
  BY <1>3, Zenon DEF Finished
<1>5. Chain("drop", 0, x, whole, g)
  BY <1>3
<1> HIDE DEF whole, rest, s
<1>6. g[0] = x /\ \A k \in 1..whole : g[k] = Make("drop", 0, g[k - 1], k)
  BY <1>5 DEF Chain
<1>7. Drained(x, x)
  BY DEF Drained
<1>8. ASSUME NEW k \in 1..whole, Drained(x, g[k - 1]) PROVE Drained(x, g[k])
  BY <1>6, <1>7, <1>8, DropDrains
<1> DEFINE S == {k \in 0..whole : ~Drained(x, g[k])}
<1>9. S = {}
  <2> SUFFICES ASSUME S # {} PROVE FALSE
    OBVIOUS
  <2>1. S \subseteq Nat
    BY <1>2
  <2>2. PICK k \in S : \A m \in S : k <= m
    BY <2>1, LeastNatural
  <2>3. k \in 0..whole /\ ~Drained(x, g[k])
    OBVIOUS
  <2>4. k # 0
    BY <1>6, <1>7, <2>3
  <2>5. k \in 1..whole /\ k - 1 \in 0..whole /\ ~(k <= k - 1)
    BY <1>2, <2>3, <2>4
  <2>6. Drained(x, g[k - 1])
    BY <2>2, <2>5
  <2> QED
    BY <1>8, <2>3, <2>5, <2>6
<1>10. Drained(x, y)
  <2>1. whole \in 0..whole
    BY <1>2
  <2> QED
    BY <1>9, <2>1
<1> HIDE DEF y, S
<1>11. CASE y.error # "ok"
  BY <1>4, <1>10, <1>11 DEF Drained, Reads, s
<1>12. CASE y.error = "ok"
  <2>1. /\ DOMAIN start = DOMAIN y /\ start.mem = << >> /\ start.data = 0 /\ start.src = y.src
        /\ start.error = "ok" /\ start.fills = x.fills
    BY <1>10, <1>12 DEF Drained, IsReader, Typed
  <2>2. Typed(start)
    <3>1. << >> \in Seq(B) /\ Len(<< >>) = 0 /\ 0 \in 0..0
      OBVIOUS
    <3>2. 0 <= z
      BY <1>1
    <3> QED
      BY <1>10, <2>1, <3>1, <3>2 DEF Drained, IsReader, Typed
  <2> HIDE DEF start
  <2>3. Fed(start, f, z) /\ (f.r.error = "ok" => Len(f.v) >= rest)
    <3>1. rest \in Nat /\ rest <= z
      BY <1>1, <1>2
    <3> QED
      BY <1>1, <2>1, <2>2, <3>1, FillRangeGives
  <2> HIDE DEF f
  <2>4. CASE f.r.error # "ok"
    <3>1. Dead(f.r) /\ f.r.fills = x.fills
      BY <2>1, <2>3, <2>4 DEF Fed
    <3> QED
      BY <1>4, <1>12, <2>4, <3>1, DeadReads DEF s
  <2>5. CASE f.r.error = "ok"
    <3>1. Took(start, f.r) /\ From(f.v, f.r.src) /\ Len(f.v) <= z /\ f.v \in Seq(B) /\ Len(f.v) >= rest
      BY <2>3, <2>5 DEF Fed
    <3>2. /\ DOMAIN end = DOMAIN x /\ end.mem = f.v /\ end.data = rest /\ end.src = f.r.src
          /\ end.error = "ok" /\ end.fills = x.fills /\ f.r.src \in Nat
      BY <1>10, <2>1, <3>1 DEF Took, Drained, IsReader, Typed
    <3> HIDE DEF end
    <3> DEFINE m == Len(f.v)
               t == f.r.src
    <3>3. rest \in Nat /\ rest \in 0..m /\ m \in Nat /\ m <= m /\ t \in Int /\ t - (m - m) = t
      <4>1. m \in Nat /\ rest \in 1..z /\ z \in Nat /\ m >= rest
        BY <1>1, <1>2, <3>1
      <4>2. t \in Nat
        BY <3>2
      <4> HIDE DEF m, t, z
      <4> QED
        BY <4>1, <4>2
    <3>4. Typed(end)
      BY <1>1, <3>1, <3>2, <3>3 DEF IsReader, Typed
    <3>5. From(SubSeq(f.v, rest + 1, m), t)
      <4>1. From(f.v, t) /\ f.v \in Seq(B)
        BY <3>1
      <4>2. From(SubSeq(f.v, rest + 1, Len(f.v)), t - (Len(f.v) - Len(f.v)))
        <5> HIDE DEF t
        <5> QED
          BY <3>3, <4>1, FromPart
      <4> QED
        BY <3>3, <4>2
    <3>6. Window(end) = SubSeq(f.v, rest + 1, m)
      BY <3>2 DEF Window
    <3>7. IsReader(end)
      BY <3>2, <3>4, <3>5, <3>6 DEF IsReader
    <3>8. s = end
      BY <1>4, <1>12, <2>5
    <3> QED
      BY <3>2, <3>7, <3>8 DEF Reads, s
  <2> QED
    BY <2>4, <2>5
<1> QED
  BY <1>11, <1>12

LEMMA FileSkipReads ==
    ASSUME World, NEW x, IsReader(x), x.fills, x.data = Len(x.mem), NEW n \in Nat, n >= 1
    PROVE  Reads(x, FileSkip(x, n))
<1> DEFINE y == [x EXCEPT !.src = @ + n, !.eof = FALSE]
<1>1. CASE SeeksOver(n)
  <2>1. /\ DOMAIN y = DOMAIN x /\ y.mem = x.mem /\ y.data = x.data /\ y.src = x.src + n /\ y.error = x.error
        /\ y.fills = x.fills
    BY DEF IsReader, Typed
  <2>2. FileSkip(x, n) = y
    BY <1>1 DEF FileSkip
  <2> HIDE DEF y
  <2>3. y.src \in Nat
    BY <2>1 DEF IsReader, Typed
  <2>4. Typed(y) /\ y.data = Len(y.mem)
    BY <2>1, <2>3 DEF IsReader, Typed
  <2>5. IsReader(y)
    BY <2>4, Emptied
  <2> QED
    BY <2>1, <2>2, <2>5 DEF Reads
<1>2. CASE ~SeeksOver(n)
  BY <1>2, SkipUsingFillReads DEF FileSkip
<1> QED
  BY <1>1, <1>2

LEMMA SkipStraddleReads ==
    ASSUME World, NEW x, IsReader(x), NEW n \in Nat, n > Left(x)
    PROVE  Reads(x, SkipStraddle(x, n))
<1> DEFINE l == Left(x)
           y == Advance(x, l)
<1>1. CASE ~x.fills
  BY <1>1, FlagReads DEF SkipStraddle
<1>2. CASE x.fills
  <2>1. l \in Nat
    BY WindowTyped DEF IsReader
  <2>2. l \in 0..l /\ n - l \in Nat /\ n - l >= 1
    BY <2>1
  <2>3. Reads(x, y) /\ Left(y) = Left(x) - l
    BY <2>2, AdvanceReads
  <2>4. SkipStraddle(x, n) = FileSkip(y, n - l)
    BY <1>2 DEF SkipStraddle
  <2> HIDE DEF y
  <2>5. IsReader(y) /\ y.fills
    BY <1>2, <2>3 DEF Reads
  <2>6. y.data = Len(y.mem)
    <3>1. Left(y) = 0
      BY <2>1, <2>3
    <3> QED
      BY <2>5, <3>1, WindowTyped DEF IsReader
  <2>7. Reads(y, FileSkip(y, n - l))
    BY <2>2, <2>5, <2>6, FileSkipReads
  <2> QED
    BY <2>3, <2>4, <2>7, ReadsThen
<1> QED
  BY <1>1, <1>2

LEMMA SkipBytesReads ==
    ASSUME World, NEW x, IsReader(x), NEW n \in Nat
    PROVE  Reads(x, SkipBytes(x, n))
<1> DEFINE y == TrackBytes(x, n)
<1>1. CASE x.error # "ok"
  BY <1>1, ReadsSelf DEF SkipBytes
<1>2. CASE x.error = "ok"
  <2>1. Reads(x, y)
    BY TrackReads DEF TrackBytes
  <2>2. SkipBytes(x, n) = IF n <= Left(y) THEN Advance(y, n) ELSE SkipStraddle(y, n)
    BY <1>2 DEF SkipBytes
  <2> HIDE DEF y
  <2>3. IsReader(y) /\ Left(y) \in Nat
    BY <2>1, WindowTyped DEF Reads, IsReader
  <2>4. CASE n <= Left(y)
    <3>1. n \in 0..Left(y)
      BY <2>3, <2>4
    <3> QED
      BY <2>1, <2>2, <2>3, <2>4, <3>1, AdvanceReads, ReadsThen
  <2>5. CASE ~(n <= Left(y))
    <3>1. n > Left(y)
      BY <2>3, <2>5
    <3> QED
      BY <2>1, <2>2, <2>3, <2>5, <3>1, SkipStraddleReads, ReadsThen
  <2> QED
    BY <2>4, <2>5
<1> QED
  BY <1>1, <1>2

-----------------------------------------------------------------------------
(* Tags                                                                     *)

\* A byte that is read is one of the document
LEMMA FirstByte ==
    ASSUME World, NEW x, IsReader(x), x.error = "ok", 1 <= Left(x)
    PROVE  LET b == x.mem[x.data + 1] IN
           b \in B /\ b[1] \in 1..Len(doc) /\ FormAt(b) \in Forms
<1> DEFINE b == x.mem[x.data + 1]
           w == Window(x)
           l == Left(x)
<1>1. /\ l \in Nat /\ l = Len(x.mem) - x.data /\ Len(x.mem) \in Nat /\ x.data \in Nat
      /\ x.mem \in Seq(B) /\ x.src \in Nat /\ w \in Seq(B) /\ Len(w) = l
  BY WindowTyped DEF IsReader
<1>2. w[1] = b
  <2> DEFINE mem == x.mem
             a == x.data
             e == Len(mem)
  <2>1. mem \in Seq(B) /\ a \in Nat /\ e \in Nat /\ a <= e /\ 1 \in 1..(e - a)
    BY <1>1
  <2>2. w = SubSeq(mem, a + 1, e)
    BY DEF Window
  <2> HIDE DEF mem, a, w
  <2>3. w[1] = mem[a + 1]
    BY <2>1, <2>2, SubSeqIs
  <2> QED
    BY <2>3 DEF mem, a
<1>3. From(w, x.src)
  BY DEF IsReader
<1>4. 1 \in 1..Len(w)
  BY <1>1
<1> DEFINE k == (x.src - Len(w)) + 1
<1>5. k \in 1..Len(stream) /\ w[1] = stream[k]
  BY <1>3, <1>4 DEF From
<1> HIDE DEF k, b, w
<1>6. b \in B /\ b[1] \in 1..Len(doc)
  BY <1>2, <1>5 DEF World
<1>7. FormAt(b) \in Forms
  <2>1. CASE b[2] = 1
    <3>1. doc \in Items
      BY DEF World
    <3>2. doc[b[1]].form \in Forms
      BY <1>6, <3>1, ItemSizes
    <3> QED
      BY <2>1, <3>2 DEF FormAt, Item
  <2>2. CASE b[2] # 1
    <3>1. Fixed("fixuint", 0) \in Forms
      BY DEF Fixed, Forms, Codes
    <3> QED
      BY <2>2, <3>1 DEF FormAt
  <2> QED
    BY <2>1, <2>2
<1> QED
  BY <1>6, <1>7 DEF b

LEMMA OpenReads ==
    ASSUME World, NEW x, IsReader(x), NEW tag
    PROVE  LET y == TrackOpen(x, tag) IN Reads(x, y) /\ (y.error = "ok" => Left(y) = Left(x))
<1> DEFINE s == Push(x.track, tag.type, tag.v)
           y == TrackOpen(x, tag)
<1>1. y = x \/ y = Flag(x, "memory") \/ y = Track(x, s)
  BY DEF TrackOpen
<1>2. CASE y = Track(x, s)
  <2> HIDE DEF s
  <2> QED
    BY <1>2, TrackReads
<1>3. CASE y = x
  BY <1>3, ReadsSelf
<1>4. CASE y = Flag(x, "memory")
  <2>1. Reads(x, Flag(x, "memory")) /\ Flag(x, "memory").error # "ok"
    BY FlagReads
  <2> QED
    BY <1>4, <2>1
<1> HIDE DEF y
<1> QED
  BY <1>1, <1>2, <1>3, <1>4 DEF y

LEMMA DoneReads ==
    ASSUME NEW x, IsReader(x)
    PROVE  Reads(x, Done(x)) /\ Position(Done(x)) = Position(x) /\ Done(x).error = x.error
BY TrackReads DEF Done

LEMMA ParseTagReads ==
    ASSUME World, NEW x, IsReader(x)
    PROVE  LET d == ParseTag(x) IN
           /\ Reads(x, d.r)
           /\ d.v # NoForm => FormSize(d.v) \in 0..Left(d.r) /\ IsTag(Parse(d.v))
<1> DEFINE d == ParseTag(x)
           y == Ensure(x, 1)
           f == FormAt(y.mem[y.data + 1])
           z == Ensure(y, FormSize(f))
<1>1. d = IF y.error # "ok" THEN Did(y, NoForm)
          ELSE IF FormError(f) # "ok" THEN Did(Flag(y, FormError(f)), NoForm)
          ELSE Did(z, IF z.error = "ok" THEN f ELSE NoForm)
  BY Zenon DEF ParseTag
<1>2. Reads(x, y) /\ (y.error = "ok" => 1 <= Left(y))
  BY EnsureReads
<1>3. ASSUME NEW u, Reads(x, u), d = Did(u, NoForm)
      PROVE  Reads(x, d.r) /\ d.v = NoForm
  BY <1>3 DEF Did
<1> HIDE DEF y, d
<1>4. CASE y.error # "ok"
  <2>1. d = Did(y, NoForm)
    BY <1>1, <1>4
  <2> QED
    BY <1>2, <1>3, <2>1 DEF d
<1>5. CASE y.error = "ok"
  <2>1. IsReader(y)
    BY <1>2 DEF Reads
  <2>2. f \in Forms
    BY <1>2, <1>5, <2>1, FirstByte
  <2> HIDE DEF f
  <2>3. FormSize(f) \in Nat /\ FormSize(f) >= 1 /\ (FormError(f) = "ok" => IsTag(Parse(f)))
    BY <2>2, FormFacts
  <2>4. CASE FormError(f) # "ok"
    <3>1. d = Did(Flag(y, FormError(f)), NoForm)
      BY <1>1, <1>5, <2>4
    <3>2. Reads(x, Flag(y, FormError(f)))
      BY <1>2, <2>1, <2>4, FlagReads, ReadsThen
    <3> QED
      BY <1>3, <3>1, <3>2 DEF d
  <2>5. CASE FormError(f) = "ok"
    <3>1. Reads(y, z) /\ (z.error = "ok" => FormSize(f) <= Left(z))
      BY <2>1, <2>3, EnsureReads
    <3>2. d = Did(z, IF z.error = "ok" THEN f ELSE NoForm)
      BY <1>1, <1>5, <2>5
    <3> HIDE DEF z
    <3>3. Reads(x, z) /\ Left(z) \in Nat
      BY <1>2, <3>1, ReadsThen, WindowTyped DEF Reads, IsReader
    <3>4. CASE z.error # "ok"
      <4>1. d = Did(z, NoForm)
        BY <3>2, <3>4
      <4> QED
        BY <1>3, <3>3, <4>1 DEF d
    <3>5. CASE z.error = "ok"
      <4>1. d.r = z /\ d.v = f
        BY <3>2, <3>5 DEF Did
      <4>2. FormSize(f) \in 0..Left(z)
        BY <2>3, <3>1, <3>3, <3>5
      <4> QED
        BY <2>3, <2>5, <3>3, <4>1, <4>2 DEF d
    <3> QED
      BY <3>4, <3>5
  <2> QED
    BY <2>4, <2>5
<1> QED
  BY <1>4, <1>5

LEMMA NilIsTag == IsTag(NilTag)
BY DEF NilTag, Tag, IsTag

LEMMA ReadTagReads ==
    ASSUME World, NEW x, IsReader(x)
    PROVE  Reads(x, ReadTag(x).r) /\ IsTag(ReadTag(x).v)
<1> DEFINE t == ReadTag(x)
           y == TrackElement(x)
           p == ParseTag(y)
           tag == Parse(p.v)
           o == TrackOpen(p.r, tag)
<1>1. t = IF x.error # "ok" THEN Did(x, NilTag)
          ELSE IF p.v = NoForm THEN Did(p.r, NilTag)
          ELSE IF o.error # "ok" THEN Did(o, NilTag)
          ELSE Did(Advance(o, FormSize(p.v)), tag)
  BY Zenon DEF ReadTag
<1>2. ASSUME NEW u, Reads(x, u), t = Did(u, NilTag) PROVE Reads(x, t.r) /\ IsTag(t.v)
  BY <1>2, NilIsTag DEF Did
<1> HIDE DEF t
<1>3. CASE x.error # "ok"
  BY <1>1, <1>2, <1>3, ReadsSelf DEF t
<1>4. CASE x.error = "ok"
  <2>1. Reads(x, y) /\ IsReader(y)
    BY TrackReads DEF TrackElement, Reads
  <2>2. /\ Reads(y, p.r)
        /\ p.v # NoForm => FormSize(p.v) \in 0..Left(p.r) /\ IsTag(tag)
    BY <2>1, ParseTagReads
  <2> HIDE DEF y, p, tag
  <2>3. Reads(x, p.r) /\ IsReader(p.r)
    BY <2>1, <2>2, ReadsThen DEF Reads
  <2>4. CASE p.v = NoForm
    BY <1>1, <1>2, <1>4, <2>3, <2>4 DEF t
  <2>5. CASE p.v # NoForm
    <3>1. Reads(p.r, o) /\ (o.error = "ok" => Left(o) = Left(p.r))
      BY <2>3, OpenReads
    <3> HIDE DEF o
    <3>2. Reads(x, o)
      BY <2>3, <3>1, ReadsThen
    <3>3. CASE o.error # "ok"
      BY <1>1, <1>2, <1>4, <2>5, <3>2, <3>3 DEF t
    <3>4. CASE o.error = "ok"
      <4>1. t.r = Advance(o, FormSize(p.v)) /\ t.v = tag
        BY <1>1, <1>4, <2>5, <3>4 DEF Did
      <4>2. IsReader(o) /\ FormSize(p.v) \in 0..Left(o)
        BY <2>2, <2>5, <3>1, <3>4 DEF Reads
      <4>3. Reads(o, Advance(o, FormSize(p.v)))
        BY <4>2, AdvanceReads
      <4>4. Reads(x, t.r)
        BY <3>2, <4>1, <4>3, ReadsThen
      <4> QED
        BY <2>2, <2>5, <4>1, <4>4 DEF t
    <3> QED
      BY <3>3, <3>4
  <2> QED
    BY <2>4, <2>5
<1> QED
  BY <1>3, <1>4

LEMMA PeekTagReads ==
    ASSUME World, NEW x, IsReader(x)
    PROVE  Reads(x, PeekTag(x).r) /\ IsTag(PeekTag(x).v)
<1> DEFINE p == ParseTag(x)
<1>1. PeekTag(x) = IF x.error # "ok" THEN Did(x, NilTag)
                   ELSE Did(p.r, IF p.v = NoForm THEN NilTag ELSE Parse(p.v))
  BY Zenon DEF PeekTag
<1>2. Reads(x, p.r) /\ (p.v # NoForm => IsTag(Parse(p.v)))
  BY ParseTagReads
<1> HIDE DEF p
<1>3. IsTag(NilTag) /\ Reads(x, x)
  BY NilIsTag, ReadsSelf
<1> QED
  BY <1>1, <1>2, <1>3 DEF Did

-----------------------------------------------------------------------------
(* Discarding                                                               *)

LEMMA UpTo ==
    ASSUME NEW k \in Nat, NEW S, 0 \in S, \A n \in 1..k : n - 1 \in S => n \in S
    PROVE  k \in S
<1> DEFINE T == {n \in 0..k : n \notin S}
<1>1. T = {}
  <2> SUFFICES ASSUME T # {} PROVE FALSE
    OBVIOUS
  <2>1. T \subseteq Nat
    OBVIOUS
  <2>2. PICK n \in T : \A m \in T : n <= m
    BY <2>1, LeastNatural
  <2>3. n \in 0..k /\ n \notin S
    OBVIOUS
  <2>4. n \in 1..k /\ n - 1 \in 0..k /\ ~(n <= n - 1)
    BY <2>3
  <2> QED
    BY <2>2, <2>3, <2>4
<1>2. k \in 0..k
  OBVIOUS
<1> QED
  BY <1>1, <1>2

LEMMA DiscardRoundReads ==
    ASSUME World, NEW a, IsReader(a.r)
    PROVE  Reads(a.r, DiscardRound(a).r)
<1> DEFINE After(x, open) == [r |-> x, open |-> open]
           t == ReadTag(a.r)
           outer == [a.open EXCEPT ![Len(a.open)] = @ - 1]
           s == SkipBytes(t.r, t.v.v)
           d == DiscardRound(a)
<1>1. \/ d = a
      \/ d = After(Done(a.r), SubSeq(a.open, 1, Len(a.open) - 1))
      \/ d = CASE t.r.error # "ok" -> After(t.r, outer)
               [] t.v.type \in {"str", "bin"} -> After(Done(s), outer)
               [] t.v.type = "array" -> After(t.r, Append(outer, t.v.v))
               [] t.v.type = "map" -> After(t.r, Append(outer, 2 * t.v.v))
               [] OTHER -> After(t.r, outer)
  BY DEF DiscardRound
<1>2. \A x, open : After(x, open).r = x
  OBVIOUS
<1>3. Reads(a.r, t.r) /\ IsTag(t.v)
  BY ReadTagReads
<1>4. ASSUME t.v.type \in {"str", "bin"} PROVE Reads(a.r, Done(s))
  <2>1. t.v.v \in Nat /\ IsReader(t.r)
    BY <1>3, <1>4 DEF IsTag, Reads
  <2>2. Reads(t.r, s) /\ IsReader(s)
    BY <2>1, SkipBytesReads DEF Reads
  <2> HIDE DEF s, t
  <2>3. Reads(s, Done(s))
    BY <2>2, DoneReads
  <2> QED
    BY <1>3, <2>2, <2>3, ReadsThen
<1>5. Reads(a.r, a.r) /\ Reads(a.r, Done(a.r))
  BY ReadsSelf, DoneReads
<1> HIDE DEF t, outer, s, d, After
<1>6. d.r = a.r \/ d.r = Done(a.r) \/ d.r = t.r \/ (t.v.type \in {"str", "bin"} /\ d.r = Done(s))
  <2>1. CASE d = a
    BY <2>1
  <2>2. CASE d = After(Done(a.r), SubSeq(a.open, 1, Len(a.open) - 1))
    BY <1>2, <2>2
  <2>3. CASE d = CASE t.r.error # "ok" -> After(t.r, outer)
                   [] t.v.type \in {"str", "bin"} -> After(Done(s), outer)
                   [] t.v.type = "array" -> After(t.r, Append(outer, t.v.v))
                   [] t.v.type = "map" -> After(t.r, Append(outer, 2 * t.v.v))
                   [] OTHER -> After(t.r, outer)
    BY <1>2, <2>3
  <2> QED
    BY <1>1, <2>1, <2>2, <2>3
<1>7. Reads(a.r, d.r)
  BY <1>3, <1>4, <1>5, <1>6
<1> QED
  BY <1>7 DEF d

LEMMA DiscardRounds ==
    ASSUME World, NEW x
    PROVE  \E f : /\ Chain("discard", 0, [r |-> x, open |-> <<1>>], 2 * (Len(doc) + 1), f)
                  /\ Discard(x) = f[2 * (Len(doc) + 1)].r
<1> DEFINE n == 2 * (Len(doc) + 1)
           start == [r |-> x, open |-> <<1>>]
           f == CHOOSE g : g = [i \in 0..n |-> IF i = 0 THEN start ELSE DiscardRound(g[i - 1])]
<1>1. Discard(x) = f[n].r
  BY DEF Discard, Loop
<1>2. \A a, i : Make("discard", 0, a, i) = DiscardRound(a)
  BY DEF Make
<1>3. n \in Nat
  BY DEF World, Items
<1> HIDE DEF n, start
<1>4. \A g, i : (IF i = 0 THEN start ELSE Make("discard", 0, g[i - 1], i))
                    = (IF i = 0 THEN start ELSE DiscardRound(g[i - 1]))
  BY <1>2, Zenon
<1>5. \A g : Rounds("discard", 0, start, n, g)
                 <=> g = [i \in 0..n |-> IF i = 0 THEN start ELSE DiscardRound(g[i - 1])]
  BY <1>4 DEF Rounds
<1>6. Rounds("discard", 0, start, n, f)
  BY <1>3, <1>5, RoundsExist, Zenon
<1> HIDE DEF f
<1>7. Chain("discard", 0, start, n, f)
  BY <1>3, <1>6, RoundsChain
<1> QED
  BY <1>1, <1>7 DEF start, n

LEMMA DiscardReads ==
    ASSUME World, NEW x, IsReader(x)
    PROVE  Reads(x, Discard(x))
<1> DEFINE k == 2 * (Len(doc) + 1)
           start == [r |-> x, open |-> <<1>>]
<1>1. PICK f : Chain("discard", 0, start, k, f) /\ Discard(x) = f[k].r
  BY DiscardRounds, Zenon
<1>2. k \in Nat
  BY DEF World, Items
<1> HIDE DEF k
<1>3. f[0] = start /\ \A n \in 1..k : f[n] = DiscardRound(f[n - 1])
  BY <1>1 DEF Chain, Make
<1> DEFINE S == {n \in 0..k : Reads(x, f[n].r)}
<1>4. 0 \in S
  BY <1>2, <1>3, ReadsSelf
<1>5. ASSUME NEW n \in 1..k, n - 1 \in S PROVE n \in S
  <2>1. Reads(x, f[n - 1].r)
    BY <1>5
  <2>2. Reads(f[n - 1].r, DiscardRound(f[n - 1]).r)
    BY <2>1, DiscardRoundReads DEF Reads
  <2>3. f[n] = DiscardRound(f[n - 1])
    BY <1>3
  <2>4. Reads(x, f[n].r)
    BY <2>1, <2>2, <2>3, ReadsThen
  <2> QED
    BY <1>2, <2>4
<1>6. k \in S
  <2> HIDE DEF S
  <2> QED
    BY <1>2, <1>4, <1>5, UpTo
<1> QED
  BY <1>1, <1>6

LEMMA SkipParamsRounds ==
    ASSUME NEW x, NEW n \in Nat
    PROVE  \E f : Chain("skip", 0, x, n, f) /\ SkipParams(x, n) = f[n]
<1> DEFINE f == CHOOSE g : g = [i \in 0..n |-> IF i = 0 THEN x ELSE Discard(g[i - 1])]
<1>1. SkipParams(x, n) = f[n]
  BY DEF SkipParams, Loop
<1>2. \A a, i : Make("skip", 0, a, i) = Discard(a)
  BY DEF Make
<1>4. \A g, i : (IF i = 0 THEN x ELSE Make("skip", 0, g[i - 1], i)) = (IF i = 0 THEN x ELSE Discard(g[i - 1]))
  BY <1>2, Zenon
<1>5. \A g : Rounds("skip", 0, x, n, g) <=> g = [i \in 0..n |-> IF i = 0 THEN x ELSE Discard(g[i - 1])]
  BY <1>4 DEF Rounds
<1>6. Rounds("skip", 0, x, n, f)
  BY <1>5, RoundsExist, Zenon
<1> HIDE DEF f
<1>7. Chain("skip", 0, x, n, f)
  BY <1>6, RoundsChain
<1> QED
  BY <1>1, <1>7

LEMMA SkipParamsReads ==
    ASSUME World, NEW x, IsReader(x), NEW k \in Nat
    PROVE  Reads(x, SkipParams(x, k))
<1>1. PICK f : Chain("skip", 0, x, k, f) /\ SkipParams(x, k) = f[k]
  BY SkipParamsRounds, Zenon
<1>3. f[0] = x /\ \A n \in 1..k : f[n] = Discard(f[n - 1])
  BY <1>1 DEF Chain, Make
<1> DEFINE S == {n \in 0..k : Reads(x, f[n])}
<1>4. 0 \in S
  BY <1>3, ReadsSelf
<1>5. ASSUME NEW n \in 1..k, n - 1 \in S PROVE n \in S
  <2>1. Reads(x, f[n - 1])
    BY <1>5
  <2>2. Reads(f[n - 1], Discard(f[n - 1]))
    BY <2>1, DiscardReads DEF Reads
  <2>3. f[n] = Discard(f[n - 1])
    BY <1>3
  <2>4. Reads(x, f[n])
    BY <2>1, <2>2, <2>3, ReadsThen
  <2> QED
    BY <2>4
<1>6. k \in S
  <2> HIDE DEF S
  <2> QED
    BY <1>4, <1>5, UpTo
<1> QED
  BY <1>1, <1>6

-----------------------------------------------------------------------------
(* The functions that read a string or a value                              *)

LEMMA GivesThen ==
    ASSUME NEW x, NEW y, NEW d, Reads(x, y), Gives(y, d)
    PROVE  Gives(x, d)
BY ReadsThen DEF Gives

LEMMA GivesNothing ==
    ASSUME NEW x, NEW y, Reads(x, y)
    PROVE  Gives(x, Did(y, << >>))
<1>1. << >> \in Seq(B)
  OBVIOUS
<1> QED
  BY <1>1, FromNothing DEF Gives, Did

LEMMA GivesChecked ==
    ASSUME World, NEW x, NEW d, Gives(x, d), NEW c
    PROVE  Gives(x, IF c THEN Did(Flag(d.r, "type"), << >>) ELSE d)
<1>1. Reads(x, Flag(d.r, "type"))
  BY FlagReads, ReadsThen DEF Gives, Reads
<1> QED
  BY <1>1, GivesNothing

LEMMA GivesFinished ==
    ASSUME NEW x, NEW d, Gives(x, d)
    PROVE  Gives(x, Finish(d))
<1>1. Reads(d.r, Done(d.r)) /\ Position(Done(d.r)) = Position(d.r) /\ Done(d.r).error = d.r.error
  BY DoneReads DEF Gives, Reads
<1>2. Reads(x, Done(d.r))
  BY <1>1, ReadsThen DEF Gives
<1>3. Finish(d).r = Done(d.r) /\ Finish(d).v = d.v
  BY DEF Finish, Did
<1> QED
  BY <1>1, <1>2, <1>3 DEF Gives

LEMMA BytesGive ==
    ASSUME World, NEW x, IsReader(x), NEW n \in Nat
    PROVE  Gives(x, ReadBytes(x, n)) /\ Gives(x, BytesInplace(x, n))
<1> DEFINE y == TrackBytes(x, n)
<1>1. Reads(x, y)
  BY TrackReads DEF TrackBytes
<1> HIDE DEF y
<1>2. IsReader(y)
  BY <1>1 DEF Reads
<1>3. Gives(y, ReadNative(y, n)) /\ Gives(y, Inplace(y, n))
  BY <1>2, ReadNativeGives, InplaceGives
<1> QED
  BY <1>1, <1>3, GivesThen DEF ReadBytes, BytesInplace, y

LEMMA Utf8Gives ==
    ASSUME World, NEW x, IsReader(x), NEW n \in Nat
    PROVE  Gives(x, ReadUtf8(x, n)) /\ Gives(x, Utf8Inplace(x, n))
<1> DEFINE d == ReadBytes(x, n)
           e == BytesInplace(x, n)
<1>1. Gives(x, d) /\ Gives(x, e)
  BY BytesGive
<1> HIDE DEF d, e
<1>2. /\ Gives(x, IF d.r.error = "ok" /\ NotUtf8(d.v) THEN Did(Flag(d.r, "type"), << >>) ELSE d)
      /\ Gives(x, IF e.r.error = "ok" /\ NotUtf8(e.v) THEN Did(Flag(e.r, "type"), << >>) ELSE e)
  BY <1>1, GivesChecked
<1> QED
  BY <1>2, Zenon DEF ReadUtf8, Utf8Inplace, Checked, d, e

LEMMA CstrGives ==
    ASSUME World, NEW x, IsReader(x), NEW size, NEW n \in Nat
    PROVE  Gives(x, ReadCstr(x, size, n)) /\ Gives(x, ReadUtf8Cstr(x, size, n))
<1> DEFINE d == CstrUnchecked(x, size, n)
<1>1. Gives(x, d)
  <2>1. CASE x.error # "ok"
    <3>1. d = Did(x, << >>)
      BY <2>1 DEF CstrUnchecked
    <3> HIDE DEF d
    <3> QED
      BY <3>1, ReadsSelf, GivesNothing
  <2>2. CASE x.error = "ok" /\ n > size - 1
    <3>1. d = Did(Flag(x, "too_big"), << >>)
      BY <2>2 DEF CstrUnchecked
    <3>2. Reads(x, Flag(x, "too_big"))
      BY FlagReads
    <3> HIDE DEF d
    <3> QED
      BY <3>1, <3>2, GivesNothing
  <2>3. CASE x.error = "ok" /\ ~(n > size - 1)
    <3>1. d = ReadBytes(x, n)
      BY <2>3 DEF CstrUnchecked
    <3> HIDE DEF d
    <3> QED
      BY <3>1, BytesGive
  <2> QED
    BY <2>1, <2>2, <2>3
<1> HIDE DEF d
<1>2. /\ Gives(x, IF d.r.error = "ok" /\ HasNul(d.v) THEN Did(Flag(d.r, "type"), << >>) ELSE d)
      /\ Gives(x, IF d.r.error = "ok" /\ (HasNul(d.v) \/ NotUtf8(d.v)) THEN Did(Flag(d.r, "type"), << >>) ELSE d)
  BY <1>1, GivesChecked
<1> QED
  BY <1>2, Zenon DEF ReadCstr, ReadUtf8Cstr, Checked, d

LEMMA AllocGives ==
    ASSUME World, NEW x, IsReader(x), NEW n \in Nat, NEW terminated
    PROVE  Gives(x, ReadAlloc(x, n, terminated))
<1> DEFINE y == TrackBytes(x, n)
           d == ReadNative(y, n)
           a == ReadAlloc(x, n, terminated)
<1>1. Reads(x, y)
  BY TrackReads DEF TrackBytes
<1>2. a = IF y.error # "ok" \/ (n = 0 /\ ~terminated) THEN Did(y, << >>)
          ELSE IF source.starved THEN Did(Flag(y, "memory"), << >>)
          ELSE Did(d.r, IF d.r.error = "ok" THEN d.v ELSE << >>)
  BY Zenon DEF ReadAlloc
<1> HIDE DEF y, a
<1>3. IsReader(y)
  BY <1>1 DEF Reads
<1>4. Gives(y, d) /\ Reads(x, Flag(y, "memory"))
  BY <1>1, <1>3, ReadNativeGives, FlagReads, ReadsThen
<1> HIDE DEF d
<1>5. Gives(x, d) /\ Reads(x, d.r)
  BY <1>1, <1>4, GivesThen DEF Gives
<1>6. Did(d.r, d.v).r = d.r /\ Did(d.r, d.v).v = d.v
  BY DEF Did
<1>7. Gives(x, Did(d.r, d.v))
  BY <1>5, <1>6 DEF Gives
<1>8. Gives(x, Did(y, << >>)) /\ Gives(x, Did(Flag(y, "memory"), << >>)) /\ Gives(x, Did(d.r, << >>))
  BY <1>1, <1>4, <1>5, GivesNothing
<1>9. a = Did(y, << >>) \/ a = Did(Flag(y, "memory"), << >>) \/ a = Did(d.r, << >>) \/ a = Did(d.r, d.v)
  BY <1>2
<1>10. Gives(x, a)
  BY <1>7, <1>8, <1>9, Zenon
<1> QED
  BY <1>10 DEF a

\* The reader a function leaves, with the verdict of another
LEMMA SettleReads ==
    ASSUME World, NEW x, NEW y, Reads(x, y), NEW w
    PROVE  Reads(x, Settle(y, w).r) /\ Settle(y, w).v = w.v
<1>1. CASE w.error = "ok"
  BY <1>1 DEF Settle, Did
<1>2. CASE w.error # "ok"
  <2>1. Reads(x, Flag(y, w.error))
    BY <1>2, FlagReads, ReadsThen DEF Reads
  <2> QED
    BY <1>2, <2>1 DEF Settle, Did
<1> QED
  BY <1>1, <1>2

LEMMA NumberReads ==
    ASSUME World, NEW x, IsReader(x), NEW width, NEW type, NEW max, NEW tag
    PROVE  /\ Reads(x, ExpectU(x, width).r) /\ Reads(x, ExpectI(x, width).r)
           /\ Reads(x, ExpectCountOrNil(x, type, max).r) /\ Reads(x, ExpectTag(x, tag).r)
<1> DEFINE t == ReadTag(x)
<1>1. Reads(x, t.r)
  BY ReadTagReads
<1>2. /\ ExpectU(x, width) = Settle(t.r, ExpectUint(t.v, width))
      /\ ExpectI(x, width) = Settle(t.r, ExpectInt(t.v, width))
      /\ ExpectCountOrNil(x, type, max) = Settle(t.r, ExpectOrNil(t.v, type, max))
      /\ ExpectTag(x, tag) = Settle(t.r, Accept(TagEqual(t.v, tag), 0))
  BY Zenon DEF ExpectU, ExpectI, ExpectCountOrNil, ExpectTag, OnTag
<1> HIDE DEF t
<1>3. \A w : Reads(x, Settle(t.r, w).r)
  BY <1>1, SettleReads
<1> QED
  BY <1>2, <1>3

\* A length or a count is a natural number, 0 if it is not there
LEMMA TypeVerdict ==
    ASSUME NEW t, IsTag(t), NEW type \in {"str", "bin", "array", "map"}, NEW max
    PROVE  ExpectType(t, type).v \in Nat /\ ExpectBinMax(t, max).v \in Nat
<1>1. ExpectType(t, type).v \in Nat /\ ExpectType(t, "bin").v \in Nat
  BY DEF ExpectType, Accept, Got, Refused, IsTag
<1> QED
  BY <1>1 DEF ExpectBinMax, Refused

LEMMA AtMostReads ==
    ASSUME World, NEW x, NEW d, Reads(x, d.r), d.v \in Nat, NEW max, NEW e, e # "ok"
    PROVE  Reads(x, AtMost(max, e, d).r) /\ AtMost(max, e, d).v \in Nat
<1>1. Reads(x, Flag(d.r, e))
  BY FlagReads, ReadsThen DEF Reads
<1> QED
  BY <1>1 DEF AtMost, Did

LEMMA CountReads ==
    ASSUME World, NEW x, IsReader(x), NEW type \in {"array", "map"}, NEW max
    PROVE  /\ Reads(x, ExpectCount(x, type, max).r) /\ ExpectCount(x, type, max).v \in Nat
<1> DEFINE t == ReadTag(x)
           d == Settle(t.r, ExpectType(t.v, type))
<1>1. Reads(x, t.r) /\ IsTag(t.v)
  BY ReadTagReads
<1>2. ExpectCount(x, type, max) = AtMost(max, "type", d)
  BY Zenon DEF ExpectCount, OnTag
<1> HIDE DEF t
<1>3. Reads(x, d.r) /\ d.v \in Nat
  BY <1>1, SettleReads, TypeVerdict
<1> HIDE DEF d
<1> QED
  BY <1>2, <1>3, AtMostReads

LEMMA BinReads ==
    ASSUME World, NEW x, IsReader(x), NEW max
    PROVE  /\ Reads(x, ExpectBin(x).r) /\ ExpectBin(x).v \in Nat
           /\ Reads(x, ExpectBinUpTo(x, max).r) /\ ExpectBinUpTo(x, max).v \in Nat
<1> DEFINE t == ReadTag(x)
           d == Settle(t.r, ExpectType(t.v, "bin"))
           e == Settle(t.r, ExpectBinMax(t.v, max))
<1>1. Reads(x, t.r) /\ IsTag(t.v)
  BY ReadTagReads
<1>2. ExpectBin(x) = d /\ ExpectBinUpTo(x, max) = e
  BY Zenon DEF ExpectBin, ExpectBinUpTo, OnTag
<1> HIDE DEF t
<1>3. Reads(x, d.r) /\ d.v \in Nat /\ Reads(x, e.r) /\ e.v \in Nat
  BY <1>1, SettleReads, TypeVerdict
<1> HIDE DEF d, e
<1> QED
  BY <1>2, <1>3

LEMMA TypeByteReads ==
    ASSUME World, NEW x, IsReader(x)
    PROVE  Reads(x, TypeByte(x).r) /\ TypeByte(x).v \in Forms \cup {NoForm}
<1> DEFINE d == TypeByte(x)
           e == TrackElement(x)
           y == Ensure(e, 1)
           f == FormAt(y.mem[y.data + 1])
<1>1. d = IF x.error # "ok" THEN Did(x, NoForm)
          ELSE IF y.error # "ok" THEN Did(y, NoForm) ELSE Did(Advance(y, 1), f)
  BY Zenon DEF TypeByte
<1> HIDE DEF d
<1>2. CASE x.error # "ok"
  BY <1>1, <1>2, ReadsSelf DEF Did, d
<1>3. CASE x.error = "ok"
  <2>1. Reads(x, e) /\ IsReader(e)
    BY TrackReads DEF TrackElement, Reads
  <2> HIDE DEF e
  <2>2. Reads(e, y) /\ (y.error = "ok" => 1 <= Left(y))
    BY <2>1, EnsureReads
  <2> HIDE DEF y
  <2>3. Reads(x, y) /\ IsReader(y) /\ Left(y) \in Nat
    BY <2>1, <2>2, ReadsThen, WindowTyped DEF Reads, IsReader
  <2>4. CASE y.error # "ok"
    BY <1>1, <1>3, <2>3, <2>4 DEF Did, d
  <2>5. CASE y.error = "ok"
    <3>1. f \in Forms
      BY <2>2, <2>3, <2>5, FirstByte
    <3> HIDE DEF f
    <3>2. 1 \in 0..Left(y)
      BY <2>2, <2>3, <2>5
    <3>3. Reads(x, Advance(y, 1))
      BY <2>3, <3>2, AdvanceReads, ReadsThen
    <3> QED
      BY <1>1, <1>3, <2>5, <3>1, <3>3 DEF Did, d
  <2> QED
    BY <2>4, <2>5
<1> QED
  BY <1>2, <1>3

LEMMA ByteReads ==
    ASSUME World, NEW x, IsReader(x)
    PROVE  Reads(x, ExpectNilByte(x).r) /\ Reads(x, ExpectBoolByte(x).r)
<1> DEFINE b == TypeByte(x)
<1>1. Reads(x, b.r)
  BY TypeByteReads
<1>2. ExpectNilByte(x) = Settle(b.r, ExpectNil(b.v)) /\ ExpectBoolByte(x) = Settle(b.r, ExpectBool(b.v))
  BY Zenon DEF ExpectNilByte, ExpectBoolByte, OnByte
<1> HIDE DEF b
<1>3. Reads(x, Settle(b.r, ExpectNil(b.v)).r) /\ Reads(x, Settle(b.r, ExpectBool(b.v)).r)
  BY <1>1, SettleReads
<1> QED
  BY <1>2, <1>3

LEMMA StrReads ==
    ASSUME World, NEW x, IsReader(x)
    PROVE  Reads(x, ExpectStr(x).r) /\ ExpectStr(x).v \in Nat
<1> DEFINE d == ExpectStr(x)
           b == TypeByte(x)
           size == b.v.width \div 8
           n == b.v.raw
           y == IF b.v.width = 0 THEN b.r ELSE Ensure(b.r, size)
           o == TrackOpen(Advance(y, size), Tag("str", n))
<1>1. d = IF b.v.code \notin {"fixstr", "str"} THEN Did(Flag(b.r, "type"), 0)
          ELSE IF y.error # "ok" THEN Did(y, 0) ELSE Did(o, n)
  BY Zenon DEF ExpectStr
<1>2. Reads(x, b.r) /\ b.v \in Forms \cup {NoForm}
  BY TypeByteReads
<1> HIDE DEF d, b
<1>3. IsReader(b.r)
  BY <1>2 DEF Reads
<1>4. CASE b.v.code \notin {"fixstr", "str"}
  <2>1. Reads(x, Flag(b.r, "type"))
    BY <1>2, <1>3, FlagReads, ReadsThen
  <2> QED
    BY <1>1, <1>4, <2>1 DEF Did, d
<1>5. CASE b.v.code \in {"fixstr", "str"}
  <2>1. b.v \in Forms
    BY <1>2, <1>5 DEF NoForm, Fixed
  <2>2. n \in Nat /\ b.v.width \in {0, 8, 16, 32, 64}
    BY <2>1, FormFacts DEF Widths
  <2>3. size \in Nat /\ (b.v.width = 0 => size = 0)
    BY <2>2
  <2>4. Reads(b.r, y) /\ IsReader(y) /\ (y.error = "ok" => size <= Left(y)) /\ Left(y) \in Nat
    <3>1. CASE b.v.width = 0
      <4>1. y = b.r /\ size = 0
        BY <2>3, <3>1
      <4> HIDE DEF y, size
      <4>2. Left(y) \in Nat
        BY <1>3, <4>1, WindowTyped DEF IsReader
      <4> QED
        BY <1>3, <4>1, <4>2, ReadsSelf
    <3>2. CASE b.v.width # 0
      <4>1. y = Ensure(b.r, size)
        BY <3>2
      <4> HIDE DEF y, size
      <4>2. Reads(b.r, y) /\ (y.error = "ok" => size <= Left(y))
        BY <1>3, <2>3, <4>1, EnsureReads
      <4>3. IsReader(y) /\ Left(y) \in Nat
        BY <4>2, WindowTyped DEF Reads, IsReader
      <4> QED
        BY <4>2, <4>3
    <3> QED
      BY <3>1, <3>2
  <2>5. Reads(x, y)
    BY <1>2, <2>4, ReadsThen
  <2> HIDE DEF y, size, n
  <2>6. CASE y.error # "ok"
    BY <1>1, <1>5, <2>5, <2>6 DEF Did, d
  <2>7. CASE y.error = "ok"
    <3> DEFINE a == Advance(y, size)
    <3>1. size \in 0..Left(y)
      BY <2>3, <2>4, <2>7
    <3>2. Reads(y, a)
      BY <2>4, <3>1, AdvanceReads
    <3> HIDE DEF a
    <3>3. Reads(x, a) /\ IsReader(a)
      BY <2>5, <3>2, ReadsThen DEF Reads
    <3>4. Reads(a, TrackOpen(a, Tag("str", n)))
      BY <3>3, OpenReads
    <3>5. Reads(x, o)
      BY <3>3, <3>4, ReadsThen DEF a
    <3> HIDE DEF o
    <3> QED
      BY <1>1, <1>5, <2>2, <2>7, <3>5 DEF Did, d
  <2> QED
    BY <2>6, <2>7
<1> QED
  BY <1>4, <1>5

LEMMA IntoBufferGives ==
    ASSUME World, NEW x, NEW d, Reads(x, d.r), d.v \in Nat, NEW size
    PROVE  Gives(x, IntoBuffer(d, size))
<1> DEFINE b == ReadBytes(d.r, d.v)
           i == IntoBuffer(d, size)
<1>1. i = IF d.r.error # "ok" THEN Did(d.r, << >>)
          ELSE IF d.v > size THEN Did(Flag(d.r, "too_big"), << >>)
          ELSE IF b.r.error # "ok" THEN Did(b.r, << >>) ELSE Finish(b)
  BY Zenon DEF IntoBuffer
<1>2. IsReader(d.r)
  BY DEF Reads
<1>3. Reads(x, Flag(d.r, "too_big"))
  BY <1>2, FlagReads, ReadsThen
<1>4. Gives(x, b)
  BY <1>2, BytesGive, GivesThen
<1> HIDE DEF b, i
<1>5. Gives(x, Finish(b)) /\ Reads(x, b.r)
  BY <1>4, GivesFinished DEF Gives
<1>6. Gives(x, Did(d.r, << >>)) /\ Gives(x, Did(Flag(d.r, "too_big"), << >>)) /\ Gives(x, Did(b.r, << >>))
  BY <1>3, <1>5, GivesNothing
<1>7. i = Did(d.r, << >>) \/ i = Did(Flag(d.r, "too_big"), << >>) \/ i = Did(b.r, << >>) \/ i = Finish(b)
  BY <1>1
<1>8. Gives(x, i)
  BY <1>5, <1>6, <1>7, Zenon
<1> QED
  BY <1>8 DEF i

LEMMA BufferGives ==
    ASSUME World, NEW x, IsReader(x), NEW size
    PROVE  /\ Gives(x, ExpectStrBuf(x, size)) /\ Gives(x, ExpectUtf8(x, size)) /\ Gives(x, ExpectBinBuf(x, size))
           /\ size \in Nat => Gives(x, ExpectBinSizeBuf(x, size))
<1> DEFINE s == ExpectStr(x)
           b == ExpectBin(x)
           d == IntoBuffer(s, size)
<1>1. Reads(x, s.r) /\ s.v \in Nat /\ Reads(x, b.r) /\ b.v \in Nat
  BY StrReads, BinReads
<1> HIDE DEF s, b
<1>2. Gives(x, d) /\ Gives(x, IntoBuffer(b, size))
  BY <1>1, IntoBufferGives
<1> HIDE DEF d
<1>3. Gives(x, IF d.r.error = "ok" /\ NotUtf8(d.v) THEN Did(Flag(d.r, "type"), << >>) ELSE d)
  BY <1>2, GivesChecked
<1>4. Gives(x, ExpectStrBuf(x, size)) /\ Gives(x, ExpectUtf8(x, size)) /\ Gives(x, ExpectBinBuf(x, size))
  BY <1>2, <1>3, Zenon DEF ExpectStrBuf, ExpectUtf8, ExpectBinBuf, Checked, d, s, b
<1>5. ASSUME size \in Nat PROVE Gives(x, ExpectBinSizeBuf(x, size))
  <2> DEFINE y == IF b.v = size THEN b.r ELSE Flag(b.r, "type")
  <2>1. ExpectBinSizeBuf(x, size) = Finish(ReadBytes(y, size))
    BY Zenon DEF ExpectBinSizeBuf, b
  <2>2. Reads(x, y)
    BY <1>1, FlagReads, ReadsThen DEF Reads
  <2> HIDE DEF y
  <2>3. IsReader(y)
    BY <2>2 DEF Reads
  <2>4. Gives(y, ReadBytes(y, size))
    BY <1>5, <2>3, BytesGive
  <2> QED
    BY <2>1, <2>2, <2>4, GivesThen, GivesFinished
<1> QED
  BY <1>4, <1>5

LEMMA ExpectCstrGives ==
    ASSUME World, NEW x, IsReader(x), NEW size
    PROVE  Gives(x, ExpectCstr(x, size)) /\ Gives(x, ExpectUtf8Cstr(x, size))
<1> DEFINE s == ExpectStr(x)
<1>1. Reads(x, s.r) /\ s.v \in Nat
  BY StrReads
<1>2. ExpectCstr(x, size) = Finish(ReadCstr(s.r, size, s.v)) /\ ExpectUtf8Cstr(x, size) = Finish(ReadUtf8Cstr(s.r, size, s.v))
  BY Zenon DEF ExpectCstr, ExpectUtf8Cstr
<1> HIDE DEF s
<1>3. IsReader(s.r)
  BY <1>1 DEF Reads
<1>4. Gives(s.r, ReadCstr(s.r, size, s.v)) /\ Gives(s.r, ReadUtf8Cstr(s.r, size, s.v))
  BY <1>1, <1>3, CstrGives
<1>5. Gives(x, ReadCstr(s.r, size, s.v)) /\ Gives(x, ReadUtf8Cstr(s.r, size, s.v))
  BY <1>1, <1>4, GivesThen
<1> QED
  BY <1>2, <1>5, GivesFinished

LEMMA ExpectAllocGives ==
    ASSUME World, NEW x, IsReader(x), NEW max
    PROVE  /\ Gives(x, ExpectCstrAlloc(x, max)) /\ Gives(x, ExpectUtf8CstrAlloc(x, max))
           /\ Gives(x, ExpectBinAlloc(x, max))
<1> DEFINE s == AtMost(max - 1, "too_big", ExpectStr(x))
           c == CstrAlloc(x, max)
           b == ExpectBinUpTo(x, max)
           e == ExpectBinAlloc(x, max)
<1>1. Reads(x, s.r) /\ s.v \in Nat
  <2>1. Reads(x, ExpectStr(x).r) /\ ExpectStr(x).v \in Nat
    BY StrReads
  <2> QED
    BY <2>1, AtMostReads
<1>2. c = IF max < 1 THEN Did(Flag(x, "bug"), << >>) ELSE Finish(ReadAlloc(s.r, s.v, TRUE))
  BY Zenon DEF CstrAlloc, ExpectStrUpTo
<1> HIDE DEF s, c
<1>3. Gives(x, c)
  <2>1. IsReader(s.r)
    BY <1>1 DEF Reads
  <2>2. Gives(s.r, ReadAlloc(s.r, s.v, TRUE))
    BY <1>1, <2>1, AllocGives
  <2>3. Gives(x, Finish(ReadAlloc(s.r, s.v, TRUE)))
    BY <1>1, <2>2, GivesThen, GivesFinished
  <2>4. Gives(x, Did(Flag(x, "bug"), << >>))
    BY FlagReads, GivesNothing
  <2> QED
    BY <1>2, <2>3, <2>4, Zenon
<1>4. /\ Gives(x, IF c.r.error = "ok" /\ HasNul(c.v) THEN Did(Flag(c.r, "type"), << >>) ELSE c)
      /\ Gives(x, IF c.r.error = "ok" /\ (HasNul(c.v) \/ NotUtf8(c.v)) THEN Did(Flag(c.r, "type"), << >>) ELSE c)
  BY <1>3, GivesChecked
<1>5. Gives(x, ExpectCstrAlloc(x, max)) /\ Gives(x, ExpectUtf8CstrAlloc(x, max))
  BY <1>4, Zenon DEF ExpectCstrAlloc, ExpectUtf8CstrAlloc, Checked, c
<1>6. e = IF b.r.error # "ok" THEN Did(b.r, << >>) ELSE Finish(ReadAlloc(b.r, b.v, FALSE))
  BY Zenon DEF ExpectBinAlloc
<1>7. Reads(x, b.r) /\ b.v \in Nat
  BY BinReads
<1> HIDE DEF b, e
<1>8. IsReader(b.r)
  BY <1>7 DEF Reads
<1>9. Gives(b.r, ReadAlloc(b.r, b.v, FALSE))
  BY <1>7, <1>8, AllocGives
<1>10. Gives(x, Finish(ReadAlloc(b.r, b.v, FALSE))) /\ Gives(x, Did(b.r, << >>))
  BY <1>7, <1>9, GivesThen, GivesFinished, GivesNothing
<1>11. Gives(x, e)
  BY <1>6, <1>10, Zenon
<1> QED
  BY <1>5, <1>11 DEF e

-----------------------------------------------------------------------------
(* Texts that are compared, and keys                                        *)

LEMMA MatchRounds ==
    ASSUME NEW x, NEW text, NEW n \in Nat
    PROVE  LET s == ExpectStr(x)
               start == TrackBytes(IF s.v = n THEN s.r ELSE Flag(s.r, "type"), n) IN
           \E f : Chain("match", text, start, n, f) /\ ExpectStrMatch(x, text, n) = Done(f[n])
<1> DEFINE same(byte) == byte[2] > 1 /\ Item(byte[1]).text = text
           compare(y) == IF y.error # "ok" THEN y
                         ELSE IF same(y.mem[y.data + 1]) THEN Advance(y, 1) ELSE Flag(Advance(y, 1), "type")
           body(a) == IF a.error # "ok" THEN a ELSE compare(Ensure(a, 1))
           s == ExpectStr(x)
           start == TrackBytes(IF s.v = n THEN s.r ELSE Flag(s.r, "type"), n)
           f == CHOOSE g : g = [i \in 0..n |-> IF i = 0 THEN start ELSE body(g[i - 1])]
<1>1. ExpectStrMatch(x, text, n) = Done(f[n])
  BY DEF ExpectStrMatch, Loop
<1>2. \A a, i : Make("match", text, a, i) = body(a)
  BY DEF Make
<1> HIDE DEF body, start
<1>4. \A g, i : (IF i = 0 THEN start ELSE Make("match", text, g[i - 1], i)) = (IF i = 0 THEN start ELSE body(g[i - 1]))
  BY <1>2, Zenon
<1>5. \A g : Rounds("match", text, start, n, g) <=> g = [i \in 0..n |-> IF i = 0 THEN start ELSE body(g[i - 1])]
  BY <1>4 DEF Rounds
<1>6. Rounds("match", text, start, n, f)
  BY <1>5, RoundsExist, Zenon
<1> HIDE DEF f
<1>7. Chain("match", text, start, n, f)
  BY <1>6, RoundsChain
<1> QED
  BY <1>1, <1>7 DEF start

LEMMA MatchRoundReads ==
    ASSUME World, NEW x, IsReader(x), NEW text, NEW n
    PROVE  Reads(x, Make("match", text, x, n))
<1> DEFINE m == Make("match", text, x, n)
           y == Ensure(x, 1)
<1>1. m = x \/ m = y \/ (y.error = "ok" /\ (m = Advance(y, 1) \/ m = Flag(Advance(y, 1), "type")))
  BY DEF Make
<1>2. Reads(x, y) /\ (y.error = "ok" => 1 <= Left(y))
  BY EnsureReads
<1> HIDE DEF m, y
<1>3. IsReader(y) /\ Left(y) \in Nat
  BY <1>2, WindowTyped DEF Reads, IsReader
<1>4. ASSUME y.error = "ok"
      PROVE  Reads(x, Advance(y, 1)) /\ Reads(x, Flag(Advance(y, 1), "type"))
  <2>1. 1 \in 0..Left(y)
    BY <1>2, <1>3, <1>4
  <2>2. Reads(y, Advance(y, 1))
    BY <1>3, <2>1, AdvanceReads
  <2>3. Reads(x, Advance(y, 1)) /\ IsReader(Advance(y, 1))
    BY <1>2, <2>2, ReadsThen DEF Reads
  <2> QED
    BY <2>3, FlagReads, ReadsThen
<1>5. Reads(x, m)
  BY <1>1, <1>2, <1>4, ReadsSelf
<1> QED
  BY <1>5 DEF m

LEMMA StrMatchReads ==
    ASSUME World, NEW x, IsReader(x), NEW text, NEW k \in Nat
    PROVE  Reads(x, ExpectStrMatch(x, text, k))
<1> DEFINE s == ExpectStr(x)
           y == IF s.v = k THEN s.r ELSE Flag(s.r, "type")
           start == TrackBytes(y, k)
<1>1. PICK f : Chain("match", text, start, k, f) /\ ExpectStrMatch(x, text, k) = Done(f[k])
  BY MatchRounds, Zenon
<1>2. f[0] = start /\ \A n \in 1..k : f[n] = Make("match", text, f[n - 1], n)
  BY <1>1, Zenon DEF Chain
<1>3. Reads(x, s.r)
  BY StrReads
<1> HIDE DEF s
<1>4. Reads(x, y)
  BY <1>3, FlagReads, ReadsThen DEF Reads
<1> HIDE DEF y
<1>5. Reads(y, start)
  BY <1>4, TrackReads DEF TrackBytes, Reads
<1> HIDE DEF start
<1>6. Reads(x, start)
  BY <1>4, <1>5, ReadsThen
<1> DEFINE S == {n \in 0..k : Reads(x, f[n])}
<1>7. 0 \in S
  BY <1>2, <1>6
<1>8. ASSUME NEW n \in 1..k, n - 1 \in S PROVE n \in S
  <2>1. Reads(x, f[n - 1])
    BY <1>8
  <2>2. Reads(f[n - 1], Make("match", text, f[n - 1], n))
    BY <2>1, MatchRoundReads DEF Reads
  <2>3. f[n] = Make("match", text, f[n - 1], n)
    BY <1>2
  <2>4. Reads(x, f[n])
    BY <2>1, <2>2, <2>3, ReadsThen
  <2> QED
    BY <2>4
<1>9. k \in S
  <2> HIDE DEF S
  <2> QED
    BY <1>7, <1>8, UpTo
<1>10. Reads(x, f[k])
  BY <1>9
<1> QED
  BY <1>1, <1>10, DoneReads, ReadsThen DEF Reads

LEMMA IndexIs ==
    ASSUME NEW strings, DOMAIN strings \subseteq Nat, NEW bytes
    PROVE  IndexOf(strings, bytes) \in {0} \cup DOMAIN strings
<1> DEFINE at == {i \in DOMAIN strings : strings[i] = TextOf(bytes)}
<1>1. IndexOf(strings, bytes) = IF at = {} THEN 0 ELSE Least(at)
  BY DEF IndexOf
<1>2. at \subseteq Nat /\ at \subseteq DOMAIN strings
  OBVIOUS
<1> HIDE DEF at
<1>3. ASSUME at # {} PROVE Least(at) \in at
  <2>1. \E n \in at : \A m \in at : n <= m
    BY <1>2, <1>3, LeastNatural
  <2> QED
    BY <2>1, Zenon DEF Least
<1> QED
  BY <1>1, <1>2, <1>3

LEMMA IndexReads ==
    ASSUME World, NEW x, IsReader(x), NEW strings, DOMAIN strings \subseteq Nat
    PROVE  Reads(x, Index(x, strings).r) /\ Index(x, strings).v \in {0} \cup DOMAIN strings
<1> DEFINE s == ExpectStr(x)
           t == TextInplace(x)
<1>1. Reads(x, s.r) /\ s.v \in Nat
  BY StrReads
<1>2. t = Finish(BytesInplace(s.r, s.v))
  BY Zenon DEF TextInplace
<1> HIDE DEF s, t
<1>3. IsReader(s.r)
  BY <1>1 DEF Reads
<1>4. Gives(s.r, BytesInplace(s.r, s.v))
  BY <1>1, <1>3, BytesGive
<1>5. Reads(x, t.r)
  BY <1>1, <1>2, <1>4, GivesThen, GivesFinished DEF Gives
<1>6. Index(x, strings) = Did(t.r, IF t.r.error = "ok" THEN IndexOf(strings, t.v) ELSE 0)
  BY Zenon DEF Index, t
<1>7. IndexOf(strings, t.v) \in {0} \cup DOMAIN strings
  BY IndexIs
<1> QED
  BY <1>5, <1>6, <1>7 DEF Did

LEMMA EnumReads ==
    ASSUME World, NEW x, IsReader(x), NEW strings, DOMAIN strings \subseteq Nat
    PROVE  /\ Reads(x, ExpectEnum(x, strings).r)
           /\ Reads(x, EnumOptional(x, strings).r)
           /\ EnumOptional(x, strings).v \in {0} \cup DOMAIN strings
<1> DEFINE i == Index(x, strings)
           p == PeekTag(x)
           j == Index(p.r, strings)
<1>1. Reads(x, i.r)
  BY IndexReads
<1>2. Reads(x, p.r) /\ IsReader(p.r)
  BY PeekTagReads DEF Reads
<1>3. ExpectEnum(x, strings) = Did(IF i.v = 0 THEN Flag(i.r, "type") ELSE i.r, i.v)
  BY Zenon DEF ExpectEnum
<1>4. EnumOptional(x, strings) = IF x.error # "ok" THEN Did(x, 0)
                                 ELSE IF p.v.type # "str" THEN Did(Discard(p.r), 0) ELSE j
  BY Zenon DEF EnumOptional
<1> HIDE DEF i, p
<1>5. Reads(p.r, j.r) /\ j.v \in {0} \cup DOMAIN strings /\ Reads(p.r, Discard(p.r))
  BY <1>2, IndexReads, DiscardReads
<1>6. Reads(x, Flag(i.r, "type"))
  BY <1>1, FlagReads, ReadsThen DEF Reads
<1> HIDE DEF j
<1>7. Reads(x, j.r) /\ Reads(x, Discard(p.r)) /\ Reads(x, x)
  BY <1>2, <1>5, ReadsThen, ReadsSelf
<1>8. Reads(x, ExpectEnum(x, strings).r)
  BY <1>1, <1>3, <1>6 DEF Did
<1> QED
  BY <1>4, <1>5, <1>7, <1>8 DEF Did

LEMMA OnceReads ==
    ASSUME World, NEW x, NEW d, Reads(x, d.r), NEW taken
    PROVE  Reads(x, Once(d, taken).r) /\ Once(d, taken).v \in {0, d.v}
<1>1. Reads(x, Flag(d.r, "invalid"))
  BY FlagReads, ReadsThen DEF Reads
<1> QED
  BY <1>1 DEF Once, Did

LEMMA KeyReads ==
    ASSUME World, NEW x, IsReader(x), NEW strings, DOMAIN strings \subseteq Nat, NEW taken
    PROVE  /\ Reads(x, KeyCstr(x, strings, taken).r)
           /\ KeyCstr(x, strings, taken).v \in {0} \cup DOMAIN strings
<1> DEFINE e == EnumOptional(x, strings)
<1>1. Reads(x, e.r) /\ e.v \in {0} \cup DOMAIN strings
  BY EnumReads
<1>2. KeyCstr(x, strings, taken) = Once(e, taken)
  BY DEF KeyCstr
<1> HIDE DEF e
<1> QED
  BY <1>1, <1>2, OnceReads

LEMMA KeyUintReads ==
    ASSUME World, NEW x, IsReader(x), NEW taken, NEW count
    PROVE  Reads(x, KeyUint(x, taken, count).r)
<1> DEFINE p == PeekTag(x)
           u == ExpectU(p.r, 64)
           o == Once(Did(u.r, u.v + 1), taken)
           k == KeyUint(x, taken, count)
<1>1. k = IF x.error # "ok" THEN Did(x, 0)
          ELSE IF p.v.type # "uint" THEN Did(Discard(p.r), 0)
          ELSE IF u.r.error # "ok" \/ u.v >= count THEN Did(u.r, 0) ELSE o
  BY Zenon DEF KeyUint
<1>2. Reads(x, p.r) /\ IsReader(p.r)
  BY PeekTagReads DEF Reads
<1> HIDE DEF p, k
<1>3. Reads(x, u.r) /\ Reads(x, Discard(p.r))
  BY <1>2, NumberReads, DiscardReads, ReadsThen
<1> HIDE DEF u
<1>4. Reads(x, o.r)
  <2>1. Did(u.r, u.v + 1).r = u.r
    BY DEF Did
  <2>2. Reads(x, Did(u.r, u.v + 1).r)
    BY <1>3, <2>1
  <2> QED
    BY <2>2, OnceReads
<1> HIDE DEF o
<1>5. k.r = x \/ k.r = Discard(p.r) \/ k.r = u.r \/ k.r = o.r
  <2>1. k = Did(x, 0) \/ k = Did(Discard(p.r), 0) \/ k = Did(u.r, 0) \/ k = o
    BY <1>1
  <2> QED
    BY <2>1 DEF Did
<1>6. Reads(x, k.r)
  BY <1>3, <1>4, <1>5, ReadsSelf
<1> QED
  BY <1>6 DEF k

-----------------------------------------------------------------------------
(* What holds in every state                                                *)

ReaderInv ==
    /\ World
    /\ IsReader(r)
    /\ last.bytes \in Seq(B)
    /\ r.error = "ok" => From(last.bytes, Position(r))

\* Each loop has one of the lists of fields
Kinds == {"cstr", "int", "bool", "u32", "u16", "entries", "color"}
Keys == {"client_id", "cols", "rows", "cell_width", "cell_height", "in_tmux", "handle", "placement_id",
         "placements", "visible", "row", "col", "clients", "images", "fg", "bg", "r", "g", "b"}
FieldLists == Seq([key : Keys, kind : Kinds])
IsLoop(l) == DOMAIN l = {"fields", "parent", "left", "taken", "entries"} /\ l.fields \in FieldLists
AreLoops(s) ==
    LET S == {s[k] : k \in 1..Len(s)} IN s \in Seq(S) /\ \A l \in S : IsLoop(l)

\* The call has bytes of the stream, and it is one that waits for them
SlotInv ==
    /\ slot.data \in Seq(B) /\ slot.src \in Nat /\ From(slot.data, slot.src)
    /\ (slot.done /\ driver = "reader") => call \in DOMAIN Results

CallInv ==
    /\ driver \in {"free", "reader", "fuzz"}
    /\ driver = "free" <=> phase = "free"
    /\ driver = "free" => loops = << >>
    /\ driver # "free" => last.bytes = << >>
    /\ phase \in {"read", "frame"} => driver = "reader"
    /\ begin \in Nat
    /\ arrived \in Nat /\ arrived <= source.limit
    /\ ends \in Nat /\ ends <= Len(stream)
    /\ SlotInv
    /\ phase = "notice" => method \in DOMAIN Notices
    /\ params \in Nat /\ (phase \in {"notice", "fields"} => params >= 1)
    /\ AreLoops(loops)

ReplyInv == ReaderInv /\ CallInv

LEMMA WorldKept ==
    ASSUME World, UNCHANGED <<doc, stream, source>>
    PROVE  World'
BY DEF World

LEMMA ReaderCarried ==
    ASSUME NEW y, IsReader(y), r' = y, UNCHANGED <<doc, stream, source>>
    PROVE  IsReader(r)'
BY DEF IsReader, Typed, From, Window, B

LEMMA FreeReturns ==
    ASSUME ReaderInv, NEW op, NEW y, NEW n, NEW b, Returns(op, y, n, b),
           IsReader(y), b \in Seq(B), y.error = "ok" => From(b, Position(y))
    PROVE  ReaderInv'
<1>1. r' = y /\ last'.bytes = b /\ UNCHANGED <<doc, stream, source>>
  BY DEF Returns
<1>2. World' /\ IsReader(r)'
  BY <1>1, WorldKept, ReaderCarried DEF ReaderInv
<1>3. (last.bytes \in Seq(B))'
  BY <1>1 DEF B
<1>4. (r.error = "ok" => From(last.bytes, Position(r)))'
  BY <1>1 DEF From, Position, Left
<1> QED
  BY <1>2, <1>3, <1>4 DEF ReaderInv

LEMMA FreeNothing ==
    ASSUME ReaderInv, NEW op, NEW y, NEW n, Returns(op, y, n, << >>), Reads(r, y)
    PROVE  ReaderInv'
<1>1. << >> \in Seq(B)
  OBVIOUS
<1>2. From(<< >>, Position(y)) /\ IsReader(y)
  BY FromNothing DEF Reads
<1> QED
  BY <1>1, <1>2, FreeReturns

LEMMA FreeReader ==
    ASSUME ReaderInv, NEW op, NEW y, GivesReader(op, y), Reads(r, y)
    PROVE  ReaderInv'
BY FreeNothing DEF GivesReader

LEMMA FreeNumber ==
    ASSUME ReaderInv, NEW op, NEW d, GivesNumber(op, d), Reads(r, d.r)
    PROVE  ReaderInv'
BY FreeNothing DEF GivesNumber

LEMMA FreeBytes ==
    ASSUME ReaderInv, NEW op, NEW d, GivesBytes(op, d), Gives(r, d)
    PROVE  ReaderInv'
BY FreeReturns DEF GivesBytes, Gives, Reads

LEMMA OpenBytesTyped ==
    ASSUME NEW b, NEW n \in 0..b
    PROVE  n \in Nat
OBVIOUS

\* The caller that the tracking lets do anything
LEMMA FreeStep ==
    ASSUME ReaderInv, NextRead
    PROVE  ReaderInv'
<1>0. World /\ IsReader(r)
  BY DEF ReaderInv
<1>1. CASE CallTag
  <2>1. Reads(r, ReadTag(r).r)
    BY <1>0, ReadTagReads
  <2> QED
    BY <1>1, <2>1, FreeNothing DEF CallTag
<1>2. CASE CallPeek
  <2>1. Reads(r, PeekTag(r).r)
    BY <1>0, PeekTagReads
  <2> QED
    BY <1>2, <2>1, FreeNothing DEF CallPeek
<1>3. CASE CallDiscard
  BY <1>0, <1>3, DiscardReads, FreeReader DEF CallDiscard
<1>4. CASE CallBytes
  <2>1. PICK n \in 0..OpenBytes :
            \/ GivesBytes("bytes", ReadBytes(r, n))
            \/ GivesBytes("bytes", BytesInplace(r, n))
            \/ GivesBytes("bytes", ReadAlloc(r, n, FALSE))
            \/ GivesReader("skip", SkipBytes(r, n))
    BY <1>4, Zenon DEF CallBytes
  <2>2. n \in Nat
    BY OpenBytesTyped
  <2>3. /\ Gives(r, ReadBytes(r, n)) /\ Gives(r, BytesInplace(r, n)) /\ Gives(r, ReadAlloc(r, n, FALSE))
        /\ Reads(r, SkipBytes(r, n))
    BY <1>0, <2>2, BytesGive, AllocGives, SkipBytesReads
  <2> QED
    BY <2>1, <2>3, FreeBytes, FreeReader
<1>5. CASE CallText
  <2>1. PICK n \in 0..OpenBytes :
            \/ GivesBytes("text", ReadUtf8(r, n))
            \/ GivesBytes("text", Utf8Inplace(r, n))
            \/ GivesBytes("text", ReadCstr(r, BufferSize, n))
            \/ GivesBytes("text", ReadUtf8Cstr(r, BufferSize, n))
    BY <1>5, Zenon DEF CallText
  <2>2. n \in Nat
    BY OpenBytesTyped
  <2>3. /\ Gives(r, ReadUtf8(r, n)) /\ Gives(r, Utf8Inplace(r, n))
        /\ Gives(r, ReadCstr(r, BufferSize, n)) /\ Gives(r, ReadUtf8Cstr(r, BufferSize, n))
    BY <1>0, <2>2, Utf8Gives, CstrGives
  <2> QED
    BY <2>1, <2>3, FreeBytes
<1>6. CASE CallDone
  BY <1>0, <1>6, DoneReads, FreeReader DEF CallDone
<1>7. CASE CallNumber
  <2>1. \A w : Reads(r, ExpectU(r, w).r) /\ Reads(r, ExpectI(r, w).r)
    BY <1>0, NumberReads
  <2>2. Reads(r, ExpectNilByte(r).r) /\ Reads(r, ExpectBoolByte(r).r)
    BY <1>0, ByteReads
  <2>3. \/ \E w : GivesNumber("value", ExpectU(r, w)) \/ GivesNumber("value", ExpectI(r, w))
        \/ GivesNumber("value", ExpectNilByte(r))
        \/ GivesNumber("value", ExpectBoolByte(r))
    BY <1>7, Zenon DEF CallNumber
  <2> QED
    BY <2>1, <2>2, <2>3, FreeNumber
<1>8. CASE CallExpectTag
  BY <1>0, <1>8, NumberReads, FreeNumber DEF CallExpectTag
<1>9. CASE CallCompound
  <2>1. PICK type \in {"array", "map"} :
            \/ GivesNumber("tag", ExpectCount(r, type, BufferSize))
            \/ GivesNumber("tag", ExpectCountOrNil(r, type, BufferSize))
    BY <1>9 DEF CallCompound, Compound
  <2>2. Reads(r, ExpectCount(r, type, BufferSize).r) /\ Reads(r, ExpectCountOrNil(r, type, BufferSize).r)
    BY <1>0, CountReads, NumberReads
  <2> QED
    BY <2>1, <2>2, FreeNumber
<1>10. CASE CallLength
  <2>1. Reads(r, ExpectStr(r).r) /\ Reads(r, ExpectBin(r).r)
    BY <1>0, StrReads, BinReads
  <2> QED
    BY <1>10, <2>1, FreeNumber DEF CallLength
<1>11. CASE CallBuffer
  <2>1. /\ Gives(r, ExpectStrBuf(r, BufferSize)) /\ Gives(r, ExpectUtf8(r, BufferSize))
        /\ Gives(r, ExpectBinBuf(r, BufferSize)) /\ Gives(r, ExpectBinSizeBuf(r, BufferSize))
        /\ Gives(r, ExpectCstr(r, BufferSize)) /\ Gives(r, ExpectUtf8Cstr(r, BufferSize))
    BY <1>0, BufferGives, ExpectCstrGives, BufferAssumption
  <2> QED
    BY <1>11, <2>1, FreeBytes DEF CallBuffer
<1>12. CASE CallAlloc
  <2>1. /\ Gives(r, ExpectCstrAlloc(r, BufferSize)) /\ Gives(r, ExpectUtf8CstrAlloc(r, BufferSize))
        /\ Gives(r, ExpectBinAlloc(r, BufferSize))
    BY <1>0, ExpectAllocGives
  <2> QED
    BY <1>12, <2>1, FreeBytes DEF CallAlloc
<1>13. CASE CallMatch
  <2>1. Reads(r, ExpectStrMatch(r, Texts[1], 2))
    BY <1>0, StrMatchReads
  <2> QED
    BY <1>13, <2>1, FreeReader DEF CallMatch
<1>14. CASE CallEnum
  <2>1. Reads(r, ExpectEnum(r, Texts).r) /\ Reads(r, EnumOptional(r, Texts).r)
    <3>1. DOMAIN Texts \subseteq Nat
      BY BufferAssumption
    <3> QED
      BY <1>0, <3>1, EnumReads
  <2> QED
    BY <1>14, <2>1, FreeNumber DEF CallEnum
<1>15. CASE CallKey
  <2>1. Reads(r, KeyUint(r, found, MaxKey).r)
    BY <1>0, KeyUintReads
  <2> QED
    BY <1>15, <2>1, FreeNothing DEF CallKey
<1>16. CASE CallRemaining
  BY <1>0, <1>16, ReadsSelf, FreeNothing DEF CallRemaining
<1>17. CASE CallDestroy
  BY <1>0, <1>17, ReadsSelf, FreeReader DEF CallDestroy
<1> QED
  BY <1>1, <1>2, <1>3, <1>4, <1>5, <1>6, <1>7, <1>8, <1>9, <1>10, <1>11, <1>12, <1>13, <1>14, <1>15, <1>16, <1>17
     DEF NextRead

-----------------------------------------------------------------------------
(* A reader of bytes that were received                                     *)

LEMMA DataReader ==
    ASSUME NEW v \in Seq(B), NEW p \in Nat, From(v, p)
    PROVE  IsReader(InitData(v, p))
<1> DEFINE x == InitData(v, p)
<1>1. /\ DOMAIN x = {"mem", "data", "src", "eof", "fills", "error", "track"}
      /\ x.mem = v /\ x.data = 0 /\ x.src = p /\ x.fills = FALSE /\ x.error = "ok"
  BY DEF InitData, Reader
<1> HIDE DEF x
<1>2. 0 \in 0..Len(v) /\ 0 + 1 = 1
  OBVIOUS
<1>3. Typed(x)
  BY <1>1, <1>2 DEF Typed
<1>4. Window(x) = v
  BY <1>1, <1>2, SubSeqWhole DEF Window
<1>5. IsReader(x)
  BY <1>1, <1>3, <1>4 DEF IsReader
<1> QED
  BY <1>5 DEF x

LEMMA InsideReader ==
    ASSUME World, NEW from \in Nat, NEW to \in Nat, to <= Len(stream)
    PROVE  IsReader(InitData(Inside(from, to), to))
BY FromStream, DataReader DEF Inside

\* What a reader has read lies in the stream
LEMMA PositionNat ==
    ASSUME World, NEW x, IsReader(x)
    PROVE  Position(x) \in Nat /\ x.src = Position(x) + Left(x) /\ Left(x) \in Nat
<1>1. Left(x) \in Nat /\ Position(x) = x.src - Left(x) /\ x.src \in Nat /\ Window(x) \in Seq(B) /\ Len(Window(x)) = Left(x)
  BY WindowTyped DEF IsReader
<1>2. Position(x) \in Nat
  <2>1. CASE Left(x) = 0
    BY <1>1, <2>1
  <2>2. CASE Left(x) # 0
    <3>1. x.error = "ok"
      <4>1. ASSUME x.error # "ok" PROVE Left(x) = 0
        <5>1. x.data = Len(x.mem) /\ Typed(x)
          BY <4>1 DEF IsReader
        <5> QED
          BY <5>1, Emptied
      <4> QED
        BY <2>2, <4>1
    <3>2. From(Window(x), x.src)
      BY <3>1 DEF IsReader
    <3>3. 1 \in 1..Len(Window(x))
      BY <1>1, <2>2
    <3>4. (x.src - Left(x)) + 1 \in 1..Len(stream)
      BY <1>1, <3>2, <3>3 DEF From
    <3>5. Len(stream) \in Nat
      BY DEF World
    <3> QED
      BY <1>1, <3>4, <3>5
  <2> QED
    BY <2>1, <2>2
<1> QED
  BY <1>1, <1>2

-----------------------------------------------------------------------------
(* The loops over fields                                                    *)

LEMMA LoopsFrom ==
    ASSUME NEW S, NEW s \in Seq(S), \A l \in S : IsLoop(l)
    PROVE  AreLoops(s)
<1> DEFINE T == {s[k] : k \in 1..Len(s)}
<1>1. T \subseteq S
  OBVIOUS
<1>2. s \in Seq(T)
  <2>1. Len(s) \in Nat /\ \A k \in 1..Len(s) : s[k] \in T
    OBVIOUS
  <2>2. s = [k \in 1..Len(s) |-> s[k]]
    OBVIOUS
  <2> HIDE DEF T
  <2> QED
    BY <2>1, <2>2
<1> HIDE DEF T
<1>3. \A l \in T : IsLoop(l)
  BY <1>1
<1> QED
  BY <1>2, <1>3 DEF AreLoops, T

LEMMA LoopsNone == AreLoops(<< >>)
<1> DEFINE S == {}
<1>1. \A l \in S : IsLoop(l)
  OBVIOUS
<1>2. << >> \in Seq(S)
  OBVIOUS
<1> HIDE DEF S
<1> QED
  BY <1>1, <1>2, LoopsFrom

LEMMA LoopsMore ==
    ASSUME NEW s, AreLoops(s), NEW l, IsLoop(l)
    PROVE  AreLoops(Append(s, l))
<1> DEFINE S == {s[k] : k \in 1..Len(s)}
           T == S \cup {l}
<1>1. s \in Seq(S) /\ \A m \in S : IsLoop(m)
  BY DEF AreLoops
<1> HIDE DEF S
<1>2. Append(s, l) \in Seq(T)
  <2>1. s \in Seq(T)
    BY <1>1
  <2>2. l \in T
    OBVIOUS
  <2> HIDE DEF T
  <2> QED
    BY <2>1, <2>2
<1>3. \A m \in T : IsLoop(m)
  BY <1>1
<1> HIDE DEF T
<1> QED
  BY <1>2, <1>3, LoopsFrom

LEMMA LoopsOne ==
    ASSUME NEW l, IsLoop(l)
    PROVE  AreLoops(<<l>>)
<1>1. AreLoops(Append(<< >>, l))
  BY LoopsNone, LoopsMore
<1>2. Append(<< >>, l) = <<l>>
  OBVIOUS
<1> QED
  BY <1>1, <1>2, Zenon

LEMMA BeginningTyped ==
    ASSUME NEW S, NEW s \in Seq(S), NEW n \in Nat, n <= Len(s)
    PROVE  SubSeq(s, 1, n) \in Seq(S)
OBVIOUS

LEMMA LoopsLess ==
    ASSUME NEW s, AreLoops(s), s # << >>
    PROVE  AreLoops(SubSeq(s, 1, Len(s) - 1)) /\ IsLoop(s[Len(s)])
<1> DEFINE S == {s[k] : k \in 1..Len(s)}
<1>1. s \in Seq(S) /\ \A m \in S : IsLoop(m)
  BY DEF AreLoops
<1> HIDE DEF S
<1>2. Len(s) \in Nat /\ Len(s) > 0
  BY <1>1
<1>3. s[Len(s)] \in S
  BY <1>1, <1>2
<1>4. SubSeq(s, 1, Len(s) - 1) \in Seq(S)
  <2>1. Len(s) - 1 \in Nat /\ Len(s) - 1 <= Len(s)
    BY <1>2
  <2> QED
    BY <1>1, <2>1, BeginningTyped
<1> QED
  BY <1>1, <1>3, <1>4, LoopsFrom

LEMMA ListsAreFields ==
    /\ \A n \in DOMAIN Results : Results[n] \in FieldLists
    /\ \A n \in DOMAIN Notices : Notices[n] \in FieldLists
    /\ EntryFields \in FieldLists /\ ColorFields \in FieldLists
<1> DEFINE F == [key : Keys, kind : Kinds]
<1>1. \A key \in Keys : \A kind \in Kinds : Field(key, kind) \in F
  BY DEF Field
<1> HIDE DEF F
<1>3. /\ \A a \in F : <<a>> \in Seq(F)
      /\ \A a, b \in F : <<a, b>> \in Seq(F)
      /\ \A a, b, c \in F : <<a, b, c>> \in Seq(F)
  OBVIOUS
<1>4. /\ \A a, b, c, d \in F : <<a, b, c, d>> \in Seq(F)
      /\ \A a, b, c, d, e \in F : <<a, b, c, d, e>> \in Seq(F)
  OBVIOUS
<1>5. \A a, b, c, d, e, f \in F : <<a, b, c, d, e, f>> \in Seq(F)
  OBVIOUS
<1>6. /\ HelloFields \in Seq(F) /\ EntryFields \in Seq(F) /\ UploadFields \in Seq(F) /\ PlaceFields \in Seq(F)
      /\ ListFields \in Seq(F) /\ EvictedFields \in Seq(F) /\ StatusFields \in Seq(F) /\ TopologyFields \in Seq(F)
      /\ VisibilityFields \in Seq(F) /\ ThemeFields \in Seq(F) /\ ColorFields \in Seq(F)
  <2>1. HelloFields \in Seq(F)
    <3>1. /\ Field("client_id", "cstr") \in F /\ Field("cols", "int") \in F
          /\ Field("rows", "int") \in F /\ Field("cell_width", "int") \in F
          /\ Field("cell_height", "int") \in F /\ Field("in_tmux", "bool") \in F
      BY <1>1 DEF Keys, Kinds
    <3> QED
      BY <1>5, <3>1, Zenon DEF HelloFields
  <2>2. UploadFields \in Seq(F)
    <3>1. Field("handle", "u32") \in F
      BY <1>1 DEF Keys, Kinds
    <3> QED
      BY <1>3, <3>1, Zenon DEF UploadFields
  <2>3. PlaceFields \in Seq(F)
    <3>1. Field("placement_id", "u32") \in F
      BY <1>1 DEF Keys, Kinds
    <3> QED
      BY <1>3, <3>1, Zenon DEF PlaceFields
  <2>4. ListFields \in Seq(F)
    <3>1. Field("placements", "entries") \in F
      BY <1>1 DEF Keys, Kinds
    <3> QED
      BY <1>3, <3>1, Zenon DEF ListFields
  <2>5. EntryFields \in Seq(F)
    <3>1. /\ Field("placement_id", "u32") \in F /\ Field("client_id", "cstr") \in F
          /\ Field("handle", "u32") \in F /\ Field("visible", "bool") \in F
          /\ Field("row", "int") \in F /\ Field("col", "int") \in F
      BY <1>1 DEF Keys, Kinds
    <3> QED
      BY <1>5, <3>1, Zenon DEF EntryFields
  <2>6. StatusFields \in Seq(F)
    <3>1. /\ Field("clients", "int") \in F /\ Field("placements", "int") \in F
          /\ Field("images", "int") \in F /\ Field("cols", "int") \in F
          /\ Field("rows", "int") \in F
      BY <1>1 DEF Keys, Kinds
    <3> QED
      BY <1>4, <3>1, Zenon DEF StatusFields
  <2>7. EvictedFields \in Seq(F)
    <3>1. Field("handle", "u32") \in F
      BY <1>1 DEF Keys, Kinds
    <3> QED
      BY <1>3, <3>1, Zenon DEF EvictedFields
  <2>8. TopologyFields \in Seq(F)
    <3>1. /\ Field("cols", "int") \in F /\ Field("rows", "int") \in F
          /\ Field("cell_width", "int") \in F /\ Field("cell_height", "int") \in F
      BY <1>1 DEF Keys, Kinds
    <3> QED
      BY <1>4, <3>1, Zenon DEF TopologyFields
  <2>9. VisibilityFields \in Seq(F)
    <3>1. Field("placement_id", "u32") \in F /\ Field("visible", "bool") \in F
      BY <1>1 DEF Keys, Kinds
    <3> QED
      BY <1>3, <3>1, Zenon DEF VisibilityFields
  <2>10. ThemeFields \in Seq(F)
    <3>1. Field("fg", "color") \in F /\ Field("bg", "color") \in F
      BY <1>1 DEF Keys, Kinds
    <3> QED
      BY <1>3, <3>1, Zenon DEF ThemeFields
  <2>11. ColorFields \in Seq(F)
    <3>1. Field("r", "u16") \in F /\ Field("g", "u16") \in F /\ Field("b", "u16") \in F
      BY <1>1 DEF Keys, Kinds
    <3> QED
      BY <1>3, <3>1, Zenon DEF ColorFields
  <2> QED
    BY <2>1, <2>2, <2>3, <2>4, <2>5, <2>6, <2>7, <2>8, <2>9, <2>10, <2>11
<1>7. /\ \A n \in DOMAIN Results : Results[n] \in Seq(F)
      /\ \A n \in DOMAIN Notices : Notices[n] \in Seq(F)
  BY <1>6 DEF Results, Notices
<1> QED
  BY <1>6, <1>7 DEF FieldLists, F

LEMMA NewLoops ==
    ASSUME NEW fields \in FieldLists, NEW parent, NEW n
    PROVE  IsLoop(MapLoop(fields, parent, n)) /\ IsLoop(EntryLoop(n))
BY ListsAreFields DEF MapLoop, EntryLoop, IsLoop

\* A round ends with the loop as it was but for its counts
LEMMA RoundLoops ==
    ASSUME AreLoops(loops), loops # << >>, NEW i
    PROVE  AreLoops(Round(i)) /\ IsLoop(Inner) /\ AreLoops(Outer)
<1>1. AreLoops(Outer) /\ IsLoop(Inner)
  BY LoopsLess DEF Outer, Inner
<1> DEFINE l == [Inner EXCEPT !.left = @ - 1, !.taken = @ \cup ({i} \ {0})]
<1>2. DOMAIN l = DOMAIN Inner /\ l.fields = Inner.fields
  BY <1>1 DEF IsLoop
<1> HIDE DEF l
<1>3. IsLoop(l)
  BY <1>1, <1>2 DEF IsLoop
<1>4. AreLoops(Append(Outer, l))
  BY <1>1, <1>3, LoopsMore
<1> QED
  BY <1>1, <1>4 DEF Round, l

-----------------------------------------------------------------------------
(* The steps of the client                                                  *)

LEMMA LoopsCarried ==
    ASSUME NEW e, AreLoops(e), loops' = e
    PROVE  AreLoops(loops)'
BY DEF AreLoops, IsLoop, FieldLists

LEMMA SlotKept ==
    ASSUME SlotInv, UNCHANGED <<slot, stream, driver, call>>
    PROVE  SlotInv'
BY DEF SlotInv, From, B, Results

LEMMA ReplyKept ==
    ASSUME ReplyInv, phase # "free", NEW y, IsReader(y), r' = y,
           UNCHANGED <<doc, stream, source, last, driver>>,
           phase' # "free", phase' \in {"read", "frame"} => driver = "reader",
           begin' \in Nat, arrived' \in Nat, arrived' <= source.limit,
           ends' \in Nat, ends' <= Len(stream), SlotInv',
           phase' = "notice" => method' \in DOMAIN Notices,
           params' \in Nat, phase' \in {"notice", "fields"} => params' >= 1,
           AreLoops(loops)'
    PROVE  ReplyInv'
<1>1. driver # "free" /\ last.bytes = << >> /\ driver \in {"reader", "fuzz"}
  BY DEF ReplyInv, CallInv
<1>2. World' /\ IsReader(r)'
  BY WorldKept, ReaderCarried DEF ReplyInv, ReaderInv
<1>3. (last.bytes \in Seq(B))'
  <2>1. << >> \in Seq(B)
    OBVIOUS
  <2> QED
    BY <1>1, <2>1 DEF B
<1>4. From(last.bytes, Position(r))'
  BY <1>1 DEF From
<1>5. ReaderInv'
  BY <1>2, <1>3, <1>4 DEF ReaderInv
<1>6. CallInv'
  BY <1>1 DEF CallInv, Notices
<1> QED
  BY <1>5, <1>6 DEF ReplyInv

\* A step of process_message, which goes on with what it reads next or returns
LEMMA MessageStep ==
    ASSUME ReplyInv, phase \notin {"free", "read", "frame"}, NEW y, Reads(r, y),
           NEW p, p \in {"type", "msgid", "method", "error", "result", "errorKeys"},
           To(p, y) \/ Returned(y), Kept, SlotInv', params' \in Nat
    PROVE  ReplyInv'
<1>1. /\ r' = y /\ phase' \in {p, "done", "frame"} /\ (phase' = "frame" => driver # "fuzz")
      /\ begin' \in {begin, ends}
  BY DEF To, Returned
<1>2. /\ UNCHANGED <<doc, stream, source, last, driver, arrived, ends, loops>>
  BY DEF Kept
<1>3. /\ driver \in {"reader", "fuzz"} /\ begin \in Nat /\ arrived \in Nat /\ arrived <= source.limit
      /\ ends \in Nat /\ ends <= Len(stream) /\ AreLoops(loops)
  BY DEF ReplyInv, CallInv
<1>4. AreLoops(loops)'
  BY <1>2, <1>3, LoopsCarried
<1>5. IsReader(y)
  BY DEF Reads
<1>6. phase' \notin {"free", "read", "notice", "fields"} /\ (phase' \in {"read", "frame"} => driver = "reader")
  BY <1>1, <1>3
<1>7. begin' \in Nat /\ arrived' \in Nat /\ arrived' <= source.limit /\ ends' \in Nat /\ ends' <= Len(stream)
  BY <1>1, <1>2, <1>3
<1> QED
  BY <1>1, <1>2, <1>4, <1>5, <1>6, <1>7, ReplyKept

LEMMA ReceiveStep ==
    ASSUME ReplyInv, Receive
    PROVE  ReplyInv'
<1>1. /\ arrived' = Least({source.limit, arrived + source.chunk}) /\ phase = "read" /\ phase' = "frame"
      /\ UNCHANGED <<doc, stream, source, r, last, driver, begin, ends, call, method, params, loops, slot>>
  BY DEF Receive, readerVars
<1>2. /\ arrived \in Nat /\ source.limit \in Nat /\ source.chunk \in Nat /\ driver = "reader" /\ begin \in Nat
      /\ ends \in Nat /\ ends <= Len(stream) /\ params \in Nat /\ AreLoops(loops) /\ SlotInv /\ IsReader(r)
  BY <1>1 DEF ReplyInv, CallInv, ReaderInv, World
<1>3. arrived' \in Nat /\ arrived' <= source.limit
  <2> DEFINE a == source.limit
             b == arrived + source.chunk
  <2>1. a \in Nat /\ b \in Nat
    BY <1>2
  <2> HIDE DEF a, b
  <2>2. \E m \in {a, b} : \A n \in {a, b} : m <= n
    BY <2>1
  <2>3. Least({a, b}) \in {a, b} /\ \A n \in {a, b} : Least({a, b}) <= n
    BY <2>2, Zenon DEF Least
  <2> QED
    BY <1>1, <2>1, <2>3 DEF a, b
<1>4. AreLoops(loops)' /\ SlotInv'
  BY <1>1, <1>2, LoopsCarried, SlotKept
<1> QED
  BY <1>1, <1>2, <1>3, <1>4, ReplyKept

LEMMA FrameStep ==
    ASSUME ReplyInv, Frame
    PROVE  ReplyInv'
<1> DEFINE x == InitData(Inside(begin, arrived), arrived)
           whole == Discard(x)
           end == arrived - Remaining(whole)
           y == InitData(Inside(begin, end), end)
<1>1. /\ phase = "frame"
      /\ IF arrived > begin /\ whole.error = "ok"
         THEN phase' = "array" /\ ends' = end /\ r' = y
         ELSE phase' = "read" /\ UNCHANGED <<ends, r>>
      /\ UNCHANGED <<doc, stream, source, last, driver, arrived, begin, call, method, params, loops, slot>>
  BY DEF Frame
<1>2. /\ arrived \in Nat /\ source.limit \in Nat /\ arrived <= source.limit /\ driver = "reader" /\ begin \in Nat
      /\ ends \in Nat /\ ends <= Len(stream) /\ params \in Nat /\ AreLoops(loops) /\ SlotInv /\ IsReader(r) /\ World
      /\ source.limit <= Len(stream) /\ Len(stream) \in Nat
  BY <1>1 DEF ReplyInv, CallInv, ReaderInv, World
<1>3. AreLoops(loops)' /\ SlotInv'
  BY <1>1, <1>2, LoopsCarried, SlotKept
<1>4. arrived <= Len(stream)
  BY <1>2
<1>5. IsReader(x) /\ x.src = arrived /\ x.fills = FALSE
  BY <1>2, <1>4, InsideReader DEF InitData, Reader
<1> HIDE DEF x
<1>6. IsReader(whole) /\ whole.src = arrived
  BY <1>2, <1>5, DiscardReads DEF Reads
<1> HIDE DEF whole
<1>7. Remaining(whole) \in Nat /\ Remaining(whole) <= arrived
  BY <1>2, <1>6, PositionNat DEF Remaining
<1>8. end \in Nat /\ end <= Len(stream)
  BY <1>2, <1>4, <1>7
<1> HIDE DEF end
<1>9. IsReader(y)
  BY <1>2, <1>8, InsideReader
<1> HIDE DEF y
<1>10. CASE arrived > begin /\ whole.error = "ok"
  <2>1. phase' = "array" /\ ends' = end /\ r' = y
    BY <1>1, <1>10
  <2> QED
    BY <1>1, <1>2, <1>3, <1>8, <1>9, <2>1, ReplyKept
<1>11. CASE ~(arrived > begin /\ whole.error = "ok")
  <2>1. phase' = "read" /\ UNCHANGED <<ends, r>>
    BY <1>1, <1>11
  <2> QED
    BY <1>1, <1>2, <1>3, <2>1, ReplyKept
<1> QED
  BY <1>10, <1>11

LEMMA ArrayStep ==
    ASSUME ReplyInv, ProcessArray
    PROVE  ReplyInv'
<1>1. World /\ IsReader(r) /\ SlotInv /\ params \in Nat
  BY DEF ReplyInv, ReaderInv, CallInv
<1> DEFINE d == ExpectCount(r, "array", ArrayMax)
<1>2. Reads(r, d.r)
  BY <1>1, CountReads
<1>3. /\ phase = "array" /\ (To("type", d.r) \/ Returned(d.r)) /\ Kept /\ UNCHANGED <<params, slot>>
  BY DEF ProcessArray, Locals
<1> HIDE DEF d
<1>4. SlotInv'
  BY <1>1, <1>3, SlotKept DEF Kept
<1> QED
  BY <1>1, <1>2, <1>3, <1>4, MessageStep

LEMMA TypeStep ==
    ASSUME ReplyInv, ProcessType
    PROVE  ReplyInv'
<1>1. World /\ IsReader(r) /\ SlotInv /\ params \in Nat
  BY DEF ReplyInv, ReaderInv, CallInv
<1> DEFINE d == ExpectI(r, 32)
<1>2. Reads(r, d.r)
  BY <1>1, NumberReads
<1>3. /\ phase = "type" /\ (To("msgid", d.r) \/ To("method", d.r) \/ Returned(d.r)) /\ Kept /\ UNCHANGED <<params, slot>>
  BY DEF ProcessType, Locals
<1> HIDE DEF d
<1>4. SlotInv'
  BY <1>1, <1>3, SlotKept DEF Kept
<1> QED
  BY <1>1, <1>2, <1>3, <1>4, MessageStep

LEMMA MsgidStep ==
    ASSUME ReplyInv, ProcessMsgid
    PROVE  ReplyInv'
<1>1. World /\ IsReader(r) /\ SlotInv /\ params \in Nat
  BY DEF ReplyInv, ReaderInv, CallInv
<1> DEFINE d == ExpectU(r, 32)
<1>2. Reads(r, d.r)
  BY <1>1, NumberReads
<1>3. /\ phase = "msgid" /\ (To("error", d.r) \/ Returned(d.r)) /\ Kept /\ UNCHANGED <<params, slot>>
  BY DEF ProcessMsgid
<1> HIDE DEF d
<1>4. SlotInv'
  BY <1>1, <1>3, SlotKept DEF Kept
<1> QED
  BY <1>1, <1>2, <1>3, <1>4, MessageStep

LEMMA ErrorStep ==
    ASSUME ReplyInv, ProcessError
    PROVE  ReplyInv'
<1>1. World /\ IsReader(r) /\ SlotInv /\ params \in Nat
  BY DEF ReplyInv, ReaderInv, CallInv
<1> DEFINE t == ReadTag(r)
<1>2. Reads(r, t.r) /\ IsTag(t.v)
  BY <1>1, ReadTagReads
<1>3. /\ phase = "error" /\ Kept /\ UNCHANGED slot
      /\ \/ To("result", t.r) /\ UNCHANGED params
         \/ t.v.type = "map" /\ To("errorKeys", t.r) /\ params' = t.v.v
         \/ To("result", Discard(t.r)) /\ UNCHANGED params
  BY DEF ProcessError
<1> HIDE DEF t
<1>4. SlotInv'
  BY <1>1, <1>3, SlotKept DEF Kept
<1>5. Reads(r, Discard(t.r))
  BY <1>1, <1>2, DiscardReads, ReadsThen DEF Reads
<1>6. t.v.type = "map" => t.v.v \in Nat
  BY <1>2 DEF IsTag
<1>7. params' \in Nat
  BY <1>1, <1>3, <1>6
<1> QED
  BY <1>2, <1>3, <1>4, <1>5, <1>7, MessageStep

LEMMA ErrorKeyStep ==
    ASSUME ReplyInv, ProcessErrorKey
    PROVE  ReplyInv'
<1>1. World /\ IsReader(r) /\ SlotInv /\ params \in Nat
  BY DEF ReplyInv, ReaderInv, CallInv
<1> DEFINE k == ExpectCstr(r, KeyBuffer)
           t == ExpectCstr(k.r, TextBuffer)
<1>2. Reads(r, k.r)
  BY <1>1, ExpectCstrGives DEF Gives
<1>3. /\ phase = "errorKeys" /\ params > 0 /\ Kept /\ UNCHANGED slot /\ params' \in {params, params - 1}
      /\ Returned(k.r) \/ To("errorKeys", t.r) \/ To("errorKeys", Discard(k.r))
  BY DEF ProcessErrorKey
<1> HIDE DEF k
<1>4. SlotInv'
  BY <1>1, <1>3, SlotKept DEF Kept
<1>5. IsReader(k.r)
  BY <1>2 DEF Reads
<1>6. Reads(k.r, t.r) /\ Reads(k.r, Discard(k.r))
  BY <1>1, <1>5, ExpectCstrGives, DiscardReads DEF Gives
<1> HIDE DEF t
<1>7. Reads(r, t.r) /\ Reads(r, Discard(k.r))
  BY <1>2, <1>6, ReadsThen
<1>8. params' \in Nat
  BY <1>1, <1>3
<1> QED
  BY <1>2, <1>3, <1>4, <1>7, <1>8, MessageStep

LEMMA ErrorEndStep ==
    ASSUME ReplyInv, ErrorMapEnds
    PROVE  ReplyInv'
<1>1. IsReader(r) /\ SlotInv /\ params \in Nat
  BY DEF ReplyInv, ReaderInv, CallInv
<1>2. phase = "errorKeys" /\ To("result", r) /\ Kept /\ UNCHANGED <<params, slot>>
  BY DEF ErrorMapEnds, Locals
<1>3. SlotInv'
  BY <1>1, <1>2, SlotKept DEF Kept
<1> QED
  BY <1>1, <1>2, <1>3, ReadsSelf, MessageStep

\* The bytes of the result are those of the stream after what was read
LEMMA RawIsRead ==
    ASSUME World, IsReader(r), NEW left \in Nat
    PROVE  LET rest == IF r.error = "ok" THEN Window(r) ELSE << >>
               raw == SubSeq(rest, 1, Len(rest) - left) IN
           /\ raw \in Seq(B) /\ Position(r) + Len(raw) \in Nat /\ From(raw, Position(r) + Len(raw))
           /\ IsReader(InitData(rest, Position(r) + Len(rest)))
<1> DEFINE rest == IF r.error = "ok" THEN Window(r) ELSE << >>
           n == Len(rest)
           p == Position(r)
           raw == SubSeq(rest, 1, n - left)
<1>1. p \in Nat /\ r.src = p + Left(r) /\ Left(r) \in Nat
  BY PositionNat
<1>2. rest \in Seq(B) /\ n \in Nat /\ From(rest, p + n)
  <2>1. CASE r.error = "ok"
    <3>1. rest = Window(r)
      BY <2>1
    <3>2. Window(r) \in Seq(B) /\ Len(Window(r)) = Left(r) /\ From(Window(r), r.src)
      BY <2>1, WindowTyped DEF IsReader
    <3> HIDE DEF rest, p
    <3> QED
      BY <1>1, <3>1, <3>2
  <2>2. CASE r.error # "ok"
    <3>1. rest = << >> /\ << >> \in Seq(B) /\ Len(<< >>) = 0
      BY <2>2
    <3> HIDE DEF rest
    <3> QED
      BY <3>1, FromNothing
  <2> QED
    BY <2>1, <2>2
<1> HIDE DEF rest, p
<1>3. p + n \in Nat
  BY <1>1, <1>2
<1>4. IsReader(InitData(rest, p + n))
  BY <1>2, <1>3, DataReader
<1>5. raw \in Seq(B) /\ p + Len(raw) \in Nat /\ From(raw, p + Len(raw))
  <2>1. CASE left <= n
    <3> DEFINE b == n - left
    <3>1. b \in Nat /\ b <= Len(rest) /\ 0 \in Nat /\ 0 + 1 = 1 /\ 0 <= b /\ b - 0 = b /\ (p + n) \in Int
          /\ (p + n) - (Len(rest) - b) = p + b /\ p + b \in Nat
      BY <1>1, <1>2, <2>1
    <3>2. /\ SubSeq(rest, 0 + 1, b) \in Seq(B)
          /\ Len(SubSeq(rest, 0 + 1, b)) = IF 0 <= b THEN b - 0 ELSE 0
          /\ From(SubSeq(rest, 0 + 1, b), (p + n) - (Len(rest) - b))
      <4> HIDE DEF b, n
      <4> QED
        BY <1>2, <3>1, FromPart
    <3>3. SubSeq(rest, 0 + 1, b) = raw
      BY <3>1
    <3> HIDE DEF raw, b, n
    <3> QED
      BY <3>1, <3>2, <3>3
  <2>2. CASE ~(left <= n)
    <3>1. raw \in Seq(B) /\ Len(raw) = 0
      BY <1>2, <2>2
    <3>2. p + Len(raw) = p
      BY <1>1, <3>1
    <3> HIDE DEF raw
    <3>3. raw = << >>
      BY <3>1
    <3> QED
      BY <1>1, <3>1, <3>2, <3>3, FromNothing
  <2> QED
    BY <2>1, <2>2
<1> QED
  BY <1>4, <1>5 DEF rest, p

LEMMA ResultStep ==
    ASSUME ReplyInv, ProcessResult
    PROVE  ReplyInv'
<1> DEFINE rest == IF r.error = "ok" THEN Window(r) ELSE << >>
           x == Discard(InitData(rest, Position(r) + Len(rest)))
           part == SubSeq(rest, 1, Len(rest) - Remaining(x))
           raw == IF x.error = "ok" THEN part ELSE << >>
           mine == Waits /\ msgid % Slots = 1 % Slots
<1>1. World /\ IsReader(r) /\ SlotInv /\ params \in Nat
  BY DEF ReplyInv, ReaderInv, CallInv
<1>2. phase = "result" /\ Returned(Discard(r)) /\ Kept /\ UNCHANGED params /\ Respond(raw)
  BY Zenon DEF ProcessResult, Locals
<1>3. \E copied \in {TRUE, ~source.starved} : slot' = IF mine THEN Result(IF copied THEN raw ELSE << >>) ELSE slot
  BY <1>2, Zenon DEF Respond
<1>4. raw \in Seq(B) /\ Position(r) + Len(raw) \in Nat /\ From(raw, Position(r) + Len(raw))
  <2>1. Remaining(x) \in Nat
    <3>1. 0 \in Nat /\ IsReader(InitData(rest, Position(r) + Len(rest)))
      BY <1>1, RawIsRead
    <3>2. IsReader(x)
      BY <1>1, <3>1, DiscardReads DEF Reads
    <3> HIDE DEF x
    <3> QED
      BY <1>1, <3>2, PositionNat DEF Remaining
  <2> HIDE DEF x
  <2>2. part \in Seq(B) /\ Position(r) + Len(part) \in Nat /\ From(part, Position(r) + Len(part))
    BY <1>1, <2>1, RawIsRead
  <2>3. << >> \in Seq(B) /\ Position(r) + Len(<< >>) \in Nat /\ From(<< >>, Position(r) + Len(<< >>))
    <3>1. << >> \in Seq(B) /\ Len(<< >>) = 0
      OBVIOUS
    <3>2. Position(r) \in Nat
      BY <1>1, PositionNat
    <3> QED
      BY <3>1, <3>2, FromNothing
  <2> HIDE DEF part
  <2> QED
    BY <2>2, <2>3
<1> HIDE DEF raw
<1>5. << >> \in Seq(B) /\ Position(r) + Len(<< >>) \in Nat /\ From(<< >>, Position(r) + Len(<< >>))
  <2>1. << >> \in Seq(B) /\ Len(<< >>) = 0
    OBVIOUS
  <2>2. Position(r) \in Nat
    BY <1>1, PositionNat
  <2> QED
    BY <2>1, <2>2, FromNothing
<1>6. UNCHANGED <<stream, driver, call>>
  BY <1>2 DEF Kept
<1>7. ASSUME NEW w, w \in Seq(B), Position(r) + Len(w) \in Nat, From(w, Position(r) + Len(w)),
             slot' = Result(w), mine
      PROVE  SlotInv'
  <2> DEFINE p == Position(r) + Len(w)
  <2>1. slot'.data = (IF hasError THEN << >> ELSE w) /\ slot'.src = p
    BY <1>7 DEF Result
  <2>2. slot'.data \in Seq(B) /\ From(slot'.data, slot'.src) /\ slot'.src \in Nat
    <3> HIDE DEF p
    <3>1. From(w, p) /\ p \in Nat
      BY <1>7 DEF p
    <3> QED
      BY <1>5, <1>7, <2>1, <3>1, FromNothing
  <2>3. driver = "reader" => call \in DOMAIN Results
    BY <1>7 DEF Waits
  <2> QED
    BY <1>6, <2>2, <2>3 DEF SlotInv, From, B, Results
<1>8. SlotInv'
  <2>1. CASE ~mine
    <3>1. UNCHANGED slot
      BY <1>3, <2>1
    <3> QED
      BY <1>1, <1>6, <3>1, SlotKept
  <2>2. CASE mine
    <3>1. slot' = Result(raw) \/ slot' = Result(<< >>)
      BY <1>3, <2>2
    <3> QED
      BY <1>4, <1>5, <1>7, <2>2, <3>1
  <2> QED
    BY <2>1, <2>2
<1>9. Reads(r, Discard(r))
  BY <1>1, DiscardReads
<1>10. params' \in Nat
  BY <1>1, <1>2
<1> QED
  BY <1>2, <1>8, <1>9, <1>10, MessageStep

LEMMA MethodStep ==
    ASSUME ReplyInv, ProcessMethod
    PROVE  ReplyInv'
<1> DEFINE m == ExpectCstr(r, TextBuffer)
           p == ExpectCount(m.r, "array", ParamMax)
           s == SkipParams(p.r, p.v)
<1>1. /\ World /\ IsReader(r) /\ SlotInv /\ params \in Nat
      /\ driver \in {"free", "reader", "fuzz"} /\ begin \in Nat /\ arrived \in Nat /\ arrived <= source.limit
      /\ ends \in Nat /\ ends <= Len(stream) /\ AreLoops(loops)
  BY DEF ReplyInv, ReaderInv, CallInv
<1>2. Reads(r, m.r)
  BY <1>1, ExpectCstrGives DEF Gives
<1>3. /\ phase = "method" /\ Kept /\ UNCHANGED slot /\ params' = p.v
      /\ \/ Returned(p.r)
         \/ p.v # 0 /\ To("notice", p.r) /\ method' \in DOMAIN Notices
         \/ Returned(s)
  BY DEF ProcessMethod
<1>4. IsReader(m.r)
  BY <1>2 DEF Reads
<1> HIDE DEF m
<1>5. Reads(m.r, p.r) /\ p.v \in Nat
  BY <1>1, <1>4, CountReads
<1> HIDE DEF p
<1>6. Reads(r, p.r) /\ IsReader(p.r)
  BY <1>2, <1>5, ReadsThen DEF Reads
<1>7. Reads(r, s)
  BY <1>1, <1>5, <1>6, SkipParamsReads, ReadsThen
<1> HIDE DEF s
<1>8. SlotInv'
  BY <1>1, <1>3, SlotKept DEF Kept
<1>9. CASE Returned(p.r) \/ Returned(s)
  BY <1>3, <1>5, <1>6, <1>7, <1>8, <1>9, MessageStep
<1>10. CASE p.v # 0 /\ To("notice", p.r) /\ method' \in DOMAIN Notices
  <2>1. r' = p.r /\ phase' = "notice" /\ UNCHANGED begin
    BY <1>10 DEF To
  <2>2. UNCHANGED <<doc, stream, source, last, driver, arrived, ends, loops>>
    BY <1>3 DEF Kept
  <2>3. AreLoops(loops)'
    BY <1>1, <2>2, LoopsCarried
  <2>4. params' \in Nat /\ params' >= 1
    BY <1>3, <1>5, <1>10
  <2> QED
    BY <1>1, <1>3, <1>6, <1>8, <1>10, <2>1, <2>2, <2>3, <2>4, ReplyKept
<1> QED
  BY <1>3, <1>9, <1>10

LEMMA NoticeStep ==
    ASSUME ReplyInv, ProcessNotice
    PROVE  ReplyInv'
<1> DEFINE d == ExpectCount(r, "map", MapMax)
           l == MapLoop(Notices[method], 0, d.v)
<1>1. /\ phase = "notice" /\ r' = d.r /\ loops' = <<l>> /\ phase' = "fields"
      /\ UNCHANGED <<doc, stream, source, last, driver, arrived, begin, ends, call, params, slot>>
  BY DEF ProcessNotice, Locals
<1>2. /\ World /\ IsReader(r) /\ SlotInv /\ params \in Nat /\ params >= 1 /\ method \in DOMAIN Notices
      /\ begin \in Nat /\ arrived \in Nat /\ arrived <= source.limit /\ ends \in Nat /\ ends <= Len(stream)
  BY <1>1 DEF ReplyInv, ReaderInv, CallInv
<1>3. Reads(r, d.r)
  BY <1>2, CountReads
<1> HIDE DEF d
<1>4. IsReader(d.r)
  BY <1>3 DEF Reads
<1>5. Notices[method] \in FieldLists
  BY <1>2, ListsAreFields
<1>6. IsLoop(l)
  BY <1>5, NewLoops
<1> HIDE DEF l
<1>7. AreLoops(<<l>>)
  BY <1>6, LoopsOne
<1>8. AreLoops(loops)' /\ SlotInv'
  BY <1>1, <1>2, <1>7, LoopsCarried, SlotKept
<1> QED
  BY <1>1, <1>2, <1>4, <1>8, ReplyKept

LEMMA CallBackStep ==
    ASSUME ReplyInv, CallBack
    PROVE  ReplyInv'
<1>1. phase = "fields" /\ Returned(SkipParams(r, params - 1)) /\ Kept /\ UNCHANGED <<params, slot>>
  BY DEF CallBack, Locals
<1>2. World /\ IsReader(r) /\ SlotInv /\ params \in Nat /\ params >= 1
  BY <1>1 DEF ReplyInv, ReaderInv, CallInv
<1>3. params - 1 \in Nat
  BY <1>2
<1>4. Reads(r, SkipParams(r, params - 1))
  BY <1>2, <1>3, SkipParamsReads
<1>5. SlotInv'
  BY <1>1, <1>2, SlotKept DEF Kept
<1> QED
  BY <1>1, <1>2, <1>4, <1>5, MessageStep

LEMMA ParseStep ==
    ASSUME ReplyInv, ParseResult
    PROVE  ReplyInv'
<1> DEFINE x == InitData(slot.data, slot.src)
           d == ExpectCount(x, "map", MapMax)
           l == MapLoop(Results[call], 0, d.v)
<1>1. /\ phase = "read"
      /\ \/ slot.done /\ r' = d.r /\ loops' = <<l>> /\ phase' = "result fields"
         \/ phase' = "done" /\ UNCHANGED <<r, loops>>
      /\ UNCHANGED <<doc, stream, source, last, driver, arrived, begin, ends, call, method, params, slot>>
  BY DEF ParseResult, Locals
<1>2. /\ World /\ IsReader(r) /\ SlotInv /\ params \in Nat /\ driver = "reader" /\ AreLoops(loops)
      /\ begin \in Nat /\ arrived \in Nat /\ arrived <= source.limit /\ ends \in Nat /\ ends <= Len(stream)
  BY <1>1 DEF ReplyInv, ReaderInv, CallInv
<1>3. SlotInv'
  BY <1>1, <1>2, SlotKept
<1>4. IsReader(x)
  BY <1>2, DataReader DEF SlotInv
<1> HIDE DEF x
<1>5. Reads(x, d.r)
  BY <1>2, <1>4, CountReads
<1> HIDE DEF d
<1>6. IsReader(d.r)
  BY <1>5 DEF Reads
<1>7. slot.done => IsLoop(l)
  <2>1. slot.done => Results[call] \in FieldLists
    BY <1>2, ListsAreFields DEF SlotInv
  <2> QED
    BY <2>1, NewLoops
<1> HIDE DEF l
<1>8. CASE slot.done /\ r' = d.r /\ loops' = <<l>> /\ phase' = "result fields"
  <2>1. AreLoops(<<l>>)
    BY <1>7, <1>8, LoopsOne
  <2>2. AreLoops(loops)'
    BY <1>8, <2>1, LoopsCarried
  <2> QED
    BY <1>1, <1>2, <1>3, <1>6, <1>8, <2>2, ReplyKept
<1>9. CASE phase' = "done" /\ UNCHANGED <<r, loops>>
  <2>1. AreLoops(loops)'
    BY <1>2, <1>9, LoopsCarried
  <2> QED
    BY <1>1, <1>2, <1>3, <1>9, <2>1, ReplyKept
<1> QED
  BY <1>1, <1>8, <1>9

LEMMA AnsweredStep ==
    ASSUME ReplyInv, Answered
    PROVE  ReplyInv'
<1>1. /\ phase = "result fields" /\ phase' = "done"
      /\ UNCHANGED <<doc, stream, source, r, last, driver, arrived, begin, ends, call, method, params, loops, slot>>
  BY DEF Answered, readerVars, Locals
<1>2. /\ IsReader(r) /\ SlotInv /\ params \in Nat /\ AreLoops(loops)
      /\ begin \in Nat /\ arrived \in Nat /\ arrived <= source.limit /\ ends \in Nat /\ ends <= Len(stream)
  BY <1>1 DEF ReplyInv, ReaderInv, CallInv
<1>3. AreLoops(loops)' /\ SlotInv'
  BY <1>1, <1>2, LoopsCarried, SlotKept
<1> QED
  BY <1>1, <1>2, <1>3, ReplyKept

-----------------------------------------------------------------------------
(* The steps of the loops                                                   *)

LEMMA ReadAsReads ==
    ASSUME World, NEW x, IsReader(x), NEW kind \in {"cstr", "int", "bool", "u32", "u16"}
    PROVE  Reads(x, ReadAs(kind, x).r)
<1>1. Reads(x, ExpectI(x, 32).r) /\ Reads(x, ExpectU(x, 32).r)
  BY NumberReads
<1>2. Reads(x, ExpectBoolByte(x).r)
  BY ByteReads
<1>3. Reads(x, ExpectCstr(x, TextBuffer).r)
  BY ExpectCstrGives DEF Gives
<1>4. CASE kind = "int"
  BY <1>1, <1>4 DEF ReadAs
<1>5. CASE kind = "u32"
  BY <1>1, <1>5 DEF ReadAs
<1>6. CASE kind = "bool"
  BY <1>2, <1>6 DEF ReadAs
<1>7. CASE kind = "u16"
  <2> DEFINE i == ExpectI(x, 32)
  <2>1. ReadAs(kind, x) = Did(i.r, i.v % (2 * Half[16]))
    BY <1>7 DEF ReadAs
  <2> HIDE DEF i
  <2>2. ReadAs(kind, x).r = i.r
    BY <2>1 DEF Did
  <2> QED
    BY <1>1, <2>2 DEF i
<1>8. CASE kind = "cstr"
  <2> DEFINE c == ExpectCstr(x, TextBuffer)
  <2>1. ReadAs(kind, x) = Did(c.r, TextOf(c.v))
    BY <1>8 DEF ReadAs
  <2> HIDE DEF c
  <2>2. ReadAs(kind, x).r = c.r
    BY <2>1 DEF Did
  <2> QED
    BY <1>3, <2>2 DEF c
<1> QED
  BY <1>4, <1>5, <1>6, <1>7, <1>8

LEMMA FieldReads ==
    ASSUME World, IsReader(r), AreLoops(loops), loops # << >>
    PROVE  /\ Reads(r, NextKey.r)
           /\ KindOf(NextKey.v) \in Kinds \cup {"unknown"}
<1> DEFINE f == Inner.fields
           s == [i \in DOMAIN f |-> f[i].key]
           k == KeyCstr(r, s, Inner.taken)
<1>1. f \in FieldLists
  BY RoundLoops DEF IsLoop
<1>2. DOMAIN s = DOMAIN f /\ DOMAIN f \subseteq Nat /\ \A i \in DOMAIN f : f[i].kind \in Kinds
  <2>1. DOMAIN s = DOMAIN f
    OBVIOUS
  <2> DEFINE F == [key : Keys, kind : Kinds]
  <2>2. f \in Seq(F)
    BY <1>1 DEF FieldLists
  <2>3. \A e \in F : e.kind \in Kinds
    OBVIOUS
  <2> HIDE DEF f, F, s
  <2>4. DOMAIN f \subseteq Nat /\ \A i \in DOMAIN f : f[i] \in F
    BY <2>2
  <2> QED
    BY <2>1, <2>3, <2>4
<1>3. NextKey = k
  BY DEF NextKey
<1> HIDE DEF s, f
<1>4. Reads(r, k.r) /\ k.v \in {0} \cup DOMAIN f
  BY <1>2, KeyReads
<1> HIDE DEF k
<1>5. KindOf(k.v) \in Kinds \cup {"unknown"}
  BY <1>2, <1>4 DEF KindOf, f
<1> QED
  BY <1>3, <1>4, <1>5

LEMMA LoopKept ==
    ASSUME ReplyInv, loops # << >>, NEW y, IsReader(y), r' = y, LoopUnchanged,
           NEW e, AreLoops(e), loops' = e
    PROVE  ReplyInv'
<1>1. UNCHANGED <<doc, stream, source, last, driver, phase, arrived, begin, ends, call, method, params, slot>>
  BY DEF LoopUnchanged
<1>2. /\ phase # "free" /\ SlotInv /\ begin \in Nat /\ arrived \in Nat /\ arrived <= source.limit
      /\ ends \in Nat /\ ends <= Len(stream) /\ (phase \in {"read", "frame"} => driver = "reader")
      /\ (phase = "notice" => method \in DOMAIN Notices)
      /\ params \in Nat /\ (phase \in {"notice", "fields"} => params >= 1)
  BY DEF ReplyInv, CallInv
<1>3. AreLoops(loops)' /\ SlotInv'
  BY <1>1, <1>2, LoopsCarried, SlotKept
<1> QED
  BY <1>1, <1>2, <1>3, ReplyKept

LEMMA ReadFieldStep ==
    ASSUME ReplyInv, ReadField
    PROVE  ReplyInv'
<1> DEFINE k == NextKey
           d == ReadAs(KindOf(k.v), k.r)
<1>1. /\ loops # << >> /\ KindOf(k.v) \notin {"unknown", "entries", "color"} /\ r' = d.r
      /\ loops' = Round(k.v) /\ LoopUnchanged
  BY DEF ReadField, Looping
<1>2. World /\ IsReader(r) /\ AreLoops(loops)
  BY DEF ReplyInv, ReaderInv, CallInv
<1>3. IsReader(k.r) /\ KindOf(k.v) \in Kinds \cup {"unknown"}
  BY <1>1, <1>2, FieldReads DEF Reads
<1> HIDE DEF k
<1>4. KindOf(k.v) \in {"cstr", "int", "bool", "u32", "u16"}
  BY <1>1, <1>3 DEF Kinds
<1>5. IsReader(d.r)
  BY <1>2, <1>3, <1>4, ReadAsReads DEF Reads
<1> HIDE DEF d
<1>6. AreLoops(Round(k.v))
  BY <1>1, <1>2, RoundLoops
<1> QED
  BY <1>1, <1>5, <1>6, LoopKept

LEMMA SkipFieldStep ==
    ASSUME ReplyInv, SkipField
    PROVE  ReplyInv'
<1> DEFINE k == NextKey
           y == Discard(k.r)
<1>1. loops # << >> /\ r' = y /\ loops' = Round(0) /\ LoopUnchanged
  BY DEF SkipField, Looping
<1>2. World /\ IsReader(r) /\ AreLoops(loops)
  BY DEF ReplyInv, ReaderInv, CallInv
<1>3. IsReader(k.r)
  BY <1>1, <1>2, FieldReads DEF Reads
<1> HIDE DEF k
<1>4. IsReader(y)
  BY <1>2, <1>3, DiscardReads DEF Reads
<1> HIDE DEF y
<1>5. AreLoops(Round(0))
  BY <1>1, <1>2, RoundLoops
<1> QED
  BY <1>1, <1>4, <1>5, LoopKept

LEMMA OpenEntriesStep ==
    ASSUME ReplyInv, OpenEntries
    PROVE  ReplyInv'
<1> DEFINE k == NextKey
           d == ExpectCount(k.r, "array", ListMax)
           l == EntryLoop(d.v)
<1>1. /\ loops # << >> /\ r' = d.r /\ LoopUnchanged
      /\ loops' = Round(k.v) \/ loops' = << >> \/ loops' = Append(Round(k.v), l)
  BY DEF OpenEntries, Looping
<1>2. World /\ IsReader(r) /\ AreLoops(loops)
  BY DEF ReplyInv, ReaderInv, CallInv
<1>3. IsReader(k.r)
  BY <1>1, <1>2, FieldReads DEF Reads
<1> HIDE DEF k
<1>4. IsReader(d.r)
  BY <1>2, <1>3, CountReads DEF Reads
<1> HIDE DEF d
<1>5. AreLoops(Round(k.v))
  BY <1>1, <1>2, RoundLoops
<1>6. IsLoop(l)
  BY ListsAreFields, NewLoops
<1> HIDE DEF l
<1>7. AreLoops(<< >>) /\ AreLoops(Append(Round(k.v), l))
  BY <1>5, <1>6, LoopsNone, LoopsMore
<1> QED
  BY <1>1, <1>4, <1>5, <1>7, LoopKept

LEMMA NextEntryStep ==
    ASSUME ReplyInv, NextEntry
    PROVE  ReplyInv'
<1> DEFINE n == (out[<<0, "out_count">>] - Inner.left) + 1
           d == ExpectCount(r, "map", MapMax)
           l == MapLoop(EntryFields, n, d.v)
<1>1. loops # << >> /\ r' = d.r /\ LoopUnchanged /\ loops' = Append(Round(0), l)
  BY DEF NextEntry
<1>2. World /\ IsReader(r) /\ AreLoops(loops)
  BY DEF ReplyInv, ReaderInv, CallInv
<1>3. IsReader(d.r)
  BY <1>2, CountReads DEF Reads
<1> HIDE DEF d, n
<1>4. IsLoop(l)
  BY ListsAreFields, NewLoops
<1> HIDE DEF l
<1>5. AreLoops(Append(Round(0), l))
  BY <1>1, <1>2, <1>4, RoundLoops, LoopsMore
<1> QED
  BY <1>1, <1>3, <1>5, LoopKept

LEMMA OpenColorStep ==
    ASSUME ReplyInv, OpenColor
    PROVE  ReplyInv'
<1> DEFINE k == NextKey
           d == ExpectCount(k.r, "map", ColorMax)
           l == MapLoop(ColorFields, k.v, d.v)
<1>1. loops # << >> /\ r' = d.r /\ LoopUnchanged /\ loops' = Append(Round(k.v), l)
  BY DEF OpenColor, Looping
<1>2. World /\ IsReader(r) /\ AreLoops(loops)
  BY DEF ReplyInv, ReaderInv, CallInv
<1>3. IsReader(k.r)
  BY <1>1, <1>2, FieldReads DEF Reads
<1> HIDE DEF k
<1>4. IsReader(d.r)
  BY <1>2, <1>3, CountReads DEF Reads
<1> HIDE DEF d
<1>5. IsLoop(l)
  BY ListsAreFields, NewLoops
<1> HIDE DEF l
<1>6. AreLoops(Append(Round(k.v), l))
  BY <1>1, <1>2, <1>5, RoundLoops, LoopsMore
<1> QED
  BY <1>1, <1>4, <1>6, LoopKept

LEMMA LoopStep ==
    ASSUME ReplyInv, Loops
    PROVE  ReplyInv'
<1>1. CASE EndLoop
  <2>1. loops # << >> /\ r' = r /\ LoopUnchanged /\ loops' = Outer
    BY <1>1 DEF EndLoop
  <2>2. IsReader(r) /\ AreLoops(loops)
    BY DEF ReplyInv, ReaderInv, CallInv
  <2>3. AreLoops(Outer)
    BY <2>1, <2>2, RoundLoops
  <2> QED
    BY <2>1, <2>2, <2>3, LoopKept
<1> QED
  BY <1>1, ReadFieldStep, SkipFieldStep, OpenEntriesStep, NextEntryStep, OpenColorStep DEF Loops

-----------------------------------------------------------------------------
(* The invariant                                                            *)

LEMMA FreeCallStep ==
    ASSUME ReplyInv, FreeCall
    PROVE  ReplyInv'
<1>1. driver = "free" /\ NextRead /\ UNCHANGED replyVars
  BY DEF FreeCall
<1>2. ReaderInv'
  BY <1>1, FreeStep DEF ReplyInv
<1>3. UNCHANGED <<doc, stream, source>>
  <2>1. \E op, y, n, b : Returns(op, y, n, b)
    BY <1>1, Zenon DEF NextRead, CallTag, CallPeek, CallDiscard, CallBytes, CallText, CallDone, CallNumber, CallExpectTag,
          CallCompound, CallLength, CallBuffer, CallAlloc, CallMatch, CallEnum, CallKey, CallRemaining, CallDestroy,
          GivesReader, GivesNumber, GivesBytes
  <2> QED
    BY <2>1 DEF Returns
<1>4. /\ UNCHANGED <<driver, phase, arrived, begin, ends, call, method, params, loops, slot>>
  BY <1>1 DEF replyVars
<1>5. SlotInv /\ AreLoops(loops)
  BY DEF ReplyInv, CallInv
<1>6. SlotInv' /\ AreLoops(loops)'
  BY <1>3, <1>4, <1>5, SlotKept, LoopsCarried
<1>7. CallInv'
  BY <1>1, <1>3, <1>4, <1>6 DEF ReplyInv, CallInv, Notices
<1> QED
  BY <1>2, <1>7 DEF ReplyInv

LEMMA StutterStep ==
    ASSUME ReplyInv, UNCHANGED allVars
    PROVE  ReplyInv'
<1>1. /\ UNCHANGED <<doc, stream, source, r, last>>
      /\ UNCHANGED <<driver, phase, arrived, begin, ends, call, method, params, loops, slot>>
  BY DEF allVars, readerVars, replyVars
<1>2. World /\ IsReader(r) /\ SlotInv /\ AreLoops(loops) /\ last.bytes \in Seq(B)
      /\ (r.error = "ok" => From(last.bytes, Position(r)))
  BY DEF ReplyInv, ReaderInv, CallInv
<1>3. World' /\ IsReader(r)' /\ SlotInv' /\ AreLoops(loops)'
  BY <1>1, <1>2, WorldKept, ReaderCarried, SlotKept, LoopsCarried
<1>4. (last.bytes \in Seq(B))'
  BY <1>1, <1>2 DEF B
<1>5. (r.error = "ok" => From(last.bytes, Position(r)))'
  BY <1>1, <1>2 DEF From, Position, Left
<1>6. ReaderInv'
  BY <1>3, <1>4, <1>5 DEF ReaderInv
<1>7. CallInv'
  BY <1>1, <1>3 DEF ReplyInv, CallInv, Notices
<1> QED
  BY <1>6, <1>7 DEF ReplyInv

LEMMA SourceTyped ==
    ASSUME NEW items \in Items, InitReader(items)
    PROVE  World
<1>1. PICK from \in Sources : source \in {[from EXCEPT !.limit = n] : n \in from.preload..Len(stream)}
  BY DEF InitReader
<1>2. PICK n \in from.preload..Len(stream) : source = [from EXCEPT !.limit = n]
  BY <1>1
<1>3. doc = items /\ stream \in Seq(B) /\ (\A k \in 1..Len(stream) : stream[k][1] \in 1..Len(doc))
  BY BytesTyped DEF InitReader
<1>4. from \in [kind : {"data", "stream", "file"}, chunk : Nat, limit : Nat, size : Nat, preload : Nat,
                seeks : BOOLEAN, starved : BOOLEAN, tracked : BOOLEAN]
      /\ (from.kind = "stream" => from.preload <= from.size) /\ (from.kind = "file" => from.size > 0)
  BY ReadersAssumption
<1>5. Len(stream) \in Nat /\ n \in Nat /\ from.preload <= n /\ n <= Len(stream)
  BY <1>3, <1>4
<1>6. /\ source.kind = from.kind /\ source.chunk = from.chunk /\ source.size = from.size
      /\ source.preload = from.preload /\ source.limit = n
  BY <1>2, <1>4
<1>7. /\ source.kind \in {"data", "stream", "file"}
      /\ source.chunk \in Nat /\ source.limit \in Nat /\ source.limit <= Len(stream)
      /\ source.size \in Nat /\ source.preload \in Nat /\ source.preload <= source.limit
  BY <1>4, <1>5, <1>6
<1>8. /\ source.kind = "stream" => source.preload <= source.size
      /\ source.kind = "file" => source.size > 0
  BY <1>4, <1>6
<1> QED
  BY <1>3, <1>7, <1>8 DEF World

LEMMA StreamReader ==
    ASSUME World, source.kind = "stream"
    PROVE  IsReader(InitStream)
<1> DEFINE m == SubSeq(stream, 1, source.preload)
           x == Reader(m, source.preload)
           y == [x EXCEPT !.fills = TRUE]
<1>1. source.preload \in Nat /\ source.preload <= Len(stream) /\ source.preload <= source.size /\ source.size \in Nat
  BY DEF World
<1>2. m \in Seq(B) /\ Len(m) = source.preload /\ From(m, source.preload)
  <2>1. 0 \in Nat /\ 0 + 1 = 1 /\ 0 <= source.preload /\ source.preload - 0 = source.preload
    BY <1>1
  <2> HIDE DEF m
  <2>2. SubSeq(stream, 0 + 1, source.preload) = m
    BY <2>1 DEF m
  <2> QED
    BY <1>1, <2>1, <2>2, FromStream
<1> HIDE DEF m
<1>3. IsReader(x)
  BY <1>1, <1>2, DataReader DEF InitData
<1>4. CASE source.size < MinReader
  <2>1. InitStream = Flag(x, "bug")
    BY <1>4 DEF InitStream, m
  <2>2. Reads(x, Flag(x, "bug"))
    BY <1>3, FlagReads
  <2> QED
    BY <2>1, <2>2 DEF Reads
<1>5. CASE ~(source.size < MinReader)
  <2>1. InitStream = y
    BY <1>5 DEF InitStream, m
  <2>2. /\ DOMAIN x = {"mem", "data", "src", "eof", "fills", "error", "track"}
        /\ x.mem = m /\ x.data = 0 /\ x.src = source.preload /\ x.error = "ok"
    BY DEF Reader
  <2>3. /\ DOMAIN y = DOMAIN x /\ y.mem = m /\ y.data = 0 /\ y.src = source.preload /\ y.error = "ok" /\ y.fills = TRUE
    BY <2>2
  <2> HIDE DEF x, y
  <2>4. MinReader \in Nat /\ MinReader > 0
    BY ReadersAssumption
  <2>5. source.size > 0 /\ Len(y.mem) <= source.size /\ 0 \in 0..Len(m) /\ 0 + 1 = 1
    BY <1>1, <1>2, <1>5, <2>3, <2>4
  <2>6. Typed(y)
    BY <1>1, <1>2, <2>2, <2>3, <2>5 DEF Typed
  <2>7. Window(y) = m
    BY <1>2, <2>3, <2>5, SubSeqWhole DEF Window
  <2>8. IsReader(y)
    BY <1>2, <2>3, <2>6, <2>7 DEF IsReader
  <2> QED
    BY <2>1, <2>8
<1> QED
  BY <1>4, <1>5

LEMMA FileReader ==
    ASSUME World, source.kind = "file"
    PROVE  IsReader(InitFile)
<1> DEFINE x == Reader(<< >>, 0)
<1>1. /\ DOMAIN x = {"mem", "data", "src", "eof", "fills", "error", "track"}
      /\ x.mem = << >> /\ x.data = 0 /\ x.src = 0 /\ x.fills = FALSE /\ x.error = "ok"
  BY DEF Reader
<1>2. << >> \in Seq(B) /\ Len(<< >>) = 0 /\ 0 \in 0..0 /\ SubSeq(<< >>, 0 + 1, 0) = << >>
  OBVIOUS
<1>3. CASE source.starved
  <2> DEFINE y == [x EXCEPT !.error = "memory"]
  <2>1. InitFile = y
    BY <1>3 DEF InitFile
  <2>2. /\ DOMAIN y = DOMAIN x /\ y.mem = << >> /\ y.data = 0 /\ y.src = 0 /\ y.fills = FALSE /\ y.error = "memory"
    BY <1>1
  <2> HIDE DEF x, y
  <2>3. Typed(y)
    BY <1>1, <1>2, <2>2 DEF Typed
  <2>4. IsReader(y)
    BY <1>2, <2>2, <2>3 DEF IsReader
  <2> QED
    BY <2>1, <2>4
<1>4. CASE ~source.starved
  <2> DEFINE y == [x EXCEPT !.fills = TRUE]
  <2>1. InitFile = y
    BY <1>4 DEF InitFile
  <2>2. /\ DOMAIN y = DOMAIN x /\ y.mem = << >> /\ y.data = 0 /\ y.src = 0 /\ y.fills = TRUE /\ y.error = "ok"
    BY <1>1
  <2> HIDE DEF x, y
  <2>3. source.size \in Nat /\ source.size > 0
    BY DEF World
  <2>4. Len(y.mem) <= source.size /\ source.kind \in {"stream", "file"} /\ 0 \in Nat
    BY <1>2, <2>2, <2>3
  <2>5. Typed(y)
    BY <1>1, <1>2, <2>2, <2>3, <2>4 DEF Typed
  <2>6. Window(y) = << >>
    BY <1>2, <2>2 DEF Window
  <2>7. IsReader(y)
    BY <2>2, <2>5, <2>6, FromNothing DEF IsReader
  <2> QED
    BY <2>1, <2>7
<1> QED
  BY <1>3, <1>4

LEMMA InitialReader ==
    ASSUME NEW items \in Items, InitReader(items)
    PROVE  ReaderInv
<1>1. World
  BY SourceTyped
<1>2. last.bytes = << >> /\ << >> \in Seq(B)
  BY DEF InitReader, NoCall
<1>3. IsReader(r)
  <2>1. CASE source.kind = "data"
    <3> DEFINE n == source.limit
               v == SubSeq(stream, 1, n)
    <3>1. n \in Nat /\ n <= Len(stream)
      BY <1>1 DEF World
    <3>2. r = InitData(v, n)
      BY <2>1 DEF InitReader
    <3>3. 0 \in Nat /\ 0 + 1 = 1
      OBVIOUS
    <3> HIDE DEF n
    <3>4. SubSeq(stream, 0 + 1, n) = v
      BY <3>3
    <3>5. v \in Seq(B) /\ From(v, n)
      BY <1>1, <3>1, <3>3, <3>4, FromStream
    <3> HIDE DEF v
    <3> QED
      BY <3>1, <3>2, <3>5, DataReader
  <2>2. CASE source.kind = "stream"
    <3>1. r = InitStream
      BY <2>2 DEF InitReader
    <3> QED
      BY <1>1, <2>2, <3>1, StreamReader
  <2>3. CASE source.kind = "file"
    <3>1. r = InitFile
      BY <2>3 DEF InitReader
    <3> QED
      BY <1>1, <2>3, <3>1, FileReader
  <2> QED
    BY <1>1, <2>1, <2>2, <2>3 DEF World
<1> QED
  BY <1>1, <1>2, <1>3, FromNothing DEF ReaderInv

LEMMA InitialReply ==
    ASSUME InitReplies
    PROVE  ReplyInv
<1>1. PICK d \in Documents : InitReader(d.items) /\ messages = d.messages
  BY DEF InitReplies
<1>2. d.items \in Items
  BY DocumentsAssumption DEF Items
<1>3. ReaderInv /\ World
  BY <1>1, <1>2, InitialReader DEF ReaderInv
<1>4. /\ driver \in {"free", "reader", "fuzz"}
      /\ phase = CASE driver = "free" -> "free" [] driver = "fuzz" -> "array" [] OTHER -> "read"
      /\ loops = << >> /\ arrived = 0 /\ begin = 0 /\ params = 0 /\ slot = NoSlot
      /\ ends = IF driver = "fuzz" THEN source.limit ELSE 0
  BY DEF InitReplies
<1>5. /\ driver = "free" <=> phase = "free"
      /\ phase \in {"read", "frame"} => driver = "reader"
      /\ phase \notin {"notice", "fields"}
  BY <1>4
<1>6. last.bytes = << >>
  BY <1>1 DEF InitReader, NoCall
<1>7. source.limit \in Nat /\ source.limit <= Len(stream) /\ Len(stream) \in Nat
  BY <1>3 DEF World
<1>8. begin \in Nat /\ arrived \in Nat /\ arrived <= source.limit /\ ends \in Nat /\ ends <= Len(stream) /\ params \in Nat
  BY <1>4, <1>7
<1>9. SlotInv
  <2>1. slot.data = << >> /\ slot.src = 0 /\ slot.done = FALSE /\ << >> \in Seq(B)
    BY <1>4 DEF NoSlot
  <2> QED
    BY <2>1, FromNothing DEF SlotInv
<1>10. AreLoops(loops)
  BY <1>4, LoopsNone
<1> QED
  BY <1>3, <1>4, <1>5, <1>6, <1>8, <1>9, <1>10 DEF ReplyInv, CallInv

LEMMA ReplyStep ==
    ASSUME ReplyInv, NextReplies
    PROVE  ReplyInv'
BY FreeCallStep, ReceiveStep, FrameStep, ArrayStep, TypeStep, MsgidStep, ErrorStep, ErrorKeyStep, ErrorEndStep,
   ResultStep, MethodStep, NoticeStep, CallBackStep, ParseStep, AnsweredStep, LoopStep DEF NextReplies

\* Whatever reads the stream, a caller of the library or kgd.c as it frames the
\* daemon's messages and takes them apart, and however fills and reads of the socket
\* cut it: the reader's buffer, the copy of a result and the bytes the last call gave
\* are those of the stream at the positions the code takes them to be, the loops are
\* over the fields of a known map, and only a call that waits is given a result
THEOREM ReplyInvariant == ReplySpec => []ReplyInv
<1>1. InitReplies => ReplyInv
  BY InitialReply
<1>2. ReplyInv /\ [NextReplies]_allVars => ReplyInv'
  BY ReplyStep, StutterStep
<1> QED
  BY <1>1, <1>2, PTL DEF ReplySpec

\* What a call of mpack.c gives is the stream, whatever it reads, from memory, a fill
\* function or a file, in whatever portions they come and whether it went through the
\* buffer, past it or by a seek: the unread part of the buffer is what the stream has
\* next, the buffer never holds more than its size, and the bytes a call returned are
\* those the stream has where the call ended
THEOREM StreamIsDelivered == ReplySpec => []DeliversTheStream
<1>1. ASSUME ReplyInv PROVE DeliversTheStream
  <2>1. World /\ IsReader(r) /\ Typed(r) /\ last.bytes \in Seq(B) /\ (r.error = "ok" => From(last.bytes, Position(r)))
    BY <1>1 DEF ReplyInv, ReaderInv, IsReader
  <2>2. /\ Left(r) \in Nat /\ Window(r) \in Seq(B) /\ Len(Window(r)) = Left(r) /\ Position(r) = r.src - Left(r)
        /\ Position(r) \in Int /\ r.src \in Nat
    BY <2>1, WindowTyped
  <2>3. r.data <= Len(r.mem) /\ (r.fills => Len(r.mem) <= source.size)
    BY <2>1 DEF Typed
  <2>4. ASSUME r.error = "ok", Left(r) > 0
        PROVE  Window(r) = SubSeq(stream, Position(r) + 1, r.src)
    <3>1. From(Window(r), r.src) /\ r.src \in Int
      BY <2>1, <2>2, <2>4 DEF IsReader
    <3>2. Window(r) # << >>
      BY <2>2, <2>4
    <3>3. Window(r) = SubSeq(stream, (r.src - Len(Window(r))) + 1, r.src)
      BY <2>1, <2>2, <3>1, <3>2, FromIs
    <3> QED
      BY <2>2, <3>3
  <2>5. ASSUME r.error = "ok", last.bytes # << >>
        PROVE  last.bytes = SubSeq(stream, (Position(r) - Len(last.bytes)) + 1, Position(r))
    BY <2>1, <2>2, <2>5, FromIs
  <2> QED
    BY <2>3, <2>4, <2>5 DEF DeliversTheStream, WindowIsStream
<1> QED
  BY <1>1, ReplyInvariant, PTL

=============================================================================
