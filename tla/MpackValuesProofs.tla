-------------------------- MODULE MpackValuesProofs --------------------------
(***************************************************************************)
(* Proofs about values and about strings.                                  *)
(*                                                                         *)
(* Values, for every size of the widths: what the write functions store    *)
(* stands for the value and is its shortest form, and what any encoder     *)
(* stores is read back, refused and compared as the value it stands for.   *)
(*                                                                         *)
(* Strings, for every string of bytes: the branches of                     *)
(* mpack_utf8_check_impl are the table of the Unicode standard, and its    *)
(* loop accepts exactly the strings that can be cut into sequences of that *)
(* table.                                                                  *)
(***************************************************************************)
EXTENDS MpackValues, MpackText, TLAPS, WellFoundedInduction

-----------------------------------------------------------------------------
(* Widths                                                                   *)

LEMMA Halves ==
    /\ \A w \in Widths : Half[w] \in Nat /\ Half[w] > 0
    /\ 2 * Half[8] <= Half[16] /\ 2 * Half[16] <= Half[32] /\ 2 * Half[32] <= Half[64]
    /\ FixInt \in Nat /\ FixInt >= 1 /\ FixInt <= Half[8]
    /\ FixStr \in Nat /\ FixStr <= 2 * Half[8] - 1
    /\ FixSize \in Nat /\ FixSize <= 2 * Half[16] - 1
<1>1. \A w \in Widths : Half[w] \in Nat /\ Half[w] > 0
  BY WidthsAssumption
<1>2. 2 * Half[8] <= Half[16] /\ 2 * Half[16] <= Half[32] /\ 2 * Half[32] <= Half[64]
  BY WidthsAssumption DEF Widths
<1>3. Half[8] \in Nat /\ Half[16] \in Nat
  BY <1>1 DEF Widths
<1>4. /\ FixInt \in Nat /\ FixInt >= 1 /\ FixInt <= Half[8]
      /\ FixStr \in Nat /\ FixStr <= 2 * Half[8] - 1
      /\ FixSize \in Nat /\ FixSize <= 2 * Half[16] - 1
  BY <1>3, WidthsAssumption
<1> QED
  BY <1>1, <1>2, <1>4

\* The halves as four numbers, for the leaves that only calculate
LEMMA Four ==
    /\ Half[8] \in Nat /\ Half[8] > 0 /\ Half[16] \in Nat /\ Half[32] \in Nat /\ Half[64] \in Nat
    /\ 2 * Half[8] <= Half[16] /\ 2 * Half[16] <= Half[32] /\ 2 * Half[32] <= Half[64]
BY Halves DEF Widths

LEMMA Ranges ==
    ASSUME NEW w \in Widths
    PROVE  Unsigned[w] = 0..(2 * Half[w] - 1) /\ Signed[w] = -Half[w]..(Half[w] - 1)
BY DEF Unsigned, Signed

\* What a narrow width holds a wider one holds.
LEMMA Wider ==
    ASSUME NEW v \in Widths, NEW w \in Widths, v <= w
    PROVE  Unsigned[v] \subseteq Unsigned[w] /\ Signed[v] \subseteq Signed[w]
<1>1. Half[v] \in Nat /\ Half[w] \in Nat /\ Half[v] <= Half[w]
  <2>1. Half[v] \in Nat /\ Half[w] \in Nat
    BY Halves
  <2>2. v = w \/ v < w
    BY DEF Widths
  <2>3. v < w => 2 * Half[v] <= Half[w]
    BY WidthsAssumption
  <2> QED
    BY <2>1, <2>2, <2>3
<1>2. Unsigned[v] = 0..(2 * Half[v] - 1) /\ Signed[v] = -Half[v]..(Half[v] - 1)
  BY Ranges
<1>3. Unsigned[w] = 0..(2 * Half[w] - 1) /\ Signed[w] = -Half[w]..(Half[w] - 1)
  BY Ranges
<1>4. \A a, b \in Nat : a <= b => 0..(2 * a - 1) \subseteq 0..(2 * b - 1) /\ -a..(a - 1) \subseteq -b..(b - 1)
  OBVIOUS
<1> QED
  BY <1>1, <1>2, <1>3, <1>4

\* The width Narrowest chooses
LEMMA NarrowestFits ==
    ASSUME NEW x, NEW ranges, NEW top \in Widths, x \in ranges[top]
    PROVE  /\ Narrowest(x, ranges) \in Widths /\ x \in ranges[Narrowest(x, ranges)]
           /\ \A v \in Widths : x \in ranges[v] => Narrowest(x, ranges) <= v
<1> DEFINE Best(w) == w \in Widths /\ x \in ranges[w] /\ \A v \in Widths : v < w => x \notin ranges[v]
<1>1. \E w : Best(w)
  <2>1. CASE x \in ranges[8]
    <3>1. Best(8)
      BY <2>1 DEF Widths
    <3> QED
      BY <3>1
  <2>2. CASE x \notin ranges[8] /\ x \in ranges[16]
    <3>1. Best(16)
      BY <2>2 DEF Widths
    <3> QED
      BY <3>1
  <2>3. CASE x \notin ranges[8] /\ x \notin ranges[16] /\ x \in ranges[32]
    <3>1. Best(32)
      BY <2>3 DEF Widths
    <3> QED
      BY <3>1
  <2>4. CASE x \notin ranges[8] /\ x \notin ranges[16] /\ x \notin ranges[32] /\ x \in ranges[64]
    <3>1. Best(64)
      BY <2>4 DEF Widths
    <3> QED
      BY <3>1
  <2> QED
    BY <2>1, <2>2, <2>3, <2>4 DEF Widths
<1>2. Best(Narrowest(x, ranges))
  BY <1>1, Zenon DEF Narrowest
<1>3. ASSUME NEW v \in Widths, x \in ranges[v] PROVE Narrowest(x, ranges) <= v
  <2>1. ~(v < Narrowest(x, ranges))
    BY <1>2, <1>3
  <2>2. v \in Int /\ Narrowest(x, ranges) \in Int
    BY <1>2 DEF Widths
  <2> QED
    BY <2>1, <2>2
<1> QED
  BY <1>2, <1>3

\* A signed number comes back from its bits.
LEMMA Bits ==
    ASSUME NEW w \in Widths
    PROVE  /\ \A x \in Signed[w] : Stored(x, w) \in Unsigned[w] /\ Loaded(Stored(x, w), w) = x
           /\ \A x \in Signed[w] : x >= 0 => Stored(x, w) = x
           /\ \A x \in Signed[w] : x < 0 => Stored(x, w) = x + 2 * Half[w]
           /\ \A n \in Unsigned[w] : Loaded(n, w) \in Signed[w]
<1> DEFINE h == Half[w]
<1>1. h \in Nat /\ h > 0 /\ Unsigned[w] = 0..(2 * h - 1) /\ Signed[w] = -h..(h - 1)
  BY Halves, Ranges
<1>2. \A x, n : Stored(x, w) = x % (2 * h) /\ Loaded(n, w) = IF n \in Signed[w] THEN n ELSE n - 2 * h
  BY DEF Stored, Loaded
<1> HIDE DEF h
<1>3. \A x \in Signed[w] : x >= 0 => x % (2 * h) = x
  BY <1>1
<1>4. \A x \in Signed[w] : x < 0 => x % (2 * h) = x + 2 * h
  BY <1>1
<1>5. \A n \in Unsigned[w] : Loaded(n, w) \in Signed[w]
  BY <1>1, <1>2
<1>6. ASSUME NEW x \in Signed[w]
      PROVE  Stored(x, w) \in Unsigned[w] /\ Loaded(Stored(x, w), w) = x
  <2>1. CASE x >= 0
    <3>1. Stored(x, w) = x
      BY <1>2, <1>3, <2>1
    <3> QED
      BY <1>1, <1>2, <2>1, <3>1
  <2>2. CASE x < 0
    <3>1. Stored(x, w) = x + 2 * h
      BY <1>2, <1>4, <2>2
    <3>2. x + 2 * h \notin Signed[w] /\ x + 2 * h \in Unsigned[w] /\ (x + 2 * h) - 2 * h = x
      BY <1>1, <2>2
    <3> QED
      BY <1>2, <3>1, <3>2
  <2> QED
    BY <1>1, <2>1, <2>2
<1> QED
  BY <1>2, <1>3, <1>4, <1>5, <1>6 DEF h

-----------------------------------------------------------------------------
(* Forms and tags                                                           *)

LEMMA Parses ==
    /\ \A n : Parse(Fixed("fixuint", n)) = Tag("uint", n)
    /\ \A n : n <= FixUint => Parse(Fixed("fixint", n)) = Tag("uint", n)
    /\ \A n : ~(n <= FixUint) => Parse(Fixed("fixint", n)) = Tag("int", Loaded(n, 8))
    /\ \A n : Parse(Fixed("fixmap", n)) = Tag("map", n)
    /\ \A n : Parse(Fixed("fixarray", n)) = Tag("array", n)
    /\ \A n : Parse(Fixed("fixstr", n)) = Tag("str", n)
    /\ \A n : Parse(Fixed("bool", n)) = Tag("bool", n)
    /\ Parse(EncodeNil) = NilTag
    /\ \A w \in Widths : \A n : Parse(Sized("int", w, n)) = Tag("int", Loaded(n, w))
    /\ \A w \in Widths : \A n : \A code \in {"uint", "str", "bin", "array", "map"} :
            Parse(Sized(code, w, n)) = Tag(code, n)
<1>1. \A n : Parse(Fixed("fixuint", n)) = Tag("uint", n)
  BY DEF Parse, ParseFixed, Fixed
<1>2. \A n : n <= FixUint => Parse(Fixed("fixint", n)) = Tag("uint", n)
  BY DEF Parse, ParseFixed, Fixed
<1>3. \A n : ~(n <= FixUint) => Parse(Fixed("fixint", n)) = Tag("int", Loaded(n, 8))
  BY DEF Parse, ParseFixed, Fixed
<1>4. \A n : Parse(Fixed("fixmap", n)) = Tag("map", n)
  BY DEF Parse, ParseFixed, Fixed
<1>5. \A n : Parse(Fixed("fixarray", n)) = Tag("array", n)
  BY DEF Parse, ParseFixed, Fixed
<1>6. \A n : Parse(Fixed("fixstr", n)) = Tag("str", n)
  BY DEF Parse, ParseFixed, Fixed
<1>7. \A n : Parse(Fixed("bool", n)) = Tag("bool", n)
  BY DEF Parse, ParseFixed, Fixed
<1>8. Parse(EncodeNil) = NilTag
  BY DEF Parse, ParseFixed, Fixed, EncodeNil
<1>9. \A w \in Widths : \A n : Parse(Sized("int", w, n)) = Tag("int", Loaded(n, w))
  BY DEF Parse, ParseSized, Sized, Widths
<1>10. \A w \in Widths : \A n : \A code \in {"uint", "str", "bin", "array", "map"} :
            Parse(Sized(code, w, n)) = Tag(code, n)
  BY DEF Parse, ParseSized, Sized, Widths
<1> QED
  BY <1>1, <1>2, <1>3, <1>4, <1>5, <1>6, <1>7, <1>8, <1>9, <1>10

\* What a form says of the number in it: the width of the form has room for it
Room(type, w, v) ==
    \/ type = "uint" /\ w = 0 /\ v \in 0..FixUint
    \/ type = "uint" /\ w \in Widths /\ v \in Unsigned[w]
    \/ type = "int" /\ w = 0 /\ v \in -FixInt..-1
    \/ type = "int" /\ w \in Widths /\ v \in Signed[w]
    \/ type = "str" /\ w = 0 /\ v \in 0..FixStr
    \/ type \in {"str", "bin"} /\ w \in Widths \ {64} /\ v \in Unsigned[w]
    \/ type \in {"array", "map"} /\ w = 0 /\ v \in 0..FixSize
    \/ type \in {"array", "map"} /\ w \in {16, 32} /\ v \in Unsigned[w]
    \/ type = "bool" /\ w = 0 /\ v \in {0, 1}
    \/ type = "nil" /\ w = 0 /\ v = 0

\* A form, and the tag mpack_parse_tag makes of it
GoodForm(f) ==
    /\ Parse(f) = Tag(Parse(f).type, Parse(f).v)
    /\ Room(Parse(f).type, f.width, Parse(f).v)
    /\ f.code = "bool" <=> Parse(f).type = "bool"
    /\ f.code = "nil" <=> Parse(f).type = "nil"
    /\ f.code = "bool" => f.raw = Parse(f).v

\* The parts of a form and of a tag
LEMMA Fields ==
    /\ \A code, n : Fixed(code, n).code = code /\ Fixed(code, n).width = 0 /\ Fixed(code, n).raw = n
    /\ \A code, w, n : Sized(code, w, n).code = code /\ Sized(code, w, n).width = w /\ Sized(code, w, n).raw = n
    /\ \A type, v : Tag(type, v).type = type /\ Tag(type, v).v = v
    /\ NilTag.type = "nil" /\ NilTag.v = 0
    /\ EncodeNil.code = "nil" /\ EncodeNil.width = 0
BY DEF Fixed, Sized, Tag, NilTag, EncodeNil

LEMMA GoodFixed ==
    /\ \A n \in 0..FixUint : GoodForm(Fixed("fixuint", n)) /\ GoodForm(Fixed("fixint", n))
    /\ \A n \in (2 * Half[8] - FixInt)..(2 * Half[8] - 1) : GoodForm(Fixed("fixint", n))
    /\ \A n \in 0..FixStr : GoodForm(Fixed("fixstr", n))
    /\ \A n \in 0..FixSize : GoodForm(Fixed("fixarray", n)) /\ GoodForm(Fixed("fixmap", n))
    /\ \A b \in {0, 1} : GoodForm(Fixed("bool", b))
    /\ GoodForm(EncodeNil)
<1>1. ASSUME NEW n \in 0..FixUint PROVE GoodForm(Fixed("fixuint", n)) /\ GoodForm(Fixed("fixint", n))
  <2>1. n <= FixUint
    BY Four DEF FixUint
  <2>2. Parse(Fixed("fixuint", n)) = Tag("uint", n) /\ Parse(Fixed("fixint", n)) = Tag("uint", n)
    BY <2>1, Parses
  <2>3. Room("uint", 0, n)
    BY DEF Room
  <2> QED
    BY <2>2, <2>3, Fields DEF GoodForm
<1>2. ASSUME NEW n \in (2 * Half[8] - FixInt)..(2 * Half[8] - 1) PROVE GoodForm(Fixed("fixint", n))
  <2>1. ~(n <= FixUint) /\ n \notin Signed[8] /\ n - 2 * Half[8] \in -FixInt..-1
    <3>1. Signed[8] = -Half[8]..(Half[8] - 1)
      BY Ranges DEF Widths
    <3>2. Half[8] \in Nat /\ FixInt \in Nat /\ FixInt <= Half[8]
      BY Four, Halves
    <3>3. n \in Int /\ n >= 2 * Half[8] - FixInt /\ n <= 2 * Half[8] - 1
      BY <3>2
    <3>4. n >= Half[8]
      BY <3>2, <3>3
    <3> QED
      BY <3>1, <3>2, <3>3, <3>4 DEF FixUint
  <2>2. Loaded(n, 8) = n - 2 * Half[8]
    BY <2>1 DEF Loaded
  <2>3. Parse(Fixed("fixint", n)) = Tag("int", Loaded(n, 8))
    BY <2>1, Parses
  <2>4. Room("int", 0, Loaded(n, 8))
    BY <2>1, <2>2 DEF Room
  <2> QED
    BY <2>3, <2>4, Fields DEF GoodForm
<1>3. ASSUME NEW n \in 0..FixStr PROVE GoodForm(Fixed("fixstr", n))
  <2>1. Parse(Fixed("fixstr", n)) = Tag("str", n) /\ Room("str", 0, n)
    BY Parses DEF Room
  <2> QED
    BY <2>1, Fields DEF GoodForm
<1>4. ASSUME NEW n \in 0..FixSize PROVE GoodForm(Fixed("fixarray", n)) /\ GoodForm(Fixed("fixmap", n))
  <2>1. Parse(Fixed("fixarray", n)) = Tag("array", n) /\ Room("array", 0, n)
    BY Parses DEF Room
  <2>2. Parse(Fixed("fixmap", n)) = Tag("map", n) /\ Room("map", 0, n)
    BY Parses DEF Room
  <2> QED
    BY <2>1, <2>2, Fields DEF GoodForm
<1>5. ASSUME NEW b \in {0, 1} PROVE GoodForm(Fixed("bool", b))
  <2>1. Parse(Fixed("bool", b)) = Tag("bool", b) /\ Room("bool", 0, b)
    BY Parses DEF Room
  <2> QED
    BY <2>1, Fields DEF GoodForm
<1>6. GoodForm(EncodeNil)
  <2>1. Parse(EncodeNil) = NilTag /\ Room("nil", 0, 0)
    BY Parses DEF Room
  <2> QED
    BY <2>1, Fields DEF GoodForm, NilTag
<1> QED
  BY <1>1, <1>2, <1>3, <1>4, <1>5, <1>6

LEMMA GoodSized ==
    /\ \A w \in Widths : \A n \in Unsigned[w] : GoodForm(Sized("uint", w, n)) /\ GoodForm(Sized("int", w, n))
    /\ \A w \in Widths \ {64} : \A n \in Unsigned[w] : GoodForm(Sized("str", w, n)) /\ GoodForm(Sized("bin", w, n))
    /\ \A w \in {16, 32} : \A n \in Unsigned[w] : GoodForm(Sized("array", w, n)) /\ GoodForm(Sized("map", w, n))
<1>1. ASSUME NEW w \in Widths, NEW n \in Unsigned[w]
      PROVE  GoodForm(Sized("uint", w, n)) /\ GoodForm(Sized("int", w, n))
  <2>1. Parse(Sized("uint", w, n)) = Tag("uint", n) /\ Parse(Sized("int", w, n)) = Tag("int", Loaded(n, w))
    BY Parses
  <2>2. Room("uint", w, n) /\ Room("int", w, Loaded(n, w))
    BY Bits DEF Room
  <2> QED
    BY <2>1, <2>2, Fields DEF GoodForm
<1>2. ASSUME NEW w \in Widths \ {64}, NEW n \in Unsigned[w]
      PROVE  GoodForm(Sized("str", w, n)) /\ GoodForm(Sized("bin", w, n))
  <2>1. Parse(Sized("str", w, n)) = Tag("str", n) /\ Parse(Sized("bin", w, n)) = Tag("bin", n)
    BY Parses
  <2>2. Room("str", w, n) /\ Room("bin", w, n)
    BY DEF Room
  <2> QED
    BY <2>1, <2>2, Fields DEF GoodForm
<1>3. ASSUME NEW w \in {16, 32}, NEW n \in Unsigned[w]
      PROVE  GoodForm(Sized("array", w, n)) /\ GoodForm(Sized("map", w, n))
  <2>1. Parse(Sized("array", w, n)) = Tag("array", n) /\ Parse(Sized("map", w, n)) = Tag("map", n)
    BY Parses DEF Widths
  <2>2. Room("array", w, n) /\ Room("map", w, n)
    BY DEF Room
  <2> QED
    BY <2>1, <2>2, Fields DEF GoodForm
<1> QED
  BY <1>1, <1>2, <1>3

LEMMA AllGood ==
    ASSUME NEW f \in AllForms
    PROVE  GoodForm(f)
<1>1. CASE f \in FixNumbers
  <2>1. CASE f \in {Fixed("fixuint", n) : n \in 0..FixUint}
    BY <2>1, GoodFixed, Zenon
  <2>2. CASE f \in {Fixed("fixint", n) : n \in (2 * Half[8] - FixInt)..(2 * Half[8] - 1)}
    BY <2>2, GoodFixed, Zenon
  <2> QED
    BY <1>1, <2>1, <2>2, Zenon DEF FixNumbers
<1>2. CASE f \in WideNumbers
  <2>1. PICK w \in Widths : f \in {Sized(code, w, n) : code \in {"uint", "int"}, n \in Unsigned[w]}
    BY <1>2 DEF WideNumbers
  <2>2. PICK code \in {"uint", "int"}, n \in Unsigned[w] : f = Sized(code, w, n)
    BY <2>1
  <2>3. CASE code = "uint"
    BY <2>2, <2>3, GoodSized, Zenon
  <2>4. CASE code = "int"
    BY <2>2, <2>4, GoodSized, Zenon
  <2> QED
    BY <2>3, <2>4
<1>3. CASE f \in FixSizes
  <2>1. CASE f \in {Fixed("fixstr", n) : n \in 0..FixStr}
    BY <2>1, GoodFixed, Zenon
  <2>2. CASE f \in {Fixed(code, n) : code \in {"fixarray", "fixmap"}, n \in 0..FixSize}
    <3>1. PICK code \in {"fixarray", "fixmap"}, n \in 0..FixSize : f = Fixed(code, n)
      BY <2>2
    <3>2. CASE code = "fixarray"
      BY <3>1, <3>2, GoodFixed, Zenon
    <3>3. CASE code = "fixmap"
      BY <3>1, <3>3, GoodFixed, Zenon
    <3> QED
      BY <3>2, <3>3
  <2> QED
    BY <1>3, <2>1, <2>2 DEF FixSizes
<1>4. CASE f \in WideLengths
  <2>1. PICK w \in Widths \ {64} : f \in {Sized(code, w, n) : code \in {"str", "bin"}, n \in Unsigned[w]}
    BY <1>4 DEF WideLengths
  <2>2. PICK code \in {"str", "bin"}, n \in Unsigned[w] : f = Sized(code, w, n)
    BY <2>1
  <2>3. CASE code = "str"
    BY <2>2, <2>3, GoodSized, Zenon
  <2>4. CASE code = "bin"
    BY <2>2, <2>4, GoodSized, Zenon
  <2> QED
    BY <2>3, <2>4
<1>5. CASE f \in WideCounts
  <2>1. PICK w \in {16, 32} : f \in {Sized(code, w, n) : code \in {"array", "map"}, n \in Unsigned[w]}
    BY <1>5 DEF WideCounts
  <2>2. PICK code \in {"array", "map"}, n \in Unsigned[w] : f = Sized(code, w, n)
    BY <2>1
  <2>3. CASE code = "array"
    BY <2>2, <2>3, GoodSized, Zenon
  <2>4. CASE code = "map"
    BY <2>2, <2>4, GoodSized, Zenon
  <2> QED
    BY <2>3, <2>4
<1> QED
  BY <1>1, <1>2, <1>3, <1>4, <1>5, Zenon DEF AllForms

-----------------------------------------------------------------------------
(* What the write functions store                                           *)

Alike(a, b) == a = b \/ {a, b} \subseteq Number

\* A form stands for a value of a type, and none that has room for it is narrower.
StoredWell(f, type, v) ==
    /\ GoodForm(f) /\ Parse(f).v = v /\ Alike(Parse(f).type, type)
    /\ \A t, w : Alike(t, type) /\ Room(t, w, v) => f.width <= w

\* The room for a number of a sign
LEMMA NumberRoom ==
    ASSUME NEW t \in Number, NEW w, NEW v \in Int, Room(t, w, v)
    PROVE  /\ w = 0 => v \in -FixInt..FixUint
           /\ w # 0 => w \in Widths /\ (v \in Unsigned[w] \/ v \in Signed[w])
<1>1. FixInt \in Nat /\ FixUint \in Nat /\ 0 \notin Widths
  BY Four, Halves DEF FixUint, Widths
<1>2. CASE t = "uint"
  <2>1. (w = 0 /\ v \in 0..FixUint) \/ (w \in Widths /\ v \in Unsigned[w])
    BY <1>2 DEF Room
  <2> QED
    BY <1>1, <2>1
<1>3. CASE t = "int"
  <2>1. (w = 0 /\ v \in -FixInt..-1) \/ (w \in Widths /\ v \in Signed[w])
    BY <1>3 DEF Room
  <2> QED
    BY <1>1, <2>1
<1> QED
  BY <1>2, <1>3 DEF Number

LEMMA RoomWidth ==
    ASSUME NEW t, NEW w, NEW v, Room(t, w, v)
    PROVE  w \in Int /\ 0 <= w
<1>1. w = 0 \/ w \in Widths \/ w \in {16, 32}
  BY DEF Room
<1> QED
  BY <1>1 DEF Widths

LEMMA WideNumber ==
    /\ FixUint \in Nat
    /\ \A w \in Widths : Unsigned[w] \subseteq Nat /\ Signed[w] \subseteq Int
    /\ Unsigned[64] \subseteq Nat /\ Signed[64] \subseteq Int
<1>1. FixUint \in Nat
  BY Four DEF FixUint
<1>2. ASSUME NEW w \in Widths PROVE Unsigned[w] \subseteq Nat /\ Signed[w] \subseteq Int
  <2>1. Unsigned[w] = 0..(2 * Half[w] - 1) /\ Signed[w] = -Half[w]..(Half[w] - 1) /\ Half[w] \in Nat
    BY Ranges, Halves
  <2> QED
    BY <2>1
<1> QED
  BY <1>1, <1>2 DEF Widths

\* A number without a sign
LEMMA PositiveStored ==
    ASSUME NEW v \in Unsigned[64], v > FixUint, NEW type \in Number
    PROVE  StoredWell(Sized("uint", Narrowest(v, Unsigned), v), type, v)
<1> DEFINE n == Narrowest(v, Unsigned)
           f == Sized("uint", n, v)
<1>1. n \in Widths /\ v \in Unsigned[n] /\ \A u \in Widths : v \in Unsigned[u] => n <= u
  BY NarrowestFits DEF Widths
<1> HIDE DEF n
<1>2. v \in Nat
  BY WideNumber
<1>3. GoodForm(f) /\ Parse(f) = Tag("uint", v) /\ f.width = n
  BY <1>1, GoodSized, Parses, Fields
<1>4. ASSUME NEW t, NEW w, Alike(t, type), Room(t, w, v) PROVE n <= w
  <2>1. t \in Number
    BY <1>4 DEF Alike, Number
  <2>2. FixUint \in Nat
    BY Four DEF FixUint
  <2>3. w # 0 /\ w \in Widths /\ (v \in Unsigned[w] \/ v \in Signed[w])
    BY <1>2, <1>4, <2>1, <2>2, NumberRoom
  <2>4. v \in Unsigned[w]
    <3>1. Unsigned[w] = 0..(2 * Half[w] - 1) /\ Signed[w] = -Half[w]..(Half[w] - 1) /\ Half[w] \in Nat
      BY <2>3, Ranges, Halves
    <3> QED
      BY <1>2, <2>3, <3>1
  <2> QED
    BY <1>1, <2>3, <2>4
<1>5. Alike("uint", type)
  BY DEF Alike, Number
<1> HIDE DEF f
<1>6. StoredWell(f, type, v)
  BY <1>3, <1>4, <1>5, Fields DEF StoredWell
<1> QED
  BY <1>6 DEF f, n

LEMMA SmallStored ==
    ASSUME NEW f, GoodForm(f), f.width = 0, NEW type, Alike(Parse(f).type, type)
    PROVE  StoredWell(f, type, Parse(f).v)
BY RoomWidth DEF StoredWell

LEMMA UintStored ==
    ASSUME NEW v \in Unsigned[64]
    PROVE  StoredWell(EncodeUint(v), "uint", v)
<1>1. v \in Nat /\ FixUint \in Nat
  BY WideNumber
<1>2. CASE v <= FixUint
  <2>1. EncodeUint(v) = Fixed("fixuint", v)
    BY <1>2 DEF EncodeUint
  <2>2. v \in 0..FixUint
    BY <1>1, <1>2
  <2>3. GoodForm(EncodeUint(v)) /\ EncodeUint(v).width = 0 /\ Parse(EncodeUint(v)) = Tag("uint", v)
    BY <2>1, <2>2, GoodFixed, Fields, Parses
  <2>4. Parse(EncodeUint(v)).v = v /\ Alike(Parse(EncodeUint(v)).type, "uint")
    BY <2>3, Fields DEF Alike
  <2> QED
    BY <2>3, <2>4, SmallStored
<1>3. CASE v > FixUint
  <2>1. ~(v <= FixUint)
    BY <1>1, <1>3
  <2>2. EncodeUint(v) = Sized("uint", Narrowest(v, Unsigned), v)
    BY <2>1 DEF EncodeUint
  <2> QED
    BY <1>3, <2>2, PositiveStored DEF Number
<1> QED
  BY <1>1, <1>2, <1>3

LEMMA IntStored ==
    ASSUME NEW v \in Signed[64]
    PROVE  StoredWell(EncodeInt(v), "int", v)
<1>1. v \in Int /\ FixUint \in Nat /\ FixInt \in Nat
  BY WideNumber, Halves
<1>2. CASE v \in -FixInt..FixUint
  <2> DEFINE f == Fixed("fixint", Stored(v, 8))
  <2>1. EncodeInt(v) = f
    BY <1>2 DEF EncodeInt
  <2>2. v \in Signed[8] /\ 8 \in Widths
    <3>1. Signed[8] = -Half[8]..(Half[8] - 1) /\ Half[8] \in Nat /\ FixInt <= Half[8]
      BY Ranges, Halves DEF Widths
    <3> QED
      BY <1>1, <1>2, <3>1 DEF FixUint, Widths
  <2>3. CASE v >= 0
    <3>1. Stored(v, 8) = v /\ v \in 0..FixUint /\ v <= FixUint
      BY <1>1, <1>2, <2>2, <2>3, Bits
    <3>2. GoodForm(f) /\ f.width = 0 /\ Parse(f) = Tag("uint", v)
      BY <3>1, GoodFixed, Fields, Parses
    <3>3. Parse(f).v = v /\ Alike(Parse(f).type, "int")
      BY <3>2, Fields DEF Alike, Number
    <3> QED
      BY <2>1, <3>2, <3>3, SmallStored
  <2>4. CASE v < 0
    <3>1. Stored(v, 8) = v + 2 * Half[8] /\ Loaded(Stored(v, 8), 8) = v
      BY <2>2, <2>4, Bits
    <3>2. v + 2 * Half[8] \in (2 * Half[8] - FixInt)..(2 * Half[8] - 1) /\ ~(v + 2 * Half[8] <= FixUint)
      <4>1. Half[8] \in Nat /\ FixInt <= Half[8]
        BY Four, Halves
      <4> QED
        BY <1>1, <1>2, <2>4, <4>1 DEF FixUint
    <3>3. GoodForm(f) /\ f.width = 0 /\ Parse(f) = Tag("int", v)
      BY <3>1, <3>2, GoodFixed, Fields, Parses
    <3>4. Parse(f).v = v /\ Alike(Parse(f).type, "int")
      BY <3>3, Fields DEF Alike
    <3> QED
      BY <2>1, <3>3, <3>4, SmallStored
  <2> QED
    BY <1>1, <2>3, <2>4
<1>3. CASE v > FixUint
  <2>1. v \notin -FixInt..FixUint /\ v > 0
    BY <1>1, <1>3
  <2>2. EncodeInt(v) = Sized("uint", Narrowest(v, Unsigned), v)
    BY <2>1 DEF EncodeInt
  <2>3. v \in Unsigned[64]
    <3>1. Unsigned[64] = 0..(2 * Half[64] - 1) /\ Signed[64] = -Half[64]..(Half[64] - 1) /\ Half[64] \in Nat
      BY Ranges, Halves DEF Widths
    <3> QED
      BY <2>1, <3>1
  <2> QED
    BY <1>3, <2>2, <2>3, PositiveStored DEF Number
<1>4. CASE v < -FixInt
  <2> DEFINE n == Narrowest(v, Signed)
             f == Sized("int", n, Stored(v, n))
  <2>1. v \notin -FixInt..FixUint /\ ~(v > 0) /\ v < 0
    BY <1>1, <1>4
  <2>2. EncodeInt(v) = f
    BY <2>1 DEF EncodeInt
  <2>3. n \in Widths /\ v \in Signed[n] /\ \A u \in Widths : v \in Signed[u] => n <= u
    BY NarrowestFits DEF Widths
  <2> HIDE DEF n
  <2>4. Stored(v, n) \in Unsigned[n] /\ Loaded(Stored(v, n), n) = v
    BY <2>3, Bits
  <2>5. GoodForm(f) /\ Parse(f) = Tag("int", v) /\ f.width = n
    BY <2>3, <2>4, GoodSized, Parses, Fields
  <2>6. ASSUME NEW t, NEW w, Alike(t, "int"), Room(t, w, v) PROVE n <= w
    <3>1. t \in Number
      BY <2>6 DEF Alike, Number
    <3>2. w # 0 /\ w \in Widths /\ (v \in Unsigned[w] \/ v \in Signed[w])
      BY <1>1, <2>1, <2>6, <3>1, NumberRoom
    <3>3. v \notin Unsigned[w]
      <4>1. Unsigned[w] = 0..(2 * Half[w] - 1) /\ Half[w] \in Nat
        BY <3>2, Ranges, Halves
      <4> QED
        BY <1>1, <2>1, <4>1
    <3> QED
      BY <2>3, <3>2, <3>3
  <2> HIDE DEF f
  <2>7. StoredWell(f, "int", v)
    BY <2>5, <2>6, Fields DEF StoredWell, Alike
  <2> QED
    BY <2>2, <2>7
<1> QED
  BY <1>1, <1>2, <1>3, <1>4

\* A length, and a count
LEMMA LengthRoom ==
    ASSUME NEW type \in {"str", "bin"}, NEW t, NEW w, NEW v, Alike(t, type), Room(t, w, v)
    PROVE  t = type /\ ((type = "str" /\ w = 0 /\ v \in 0..FixStr) \/ (w \in Widths /\ v \in Unsigned[w]))
<1>1. t = type
  BY DEF Alike, Number
<1> QED
  BY <1>1 DEF Room

LEMMA CountRoom ==
    ASSUME NEW type \in {"array", "map"}, NEW t, NEW w, NEW v, Alike(t, type), Room(t, w, v)
    PROVE  t = type /\ ((w = 0 /\ v \in 0..FixSize) \/ (w \in {16, 32} /\ v \in Unsigned[w]))
<1>1. t = type
  BY DEF Alike, Number
<1> QED
  BY <1>1 DEF Room

LEMMA WideLength ==
    ASSUME NEW v \in Unsigned[32], NEW type \in {"str", "bin"}, type = "str" => v \notin 0..FixStr
    PROVE  StoredWell(Sized(type, Narrowest(v, Unsigned), v), type, v)
<1> DEFINE n == Narrowest(v, Unsigned)
           f == Sized(type, n, v)
<1>1. n \in Widths /\ v \in Unsigned[n] /\ \A u \in Widths : v \in Unsigned[u] => n <= u
  BY NarrowestFits DEF Widths
<1> HIDE DEF n
<1>2. n \in Widths \ {64}
  <2>1. n <= 32
    BY <1>1 DEF Widths
  <2> QED
    BY <1>1, <2>1 DEF Widths
<1>3. GoodForm(f) /\ Parse(f) = Tag(type, v) /\ f.width = n
  BY <1>1, <1>2, GoodSized, Parses, Fields
<1>4. ASSUME NEW t, NEW w, Alike(t, type), Room(t, w, v) PROVE n <= w
  <2>1. w \in Widths /\ v \in Unsigned[w]
    BY <1>4, LengthRoom
  <2> QED
    BY <1>1, <2>1
<1> HIDE DEF f
<1>5. StoredWell(f, type, v)
  BY <1>3, <1>4, Fields DEF StoredWell, Alike
<1> QED
  BY <1>5 DEF f, n

LEMMA StrStored ==
    ASSUME NEW v \in Unsigned[32]
    PROVE  StoredWell(EncodeStr(v), "str", v)
<1>1. v \in Nat /\ FixStr \in Nat
  BY WideNumber, Halves DEF Widths
<1>2. CASE v <= FixStr
  <2>1. EncodeStr(v) = Fixed("fixstr", v) /\ v \in 0..FixStr
    BY <1>1, <1>2 DEF EncodeStr
  <2>2. GoodForm(EncodeStr(v)) /\ EncodeStr(v).width = 0 /\ Parse(EncodeStr(v)) = Tag("str", v)
    BY <2>1, GoodFixed, Fields, Parses
  <2>3. Parse(EncodeStr(v)).v = v /\ Alike(Parse(EncodeStr(v)).type, "str")
    BY <2>2, Fields DEF Alike
  <2> QED
    BY <2>2, <2>3, SmallStored
<1>3. CASE ~(v <= FixStr)
  <2>1. EncodeStr(v) = Sized("str", Narrowest(v, Unsigned), v) /\ v \notin 0..FixStr
    BY <1>1, <1>3 DEF EncodeStr
  <2> QED
    BY <2>1, WideLength
<1> QED
  BY <1>2, <1>3

LEMMA BinStored ==
    ASSUME NEW v \in Unsigned[32]
    PROVE  StoredWell(EncodeBin(v), "bin", v)
BY WideLength DEF EncodeBin

LEMMA WideCount ==
    ASSUME NEW v \in Unsigned[32], v \notin 0..FixSize, NEW type \in {"array", "map"}
    PROVE  StoredWell(Sized(type, CountWidth(v), v), type, v)
<1> DEFINE n == CountWidth(v)
           f == Sized(type, n, v)
<1>1. n \in {16, 32} /\ v \in Unsigned[n] /\ (v \in Unsigned[16] => n = 16)
  BY DEF CountWidth
<1> HIDE DEF n
<1>2. GoodForm(f) /\ Parse(f) = Tag(type, v) /\ f.width = n
  BY <1>1, GoodSized, Parses, Fields DEF Widths
<1>3. ASSUME NEW t, NEW w, Alike(t, type), Room(t, w, v) PROVE n <= w
  <2>1. w \in {16, 32} /\ v \in Unsigned[w]
    BY <1>3, CountRoom
  <2> QED
    BY <1>1, <2>1
<1> HIDE DEF f
<1>4. StoredWell(f, type, v)
  BY <1>2, <1>3, Fields DEF StoredWell, Alike
<1> QED
  BY <1>4 DEF f, n

LEMMA CountStored ==
    ASSUME NEW v \in Unsigned[32]
    PROVE  StoredWell(EncodeArray(v), "array", v) /\ StoredWell(EncodeMap(v), "map", v)
<1>1. v \in Nat /\ FixSize \in Nat
  BY WideNumber, Halves DEF Widths
<1>2. CASE v <= FixSize
  <2>1. EncodeArray(v) = Fixed("fixarray", v) /\ EncodeMap(v) = Fixed("fixmap", v) /\ v \in 0..FixSize
    BY <1>1, <1>2 DEF EncodeArray, EncodeMap
  <2>2. GoodForm(EncodeArray(v)) /\ EncodeArray(v).width = 0 /\ Parse(EncodeArray(v)) = Tag("array", v)
    BY <2>1, GoodFixed, Fields, Parses
  <2>3. Parse(EncodeArray(v)).v = v /\ Alike(Parse(EncodeArray(v)).type, "array")
    BY <2>2, Fields DEF Alike
  <2>4. GoodForm(EncodeMap(v)) /\ EncodeMap(v).width = 0 /\ Parse(EncodeMap(v)) = Tag("map", v)
    BY <2>1, GoodFixed, Fields, Parses
  <2>5. Parse(EncodeMap(v)).v = v /\ Alike(Parse(EncodeMap(v)).type, "map")
    BY <2>4, Fields DEF Alike
  <2>6. StoredWell(EncodeArray(v), "array", v)
    BY <2>2, <2>3, SmallStored
  <2>7. StoredWell(EncodeMap(v), "map", v)
    BY <2>4, <2>5, SmallStored
  <2> QED
    BY <2>6, <2>7
<1>3. CASE ~(v <= FixSize)
  <2>1. v \notin 0..FixSize
    BY <1>1, <1>3
  <2>2. EncodeArray(v) = Sized("array", CountWidth(v), v) /\ EncodeMap(v) = Sized("map", CountWidth(v), v)
    BY <1>3 DEF EncodeArray, EncodeMap
  <2> QED
    BY <2>1, <2>2, WideCount
<1> QED
  BY <1>2, <1>3

LEMMA BoolStored ==
    ASSUME NEW b \in {0, 1}
    PROVE  StoredWell(EncodeBool(b), "bool", b)
<1>1. GoodForm(EncodeBool(b)) /\ EncodeBool(b).width = 0 /\ Parse(EncodeBool(b)) = Tag("bool", b)
  BY GoodFixed, Fields, Parses DEF EncodeBool
<1>2. Parse(EncodeBool(b)).v = b /\ Alike(Parse(EncodeBool(b)).type, "bool")
  BY <1>1, Fields DEF Alike
<1> QED
  BY <1>1, <1>2, SmallStored

LEMMA NilStored == StoredWell(EncodeNil, "nil", 0)
<1>1. GoodForm(EncodeNil) /\ EncodeNil.width = 0 /\ Parse(EncodeNil) = NilTag
  BY GoodFixed, Fields, Parses
<1>2. Parse(EncodeNil).v = 0 /\ Alike(Parse(EncodeNil).type, "nil")
  BY <1>1, Fields DEF Alike
<1> QED
  BY <1>1, <1>2, SmallStored

\* The values, by type
LEMMA Kinds ==
    ASSUME NEW x \in AllWritten
    PROVE  /\ x.v \in Int
           /\ \/ x.type = "uint" /\ x.v \in Unsigned[64]
              \/ x.type = "int" /\ x.v \in Signed[64]
              \/ x.type \in {"str", "bin", "array", "map"} /\ x.v \in Unsigned[32]
              \/ x.type = "bool" /\ x.v \in {0, 1}
              \/ x.type = "nil" /\ x.v = 0
<1>1. \/ x.type = "uint" /\ x.v \in Unsigned[64]
      \/ x.type = "int" /\ x.v \in Signed[64]
      \/ x.type \in {"str", "bin", "array", "map"} /\ x.v \in Unsigned[32]
      \/ x.type = "bool" /\ x.v \in {0, 1}
      \/ x.type = "nil" /\ x.v = 0
  BY DEF AllWritten, Tag, NilTag
<1>2. 32 \in Widths /\ 64 \in Widths
  BY DEF Widths
<1> QED
  BY <1>1, <1>2, WideNumber

\* Every value is stored well.
LEMMA Stores ==
    ASSUME NEW x \in AllWritten
    PROVE  StoredWell(Encode(x), x.type, x.v)
<1>1. CASE x.type = "uint"
  <2>1. Encode(x) = EncodeUint(x.v) /\ x.v \in Unsigned[64]
    BY <1>1, Kinds DEF Encode
  <2> QED
    BY <1>1, <2>1, UintStored
<1>2. CASE x.type = "int"
  <2>1. Encode(x) = EncodeInt(x.v) /\ x.v \in Signed[64]
    BY <1>2, Kinds DEF Encode
  <2> QED
    BY <1>2, <2>1, IntStored
<1>3. CASE x.type = "str"
  <2>1. Encode(x) = EncodeStr(x.v) /\ x.v \in Unsigned[32]
    BY <1>3, Kinds DEF Encode
  <2> QED
    BY <1>3, <2>1, StrStored
<1>4. CASE x.type = "bin"
  <2>1. Encode(x) = EncodeBin(x.v) /\ x.v \in Unsigned[32]
    BY <1>4, Kinds DEF Encode
  <2> QED
    BY <1>4, <2>1, BinStored
<1>5. CASE x.type = "array"
  <2>1. Encode(x) = EncodeArray(x.v) /\ x.v \in Unsigned[32]
    BY <1>5, Kinds DEF Encode
  <2> QED
    BY <1>5, <2>1, CountStored
<1>6. CASE x.type = "map"
  <2>1. Encode(x) = EncodeMap(x.v) /\ x.v \in Unsigned[32]
    BY <1>6, Kinds DEF Encode
  <2> QED
    BY <1>6, <2>1, CountStored
<1>7. CASE x.type = "bool"
  <2>1. Encode(x) = EncodeBool(x.v) /\ x.v \in {0, 1}
    BY <1>7, Kinds DEF Encode
  <2> QED
    BY <1>7, <2>1, BoolStored
<1>8. CASE x.type = "nil"
  <2>1. Encode(x) = EncodeNil /\ x.v = 0
    BY <1>8, Kinds DEF Encode
  <2> QED
    BY <1>8, <2>1, NilStored
<1> QED
  BY <1>1, <1>2, <1>3, <1>4, <1>5, <1>6, <1>7, <1>8, Kinds

LEMMA ShortestForm ==
    ASSUME NEW x \in AllWritten
    PROVE  /\ GoodForm(Encode(x)) /\ Means(Encode(x), x)
           /\ \A f \in AllForms : Means(f, x) => FormSize(Encode(x)) <= FormSize(f)
<1> DEFINE e == Encode(x)
<1>1. GoodForm(e) /\ Parse(e).v = x.v /\ Alike(Parse(e).type, x.type)
  BY Stores DEF StoredWell
<1>2. Means(e, x)
  BY <1>1 DEF Means, Alike
<1>3. \A t, w : Alike(t, x.type) /\ Room(t, w, x.v) => e.width <= w
  BY Stores DEF StoredWell
<1> HIDE DEF e
<1>4. ASSUME NEW f, GoodForm(f) PROVE f.width \in {0, 8, 16, 32, 64}
  BY <1>4 DEF GoodForm, Room, Widths
<1>5. ASSUME NEW f \in AllForms, Means(f, x) PROVE FormSize(e) <= FormSize(f)
  <2>1. GoodForm(f)
    BY AllGood
  <2>2. Alike(Parse(f).type, x.type) /\ Room(Parse(f).type, f.width, x.v)
    BY <1>5, <2>1 DEF Means, Alike, GoodForm
  <2>3. e.width <= f.width
    BY <1>3, <2>2
  <2>4. e.width \in {0, 8, 16, 32, 64} /\ f.width \in {0, 8, 16, 32, 64}
    BY <1>1, <1>4, <2>1
  <2>5. \A a, b \in {0, 8, 16, 32, 64} : a <= b => 1 + a \div 8 <= 1 + b \div 8
    OBVIOUS
  <2> QED
    BY <2>3, <2>4, <2>5 DEF FormSize
<1> QED
  BY <1>1, <1>2, <1>5 DEF e

-----------------------------------------------------------------------------
(* What is read back                                                        *)

\* ReadsBack, of a value, a question and the answer to it
Fits(x, a) ==
    CASE a.call = "uint" -> x.type \in Number /\ x.v \in Unsigned[a.width]
      [] a.call = "int" -> x.type \in Number /\ x.v \in Signed[a.width]
      [] OTHER -> x.type = a.call
Within(x, a) == a.x = NoLimits \/ x.v \in a.x[1]..a.x[2]
Answered(x, a, g) ==
    IF Fits(x, a) /\ Within(x, a) THEN g = Got(x.v)
    ELSE g.error = IF Fits(x, a) /\ a.call = "str" THEN "too_big" ELSE "type"

Ask(call, width, limits) == [call |-> call, width |-> width, x |-> limits]

LEMMA AskFields ==
    \A call, width, limits :
        /\ Ask(call, width, limits).call = call /\ Ask(call, width, limits).width = width
        /\ Ask(call, width, limits).x = limits
BY DEF Ask

\* The tag of a form that stands for x, beside x
LEMMA TagMeans ==
    ASSUME NEW f, NEW x \in AllWritten, GoodForm(f), Means(f, x)
    PROVE  /\ Parse(f).v = x.v /\ x.v \in Int
           /\ Parse(f).type \in Number <=> x.type \in Number
           /\ \A c : c \notin Number => (Parse(f).type = c <=> x.type = c)
           /\ x.type \notin Number => x.v >= 0
           /\ f.code = "bool" <=> x.type = "bool"
           /\ f.code = "nil" <=> x.type = "nil"
           /\ f.code = "bool" => f.raw = x.v
           /\ x.type = "nil" => x.v = 0
<1> DEFINE t == Parse(f)
<1>1. t.v = x.v /\ Alike(t.type, x.type)
  BY DEF Means, Alike
<1>2. (f.code = "bool" <=> t.type = "bool") /\ (f.code = "nil" <=> t.type = "nil") /\ (f.code = "bool" => f.raw = t.v)
  BY DEF GoodForm
<1> HIDE DEF t
<1>3. t.type \in Number <=> x.type \in Number
  BY <1>1 DEF Alike, Number
<1>4. \A c : c \notin Number => (t.type = c <=> x.type = c)
  BY <1>1 DEF Alike, Number
<1>5. x.v \in Int /\ (x.type = "nil" => x.v = 0)
  BY Kinds
<1>6. x.type \notin Number => x.v >= 0
  <2>1. Unsigned[32] \subseteq Nat
    BY WideNumber DEF Widths
  <2>2. x.type \notin Number => x.v \in Unsigned[32] \/ x.v \in {0, 1}
    BY Kinds DEF Number
  <2> QED
    BY <2>1, <2>2
<1>7. "bool" \notin Number /\ "nil" \notin Number
  BY DEF Number
<1> QED
  BY <1>1, <1>2, <1>3, <1>4, <1>5, <1>6, <1>7 DEF t

LEMMA Answers ==
    /\ \A v : Got(v).error = "ok" /\ Got(v).v = v
    /\ \A u, v : Got(u) = Got(v) <=> u = v
    /\ \A e, v : Refused(e, v).error = e /\ Refused(e, v).v = v
    /\ \A e, u, v : e # "ok" => Refused(e, u) # Got(v)
    /\ \A c, v : c => Accept(c, v) = Got(v)
    /\ \A c, v : ~c => Accept(c, v) = Refused("type", 0)
<1>1. \A v : Got(v).error = "ok" /\ Got(v).v = v
  BY DEF Got
<1>2. \A e, v : Refused(e, v).error = e /\ Refused(e, v).v = v
  BY DEF Refused
<1>3. \A c, v : c => Accept(c, v) = Got(v)
  BY DEF Accept
<1>4. \A c, v : ~c => Accept(c, v) = Refused("type", 0)
  BY DEF Accept
<1>5. \A u, v : Got(u) = Got(v) <=> u = v
  BY <1>1
<1>6. \A e, u, v : e # "ok" => Refused(e, u) # Got(v)
  BY <1>1, <1>2
<1> QED
  BY <1>1, <1>2, <1>3, <1>4, <1>5, <1>6

\* The functions without limits, in terms of the value
LEMMA Expects ==
    ASSUME NEW f, NEW x \in AllWritten, GoodForm(f), Means(f, x)
    PROVE  /\ \A w : ExpectUint(Parse(f), w) =
                  IF x.type \in Number /\ x.v \in Unsigned[w] THEN Got(x.v) ELSE Refused("type", 0)
           /\ \A w : ExpectInt(Parse(f), w) =
                  IF x.type \in Number /\ x.v \in Signed[w] THEN Got(x.v) ELSE Refused("type", 0)
           /\ \A c : c \notin Number => ExpectType(Parse(f), c) =
                  IF x.type = c THEN Got(x.v) ELSE Refused("type", 0)
           /\ ExpectBool(f) = IF x.type = "bool" THEN Got(x.v) ELSE Refused("type", LowBit(f))
           /\ ExpectNil(f) = IF x.type = "nil" THEN Got(x.v) ELSE Refused("type", 0)
<1>1. /\ Parse(f).v = x.v /\ (Parse(f).type \in Number <=> x.type \in Number)
      /\ \A c : c \notin Number => (Parse(f).type = c <=> x.type = c)
      /\ (f.code = "bool" <=> x.type = "bool") /\ (f.code = "nil" <=> x.type = "nil")
      /\ (f.code = "bool" => f.raw = x.v) /\ (x.type = "nil" => x.v = 0)
  BY TagMeans
<1>2. \A w : ExpectUint(Parse(f), w) =
          IF x.type \in Number /\ x.v \in Unsigned[w] THEN Got(x.v) ELSE Refused("type", 0)
  BY <1>1, Zenon DEF ExpectUint, Accept, Number
<1>3. \A w : ExpectInt(Parse(f), w) =
          IF x.type \in Number /\ x.v \in Signed[w] THEN Got(x.v) ELSE Refused("type", 0)
  BY <1>1, Zenon DEF ExpectInt, Accept, Number
<1>4. \A c : c \notin Number => ExpectType(Parse(f), c) =
          IF x.type = c THEN Got(x.v) ELSE Refused("type", 0)
  BY <1>1 DEF ExpectType, Accept
<1>5. ExpectBool(f) = IF x.type = "bool" THEN Got(x.v) ELSE Refused("type", LowBit(f))
  BY <1>1 DEF ExpectBool
<1>6. ExpectNil(f) = IF x.type = "nil" THEN Got(x.v) ELSE Refused("type", 0)
  BY <1>1 DEF ExpectNil, Accept
<1> QED
  BY <1>2, <1>3, <1>4, <1>5, <1>6

\* What a question asks of the value
LEMMA Questions ==
    ASSUME NEW x, NEW w, NEW l
    PROVE  /\ Fits(x, Ask("uint", w, l)) <=> x.type \in Number /\ x.v \in Unsigned[w]
           /\ Fits(x, Ask("int", w, l)) <=> x.type \in Number /\ x.v \in Signed[w]
           /\ \A c : c \notin Number => (Fits(x, Ask(c, w, l)) <=> x.type = c)
<1>1. Fits(x, Ask("uint", w, l)) <=> x.type \in Number /\ x.v \in Unsigned[w]
  BY AskFields DEF Fits
<1>2. Fits(x, Ask("int", w, l)) <=> x.type \in Number /\ x.v \in Signed[w]
  BY AskFields DEF Fits
<1>3. ASSUME NEW c, c \notin Number PROVE Fits(x, Ask(c, w, l)) <=> x.type = c
  <2>1. c # "uint" /\ c # "int"
    BY <1>3 DEF Number
  <2> QED
    BY <2>1, AskFields DEF Fits
<1> QED
  BY <1>1, <1>2, <1>3

LEMMA Limited ==
    /\ \A x, c, w : Within(x, Ask(c, w, NoLimits))
    /\ \A x, c, w, min, max : Within(x, Ask(c, w, <<min, max>>)) <=> x.v \in min..max
<1>1. \A x, c, w : Within(x, Ask(c, w, NoLimits))
  BY AskFields DEF Within
<1>2. \A min, max : <<min, max>> # << >> /\ <<min, max>>[1] = min /\ <<min, max>>[2] = max
  OBVIOUS
<1>3. ASSUME NEW x, NEW c, NEW w, NEW min, NEW max
      PROVE  Within(x, Ask(c, w, <<min, max>>)) <=> x.v \in min..max
  <2> DEFINE l == <<min, max>>
  <2>1. l # NoLimits /\ l[1] = min /\ l[2] = max
    BY <1>2 DEF NoLimits
  <2> HIDE DEF l
  <2>2. Ask(c, w, l).x = l
    BY AskFields
  <2>3. Within(x, Ask(c, w, l)) <=> x.v \in min..max
    BY <2>1, <2>2 DEF Within
  <2> QED
    BY <2>3 DEF l
<1> QED
  BY <1>1, <1>3

\* An answer is right if it is the value or, where that does not fit, a refusal
LEMMA RightAnswer ==
    ASSUME NEW x, NEW c, NEW w, NEW l, NEW g
    PROVE  LET a == Ask(c, w, l) IN
           /\ Fits(x, a) /\ Within(x, a) /\ g = Got(x.v) => Answered(x, a, g)
           /\ ~(Fits(x, a) /\ Within(x, a)) /\ ~(Fits(x, a) /\ c = "str") /\ g.error = "type" => Answered(x, a, g)
           /\ Fits(x, a) /\ ~Within(x, a) /\ c = "str" /\ g.error = "too_big" => Answered(x, a, g)
BY AskFields DEF Answered

\* Reading a value with no limits
LEMMA PlainReads ==
    ASSUME NEW f, NEW x \in AllWritten, GoodForm(f), Means(f, x)
    PROVE  /\ \A w : Answered(x, Ask("uint", w, NoLimits), ExpectUint(Parse(f), w))
           /\ \A w : Answered(x, Ask("int", w, NoLimits), ExpectInt(Parse(f), w))
           /\ \A w : Answered(x, Ask("bool", w, NoLimits), ExpectBool(f))
           /\ \A w : Answered(x, Ask("nil", w, NoLimits), ExpectNil(f))
           /\ \A w, c : c \notin Number => Answered(x, Ask(c, w, NoLimits), ExpectType(Parse(f), c))
<1>1. \A c, w : Within(x, Ask(c, w, NoLimits))
  BY Limited
<1>2. ASSUME NEW w PROVE Answered(x, Ask("uint", w, NoLimits), ExpectUint(Parse(f), w))
  <2>1. Fits(x, Ask("uint", w, NoLimits)) <=> x.type \in Number /\ x.v \in Unsigned[w]
    BY Questions
  <2>2. ExpectUint(Parse(f), w) = IF Fits(x, Ask("uint", w, NoLimits)) THEN Got(x.v) ELSE Refused("type", 0)
    BY <2>1, Expects
  <2> QED
    BY <1>1, <2>2, Answers, RightAnswer
<1>3. ASSUME NEW w PROVE Answered(x, Ask("int", w, NoLimits), ExpectInt(Parse(f), w))
  <2>1. Fits(x, Ask("int", w, NoLimits)) <=> x.type \in Number /\ x.v \in Signed[w]
    BY Questions
  <2>2. ExpectInt(Parse(f), w) = IF Fits(x, Ask("int", w, NoLimits)) THEN Got(x.v) ELSE Refused("type", 0)
    BY <2>1, Expects
  <2> QED
    BY <1>1, <2>2, Answers, RightAnswer
<1>4. ASSUME NEW w PROVE Answered(x, Ask("bool", w, NoLimits), ExpectBool(f))
  <2>1. Fits(x, Ask("bool", w, NoLimits)) <=> x.type = "bool"
    BY Questions DEF Number
  <2>2. ExpectBool(f) = IF Fits(x, Ask("bool", w, NoLimits)) THEN Got(x.v) ELSE Refused("type", LowBit(f))
    BY <2>1, Expects
  <2> QED
    BY <1>1, <2>2, Answers, RightAnswer
<1>5. ASSUME NEW w PROVE Answered(x, Ask("nil", w, NoLimits), ExpectNil(f))
  <2>1. Fits(x, Ask("nil", w, NoLimits)) <=> x.type = "nil"
    BY Questions DEF Number
  <2>2. ExpectNil(f) = IF Fits(x, Ask("nil", w, NoLimits)) THEN Got(x.v) ELSE Refused("type", 0)
    BY <2>1, Expects
  <2> QED
    BY <1>1, <2>2, Answers, RightAnswer
<1>6. ASSUME NEW w, NEW c, c \notin Number PROVE Answered(x, Ask(c, w, NoLimits), ExpectType(Parse(f), c))
  <2>1. Fits(x, Ask(c, w, NoLimits)) <=> x.type = c
    BY <1>6, Questions
  <2>2. ExpectType(Parse(f), c) = IF Fits(x, Ask(c, w, NoLimits)) THEN Got(x.v) ELSE Refused("type", 0)
    BY <1>6, <2>1, Expects
  <2> QED
    BY <1>1, <2>2, Answers, RightAnswer
<1> QED
  BY <1>2, <1>3, <1>4, <1>5, <1>6

\* Reading a number within limits
LEMMA RangeReads ==
    ASSUME NEW x, NEW c \in Number, NEW w, NEW min \in Int, NEW max \in Int, NEW g,
           x.v \in Int, g = IF Fits(x, Ask(c, w, <<min, max>>)) THEN Got(x.v) ELSE Refused("type", 0)
    PROVE  Answered(x, Ask(c, w, <<min, max>>), ExpectRange(g, min, max))
<1> DEFINE a == Ask(c, w, <<min, max>>)
<1>1. Within(x, a) <=> x.v \in min..max
  BY Limited
<1>2. c # "str"
  BY DEF Number
<1>3. CASE Fits(x, a)
  <2>1. g.error = "ok" /\ g.v = x.v /\ g = Got(x.v)
    BY <1>3, Answers
  <2>2. CASE x.v \in min..max
    <3>1. ExpectRange(g, min, max) = g
      BY <2>1, <2>2 DEF ExpectRange
    <3> QED
      BY <1>1, <1>3, <2>1, <2>2, <3>1, RightAnswer
  <2>3. CASE x.v \notin min..max
    <3>1. ExpectRange(g, min, max) = Refused("type", min)
      BY <2>1, <2>3 DEF ExpectRange
    <3> QED
      BY <1>1, <1>2, <2>3, <3>1, RightAnswer, Answers
  <2> QED
    BY <2>2, <2>3
<1>4. CASE ~Fits(x, a)
  <2>1. g.error = "type" /\ g.error # "ok"
    BY <1>4, Answers
  <2>2. ExpectRange(g, min, max) = Refused("type", min)
    BY <2>1 DEF ExpectRange
  <2> QED
    BY <1>2, <1>4, <2>2, RightAnswer, Answers
<1> QED
  BY <1>3, <1>4

\* Reading exactly one value
LEMMA MatchReads ==
    ASSUME NEW x, NEW c, c # "str", NEW w, NEW n \in Int, NEW g, NEW e, x.v \in Int,
           g = IF Fits(x, Ask(c, w, <<n, n>>)) THEN Got(x.v) ELSE Refused("type", e)
    PROVE  Answered(x, Ask(c, w, <<n, n>>), Accept(g = Got(n), n))
<1> DEFINE a == Ask(c, w, <<n, n>>)
<1>1. Within(x, a) <=> x.v = n
  <2>1. Within(x, a) <=> x.v \in n..n
    BY Limited
  <2> QED
    BY <2>1
<1>2. CASE Fits(x, a) /\ x.v = n
  <2>0. g = Got(n) /\ x.v = n
    BY <1>2
  <2>1. Accept(g = Got(n), n) = Got(x.v)
    BY <2>0 DEF Accept
  <2> QED
    BY <1>1, <1>2, <2>1, RightAnswer
<1>3. CASE ~(Fits(x, a) /\ x.v = n)
  <2>1. g # Got(n)
    <3>1. CASE Fits(x, a)
      <4>1. g = Got(x.v) /\ x.v # n
        BY <1>3, <3>1
      <4> QED
        BY <4>1, Answers
    <3>2. CASE ~Fits(x, a)
      <4>1. g = Refused("type", e) /\ "type" # "ok"
        BY <3>2
      <4> QED
        BY <4>1, Answers
    <3> QED
      BY <3>1, <3>2
  <2>2. Accept(g = Got(n), n) = Refused("type", 0)
    BY <2>1, Answers
  <2> QED
    BY <1>1, <1>3, <2>2, RightAnswer, Answers
<1> QED
  BY <1>2, <1>3

\* Reading a length up to a maximum
LEMMA MaxReads ==
    ASSUME NEW f, NEW x \in AllWritten, GoodForm(f), Means(f, x), NEW w, NEW max \in Nat
    PROVE  /\ Answered(x, Ask("str", w, <<0, max>>), ExpectStrMax(Parse(f), max))
           /\ Answered(x, Ask("bin", w, <<0, max>>), ExpectBinMax(Parse(f), max))
<1>1. x.v \in Int /\ (x.type \notin Number => x.v >= 0) /\ "str" \notin Number /\ "bin" \notin Number
  BY TagMeans DEF Number
<1>2. \A c : Within(x, Ask(c, w, <<0, max>>)) <=> x.v \in 0..max
  BY Limited
<1>3. Answered(x, Ask("str", w, <<0, max>>), ExpectStrMax(Parse(f), max))
  <2> DEFINE a == Ask("str", w, <<0, max>>)
  <2>1. Fits(x, a) <=> x.type = "str"
    BY <1>1, Questions
  <2>2. ExpectType(Parse(f), "str") = IF x.type = "str" THEN Got(x.v) ELSE Refused("type", 0)
    BY <1>1, Expects
  <2>3. CASE x.type = "str" /\ x.v > max
    <3>1. ExpectStrMax(Parse(f), max) = Refused("too_big", 0)
      BY <2>2, <2>3, Answers DEF ExpectStrMax
    <3>2. ~Within(x, a)
      BY <1>1, <1>2, <2>3
    <3> QED
      BY <2>1, <2>3, <3>1, <3>2, RightAnswer, Answers
  <2>4. CASE x.type = "str" /\ ~(x.v > max)
    <3>1. ExpectStrMax(Parse(f), max) = Got(x.v)
      BY <2>2, <2>4, Answers DEF ExpectStrMax
    <3>2. Within(x, a)
      BY <1>1, <1>2, <2>4
    <3> QED
      BY <2>1, <2>4, <3>1, <3>2, RightAnswer
  <2>5. CASE x.type # "str"
    <3>1. ExpectStrMax(Parse(f), max) = Refused("type", 0)
      <4>1. ExpectType(Parse(f), "str") = Refused("type", 0) /\ Refused("type", 0).v = 0
        BY <2>2, <2>5, Answers
      <4>2. ~(0 > max)
        OBVIOUS
      <4> QED
        BY <4>1, <4>2 DEF ExpectStrMax
    <3> QED
      BY <2>1, <2>5, <3>1, RightAnswer, Answers
  <2> QED
    BY <2>3, <2>4, <2>5
<1>4. Answered(x, Ask("bin", w, <<0, max>>), ExpectBinMax(Parse(f), max))
  <2> DEFINE a == Ask("bin", w, <<0, max>>)
  <2>1. Fits(x, a) <=> x.type = "bin"
    BY <1>1, Questions
  <2>2. ExpectType(Parse(f), "bin") = IF x.type = "bin" THEN Got(x.v) ELSE Refused("type", 0)
    BY <1>1, Expects
  <2>3. CASE x.type = "bin" /\ x.v > max
    <3>1. ExpectBinMax(Parse(f), max) = Refused("type", 0)
      BY <2>2, <2>3, Answers DEF ExpectBinMax
    <3>2. ~Within(x, a)
      BY <1>1, <1>2, <2>3
    <3> QED
      BY <3>1, <3>2, RightAnswer, Answers
  <2>4. CASE x.type = "bin" /\ ~(x.v > max)
    <3>1. ExpectBinMax(Parse(f), max) = Got(x.v)
      BY <2>2, <2>4, Answers DEF ExpectBinMax
    <3>2. Within(x, a)
      BY <1>1, <1>2, <2>4
    <3> QED
      BY <2>1, <2>4, <3>1, <3>2, RightAnswer
  <2>5. CASE x.type # "bin"
    <3>1. ExpectBinMax(Parse(f), max) = Refused("type", 0)
      <4>1. ExpectType(Parse(f), "bin") = Refused("type", 0) /\ Refused("type", 0).v = 0
        BY <2>2, <2>5, Answers
      <4>2. ~(0 > max)
        OBVIOUS
      <4> QED
        BY <4>1, <4>2 DEF ExpectBinMax
    <3> QED
      BY <2>1, <2>5, <3>1, RightAnswer, Answers
  <2> QED
    BY <2>3, <2>4, <2>5
<1> QED
  BY <1>3, <1>4

-----------------------------------------------------------------------------
(* What is compared                                                         *)

Types == {"nil", "bool", "int", "uint", "str", "bin", "array", "map"}

LEMMA Orders ==
    /\ \A a \in Types : TypeOrder[a] \in Int
    /\ \A a, b \in Types : a # b => TypeOrder[a] # TypeOrder[b]
    /\ TypeOrder["int"] = 3 /\ TypeOrder["uint"] = 4
BY DEF Types, TypeOrder

LEMMA Signs ==
    /\ \A a, b \in Int : a # b => Sign(a - b) # 0
    /\ \A a, b \in Int : a < b => Sign(a - b) = -1
    /\ \A a, b \in Int : b < a => Sign(a - b) = 1
    /\ Sign(3 - 4) = -1 /\ Sign(4 - 3) = 1
BY DEF Sign

\* A tag with its sign in its type, as mpack_tag_cmp makes it
LEMMA Normals ==
    ASSUME NEW f, GoodForm(f), Parse(f).v \in Int
    PROVE  LET t == Parse(f) IN
           /\ t.type \in Types /\ Normal(t).v = t.v
           /\ t.type \in Number => Normal(t).type = IF t.v >= 0 THEN "uint" ELSE "int"
           /\ t.type \notin Number => Normal(t).type = t.type
<1> DEFINE t == Parse(f)
<1>1. Room(t.type, f.width, t.v)
  BY DEF GoodForm
<1>2. t.type \in Types
  BY <1>1 DEF Room, Types
<1>3. t.type = "uint" => t.v >= 0
  <2>1. t.type = "uint" => t.v \in 0..FixUint \/ \E w \in Widths : t.v \in Unsigned[w]
    BY <1>1 DEF Room
  <2>2. \A w \in Widths : Unsigned[w] \subseteq Nat
    BY WideNumber
  <2>3. FixUint \in Nat
    BY WideNumber
  <2> QED
    BY <2>1, <2>2, <2>3
<1> HIDE DEF t
<1>4. CASE t.type = "int" /\ t.v >= 0
  <2>1. Normal(t) = Tag("uint", t.v)
    BY <1>4 DEF Normal
  <2> QED
    BY <1>2, <1>4, <2>1, Fields DEF Number, t
<1>5. CASE ~(t.type = "int" /\ t.v >= 0)
  <2>1. Normal(t) = t
    BY <1>5 DEF Normal
  <2>2. t.type \in Number => t.type = IF t.v >= 0 THEN "uint" ELSE "int"
    BY <1>3, <1>5 DEF Number
  <2> QED
    BY <1>2, <2>1, <2>2 DEF t
<1> QED
  BY <1>4, <1>5

LEMMA Compared ==
    ASSUME NEW f, NEW g, NEW x \in AllWritten, NEW y \in AllWritten,
           GoodForm(f), GoodForm(g), Means(f, x), Means(g, y)
    PROVE  LET c == TagCmp(Parse(f), Parse(g)) IN
           /\ Alike(x.type, y.type) => c = Sign(x.v - y.v)
           /\ ~Alike(x.type, y.type) => c # 0
<1> DEFINE l == Normal(Parse(f))
           r == Normal(Parse(g))
           c == TagCmp(Parse(f), Parse(g))
<1>1. Parse(f).v = x.v /\ x.v \in Int /\ Parse(g).v = y.v /\ y.v \in Int
  BY TagMeans
<1>2. Alike(Parse(f).type, x.type) /\ Alike(Parse(g).type, y.type)
  BY DEF Means, Alike
<1>3. /\ Parse(f).type \in Types /\ l.v = x.v
      /\ Parse(f).type \in Number => l.type = IF x.v >= 0 THEN "uint" ELSE "int"
      /\ Parse(f).type \notin Number => l.type = Parse(f).type
  BY <1>1, Normals
<1>4. /\ Parse(g).type \in Types /\ r.v = y.v
      /\ Parse(g).type \in Number => r.type = IF y.v >= 0 THEN "uint" ELSE "int"
      /\ Parse(g).type \notin Number => r.type = Parse(g).type
  BY <1>1, Normals
<1>5. c = IF l.type # r.type THEN Sign(TypeOrder[l.type] - TypeOrder[r.type]) ELSE Sign(l.v - r.v)
  BY DEF TagCmp
<1>a. /\ x.type \in Number => l.type = IF x.v >= 0 THEN "uint" ELSE "int"
      /\ x.type \notin Number => l.type = x.type /\ x.type \in Types
  <2>1. (Parse(f).type \in Number <=> x.type \in Number) /\ (x.type \notin Number => Parse(f).type = x.type)
    BY <1>2 DEF Alike, Number
  <2> QED
    BY <1>3, <2>1
<1>b. /\ y.type \in Number => r.type = IF y.v >= 0 THEN "uint" ELSE "int"
      /\ y.type \notin Number => r.type = y.type /\ y.type \in Types
  <2>1. (Parse(g).type \in Number <=> y.type \in Number) /\ (y.type \notin Number => Parse(g).type = y.type)
    BY <1>2 DEF Alike, Number
  <2> QED
    BY <1>4, <2>1
<1>c. l.v = x.v /\ r.v = y.v
  BY <1>3, <1>4
<1> HIDE DEF l, r, c
<1>6. Number \subseteq Types /\ Number = {"uint", "int"}
  BY DEF Number, Types
<1>7. l.type \in Types /\ r.type \in Types
  BY <1>a, <1>b, <1>6
<1>8. CASE x.type \in Number /\ y.type \in Number
  <2>1. Alike(x.type, y.type)
    BY <1>8 DEF Alike
  <2>2. ASSUME l.type = r.type PROVE c = Sign(x.v - y.v)
    BY <1>5, <1>c, <2>2
  <2>3. ASSUME l.type # r.type, x.v >= 0 PROVE c = Sign(x.v - y.v)
    <3>1. l.type = "uint" /\ r.type = "int" /\ y.v < x.v
      BY <1>1, <1>8, <1>a, <1>b, <2>3
    <3>2. c = Sign(4 - 3)
      BY <1>5, <3>1, Orders
    <3> QED
      BY <1>1, <3>1, <3>2, Signs
  <2>4. ASSUME l.type # r.type, ~(x.v >= 0) PROVE c = Sign(x.v - y.v)
    <3>1. l.type = "int" /\ r.type = "uint" /\ x.v < y.v
      BY <1>1, <1>8, <1>a, <1>b, <2>4
    <3>2. c = Sign(3 - 4)
      BY <1>5, <3>1, Orders
    <3> QED
      BY <1>1, <3>1, <3>2, Signs
  <2>5. c = Sign(x.v - y.v)
    BY <2>2, <2>3, <2>4
  <2> QED
    BY <2>1, <2>5 DEF c
<1>9. CASE ~(x.type \in Number /\ y.type \in Number)
  <2>1. Alike(x.type, y.type) <=> l.type = r.type
    <3>1. Alike(x.type, y.type) <=> x.type = y.type
      BY <1>9 DEF Alike
    <3>2. x.type = y.type <=> l.type = r.type
      BY <1>9, <1>a, <1>b, <1>6
    <3> QED
      BY <3>1, <3>2
  <2>2. l.type = r.type => c = Sign(x.v - y.v)
    BY <1>5, <1>c
  <2>3. l.type # r.type => c # 0
    BY <1>5, <1>7, Orders, Signs
  <2> QED
    BY <2>1, <2>2, <2>3 DEF c
<1> QED
  BY <1>8, <1>9

-----------------------------------------------------------------------------
(* One value through the encoding                                           *)

ValueInv ==
    /\ written \in AllWritten
    /\ stage \in {"own", "other"} => GoodForm(form) /\ Means(form, written)
    /\ stage = "own" => form = Encode(written)
    /\ ReadsBack /\ ComparesValues

LEMMA AnswerReadsBack ==
    ASSUME written' \in AllWritten, asked'.call # "compare",
           stage' = "done", Answered(written', asked', got')
    PROVE  ValueInv'
<1>1. ReadsBack'
  BY DEF ReadsBack, Answered, Fits, Within
<1>2. ComparesValues'
  BY DEF ComparesValues
<1> QED
  BY <1>1, <1>2 DEF ValueInv

LEMMA AskKinds ==
    ASSUME NEW a \in Asks
    PROVE  /\ a.call # "compare"
           /\ \/ a.call \in Number /\ a = Ask(a.call, a.width, NoLimits)
              \/ /\ a.call \in {"bool", "nil", "str", "bin", "array", "map"}
                 /\ a = Ask(a.call, a.width, NoLimits)
BY DEF Asks, Ask, Number

LEMMA ReadKeeps ==
    ASSUME ValueInv, NEW a \in Asks, Read(a)
    PROVE  ValueInv'
<1>1. GoodForm(form) /\ Means(form, written) /\ written \in AllWritten
  BY DEF ValueInv, Read
<1>2. asked' = a /\ written' = written /\ stage' = "done"
  BY DEF Read
<1>3. a.call # "compare" /\ a = Ask(a.call, a.width, NoLimits)
  BY AskKinds
<1>4. Answered(written, a, got')
  <2>1. CASE a.call = "uint"
    <3>1. got' = ExpectUint(Parse(form), a.width)
      BY <2>1 DEF Read
    <3>2. Answered(written, Ask("uint", a.width, NoLimits), ExpectUint(Parse(form), a.width))
      BY <1>1, PlainReads
    <3> QED
      BY <1>3, <2>1, <3>1, <3>2
  <2>2. CASE a.call = "int"
    <3>1. got' = ExpectInt(Parse(form), a.width)
      BY <2>2 DEF Read
    <3>2. Answered(written, Ask("int", a.width, NoLimits), ExpectInt(Parse(form), a.width))
      BY <1>1, PlainReads
    <3> QED
      BY <1>3, <2>2, <3>1, <3>2
  <2>3. CASE a.call = "bool"
    <3>1. got' = ExpectBool(form)
      BY <2>3 DEF Read
    <3>2. Answered(written, Ask("bool", a.width, NoLimits), ExpectBool(form))
      BY <1>1, PlainReads
    <3> QED
      BY <1>3, <2>3, <3>1, <3>2
  <2>4. CASE a.call = "nil"
    <3>1. got' = ExpectNil(form)
      BY <2>4 DEF Read
    <3>2. Answered(written, Ask("nil", a.width, NoLimits), ExpectNil(form))
      BY <1>1, PlainReads
    <3> QED
      BY <1>3, <2>4, <3>1, <3>2
  <2>5. CASE a.call \notin {"uint", "int", "bool", "nil"}
    <3>1. got' = ExpectType(Parse(form), a.call)
      BY <2>5 DEF Read
    <3>2. a.call \notin Number
      BY <2>5 DEF Number
    <3>3. Answered(written, Ask(a.call, a.width, NoLimits), ExpectType(Parse(form), a.call))
      BY <1>1, <3>2, PlainReads
    <3> QED
      BY <1>3, <3>1, <3>3
  <2> QED
    BY <2>1, <2>2, <2>3, <2>4, <2>5
<1> QED
  BY <1>1, <1>2, <1>3, <1>4, AnswerReadsBack

LEMMA LimitKinds ==
    ASSUME NEW l \in Limits
    PROVE  l = <<l[1], l[2]>> /\ l[1] \in Nat /\ l[2] \in Nat
<1>1. Half[8] \in Nat /\ Half[8] > 0 /\ FixUint \in Nat
  BY Four, WideNumber
<1>2. 2 * Half[8] - 1 \in Nat /\ FixUint + 1 \in Nat
  BY <1>1
<1>3. \A a, b \in Nat : <<a, b>> = <<<<a, b>>[1], <<a, b>>[2]>> /\ <<a, b>>[1] \in Nat /\ <<a, b>>[2] \in Nat
  OBVIOUS
<1>4. \E a, b \in Nat : l = <<a, b>>
  BY <1>2 DEF Limits
<1> QED
  BY <1>3, <1>4

\* The nine ways of reading within limits
Limiting(width, l) ==
    LET t == Parse(form)
        max == l[2]
    IN  \/ asked' = Ask("uint", width, l) /\ got' = ExpectRange(ExpectUint(t, width), l[1], max)
        \/ asked' = Ask("int", width, l) /\ got' = ExpectRange(ExpectInt(t, width), l[1], max)
        \/ asked' = Ask("uint", 64, <<max, max>>) /\ got' = ExpectUintMatch(t, max)
        \/ asked' = Ask("int", 64, <<max, max>>) /\ got' = ExpectIntMatch(t, max)
        \/ \E type \in {"array", "map"} :
              asked' = Ask(type, 0, <<max, max>>) /\ got' = ExpectMatch(t, type, max)
        \/ l[1] = 0 /\ asked' = Ask("str", 0, l) /\ got' = ExpectStrMax(t, max)
        \/ l[1] = 0 /\ asked' = Ask("bin", 0, l) /\ got' = ExpectBinMax(t, max)
        \/ \E b \in {0, 1} : asked' = Ask("bool", 0, <<b, b>>) /\ got' = ExpectOneBool(form, b)

LEMMA ReadWithinKeeps ==
    ASSUME ValueInv, NEW width \in Widths, NEW l \in Limits, ReadWithin(width, l)
    PROVE  ValueInv'
<1>1. GoodForm(form) /\ Means(form, written) /\ written \in AllWritten
  BY DEF ValueInv, ReadWithin
<1>2. written' = written /\ stage' = "done"
  BY DEF ReadWithin
<1>3. Limiting(width, l)
  BY DEF ReadWithin, Limiting, Ask
<1> DEFINE t == Parse(form)
           min == l[1]
           max == l[2]
<1>4. l = <<min, max>> /\ min \in Nat /\ max \in Nat /\ min \in Int /\ max \in Int
  BY LimitKinds
<1>5. written.v \in Int
  BY <1>1, TagMeans
<1>6. asked'.call # "compare" /\ Answered(written, asked', got')
  <2>1. CASE asked' = Ask("uint", width, l) /\ got' = ExpectRange(ExpectUint(t, width), min, max)
    <3>1. ExpectUint(t, width) = IF Fits(written, Ask("uint", width, l)) THEN Got(written.v) ELSE Refused("type", 0)
      BY <1>1, Expects, Questions
    <3>2. Answered(written, Ask("uint", width, <<min, max>>), ExpectRange(ExpectUint(t, width), min, max))
      BY <1>4, <1>5, <3>1, RangeReads DEF Number
    <3> QED
      BY <1>4, <2>1, <3>2, AskFields
  <2>2. CASE asked' = Ask("int", width, l) /\ got' = ExpectRange(ExpectInt(t, width), min, max)
    <3>1. ExpectInt(t, width) = IF Fits(written, Ask("int", width, l)) THEN Got(written.v) ELSE Refused("type", 0)
      BY <1>1, Expects, Questions
    <3>2. Answered(written, Ask("int", width, <<min, max>>), ExpectRange(ExpectInt(t, width), min, max))
      BY <1>4, <1>5, <3>1, RangeReads DEF Number
    <3> QED
      BY <1>4, <2>2, <3>2, AskFields
  <2>3. CASE asked' = Ask("uint", 64, <<max, max>>) /\ got' = ExpectUintMatch(t, max)
    <3>1. ExpectUint(t, 64) = IF Fits(written, Ask("uint", 64, <<max, max>>)) THEN Got(written.v) ELSE Refused("type", 0)
      BY <1>1, Expects, Questions
    <3>2. Answered(written, Ask("uint", 64, <<max, max>>), Accept(ExpectUint(t, 64) = Got(max), max))
      BY <1>4, <1>5, <3>1, MatchReads
    <3> QED
      BY <2>3, <3>2, AskFields DEF ExpectUintMatch
  <2>4. CASE asked' = Ask("int", 64, <<max, max>>) /\ got' = ExpectIntMatch(t, max)
    <3>1. ExpectInt(t, 64) = IF Fits(written, Ask("int", 64, <<max, max>>)) THEN Got(written.v) ELSE Refused("type", 0)
      BY <1>1, Expects, Questions
    <3>2. Answered(written, Ask("int", 64, <<max, max>>), Accept(ExpectInt(t, 64) = Got(max), max))
      BY <1>4, <1>5, <3>1, MatchReads
    <3> QED
      BY <2>4, <3>2, AskFields DEF ExpectIntMatch
  <2>5. CASE \E type \in {"array", "map"} :
                 asked' = Ask(type, 0, <<max, max>>) /\ got' = ExpectMatch(t, type, max)
    <3>1. PICK type \in {"array", "map"} :
                 asked' = Ask(type, 0, <<max, max>>) /\ got' = ExpectMatch(t, type, max)
      BY <2>5
    <3>2. type \notin Number /\ type # "str" /\ type # "compare"
      BY DEF Number
    <3>3. ExpectType(t, type) = IF Fits(written, Ask(type, 0, <<max, max>>)) THEN Got(written.v) ELSE Refused("type", 0)
      <4>1. Fits(written, Ask(type, 0, <<max, max>>)) <=> written.type = type
        BY <3>2, Questions
      <4>2. ExpectType(t, type) = IF written.type = type THEN Got(written.v) ELSE Refused("type", 0)
        BY <1>1, <3>2, Expects
      <4> QED
        BY <4>1, <4>2
    <3>4. Answered(written, Ask(type, 0, <<max, max>>), Accept(ExpectType(t, type) = Got(max), max))
      BY <1>4, <1>5, <3>2, <3>3, MatchReads
    <3> QED
      BY <3>1, <3>2, <3>4, AskFields DEF ExpectMatch
  <2>6. CASE min = 0 /\ asked' = Ask("str", 0, l) /\ got' = ExpectStrMax(t, max)
    <3>1. Answered(written, Ask("str", 0, <<0, max>>), ExpectStrMax(t, max))
      BY <1>1, <1>4, MaxReads
    <3> QED
      BY <1>4, <2>6, <3>1, AskFields
  <2>7. CASE min = 0 /\ asked' = Ask("bin", 0, l) /\ got' = ExpectBinMax(t, max)
    <3>1. Answered(written, Ask("bin", 0, <<0, max>>), ExpectBinMax(t, max))
      BY <1>1, <1>4, MaxReads
    <3> QED
      BY <1>4, <2>7, <3>1, AskFields
  <2>8. CASE \E b \in {0, 1} : asked' = Ask("bool", 0, <<b, b>>) /\ got' = ExpectOneBool(form, b)
    <3>1. PICK b \in {0, 1} : asked' = Ask("bool", 0, <<b, b>>) /\ got' = ExpectOneBool(form, b)
      BY <2>8
    <3>2. "bool" \notin Number
      BY DEF Number
    <3>3. ExpectBool(form) = IF Fits(written, Ask("bool", 0, <<b, b>>)) THEN Got(written.v) ELSE Refused("type", LowBit(form))
      <4>1. Fits(written, Ask("bool", 0, <<b, b>>)) <=> written.type = "bool"
        BY <3>2, Questions
      <4>2. ExpectBool(form) = IF written.type = "bool" THEN Got(written.v) ELSE Refused("type", LowBit(form))
        BY <1>1, Expects
      <4> QED
        BY <4>1, <4>2
    <3>4. Answered(written, Ask("bool", 0, <<b, b>>), Accept(ExpectBool(form) = Got(b), b))
      <4>1. b \in Int /\ "bool" # "str"
        OBVIOUS
      <4> QED
        BY <1>5, <3>3, <4>1, MatchReads
    <3> QED
      BY <3>1, <3>4, AskFields DEF ExpectOneBool
  <2> QED
    BY <1>3, <2>1, <2>2, <2>3, <2>4, <2>5, <2>6, <2>7, <2>8 DEF Limiting
<1> QED
  BY <1>1, <1>2, <1>6, AnswerReadsBack

LEMMA CompareKeeps ==
    ASSUME ValueInv, NEW x \in AllWritten, Compare(x)
    PROVE  ValueInv'
<1>1. GoodForm(form) /\ Means(form, written) /\ written \in AllWritten
  BY DEF ValueInv, Compare
<1>2. GoodForm(Encode(x)) /\ Means(Encode(x), x)
  BY ShortestForm
<1> DEFINE c == TagCmp(Parse(form), Parse(Encode(x)))
<1>3. /\ Alike(written.type, x.type) => c = Sign(written.v - x.v)
      /\ ~Alike(written.type, x.type) => c # 0
  BY <1>1, <1>2, Compared
<1>4. asked' = Ask("compare", 0, <<x>>) /\ got' = Got(c) /\ written' = written /\ stage' = "done"
  BY DEF Compare, Ask
<1> HIDE DEF c
<1>5. asked'.call = "compare" /\ asked'.x = <<x>> /\ got'.v = c /\ asked'.x[1] = x
  BY <1>4, AskFields, Answers
<1>6. ReadsBack'
  BY <1>5 DEF ReadsBack
<1>7. ComparesValues'
  <2>1. IF Alike(written.type, x.type) THEN got'.v = Sign(written.v - x.v) ELSE got'.v # 0
    BY <1>3, <1>5
  <2> QED
    BY <1>4, <1>5, <2>1 DEF ComparesValues, Alike
<1> QED
  BY <1>1, <1>4, <1>6, <1>7 DEF ValueInv

LEMMA ValueInvInit == ValueInit => ValueInv
<1> SUFFICES ASSUME ValueInit PROVE ValueInv
  OBVIOUS
<1>1. written \in AllWritten /\ stage = "write"
  BY DEF ValueInit
<1>2. ReadsBack /\ ComparesValues
  BY <1>1 DEF ReadsBack, ComparesValues
<1> QED
  BY <1>1, <1>2 DEF ValueInv

LEMMA ValueInvStep == ValueInv /\ [ValueNext]_valueVars => ValueInv'
<1> SUFFICES ASSUME ValueInv, [ValueNext]_valueVars PROVE ValueInv'
  OBVIOUS
<1>1. CASE Write
  <2>1. written' = written /\ written \in AllWritten /\ stage' = "own" /\ form' = Encode(written)
    BY <1>1 DEF Write, ValueInv
  <2>2. GoodForm(form') /\ Means(form', written)
    BY <2>1, ShortestForm
  <2>3. ReadsBack' /\ ComparesValues'
    BY <2>1 DEF ReadsBack, ComparesValues
  <2> QED
    BY <2>1, <2>2, <2>3 DEF ValueInv
<1>2. CASE WriteElsewhere
  <2>1. written' = written /\ written \in AllWritten /\ stage' = "other"
    BY <1>2 DEF WriteElsewhere, ValueInv
  <2>2. PICK f \in AllForms : Means(f, written) /\ form' = f
    BY <1>2 DEF WriteElsewhere
  <2>3. GoodForm(form') /\ Means(form', written)
    BY <2>2, AllGood
  <2>4. ReadsBack' /\ ComparesValues'
    BY <2>1 DEF ReadsBack, ComparesValues
  <2> QED
    BY <2>1, <2>3, <2>4 DEF ValueInv
<1>3. CASE \E a \in Asks : Read(a)
  BY <1>3, ReadKeeps
<1>4. CASE \E width \in Widths, x \in Limits : ReadWithin(width, x)
  BY <1>4, ReadWithinKeeps
<1>5. CASE \E x \in AllWritten : Compare(x)
  BY <1>5, CompareKeeps
<1>6. CASE UNCHANGED valueVars
  <2>1. /\ written' = written /\ form' = form /\ asked' = asked /\ got' = got /\ stage' = stage
    BY <1>6 DEF valueVars
  <2>2. ReadsBack'
    BY <2>1 DEF ValueInv, ReadsBack
  <2>3. ComparesValues'
    BY <2>1 DEF ValueInv, ComparesValues
  <2> QED
    BY <2>1, <2>2, <2>3 DEF ValueInv
<1> QED
  BY <1>1, <1>2, <1>3, <1>4, <1>5, <1>6 DEF ValueNext

LEMMA ValueInvFaithful == ValueInv => EncodesFaithfully
<1> SUFFICES ASSUME ValueInv PROVE EncodesFaithfully
  OBVIOUS
<1>1. Shortest
  <2> SUFFICES ASSUME stage = "own"
               PROVE  Means(form, written) /\ \A f \in AllForms : Means(f, written) => FormSize(form) <= FormSize(f)
    BY DEF Shortest
  <2>1. form = Encode(written) /\ written \in AllWritten
    BY DEF ValueInv
  <2> QED
    BY <2>1, ShortestForm
<1> QED
  BY <1>1 DEF ValueInv, EncodesFaithfully

\* The write functions, mpack_parse_tag, the expect functions and mpack_tag_cmp, for
\* every size of the widths that doubles from one to the next: what is written is the
\* shortest form of the value; whoever wrote it, it is returned as it was by every
\* function whose range and limits it is in and refused by the others, with no
\* truncation and no change of sign at any boundary; and tags compare as the values do
THEOREM ValuesSurviveTheWire == ValueSpec => []EncodesFaithfully
<1>1. ValueInit => ValueInv
  BY ValueInvInit
<1>2. ValueInv /\ [ValueNext]_valueVars => ValueInv'
  BY ValueInvStep
<1>3. ValueInv => EncodesFaithfully
  BY ValueInvFaithful
<1> QED
  BY <1>1, <1>2, <1>3, PTL DEF ValueSpec

-----------------------------------------------------------------------------
(* Bytes                                                                    *)

\* What the low bits of a lead or a continuation byte are
LEMMA LowBits ==
    /\ \A b \in 128..191 : b % 64 = b - 128
    /\ \A a \in 192..223 : a % 32 = a - 192
    /\ \A a \in 224..239 : a % 16 = a - 224
    /\ \A a \in 240..247 : a % 8 = a - 240
<1>1. \A b \in 128..191 : b % 64 = b - 128
  OBVIOUS
<1>2. \A a \in 192..223 : a % 32 = a - 192
  OBVIOUS
<1>3. \A a \in 224..239 : a % 16 = a - 224
  OBVIOUS
<1>4. \A a \in 240..247 : a % 8 = a - 240
  OBVIOUS
<1> QED
  BY <1>1, <1>2, <1>3, <1>4

\* The rows of the table for each length, and what the loop asks of the bytes
Row2(a, b) == a \in 194..223 /\ b \in 128..191
Row3(a, b, c) ==
    /\ c \in 128..191
    /\ \/ a = 224 /\ b \in 160..191
       \/ a \in (225..236) \cup {238, 239} /\ b \in 128..191
       \/ a = 237 /\ b \in 128..159
Row4(a, b, c, d) ==
    /\ c \in 128..191 /\ d \in 128..191
    /\ \/ a = 240 /\ b \in 144..191
       \/ a \in 241..243 /\ b \in 128..191
       \/ a = 244 /\ b \in 128..143

Point2(a, b) == (a % 32) * 64 + (b % 64)
Point3(a, b, c) == (a % 16) * 4096 + (b % 64) * 64 + (c % 64)
Point4(a, b, c, d) == (a % 8) * 262144 + (b % 64) * 4096 + (c % 64) * 64 + (d % 64)
Code2(a, b) == a \in 192..223 /\ b \in 128..191 /\ Accepted(Point2(a, b), 2)
Code3(a, b, c) ==
    a \in 224..239 /\ b \in 128..191 /\ c \in 128..191 /\ Accepted(Point3(a, b, c), 3)
Code4(a, b, c, d) ==
    /\ a \in 240..247 /\ b \in 128..191 /\ c \in 128..191 /\ d \in 128..191
    /\ Accepted(Point4(a, b, c, d), 4)

LEMMA TwoBytes ==
    ASSUME NEW a \in Byte, NEW b \in Byte
    PROVE  Code2(a, b) <=> Row2(a, b)
<1>1. CASE a \in 192..223 /\ b \in 128..191
  <2>1. Point2(a, b) = (a - 192) * 64 + (b - 128)
    BY <1>1, LowBits DEF Point2
  <2>2. (a - 192) * 64 + (b - 128) >= 128 <=> a >= 194
    BY <1>1
  <2> QED
    BY <1>1, <2>1, <2>2 DEF Code2, Row2, Accepted
<1>2. CASE ~(a \in 192..223 /\ b \in 128..191)
  BY <1>2 DEF Code2, Row2
<1> QED
  BY <1>1, <1>2

LEMMA ThreeBytes ==
    ASSUME NEW a \in Byte, NEW b \in Byte, NEW c \in Byte
    PROVE  Code3(a, b, c) <=> Row3(a, b, c)
<1>1. CASE a \in 224..239 /\ b \in 128..191 /\ c \in 128..191
  <2> DEFINE z == (a - 224) * 4096 + (b - 128) * 64 + (c - 128)
  <2>1. Point3(a, b, c) = z
    BY <1>1, LowBits DEF Point3
  <2>2. z >= 2048 <=> (a # 224 \/ b >= 160)
    BY <1>1
  <2>3. z \in 55296..57343 <=> (a = 237 /\ b >= 160)
    BY <1>1
  <2> HIDE DEF z
  <2>4. Code3(a, b, c) <=> (a # 224 \/ b >= 160) /\ ~(a = 237 /\ b >= 160)
    BY <1>1, <2>1, <2>2, <2>3 DEF Code3, Accepted
  <2> QED
    BY <1>1, <2>4 DEF Row3
<1>2. CASE ~(a \in 224..239 /\ b \in 128..191 /\ c \in 128..191)
  BY <1>2 DEF Code3, Row3
<1> QED
  BY <1>1, <1>2

LEMMA FourBytes ==
    ASSUME NEW a \in Byte, NEW b \in Byte, NEW c \in Byte, NEW d \in Byte
    PROVE  Code4(a, b, c, d) <=> Row4(a, b, c, d)
<1>1. CASE a \in 240..247 /\ b \in 128..191 /\ c \in 128..191 /\ d \in 128..191
  <2> DEFINE z == (a - 240) * 262144 + (b - 128) * 4096 + (c - 128) * 64 + (d - 128)
  <2>1. Point4(a, b, c, d) = z
    BY <1>1, LowBits DEF Point4
  <2>2. z >= 65536 <=> (a # 240 \/ b >= 144)
    BY <1>1
  <2>3. z <= 1114111 <=> (a <= 243 \/ (a = 244 /\ b <= 143))
    BY <1>1
  <2> HIDE DEF z
  <2>4. Code4(a, b, c, d) <=> (a # 240 \/ b >= 144) /\ (a <= 243 \/ (a = 244 /\ b <= 143))
    BY <1>1, <2>1, <2>2, <2>3 DEF Code4, Accepted
  <2> QED
    BY <1>1, <2>4 DEF Row4
<1>2. CASE ~(a \in 240..247 /\ b \in 128..191 /\ c \in 128..191 /\ d \in 128..191)
  BY <1>2 DEF Code4, Row4
<1> QED
  BY <1>1, <1>2

\* A lead byte announces one length.
LEMMA Lengths ==
    ASSUME NEW lead \in Byte
    PROVE  /\ SequenceLength(lead) = 1 <=> lead \in 0..127
           /\ SequenceLength(lead) = 2 <=> lead \in 192..223
           /\ SequenceLength(lead) = 3 <=> lead \in 224..239
           /\ SequenceLength(lead) = 4 <=> lead \in 240..247
           /\ SequenceLength(lead) \in 0..4
BY DEF SequenceLength, Byte

\* A sequence of the table has one to four bytes.
LEMMA TableByLength ==
    ASSUME NEW s
    PROVE  /\ Len(s) = 1 => (WellFormedSequence(s) <=> s[1] \in 0..127)
           /\ Len(s) = 2 => (WellFormedSequence(s) <=> Row2(s[1], s[2]))
           /\ Len(s) = 3 => (WellFormedSequence(s) <=> Row3(s[1], s[2], s[3]))
           /\ Len(s) = 4 => (WellFormedSequence(s) <=> Row4(s[1], s[2], s[3], s[4]))
           /\ WellFormedSequence(s) => Len(s) \in 1..4
<1>1. Len(s) = 1 => (WellFormedSequence(s) <=> s[1] \in 0..127)
  BY DEF WellFormedSequence
<1>2. ASSUME Len(s) = 2 PROVE WellFormedSequence(s) <=> Row2(s[1], s[2])
  <2>1. (\A i \in 2..Len(s) : s[i] \in 128..191) <=> s[2] \in 128..191
    BY <1>2
  <2> QED
    BY <1>2, <2>1 DEF WellFormedSequence, Row2
<1>3. ASSUME Len(s) = 3 PROVE WellFormedSequence(s) <=> Row3(s[1], s[2], s[3])
  <2>1. (\A i \in 3..Len(s) : s[i] \in 128..191) <=> s[3] \in 128..191
    BY <1>3
  <2> QED
    BY <1>3, <2>1 DEF WellFormedSequence, Row3
<1>4. ASSUME Len(s) = 4 PROVE WellFormedSequence(s) <=> Row4(s[1], s[2], s[3], s[4])
  <2>1. (\A i \in 3..Len(s) : s[i] \in 128..191) <=> s[3] \in 128..191 /\ s[4] \in 128..191
    BY <1>4
  <2> QED
    BY <1>4, <2>1 DEF WellFormedSequence, Row4
<1>5. WellFormedSequence(s) => Len(s) \in 1..4
  BY DEF WellFormedSequence
<1> QED
  BY <1>1, <1>2, <1>3, <1>4, <1>5

\* So has one that the loop steps over.
LEMMA CodeByLength ==
    ASSUME rest \in Seq(Byte), rest # << >>
    PROVE  /\ Len(rest) >= 2 => (Sequence(2) <=> Code2(rest[1], rest[2]))
           /\ Len(rest) >= 3 => (Sequence(3) <=> Code3(rest[1], rest[2], rest[3]))
           /\ Len(rest) >= 4 => (Sequence(4) <=> Code4(rest[1], rest[2], rest[3], rest[4]))
<1>1. rest[1] \in Byte
  OBVIOUS
<1>2. ASSUME Len(rest) >= 2 PROVE Sequence(2) <=> Code2(rest[1], rest[2])
  <2>1. (\A i \in 2..2 : IsContinuation(rest[i])) <=> rest[2] \in 128..191
    BY DEF IsContinuation
  <2>2. CodePoint(rest, 2) = Point2(rest[1], rest[2])
    BY DEF CodePoint, Point2
  <2>3. SequenceLength(rest[1]) = 2 <=> rest[1] \in 192..223
    BY <1>1, Lengths
  <2> QED
    BY <1>2, <2>1, <2>2, <2>3 DEF Sequence, Code2
<1>3. ASSUME Len(rest) >= 3 PROVE Sequence(3) <=> Code3(rest[1], rest[2], rest[3])
  <2>1. (\A i \in 2..3 : IsContinuation(rest[i])) <=> rest[2] \in 128..191 /\ rest[3] \in 128..191
    BY DEF IsContinuation
  <2>2. CodePoint(rest, 3) = Point3(rest[1], rest[2], rest[3])
    BY DEF CodePoint, Point3
  <2>3. SequenceLength(rest[1]) = 3 <=> rest[1] \in 224..239
    BY <1>1, Lengths
  <2> QED
    BY <1>3, <2>1, <2>2, <2>3 DEF Sequence, Code3
<1>4. ASSUME Len(rest) >= 4 PROVE Sequence(4) <=> Code4(rest[1], rest[2], rest[3], rest[4])
  <2>1. (\A i \in 2..4 : IsContinuation(rest[i])) <=>
           rest[2] \in 128..191 /\ rest[3] \in 128..191 /\ rest[4] \in 128..191
    BY DEF IsContinuation
  <2>2. CodePoint(rest, 4) = Point4(rest[1], rest[2], rest[3], rest[4])
    BY DEF CodePoint, Point4
  <2>3. SequenceLength(rest[1]) = 4 <=> rest[1] \in 240..247
    BY <1>1, Lengths
  <2> QED
    BY <1>4, <2>1, <2>2, <2>3 DEF Sequence, Code4
<1> QED
  BY <1>2, <1>3, <1>4

\* The branches of the loop are the rows of the table.
LEMMA Rows ==
    ASSUME rest \in Seq(Byte), NEW n \in 1..Len(rest)
    PROVE  WellFormedSequence(SubSeq(rest, 1, n)) <=>
               IF n = 1 THEN SequenceLength(rest[1]) = 1 ELSE n \in 2..4 /\ Sequence(n)
<1> DEFINE s == SubSeq(rest, 1, n)
<1>1. Len(s) = n /\ \A i \in 1..n : s[i] = rest[i] /\ rest[i] \in Byte
  <2>1. s = [i \in 1..n |-> rest[i]] /\ Len(s) = n
    BY DEF s
  <2>2. \A i \in 1..n : rest[i] \in Byte
    OBVIOUS
  <2> QED
    BY <2>1, <2>2
<1>2. rest # << >> /\ Len(rest) >= n /\ n \in Nat /\ n >= 1
  OBVIOUS
<1> HIDE DEF s
<1> SUFFICES WellFormedSequence(s) <=>
                 IF n = 1 THEN SequenceLength(rest[1]) = 1 ELSE n \in 2..4 /\ Sequence(n)
  BY DEF s
<1>3. CASE n = 1
  <2>1. s[1] = rest[1] /\ rest[1] \in Byte
    BY <1>1, <1>3
  <2> QED
    BY <1>1, <1>3, <2>1, Lengths, TableByLength
<1>4. CASE n = 2
  <2>1. s[1] = rest[1] /\ s[2] = rest[2] /\ rest[1] \in Byte /\ rest[2] \in Byte
    BY <1>1, <1>4
  <2>2. WellFormedSequence(s) <=> Row2(rest[1], rest[2])
    BY <1>1, <1>4, <2>1, TableByLength
  <2>3. Sequence(2) <=> Code2(rest[1], rest[2])
    BY <1>2, <1>4, CodeByLength
  <2> QED
    BY <1>4, <2>1, <2>2, <2>3, TwoBytes
<1>5. CASE n = 3
  <2>1. /\ s[1] = rest[1] /\ s[2] = rest[2] /\ s[3] = rest[3]
        /\ rest[1] \in Byte /\ rest[2] \in Byte /\ rest[3] \in Byte
    BY <1>1, <1>5
  <2>2. WellFormedSequence(s) <=> Row3(rest[1], rest[2], rest[3])
    BY <1>1, <1>5, <2>1, TableByLength
  <2>3. Sequence(3) <=> Code3(rest[1], rest[2], rest[3])
    BY <1>2, <1>5, CodeByLength
  <2> QED
    BY <1>5, <2>1, <2>2, <2>3, ThreeBytes
<1>6. CASE n = 4
  <2>1. /\ s[1] = rest[1] /\ s[2] = rest[2] /\ s[3] = rest[3] /\ s[4] = rest[4]
        /\ rest[1] \in Byte /\ rest[2] \in Byte /\ rest[3] \in Byte /\ rest[4] \in Byte
    BY <1>1, <1>6
  <2>2. WellFormedSequence(s) <=> Row4(rest[1], rest[2], rest[3], rest[4])
    BY <1>1, <1>6, <2>1, TableByLength
  <2>3. Sequence(4) <=> Code4(rest[1], rest[2], rest[3], rest[4])
    BY <1>2, <1>6, CodeByLength
  <2> QED
    BY <1>6, <2>1, <2>2, <2>3, FourBytes
<1>7. CASE n > 4
  <2>1. n # 1 /\ n \notin 2..4 /\ n \notin 1..4
    BY <1>2, <1>7
  <2>2. ~WellFormedSequence(s)
    BY <1>1, <2>1, TableByLength
  <2> QED
    BY <2>1, <2>2
<1>8. n = 1 \/ n = 2 \/ n = 3 \/ n = 4 \/ n > 4
  BY <1>2
<1> QED
  BY <1>3, <1>4, <1>5, <1>6, <1>7, <1>8

-----------------------------------------------------------------------------
(* The loop                                                                 *)

\* Every non-empty set of naturals has a least element.
LEMMA LeastNatural ==
    ASSUME NEW S, S \subseteq Nat, S # {}
    PROVE  \E n \in S : \A m \in S : n <= m
<1>1. PICK n \in S : \A m \in S : ~(<<m, n>> \in OpToRel(<, Nat))
  BY NatLessThanWellFounded, WFMin
<1>2. ASSUME NEW m \in S PROVE n <= m
  <2>1. m < n => <<m, n>> \in OpToRel(<, Nat)
    BY Zenon DEF OpToRel
  <2>2. ~(m < n)
    BY <1>1, <2>1, Zenon
  <2> QED
    BY <2>2
<1> QED
  BY <1>2

\* How much of the string is checked, and the sequences of the table in it
Pos == Len(text) - Len(rest)
Piece(k, j) == WellFormedSequence(SubSeq(text, k + 1, j))

\* What the loop has stepped over can be cut; no sequence that begins at a cut
\* before the loop's place, wherever the other cuts are, goes beyond that place
Decoded == \E cuts \in SUBSET (0..Pos) : Pos \in cuts /\ Cuts(text, cuts)
NoneBeyond(s, p) ==
    \A cuts \in SUBSET (0..Len(s)) : Cuts(s, cuts) =>
        \A k \in cuts, j \in 0..Len(s) :
            k < p /\ WellFormedSequence(SubSeq(s, k + 1, j)) => j <= p
NoneAcross == NoneBeyond(text, Pos)
NoNul == ~nulls => \A i \in 1..Pos : text[i] # 0

Places ==
    /\ text \in Seq(Byte) /\ rest \in Seq(Byte)
    /\ Len(rest) <= Len(text)
    /\ \A i \in 1..Len(rest) : rest[i] = text[Pos + i]
Stuck ==
    /\ rest # << >>
    /\ IF SequenceLength(rest[1]) = 1 THEN ~nulls /\ rest[1] = 0 ELSE ~\E n \in 2..4 : Sequence(n)
TextInv ==
    /\ Places /\ Decoded /\ NoneAcross /\ NoNul
    /\ verdict = "valid" => rest = << >>
    /\ verdict = "invalid" => Stuck

\* A sequence of the table at the loop's place is one at the head of rest.
LEMMA PieceHere ==
    ASSUME Places, NEW n \in 1..Len(rest)
    PROVE  Piece(Pos, Pos + n) <=> WellFormedSequence(SubSeq(rest, 1, n))
<1>1. Pos \in Nat /\ Pos + Len(rest) = Len(text) /\ Len(rest) \in Nat
  BY DEF Places, Pos
<1> HIDE DEF Pos
<1>2. SubSeq(text, Pos + 1, Pos + n) = [i \in 1..n |-> text[Pos + i]]
  BY <1>1 DEF Places
<1>3. SubSeq(rest, 1, n) = [i \in 1..n |-> rest[i]]
  BY <1>1 DEF Places
<1>4. \A i \in 1..n : rest[i] = text[Pos + i]
  BY <1>1 DEF Places
<1>5. SubSeq(text, Pos + 1, Pos + n) = SubSeq(rest, 1, n)
  BY <1>2, <1>3, <1>4
<1> QED
  BY <1>5 DEF Piece

\* The length of a sequence at the loop's place is that which its first byte announces.
LEMMA OneLength ==
    ASSUME Places, rest # << >>, NEW j \in 0..Len(text), Pos < j, Piece(Pos, j)
    PROVE  /\ SequenceLength(rest[1]) \in 1..4 /\ j = Pos + SequenceLength(rest[1])
           /\ SequenceLength(rest[1]) # 1 => Sequence(SequenceLength(rest[1]))
<1>1. Pos \in Nat /\ Pos + Len(rest) = Len(text) /\ Len(rest) \in Nat /\ rest \in Seq(Byte)
  BY DEF Places, Pos
<1> HIDE DEF Pos
<1> DEFINE n == j - Pos
<1>2. n \in 1..Len(rest) /\ j = Pos + n
  BY <1>1
<1> HIDE DEF n
<1>3. WellFormedSequence(SubSeq(rest, 1, n))
  BY <1>2, PieceHere
<1>4. IF n = 1 THEN SequenceLength(rest[1]) = 1 ELSE n \in 2..4 /\ Sequence(n)
  BY <1>1, <1>2, <1>3, Rows
<1>5. n \in 1..4 /\ SequenceLength(rest[1]) = n /\ (n # 1 => Sequence(n))
  BY <1>4 DEF Sequence
<1> QED
  BY <1>2, <1>5

\* Stepping over a sequence of the table, the loop's place moves by its length.
LEMMA Moves ==
    ASSUME Places, NEW n \in 1..Len(rest), text' = text,
           rest' = SubSeq(rest, n + 1, Len(rest))
    PROVE  /\ Pos \in Nat /\ Pos' = Pos + n /\ Pos + n <= Len(text) /\ Len(text) \in Nat
           /\ Places'
<1>1. Pos \in Nat /\ Pos + Len(rest) = Len(text) /\ Len(rest) \in Nat /\ Len(text) \in Nat
  BY DEF Places, Pos
<1>2. rest' \in Seq(Byte) /\ Len(rest') = Len(rest) - n
  BY <1>1 DEF Places
<1>3. Pos' = Pos + n
  <2>1. Pos' = Len(text) - Len(rest') /\ Pos = Len(text) - Len(rest)
    BY DEF Pos
  <2> QED
    BY <1>1, <1>2, <2>1
<1>4. \A i \in 1..Len(rest') : rest'[i] = rest[n + i] /\ n + i \in 1..Len(rest)
  BY <1>1, <1>2 DEF Places
<1> HIDE DEF Pos
<1>5. ASSUME NEW i \in 1..Len(rest') PROVE rest'[i] = text[Pos' + i]
  <2>1. rest[n + i] = text[Pos + (n + i)]
    BY <1>4 DEF Places
  <2>2. Pos + (n + i) = Pos' + i
    BY <1>1, <1>2, <1>3
  <2> QED
    BY <1>4, <2>1, <2>2
<1>6. Len(rest') <= Len(text)
  BY <1>1, <1>2
<1>7. Places'
  BY <1>2, <1>5, <1>6 DEF Places
<1> QED
  BY <1>1, <1>3, <1>7

\* The cuts go on with the new place.
LEMMA DecodedStep ==
    ASSUME Places, Decoded, NEW n \in 1..Len(rest), text' = text,
           rest' = SubSeq(rest, n + 1, Len(rest)), Piece(Pos, Pos + n)
    PROVE  Decoded'
<1>1. Pos \in Nat /\ Pos' = Pos + n /\ n \in Nat /\ n >= 1
  BY Moves
<1>2. PICK cuts \in SUBSET (0..Pos) : Pos \in cuts /\ Cuts(text, cuts)
  BY DEF Decoded
<1> DEFINE more == cuts \cup {Pos + n}
<1> HIDE DEF Pos
<1>3. more \in SUBSET (0..Pos + n) /\ Pos + n \in more /\ 0 \in more
  BY <1>1, <1>2 DEF Cuts
<1>4. ASSUME NEW j \in more \ {0}
      PROVE  \E k \in more : k < j /\ WellFormedSequence(SubSeq(text, k + 1, j))
  <2>1. CASE j \in cuts
    BY <1>2, <1>4, <2>1 DEF Cuts
  <2>2. CASE j = Pos + n
    <3>1. Pos \in more /\ Pos < j
      BY <1>1, <1>2, <2>2
    <3> QED
      BY <2>2, <3>1 DEF Piece
  <2> QED
    BY <1>4, <2>1, <2>2
<1>5. Cuts(text, more)
  BY <1>3, <1>4 DEF Cuts
<1> HIDE DEF more
<1> QED
  BY <1>1, <1>3, <1>5 DEF Decoded

\* A cut beyond the loop's place is the end of a sequence that begins there, or is
\* beyond the next such cut.
LEMMA FirstBeyond ==
    ASSUME Places, NoneAcross, NEW cuts \in SUBSET (0..Len(text)), Cuts(text, cuts),
           NEW j \in cuts, Pos < j
    PROVE  \E m \in cuts : Pos < m /\ m <= j /\ Piece(Pos, m)
<1>1. Pos \in Nat /\ Len(text) \in Nat
  BY DEF Places, Pos
<1> HIDE DEF Pos
<1> DEFINE S == {m \in cuts : Pos < m}
<1>2. S \subseteq Nat /\ S # {}
  <2>1. j \in S
    OBVIOUS
  <2>2. S \subseteq cuts /\ cuts \subseteq 0..Len(text)
    OBVIOUS
  <2>3. 0..Len(text) \subseteq Nat
    BY <1>1
  <2> QED
    BY <2>1, <2>2, <2>3, Zenon
<1>3. PICK m \in S : \A l \in S : m <= l
  BY <1>2, LeastNatural
<1>4. m \in cuts /\ Pos < m /\ m <= j /\ m # 0 /\ m \in 0..Len(text)
  BY <1>1, <1>3
<1>5. PICK k \in cuts : k < m /\ Piece(k, m)
  BY <1>4 DEF Cuts, Piece
<1>6. k \in Nat /\ m \in Nat
  BY <1>1, <1>4
<1>7. ~(Pos < k)
  BY <1>3, <1>5, <1>6
<1>8. ~(k < Pos)
  <2>1. k < Pos => m <= Pos
    BY <1>4, <1>5, Zenon DEF NoneAcross, NoneBeyond, Piece
  <2> QED
    BY <1>1, <1>4, <1>6, <2>1
<1>9. k = Pos
  BY <1>1, <1>6, <1>7, <1>8
<1> QED
  BY <1>4, <1>5, <1>9

\* No sequence goes across the new place either.
LEMMA NoneAcrossStep ==
    ASSUME Places, NoneAcross, NEW n \in 1..Len(rest), text' = text, rest # << >>,
           rest' = SubSeq(rest, n + 1, Len(rest)), n = SequenceLength(rest[1])
    PROVE  NoneAcross'
<1>1. Pos \in Nat /\ Pos' = Pos + n /\ n \in Nat /\ n >= 1 /\ Len(text) \in Nat
  <2>1. Pos \in Nat /\ Pos' = Pos + n /\ Len(text) \in Nat
    BY Moves, Zenon
  <2> QED
    BY <2>1
<1> HIDE DEF Pos
<1>a. NoneBeyond(text, Pos + n) => NoneAcross'
  BY <1>1 DEF NoneAcross
<1> SUFFICES ASSUME NEW cuts \in SUBSET (0..Len(text)), Cuts(text, cuts), NEW k \in cuts,
                    NEW j \in 0..Len(text), k < Pos + n, Piece(k, j), ~(j <= Pos + n)
             PROVE  FALSE
  BY <1>a, Zenon DEF NoneBeyond, Piece
<1>2. k \in Nat /\ j \in Nat
  BY <1>1
<1>3. CASE k < Pos
  <2>1. j <= Pos
    BY <1>3, Zenon DEF NoneAcross, NoneBeyond, Piece
  <2> QED
    BY <1>1, <1>2, <2>1
<1>4. CASE k = Pos
  <2>1. Pos < j /\ Piece(Pos, j)
    BY <1>1, <1>2, <1>4
  <2>2. j = Pos + n
    BY <2>1, OneLength
  <2> QED
    BY <1>1, <1>2, <2>2
<1>5. CASE Pos < k
  <2>1. PICK m \in cuts : Pos < m /\ m <= k /\ Piece(Pos, m)
    BY <1>5, FirstBeyond
  <2>2. m = Pos + n
    BY <2>1, OneLength
  <2> QED
    BY <1>1, <1>2, <2>1, <2>2
<1> QED
  BY <1>1, <1>2, <1>3, <1>4, <1>5

\* A turn that steps over the sequence its first byte announces keeps the invariant.
LEMMA StepOver ==
    ASSUME TextInv, verdict = "running", rest # << >>, NEW n \in 1..Len(rest),
           n = SequenceLength(rest[1]), n # 1 => n \in 2..4 /\ Sequence(n),
           ~nulls => \A i \in 1..n : rest[i] # 0,
           rest' = SubSeq(rest, n + 1, Len(rest)), UNCHANGED <<text, nulls, verdict>>
    PROVE  TextInv'
<1>1. Places /\ Decoded /\ NoneAcross /\ NoNul
  BY DEF TextInv
<1>2. text' = text /\ nulls' = nulls /\ verdict' = "running"
  OBVIOUS
<1>3. Places' /\ Pos \in Nat /\ Pos' = Pos + n
  BY <1>1, <1>2, Moves
<1>4. Piece(Pos, Pos + n)
  <2>1. rest \in Seq(Byte)
    BY <1>1 DEF Places
  <2>2. WellFormedSequence(SubSeq(rest, 1, n))
    BY <2>1, Rows
  <2> QED
    BY <1>1, <2>2, PieceHere
<1>5. Decoded'
  BY <1>1, <1>2, <1>4, DecodedStep
<1>6. NoneAcross'
  BY <1>1, <1>2, NoneAcrossStep
<1>7. NoNul'
  <2> SUFFICES ASSUME ~nulls, NEW i \in 1..Pos + n PROVE text[i] # 0
    BY <1>2, <1>3 DEF NoNul
  <2>0. rest \in Seq(Byte)
    BY <1>1 DEF Places
  <2>a. Len(rest) \in Nat
    BY <2>0
  <2>1. Len(rest) \in Nat /\ n \in Nat /\ i \in Nat
    BY <1>3, <2>a
  <2>2. CASE i \in 1..Pos
    BY <1>1, <2>2 DEF NoNul
  <2>3. CASE i \notin 1..Pos
    <3> DEFINE m == i - Pos
    <3>1. m \in 1..n /\ m \in 1..Len(rest) /\ i = Pos + m
      BY <1>3, <2>1, <2>3
    <3> HIDE DEF m
    <3>2. rest[m] # 0 /\ rest[m] = text[Pos + m]
      BY <1>1, <3>1 DEF Places
    <3> QED
      BY <3>1, <3>2
  <2> QED
    BY <2>2, <2>3
<1> QED
  BY <1>2, <1>3, <1>5, <1>6, <1>7, Zenon DEF TextInv

\* A turn that leaves the string where it is keeps what is known of it.
LEMMA StandStill ==
    ASSUME TextInv, UNCHANGED <<text, rest, nulls>>
    PROVE  Places' /\ Decoded' /\ NoneAcross' /\ NoNul' /\ (Stuck => Stuck')
<1>1. Pos' = Pos
  BY DEF Pos
<1>2. Places'
  BY <1>1 DEF TextInv, Places
<1>3. Decoded'
  BY <1>1, Zenon DEF TextInv, Decoded
<1>4. NoneAcross'
  BY <1>1, Zenon DEF TextInv, NoneAcross
<1>5. NoNul'
  BY <1>1 DEF TextInv, NoNul
<1>6. Stuck => Stuck'
  BY DEF Stuck, Sequence
<1> QED
  BY <1>2, <1>3, <1>4, <1>5, <1>6

LEMMA TextInvInit == TextInit => TextInv
<1> SUFFICES ASSUME TextInit PROVE TextInv
  OBVIOUS
<1>1. text \in Seq(Byte) /\ rest = text /\ verdict = "running"
  BY StringsAssumption DEF TextInit
<1>2. Len(text) \in Nat
  BY <1>1
<1>3. Pos = 0
  BY <1>1, <1>2 DEF Pos
<1>4. Places
  BY <1>1, <1>2, <1>3 DEF Places
<1>5. Decoded
  <2>1. {0} \in SUBSET (0..0) /\ 0 \in {0}
    OBVIOUS
  <2>2. Cuts(text, {0})
    BY DEF Cuts
  <2> QED
    BY <1>3, <2>1, <2>2, Zenon DEF Decoded
<1>6. NoneAcross
  <2>1. \A cuts \in SUBSET (0..Len(text)), k \in 0..Len(text) : k \in cuts => ~(k < 0)
    BY <1>2
  <2> QED
    BY <1>3, <2>1, Zenon DEF NoneAcross, NoneBeyond
<1>7. NoNul
  BY <1>3 DEF NoNul
<1> QED
  BY <1>1, <1>4, <1>5, <1>6, <1>7 DEF TextInv

LEMMA TextInvStep == TextInv /\ [TextNext]_textVars => TextInv'
<1> SUFFICES ASSUME TextInv, [TextNext]_textVars PROVE TextInv'
  OBVIOUS
<1>1. Places /\ rest \in Seq(Byte) /\ Len(rest) \in Nat
  BY DEF TextInv, Places
<1>2. CASE Ascii
  <2>1. 1 \in 1..Len(rest) /\ rest # << >> /\ verdict = "running"
    BY <1>1, <1>2 DEF Ascii, Turn
  <2>2. rest' = SubSeq(rest, 1 + 1, Len(rest))
    BY <1>1, <1>2, <2>1 DEF Ascii
  <2>3. ~nulls => \A i \in 1..1 : rest[i] # 0
    BY <1>2 DEF Ascii
  <2>4. 1 = SequenceLength(rest[1]) /\ UNCHANGED <<text, nulls, verdict>>
    BY <1>2 DEF Ascii
  <2> QED
    BY <2>1, <2>2, <2>3, <2>4, StepOver
<1>3. CASE MultiByte
  <2>1. /\ rest # << >> /\ verdict = "running" /\ UNCHANGED <<text, nulls, verdict>>
    BY <1>3 DEF MultiByte, Turn
  <2>2. PICK n \in 2..4 : Sequence(n) /\ rest' = SubSeq(rest, n + 1, Len(rest))
    BY <1>3 DEF MultiByte
  <2>3. n = SequenceLength(rest[1]) /\ n \in 1..Len(rest)
    BY <1>1, <2>2 DEF Sequence
  <2>4. \A i \in 1..n : rest[i] # 0
    <3>1. rest[1] \in Byte
      BY <1>1, <2>1
    <3>2. rest[1] # 0
      <4>1. SequenceLength(rest[1]) = 1 <=> rest[1] \in 0..127
        BY <3>1, Lengths
      <4>2. n # 1
        BY <2>2
      <4> QED
        BY <2>3, <4>1, <4>2
    <3>3. ASSUME NEW i \in 2..n PROVE rest[i] # 0
      <4>1. IsContinuation(rest[i])
        BY <2>2, Zenon DEF Sequence
      <4>2. \A b \in 128..191 : b # 0
        OBVIOUS
      <4> QED
        BY <4>1, <4>2, Zenon DEF IsContinuation
    <3>4. ASSUME NEW i \in 1..n PROVE i = 1 \/ i \in 2..n
      BY <2>2
    <3> QED
      BY <3>2, <3>3, <3>4
  <2> QED
    BY <2>1, <2>2, <2>3, <2>4, StepOver
<1>4. CASE Reject
  <2>1. Stuck /\ verdict' = "invalid" /\ UNCHANGED <<text, rest, nulls>>
    BY <1>4 DEF Reject, Stuck, Turn
  <2>2. Places' /\ Decoded' /\ NoneAcross' /\ NoNul' /\ Stuck'
    BY <2>1, StandStill
  <2> QED
    BY <2>1, <2>2 DEF TextInv
<1>5. CASE Finish
  <2>1. rest = << >> /\ verdict' = "valid" /\ UNCHANGED <<text, rest, nulls>>
    BY <1>5 DEF Finish
  <2>2. Places' /\ Decoded' /\ NoneAcross' /\ NoNul'
    BY <2>1, StandStill
  <2> QED
    BY <2>1, <2>2 DEF TextInv
<1>6. CASE UNCHANGED textVars
  <2>1. UNCHANGED <<text, rest, nulls>> /\ verdict' = verdict
    BY <1>6 DEF textVars
  <2>2. Places' /\ Decoded' /\ NoneAcross' /\ NoNul' /\ (Stuck => Stuck')
    BY <2>1, StandStill
  <2> QED
    BY <2>1, <2>2 DEF TextInv
<1> QED
  BY <1>2, <1>3, <1>4, <1>5, <1>6 DEF TextNext

LEMMA TextInvAccepts == TextInv => AcceptsUtf8
<1> SUFFICES ASSUME TextInv PROVE AcceptsUtf8
  OBVIOUS
<1>1. Places /\ Decoded /\ NoneAcross /\ NoNul
  BY DEF TextInv
<1>2. Pos \in Nat /\ Pos + Len(rest) = Len(text) /\ Len(rest) \in Nat /\ Len(text) \in Nat
  BY <1>1 DEF Places, Pos
<1>3. ASSUME verdict = "valid"
      PROVE  WellFormed(text) /\ (nulls \/ \A i \in DOMAIN text : text[i] # 0)
  <2>1. Len(rest) = 0
    BY <1>3 DEF TextInv
  <2>2. Pos = Len(text)
    BY <1>2, <2>1
  <2>3. WellFormed(text)
    BY <1>1, <2>2, Zenon DEF Decoded, WellFormed
  <2>4. DOMAIN text = 1..Len(text)
    BY <1>1 DEF Places
  <2> QED
    BY <1>1, <2>2, <2>3, <2>4 DEF NoNul
<1>4. ASSUME verdict = "invalid", WellFormed(text), nulls \/ \A i \in DOMAIN text : text[i] # 0
      PROVE  FALSE
  <2>1. Stuck /\ rest # << >> /\ rest \in Seq(Byte)
    BY <1>1, <1>4 DEF TextInv, Stuck, Places
  <2>2. 1 \in 1..Len(rest) /\ Pos < Len(text)
    BY <1>2, <2>1
  <2>3. PICK cuts \in SUBSET (0..Len(text)) : Len(text) \in cuts /\ Cuts(text, cuts)
    BY <1>4 DEF WellFormed
  <2>4. PICK m \in cuts : Pos < m /\ m <= Len(text) /\ Piece(Pos, m)
    BY <1>1, <2>2, <2>3, FirstBeyond
  <2>5. /\ SequenceLength(rest[1]) \in 1..4
        /\ SequenceLength(rest[1]) # 1 => Sequence(SequenceLength(rest[1]))
    BY <1>1, <2>1, <2>4, OneLength
  <2>6. CASE SequenceLength(rest[1]) = 1
    <3>1. ~nulls /\ rest[1] = 0
      BY <2>1, <2>6 DEF Stuck
    <3>2. rest[1] = text[Pos + 1]
      BY <1>1, <2>2 DEF Places
    <3>3. Pos + 1 \in DOMAIN text
      BY <1>1, <1>2, <2>2 DEF Places
    <3> QED
      BY <1>4, <3>1, <3>2, <3>3
  <2>7. CASE SequenceLength(rest[1]) # 1
    <3>1. SequenceLength(rest[1]) \in 2..4
      BY <2>5, <2>7
    <3> QED
      BY <2>1, <2>5, <2>7, <3>1 DEF Stuck
  <2> QED
    BY <2>6, <2>7
<1> QED
  BY <1>3, <1>4 DEF AcceptsUtf8

\* mpack_utf8_check_impl, for every string of bytes and with or without NUL bytes
\* allowed: when its loop returns true the string is a concatenation of sequences of
\* the Unicode table (and has no NUL where none is allowed), and when it returns false
\* the string is none, however one cuts it: the loop's greedy steps lose no reading
THEOREM Utf8IsChecked == TextSpec => []AcceptsUtf8
<1>1. TextInit => TextInv
  BY TextInvInit
<1>2. TextInv /\ [TextNext]_textVars => TextInv'
  BY TextInvStep
<1>3. TextInv => AcceptsUtf8
  BY TextInvAccepts
<1> QED
  BY <1>1, <1>2, <1>3, PTL DEF TextSpec
=============================================================================
