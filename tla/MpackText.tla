----------------------------- MODULE MpackText -----------------------------
(***************************************************************************)
(* mpack_utf8_check_impl of src/clients/c/mpack.c: whether a string of     *)
(* bytes is UTF-8, one turn of its loop at a time, with or without NUL     *)
(* bytes allowed (mpack_utf8_check, mpack_utf8_check_no_null).             *)
(***************************************************************************)
EXTENDS Integers, Sequences

CONSTANT Strings    \* the strings of bytes it is tried with

Byte == 0..255

ASSUME StringsAssumption == Strings \subseteq Seq(Byte)

VARIABLES
    text,       \* the whole string
    rest,       \* str and count: what is not checked yet
    nulls,      \* allow_null
    verdict     \* none, running, or what is returned: valid or invalid

textVars == <<text, rest, nulls, verdict>>

\* The length of the sequence a lead byte announces, 0 if it announces none
SequenceLength(lead) ==
    CASE lead <= 127 -> 1
      [] lead \in 192..223 -> 2
      [] lead \in 224..239 -> 3
      [] lead \in 240..247 -> 4
      [] OTHER -> 0

IsContinuation(b) == b \in 128..191

\* The code point of a sequence of n bytes
CodePoint(s, n) ==
    CASE n = 2 -> (s[1] % 32) * 64 + (s[2] % 64)
      [] n = 3 -> (s[1] % 16) * 4096 + (s[2] % 64) * 64 + (s[3] % 64)
      [] n = 4 -> (s[1] % 8) * 262144 + (s[2] % 64) * 4096 + (s[3] % 64) * 64 + (s[4] % 64)

AcceptedWithSurrogates(z, n) ==   \* mutant: surrogates are code points
    CASE n = 2 -> z >= 128
      [] n = 3 -> z >= 2048
      [] n = 4 -> z >= 65536 /\ z <= 1114111
\* Neither overlong nor a surrogate nor above the last code point
Accepted(z, n) ==
    CASE n = 2 -> z >= 128
      [] n = 3 -> z >= 2048 /\ z \notin 55296..57343
      [] n = 4 -> z >= 65536 /\ z <= 1114111

TextIdle == text = << >> /\ rest = << >> /\ nulls = TRUE /\ verdict = "none"
TextInit == text \in Strings /\ rest = text /\ nulls \in BOOLEAN /\ verdict = "running"

Turn == verdict = "running" /\ rest # << >>

Ascii ==
    /\ Turn
    /\ SequenceLength(rest[1]) = 1 /\ (nulls \/ rest[1] # 0)
    /\ rest' = Tail(rest)
    /\ UNCHANGED <<text, nulls, verdict>>

Sequence(n) ==
    /\ SequenceLength(rest[1]) = n
    /\ Len(rest) >= n
    /\ \A i \in 2..n : IsContinuation(rest[i])
    /\ Accepted(CodePoint(rest, n), n)

MultiByte ==
    /\ Turn
    /\ \E n \in 2..4 : Sequence(n) /\ rest' = SubSeq(rest, n + 1, Len(rest))
    /\ UNCHANGED <<text, nulls, verdict>>

Reject ==
    /\ Turn
    /\ IF SequenceLength(rest[1]) = 1 THEN ~nulls /\ rest[1] = 0
       ELSE ~ \E n \in 2..4 : Sequence(n)
    /\ verdict' = "invalid"
    /\ UNCHANGED <<text, rest, nulls>>

Finish ==
    /\ verdict = "running" /\ rest = << >>
    /\ verdict' = "valid"
    /\ UNCHANGED <<text, rest, nulls>>

TextNext == Ascii \/ MultiByte \/ Reject \/ Finish

TextSpec == TextInit /\ [][TextNext]_textVars

----------------------------------------------------------------------------
\* The table of well-formed byte sequences of the Unicode standard (3-7)
WellFormedSequence(s) ==
    LET tail(from) == \A i \in from..Len(s) : s[i] \in 128..191
    IN  \/ Len(s) = 1 /\ s[1] \in 0..127
        \/ Len(s) = 2 /\ s[1] \in 194..223 /\ tail(2)
        \/ /\ Len(s) = 3 /\ tail(3)
           /\ \/ s[1] = 224 /\ s[2] \in 160..191
              \/ s[1] \in (225..236) \cup {238, 239} /\ s[2] \in 128..191
              \/ s[1] = 237 /\ s[2] \in 128..159
        \/ /\ Len(s) = 4 /\ tail(3)
           /\ \/ s[1] = 240 /\ s[2] \in 144..191
              \/ s[1] \in 241..243 /\ s[2] \in 128..191
              \/ s[1] = 244 /\ s[2] \in 128..143

\* Places where a string may be cut: each but the first ends a well-formed sequence
\* that begins at an earlier one
Cuts(s, cuts) ==
    /\ 0 \in cuts
    /\ \A j \in cuts \ {0} : \E k \in cuts : k < j /\ WellFormedSequence(SubSeq(s, k + 1, j))

\* The string is a concatenation of well-formed sequences
WellFormed(s) == \E cuts \in SUBSET (0..Len(s)) : Len(s) \in cuts /\ Cuts(s, cuts)

\* The loop accepts exactly the well-formed strings, without NUL where it is not
\* allowed: it never steps over the start of a sequence or past the end
AcceptsUtf8 ==
    /\ verdict = "valid" => WellFormed(text) /\ (nulls \/ \A i \in DOMAIN text : text[i] # 0)
    /\ verdict = "invalid" => ~(WellFormed(text) /\ (nulls \/ \A i \in DOMAIN text : text[i] # 0))
=============================================================================
