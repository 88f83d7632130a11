----------------------------- MODULE CRequestsMC -----------------------------
(* Pages of 14 bytes that hold a header of 2 and builds of 4, so that three *)
(* or four things written fill a page.                                      *)
EXTENDS CRequests

\* an int, a short string with its tag, and a bin longer than the room of a page
OneByte == <<1, 0>>
ShortString == <<3, 0>>
LongBin == <<1, 14>>
SmallScalars == {OneByte, ShortString, LongBin}
AllSinks == {<<"growable", 0>>, <<"fixed", 7>>, <<"file", 16>>}
FreeItems == [growable |-> 4, fixed |-> 3, file |-> 3]
OneFailure == {{}} \cup {{k} : k \in 1..8}

AllOptions == {"pane_id", "row", "col", "win_id", "buf_line", "src_x", "src_y", "src_w", "src_h", "z_index"}
SomeOptions == SUBSET {"pane_id", "row", "col", "win_id", "src_x", "z_index"} \cup {AllOptions}
=============================================================================
