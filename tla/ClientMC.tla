------------------------------ MODULE ClientMC ------------------------------
(* A small instance of Client for TLC: as many slots as callers, or one. *)
EXTENDS Client, ClientLibraries

CONSTANTS t1, t2, none

FewSlots == {[l EXCEPT !.slots = n] : l \in {Zig, C}, n \in 1..2}
SmallLibraries == {l \in AllLibraries : l.slots = 0} \cup FewSlots
=============================================================================
