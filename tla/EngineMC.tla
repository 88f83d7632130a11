------------------------------ MODULE EngineMC ------------------------------
(* Small instances of Engine for TLC. *)
EXTENDS Engine, TLC

CONSTANTS c1, c2, d1, d2, d3

ClientAndDataSymmetry == Permutations({c1, c2}) \cup Permutations({d1, d2, d3})
ClientSymmetry == Permutations({c1, c2})

AnchorAt(t, id, r, c) == [type |-> t, at |-> id, row |-> r, col |-> c]

Absolute == {AnchorAt("absolute", NoPane, 0, 0)}

\* Anchors of every kind, inside, on the borders and at negative offsets.  With
\* size 1 x 2 the absolute one falls outside.
Geometry == {AnchorAt("absolute", NoPane, 1, 1),
             AnchorAt("pane", "%0", 0, 1), AnchorAt("pane", "%0", 2, 0),
             AnchorAt("pane", "%0", 0, -1),
             AnchorAt("nvim_win", "w", 2, 0), AnchorAt("nvim_win", "w", 2, -1)}

OnePane(l, w, active) ==
    ("%0" :> [top |-> 1, left |-> l, width |-> w, height |-> 2, active |-> active])

\* The pane is away, in front, moved and narrowed, or in a background window
PaneHistory == {<< >>, OnePane(0, 2, TRUE), OnePane(1, 1, TRUE), OnePane(0, 2, FALSE)}

\* A window inside the pane and one outside tmux
WinGeometries == {[pane |-> "%0", top |-> 0, left |-> 0, height |-> 2, scroll |-> 1],
                  [pane |-> NoPane, top |-> 1, left |-> 0, height |-> 1, scroll |-> 2]}

TermSizes == {[rows |-> 2, cols |-> 2], [rows |-> 1, cols |-> 2]}
=============================================================================
