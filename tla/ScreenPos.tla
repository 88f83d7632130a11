----------------------------- MODULE ScreenPos -----------------------------
(***************************************************************************)
(* Anchor resolution: the pure function Placement.ScreenPos of             *)
(* internal/engine/placement.go.  An anchor is one record for the three    *)
(* kinds the code distinguishes by Anchor.Type:                            *)
(*                                                                         *)
(*   type   "absolute" | "pane" | "nvim_win" | "other"                     *)
(*   at     the pane id or window id the anchor names (unused otherwise)   *)
(*   row    Anchor.Row, or Anchor.BufLine of an "nvim_win" anchor          *)
(*   col    Anchor.Col                                                     *)
(*                                                                         *)
(* "other" stands for every type string the code does not know: the        *)
(* default case of the switch.  Coordinates are 0-based and may be         *)
(* negative, as in the code.                                               *)
(***************************************************************************)
EXTENDS Integers

CONSTANTS
    PaneIds,    \* tmux pane ids (%0, %1, ...)
    WinIds,     \* neovim window ids
    NoPane      \* the empty PaneID of a neovim window outside tmux

ASSUME NoPaneAssumption == NoPane \notin PaneIds

AnchorTypes == {"absolute", "pane", "nvim_win", "other"}

Anchor == [type : AnchorTypes, at : PaneIds \cup WinIds \cup {NoPane}, row : Int, col : Int]

\* PaneGeometry and WinGeometry.  The id of a pane and of a window is its key
\* in the maps below; the width of a neovim window is never read.
Pane == [top : Nat, left : Nat, width : Nat, height : Nat, active : BOOLEAN]
Shape == [pane : PaneIds \cup {NoPane}, top : Int, left : Int, height : Nat, scroll : Int]
Size == [rows : Nat, cols : Nat]

Position == [row : Int, col : Int, visible : BOOLEAN]

Hidden == [row |-> 0, col |-> 0, visible |-> FALSE]
At(r, c, v) == [row |-> r, col |-> c, visible |-> v]

\* Zero rows or columns mean the terminal size is not known: no bounds check.
AbsolutePos(a, size) ==
    At(a.row, a.col,
       /\ a.row >= 0 /\ a.col >= 0
       /\ size.rows > 0 => a.row < size.rows
       /\ size.cols > 0 => a.col < size.cols)

ActivePane(panes, id) == id \in DOMAIN panes /\ panes[id].active

InPaneClosed(pane, r, c) ==   \* mutant: one off at the far borders
    /\ pane.top <= r /\ r <= pane.top + pane.height
    /\ pane.left <= c /\ c <= pane.left + pane.width

InPane(pane, r, c) ==
    /\ pane.top <= r /\ r < pane.top + pane.height
    /\ pane.left <= c /\ c < pane.left + pane.width

\* A pane anchor outside its pane keeps its coordinates and is not visible.
PanePos(a, panes) ==
    IF ~ActivePane(panes, a.at) THEN Hidden
    ELSE LET r == panes[a.at].top + a.row
             c == panes[a.at].left + a.col
         IN  At(r, c, InPane(panes[a.at], r, c))

\* Only the row is checked against the window; inside tmux the result is
\* checked against the pane, outside tmux nothing checks the column.
WinPos(a, panes, wins) ==
    IF a.at \notin DOMAIN wins THEN Hidden
    ELSE LET w == wins[a.at]
             rel == a.row - w.scroll
             r == w.top + rel
             c == w.left + a.col
         IN  IF rel < 0 \/ rel >= w.height THEN Hidden
             ELSE IF w.pane = NoPane THEN At(r, c, TRUE)
             ELSE IF ~ActivePane(panes, w.pane) THEN Hidden
             ELSE LET p == panes[w.pane]
                  IN  IF InPane(p, p.top + r, p.left + c)
                      THEN At(p.top + r, p.left + c, TRUE)
                      ELSE Hidden

\* Placement.ScreenPos
Resolve(a, panes, wins, size) ==
    CASE a.type = "absolute" -> AbsolutePos(a, size)
      [] a.type = "pane"     -> PanePos(a, panes)
      [] a.type = "nvim_win" -> WinPos(a, panes, wins)
      [] OTHER               -> Hidden
=============================================================================
