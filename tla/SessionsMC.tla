----------------------------- MODULE SessionsMC -----------------------------
(* Small instances of Sessions for TLC. *)
EXTENDS Sessions

CONSTANTS k1, k2, k3
=============================================================================
