----------------------------- MODULE CClientMC -----------------------------
(* Two threads and the reader over one or two slots, frames of two parts. *)
EXTENDS CClient

CONSTANTS t1, t2, r, none
=============================================================================
