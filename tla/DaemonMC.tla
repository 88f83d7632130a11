------------------------------ MODULE DaemonMC ------------------------------
(* A small instance of Daemon for TLC. *)
EXTENDS Daemon

CONSTANTS c1, c2
=============================================================================
