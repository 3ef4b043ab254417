----------------------------- MODULE MCFsDaemon -----------------------------
(* Two processes that may each be started once, two clients, a file that   *)
(* changes and disappears.                                                 *)
EXTENDS FsDaemon

CONSTANTS d1, d2, k1, k2
=============================================================================
