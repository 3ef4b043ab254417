---------------------------- MODULE MCWebServer -----------------------------
(* A patient client that asks for a file, and one that asks for a listing, *)
(* a file or nothing good, sends more than its request or more than fits   *)
(* the buffer, and may hang up.                                            *)
EXTENDS WebServer, TLC

CONSTANTS c1, c2

Ask(kind, need, total) == [kind |-> kind, need |-> need, total |-> total]
MCRequests ==
  c1 :> {Ask("file", 2, 2), Ask("listing", 1, 1)}
  @@ c2 :> {Ask("listing", 1, 2), Ask("refused", 3, 3), Ask("refused", 2, 2), Ask("file", 1, 1)}
=============================================================================
