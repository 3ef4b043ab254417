---------------------------- MODULE MCRingBuffer ----------------------------
(* Instances of RingBufferDev: one process that makes every call, two      *)
(* readers with a writer that also clears the buffer, and a reader beside  *)
(* a process that resizes.                                                 *)
EXTENDS RingBufferDev, TLC

CONSTANTS r1, r2, w1, x1

OneDoesAll  == x1 :> Operations
OneSizes    == 1 .. 3
OneLens     == 0 .. 3

ManyCalls  == r1 :> {"read"} @@ r2 :> {"read"} @@ w1 :> {"write", "clear"}
ReadResize == r1 :> {"read"} @@ x1 :> {"resize"}
=============================================================================
