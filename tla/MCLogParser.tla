---------------------------- MODULE MCLogParser -----------------------------
(* Two URLs, two referers; lines that are rejected, lines without referer. *)
EXTENDS LogParser

Line(shape, url, bytes, referer) ==
  [shape |-> shape, url |-> url, bytes |-> bytes, referer |-> referer]

MCLogs ==
  << <<Line("full", "a", 1, "r")>>,
     <<Line("full", "a", 2, "q"), Line("open_referer", "b", 8, "q")>>,
     <<Line("no_referer", "b", 5, "r"), Line("full", "c", 4, "r")>> >>

(* With two buckets a and b meet in a thread's table and not in the global *)
(* one, r and q in both.                                                   *)
MCHash(key) == CASE key = "a" -> 0 [] key = "b" -> 2 [] key = "c" -> 1
                 [] key = "r" -> 0 [] key = "q" -> 4
=============================================================================
