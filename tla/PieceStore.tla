----------------------------- MODULE PieceStore -----------------------------
(***************************************************************************)
(* What a download promises, without peers, messages or failures: pieces   *)
(* with the contents the torrent names are delivered, each at most once,   *)
(* in any order, until the download stops; what is still missing is known  *)
(* exactly then (it is what download_pieces returns).                      *)
(***************************************************************************)
EXTENDS Integers, Sequences

CONSTANT NumPieces

VARIABLES
  have,       \* pieces that were delivered
  missing,    \* how many are not
  delivered,  \* the deliveries in order: a piece and whether it is intact
  stopped     \* the download has returned

vars == <<have, missing, delivered, stopped>>

Init ==
  /\ have = {}
  /\ missing = NumPieces
  /\ delivered = <<>>
  /\ stopped = FALSE

Deliver(p) ==
  /\ ~stopped
  /\ p \notin have
  /\ have' = have \cup {p}
  /\ missing' = missing - 1
  /\ delivered' = Append(delivered, [piece |-> p, intact |-> TRUE])
  /\ UNCHANGED stopped

Stop ==
  /\ ~stopped
  /\ stopped' = TRUE
  /\ UNCHANGED <<have, missing, delivered>>

Next == (\E p \in 0 .. NumPieces - 1 : Deliver(p)) \/ Stop

Spec == Init /\ [][Next]_vars
=============================================================================
