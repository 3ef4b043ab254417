------------------------------- MODULE Layout -------------------------------
(***************************************************************************)
(* How the byte stream of a torrent is cut into pieces and files           *)
(* (torrent.c, and the loops over files of storage.c and tar.c).  A byte   *)
(* is named by its position in the stream.                                 *)
(***************************************************************************)
EXTENDS Integers, Sequences, SequencesExt

CONSTANTS
  PieceLength,  \* torrent_t.piece_length
  FileLengths,  \* lengths of torrent_t.files, in order
  PieceTotal    \* torrent_t.num_pieces

ASSUME LayoutAssumption ==
  /\ PieceLength \in Nat \ {0}
  /\ FileLengths \in Seq(Nat)
  /\ PieceTotal \in Nat \ {0}

Files == 1 .. Len(FileLengths)

(* The running sum of the loops over files; FileStart[Len + 1] is the      *)
(* total length.                                                           *)
FileStart[f \in 1 .. Len(FileLengths) + 1] ==
  IF f = 1 THEN 0 ELSE FileStart[f - 1] + FileLengths[f - 1]
total_length == FileStart[Len(FileLengths) + 1]
FileEnd(f) == FileStart[f] + FileLengths[f]

(* The number of hashes and the lengths of the files come from separate    *)
(* fields of the torrent; the loader does not compare them.                *)
MetadataConsistent ==
  PieceTotal = (total_length + PieceLength - 1) \div PieceLength

piece_size(p) ==
  CASE p < PieceTotal - 1 -> PieceLength
    [] p = PieceTotal - 1 ->
         IF total_length % PieceLength # 0 THEN total_length % PieceLength ELSE PieceLength
    [] OTHER -> 0

PieceStart(p) == p * PieceLength
PieceBytes(p) == PieceStart(p) .. PieceStart(p) + piece_size(p) - 1

Least(a, b)    == IF a < b THEN a ELSE b
Greatest(a, b) == IF a > b THEN a ELSE b

(* The part of piece p that lies in file f: from .. to - 1.  (Operators     *)
(* named Bug_... are mistakes the properties are tried against.)            *)
Bug_OverlapFromFile(p, f) ==
  [from |-> FileStart[f], to |-> Least(PieceStart(p) + piece_size(p), FileEnd(f))]
Overlap(p, f) ==
  [from |-> Greatest(PieceStart(p), FileStart[f]),
   to   |-> Least(PieceStart(p) + piece_size(p), FileEnd(f))]
=============================================================================
