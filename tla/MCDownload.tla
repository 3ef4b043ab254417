----------------------------- MODULE MCDownload -----------------------------
(* Small instances of DownloadPieces.                                      *)
EXTENDS DownloadPieces

(* The first piece has two blocks, the others one. *)
BlocksMixed == [p \in Pieces |-> IF p = 0 THEN 2 ELSE 1]

(* A bitfield of no byte, one that ends before the last piece, and a full  *)
(* one, with BitsPerByte = 2.                                              *)
ShortBitfield == [len |-> 1, bits |-> {1}]
MCBitfields ==
  {[len |-> 0, bits |-> {}], ShortBitfield, [len |-> 2, bits |-> 0 .. NumPieces - 1]}
=============================================================================
