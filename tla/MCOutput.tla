------------------------------ MODULE MCOutput ------------------------------
(* Small instances of OutputClient: a file that ends inside a piece, an     *)
(* empty file, a file over several pieces, a last piece that is short.      *)
EXTENDS OutputClient

OneBlock == [p \in Pieces |-> 1]
MCFiles == <<1, 0, 3, 1>>
MCBitfields ==
  {[len |-> 1, bits |-> {1}], [len |-> 2, bits |-> 0 .. NumPieces - 1]}
MCLongPathSets == {{}, {4}}
=============================================================================
