------------------------------- MODULE Storage -------------------------------
(***************************************************************************)
(* Saving pieces into files (FINAL/src/storage.c).  Every file is created  *)
(* when the storage is opened; a piece is cut at file boundaries and each  *)
(* fragment is written at its offset.  fseek or fwrite may fail or stop    *)
(* short (a full disk): the code logs it and goes on.  fclose may fail to  *)
(* write what stdio still holds: the code does not look.                   *)
(***************************************************************************)
EXTENDS Layout

CONSTANTS
  IoFaults,  \* may writes fall short in this instance?
  Hole       \* a byte that was never written

VARIABLES
  disk,      \* contents of each file, byte by byte
  io_failed  \* history: some fragment was not written in full

Offsets(f) == 0 .. FileLengths[f] - 1

StorageInit ==
  /\ disk = [f \in Files |-> [o \in Offsets(f) |-> Hole]]
  /\ io_failed = FALSE

Bug_FirstFileOnly(p, f) ==
  LET o == Overlap(p, f)
  IN  IF o.from < o.to /\ o.from = PieceStart(p) THEN o.to - o.from ELSE 0
FragmentLen(p, f) ==
  LET o == Overlap(p, f) IN IF o.from < o.to THEN o.to - o.from ELSE 0

(* What fwrite puts at offset o of file f when n bytes of the fragment are *)
(* written: data + offset_in_piece at offset_in_file.                      *)
Bug_FromPieceStart(p, f, n, o) ==
  LET at == Overlap(p, f).from - FileStart[f]
  IN  IF o \in at .. at + n - 1 THEN PieceStart(p) + (o - at) ELSE disk[f][o]
Written(p, f, n, o) ==
  LET at == Overlap(p, f).from - FileStart[f]
      offset_in_piece == Overlap(p, f).from - PieceStart(p)
  IN  IF o \in at .. at + n - 1
      THEN PieceStart(p) + offset_in_piece + (o - at)
      ELSE disk[f][o]

(* The lengths each fwrite may achieve.                                    *)
Achieved(p) ==
  LET full == [f \in Files |-> FragmentLen(p, f)]
  IN  IF IoFaults
      THEN {n \in [Files -> 0 .. PieceLength] : \A f \in Files : n[f] <= full[f]}
      ELSE {full}

storage_write(p) ==
  \E n \in Achieved(p) :
    /\ disk' = [f \in Files |-> [o \in Offsets(f) |-> Written(p, f, n[f], o)]]
    /\ io_failed' = (io_failed \/ \E f \in Files : n[f] < FragmentLen(p, f))

(* Of each file fclose may lose the end of one fragment, the one stdio      *)
(* still had in its buffer.                                                 *)
EndOfFragment(lost, f) ==
  \E p \in 0 .. PieceTotal - 1, n \in 0 .. PieceLength :
    {o \in Offsets(f) : FileStart[f] + o \in lost} =
      {o \in Offsets(f) : FileStart[f] + o \in Overlap(p, f).from + n .. Overlap(p, f).to - 1}

LostByFclose ==
  IF IoFaults
  THEN {lost \in SUBSET (0 .. total_length - 1) : \A f \in Files : EndOfFragment(lost, f)}
  ELSE {{}}

storage_close ==
  \E lost \in LostByFclose :
    /\ disk' = [f \in Files |->
                  [o \in Offsets(f) |-> IF FileStart[f] + o \in lost THEN Hole ELSE disk[f][o]]]
    /\ io_failed' = (io_failed \/ disk' # disk)
=============================================================================
