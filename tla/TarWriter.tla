----------------------------- MODULE TarWriter ------------------------------
(***************************************************************************)
(* The streaming tar writer (FINAL/src/tar.c).  Pieces are appended to the *)
(* output as they arrive; nothing already written can be moved.  The       *)
(* archive is a sequence of cells of one byte each, marked by what they    *)
(* are: header of a file, data byte, padding, end marker.                  *)
(*                                                                         *)
(* No fwrite is looked at: what falls short is counted in total_written    *)
(* like the rest.  So the archive here is what was handed to fwrite, its   *)
(* length is total_written, and `lost' are the cells of it that never got  *)
(* out.                                                                    *)
(***************************************************************************)
EXTENDS Layout, FiniteSets

CONSTANTS
  TarBlock,     \* TAR_BLOCK_SIZE
  StdioBuffer,  \* how much of what was handed over before stdio may still hold
  MaxLost       \* bound on the cells lost in a behaviour

ASSUME TarBlockAssumption ==
  TarBlock \in Nat \ {0} /\ StdioBuffer \in Nat /\ MaxLost \in Nat

VARIABLES
  tw,   \* tar_writer_t: what was handed over, current file, bytes of it
  lost  \* the positions in the archive that did not reach the output

tar_writer_open == [archive |-> <<>>, file |-> 0, written |-> 0]

Cells(n, cell) == [k \in 1 .. n |-> cell]
Header(f) == Cells(TarBlock, <<"hdr", f>>)
Data(from, to) == [k \in 1 .. to - from |-> <<"data", from + k - 1>>]
EndMarker == Cells(2 * TarBlock, <<"end", 0>>)

(* Up to the next multiple of a block, as total_written has it.            *)
write_padding(archive) ==
  archive \o Cells((TarBlock - (Len(archive) % TarBlock)) % TarBlock, <<"pad", 0>>)

(* A header announces every file the writer was not already in.            *)
EnterFile(w, f) ==
  IF w.file = f THEN w
  ELSE [archive |-> w.archive \o Header(f), file |-> f, written |-> 0]

(* The last byte of a file is followed by padding.                         *)
LeaveFile(w, f, to) ==
  IF to = FileEnd(f) THEN [w EXCEPT !.archive = write_padding(@)] ELSE w

WriteFragment(w, p, f) ==
  LET o == Overlap(p, f)
      entered == EnterFile(w, f)
      filled  == [archive |-> entered.archive \o Data(o.from, o.to), file |-> f,
                  written |-> entered.written + (o.to - o.from)]
  IN  IF o.from < o.to THEN LeaveFile(filled, f, o.to) ELSE w

(* One pass over the files, in the order of the torrent.                    *)
AfterPass(w, p) ==
  LET at[n \in 0 .. Len(FileLengths)] ==
        IF n = 0 THEN w ELSE WriteFragment(at[n - 1], p, n)
  IN  at[Len(FileLengths)]

(* A write that fails or falls short (a full disk) loses any of the cells   *)
(* stdio has at that moment: those just handed over and those in its        *)
(* buffer.  The fflush of tar_writer_close is the last of these writes.     *)
(* (That a closed pipe also raises SIGPIPE, which clears `running', is the  *)
(* signal_handler step of the client before or after.)                      *)
Loses(before, after) ==
  \E cells \in SUBSET {k \in 1 .. Len(after) : k > Len(before) - StdioBuffer} :
    /\ lost' = lost \cup cells
    /\ Cardinality(lost') <= MaxLost

tar_writer_write(p) ==
  /\ tw' = AfterPass(tw, p)
  /\ Loses(tw.archive, tw'.archive)

(* An unfinished last file is padded, then come two zero blocks.           *)
Bug_NoFinalPadding(w) == w.archive
FinalPadding(w) ==
  IF w.file # 0 /\ w.written < FileLengths[w.file]
  THEN write_padding(w.archive) ELSE w.archive

tar_writer_close ==
  /\ tw' = [tw EXCEPT !.archive = FinalPadding(tw) \o EndMarker]
  /\ Loses(tw.archive, tw'.archive)

-----------------------------------------------------------------------------
(* What a tar archive of the torrent should be: for each file that is not  *)
(* empty its header, its bytes, and padding to a whole block.              *)
ReferenceUpTo[f \in 0 .. Len(FileLengths)] ==
  IF f = 0 THEN <<>>
  ELSE IF FileLengths[f] = 0 THEN ReferenceUpTo[f - 1]
  ELSE write_padding(ReferenceUpTo[f - 1] \o Header(f) \o Data(FileStart[f], FileEnd(f)))
ReferenceArchive == ReferenceUpTo[Len(FileLengths)]

(* Where an archive has data, and which bytes of the torrent they are.      *)
DataCells(archive) == {k \in DOMAIN archive : archive[k][1] = "data"}
DataIn(archive) == {archive[k][2] : k \in DataCells(archive)}
=============================================================================
