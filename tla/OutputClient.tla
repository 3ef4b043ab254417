---------------------------- MODULE OutputClient ----------------------------
(***************************************************************************)
(* The client with its output: setup_output_context opens the tar writer   *)
(* on standard output (the default) or the storage (-o, -O); the step that *)
(* accepts a piece calls tar_writer_write or storage_write, the step that  *)
(* returns calls tar_writer_close or storage_close.  The output that was   *)
(* not chosen stays as it was.                                             *)
(***************************************************************************)
EXTENDS DownloadPieces, TarWriter, Storage

CONSTANT LongPathSets  \* which files may have a path of 4096 bytes or more

ASSUME SamePiecesAssumption == PieceTotal = NumPieces /\ LongPathSets \subseteq SUBSET Files

VARIABLES
  use_tar,     \* config_t.use_tar
  long_paths,  \* the files whose path does not fit full_path of tar.c
  overflowed   \* such a path was copied there

outputVars == <<vars, use_tar, long_paths, overflowed, tw, lost, disk, io_failed>>

setup_output_context ==
  /\ use_tar \in BOOLEAN
  /\ tw = tar_writer_open /\ lost = {}
  /\ StorageInit

OutputInit ==
  Init /\ setup_output_context /\ long_paths \in LongPathSets /\ overflowed = FALSE

Accepts == out' # out
Returns == pc # "returned" /\ pc' = "returned"

Touches(p, f) == Overlap(p, f).from < Overlap(p, f).to
PathsFit(p) == \A f \in long_paths : ~Touches(p, f)

TarFollows ==
  /\ use_tar
  /\ CASE Accepts -> PathsFit(i) /\ tar_writer_write(i)
       [] Returns -> tar_writer_close
       [] OTHER   -> UNCHANGED <<tw, lost>>
  /\ UNCHANGED <<disk, io_failed>>

StorageFollows ==
  /\ ~use_tar
  /\ CASE Accepts -> storage_write(i)
       [] Returns -> storage_close
       [] OTHER   -> UNCHANGED <<disk, io_failed>>
  /\ UNCHANGED <<tw, lost>>

OutputStep ==
  /\ Next
  /\ TarFollows \/ StorageFollows
  /\ UNCHANGED <<use_tar, long_paths, overflowed>>

(* The header of a file is written with a path that strcat has put together *)
(* in an array of 4096 bytes without looking at its length.  The piece is   *)
(* not marked yet.  What the program does with a stack that is overwritten  *)
(* cannot be said; the model ends there.                                    *)
FullPathOverflows ==
  /\ use_tar /\ pc = "block" /\ (offset = Blocks[i] \/ ~running)
  /\ verify_piece(buf) /\ ~PathsFit(i)
  /\ overflowed' = TRUE
  /\ UNCHANGED <<vars, use_tar, long_paths, tw, lost, disk, io_failed>>

OutputNext ==
  \/ ~overflowed /\ (OutputStep \/ FullPathOverflows)
  \/ overflowed /\ UNCHANGED outputVars

OutputSpec == OutputInit /\ [][OutputNext]_outputVars

-----------------------------------------------------------------------------
InOrder == \A k \in DOMAIN out : out[k].piece = k - 1
Complete == pieces_left = 0 /\ MetadataConsistent

(* How far the stream has come when pieces arrive in order.                 *)
Received ==
  IF out = <<>> THEN 0
  ELSE LET last == Len(out) - 1
       IN  Least(PieceStart(last) + piece_size(last), total_length)

(* When pieces arrive in order and no write falls short the writer          *)
(* produces the archive a reader expects, although it sees one piece at a   *)
(* time: at every moment a prefix of the reference that carries exactly the *)
(* bytes received, and in the end the whole of it, or, if the download was  *)
(* cut short, whole blocks.                                                 *)
TarMatchesReference ==
  use_tar /\ InOrder /\ lost = {} =>
    IF pc # "returned"
    THEN /\ IsPrefix(tw.archive, ReferenceArchive)
         /\ DataIn(tw.archive) = 0 .. Received - 1
    ELSE /\ Len(tw.archive) % TarBlock = 0
         /\ IsSuffix(EndMarker, tw.archive)
         /\ Complete => tw.archive = ReferenceArchive \o EndMarker

(* The bytes of the pieces accepted, and where the output has a byte.       *)
Due == (0 .. total_length - 1) \cap UNION {PieceBytes(p) : p \in pieces_done}
Arrived(b) == {k \in DataCells(tw.archive) \ lost : tw.archive[k][2] = b}

(* In whatever order pieces arrive and whichever writes fall short, the     *)
(* output has no byte but those of accepted pieces and none of them twice,  *)
(* and when one is missing it is because a write lost it: without a failed  *)
(* write it has each of them exactly once.                                  *)
TarBytesOnce ==
  use_tar =>
    /\ \A k \in DataCells(tw.archive) \ lost : tw.archive[k][2] \in Due
    /\ \A j, k \in DataCells(tw.archive) \ lost : tw.archive[j] = tw.archive[k] => j = k
    /\ \A b \in Due : Arrived(b) = {} => \E k \in lost : tw.archive[k] = <<"data", b>>

(* README.MD: every file of the archive takes a whole number of blocks, so  *)
(* that in a finished download in which no write fell short every header    *)
(* starts on a block boundary.                                              *)
HeadersAligned ==
  use_tar /\ pc = "returned" /\ Complete /\ lost = {} =>
    \A k \in 2 .. Len(tw.archive) :
      tw.archive[k][1] = "hdr" /\ tw.archive[k - 1] # tw.archive[k] => (k - 1) % TarBlock = 0

(* No fault, no order of arrival and no signal ever leaves a byte at a      *)
(* wrong place or a byte of a piece that was not verified.                  *)
DiskNeverWrong ==
  \A f \in Files : \A o \in Offsets(f) :
    disk[f][o] # Hole =>
      /\ disk[f][o] = FileStart[f] + o
      /\ \E p \in pieces_done : disk[f][o] \in PieceBytes(p)

(* Unless a write failed, what the bitmap calls done is on disk: each byte  *)
(* of each accepted piece, across all the files the piece touches, so that  *)
(* with no piece left every file is whole.                                  *)
DoneIsOnDisk ==
  ~use_tar /\ ~io_failed =>
    \A f \in Files : \A o \in Offsets(f) :
      \/ disk[f][o] = FileStart[f] + o
      \/ /\ \A p \in pieces_done : FileStart[f] + o \notin PieceBytes(p)
         /\ MetadataConsistent => pieces_left > 0
=============================================================================
