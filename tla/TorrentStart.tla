---------------------------- MODULE TorrentStart ----------------------------
(***************************************************************************)
(* The torrent client from its start to the download loop: main and        *)
(* load_torrent (main.c), the loader (torrent.c), the request to the       *)
(* tracker (tracker.c), the choice of the output.                          *)
(*                                                                         *)
(* A name of a dictionary ("info", "piece length") is one byte here, a     *)
(* hash HashLen bytes instead of 20, a peer PeerLen instead of 6, and the  *)
(* unsigned types wrap at U32 and U64.  SHA-1 is the identity: the hash    *)
(* stands for the bytes that are hashed.  What can neither fail nor matter *)
(* later (comment, creation date, announce, logging) is left out.          *)
(***************************************************************************)
EXTENDS Bencode

CONSTANTS
  Files,    \* torrent files: [data |-> bytes, meant |-> the object its author encoded]
  Bodies,   \* answers of the tracker: [data |-> bytes, meant |-> object]
  HashLen, PeerLen,
  U32, U64,
  PathMax   \* bytes of the buffer of tar.c:127, 4096 in the code

ASSUME StartAssumption ==
  /\ HashLen \in Nat \ {0} /\ PeerLen \in Nat \ {0}
  /\ U32 \in Nat \ {0} /\ U64 \in Nat \ {0} /\ PathMax \in Nat \ {0}
  /\ \A f \in Files : f.data # <<>>

VARIABLES
  file,        \* the torrent file given on the command line
  pc,
  root,        \* what bencode_decode returned for it
  tor,         \* torrent_t
  body,        \* the tracker's answer
  sent,        \* how many bytes of it libcurl has handed over
  chunk,       \* what write_callback has made of them
  peers,       \* peers_out
  output       \* what setup_output_context opened

vars == <<file, pc, root, tor, body, sent, chunk, peers, output>>

info_key         == <<"I">>
name_key         == <<"N">>
piece_length_key == <<"P">>
pieces_key       == <<"H">>
files_key        == <<"F">>
length_key       == <<"L">>
path_key         == <<"T">>
peers_key        == <<"R">>

UNREAD == [unread |-> 0]   \* nothing has been decoded yet
NoTor == [info_hash |-> <<>>, piece_length |-> 0, num_pieces |-> 0,
          files |-> <<>>, total_length |-> 0]        \* after memset
Modes == {"-o", "-O", "tar"}

Init == /\ file \in Files /\ pc = "read"
        /\ root = UNREAD /\ tor = NoTor
        /\ body = [data |-> <<>>, meant |-> NULL] /\ sent = 0 /\ chunk = <<>>
        /\ peers = <<>> /\ output = "none"

Exit(code) == pc' = code   \* "exit 0", "exit 1" or "crashed"

-----------------------------------------------------------------------------
(* torrent_load_from_memory, after decoding.                               *)
parse_path_list(path) == /\ HasType(path, "list")
                         /\ \A k \in DOMAIN path.list : HasType(path.list[k], "string")

FileOf(dict) ==
  LET length == bencode_dict_get(dict, length_key)
      path   == bencode_dict_get(dict, path_key)
  IN  IF HasType(length, "int") /\ parse_path_list(path)
      THEN [length |-> length.int % U64, path |-> path.list] ELSE NULL

LoadedFiles(info, name) ==
  LET files  == bencode_dict_get(info, files_key)
      length == bencode_dict_get(info, length_key)
      own    == IF HasType(name, "string") THEN name ELSE NULL       \* NULL: "unknown"
  IN  IF HasType(files, "list") THEN [k \in DOMAIN files.list |-> FileOf(files.list[k])]
      ELSE IF HasType(length, "int")
      THEN <<[length |-> length.int % U64, path |-> <<own>>]>>
      ELSE <<NULL>>

TotalLength(files) ==
  FoldLeft(LAMBDA sum, f : (sum + f.length) % U64, 0, files)

(* The hash of the info dictionary, encoded again (info_hash).             *)
InfoHash(info) == encode_obj(info)

PieceLength(pl) == IF HasType(pl, "int") THEN pl.int % U32 ELSE 0

LoadTorrent(obj) ==
  LET info   == bencode_dict_get(obj, info_key)
      name   == bencode_dict_get(info, name_key)
      pl     == bencode_dict_get(info, piece_length_key)
      pieces == bencode_dict_get(info, pieces_key)
      hashes == IF HasType(pieces, "string") THEN Len(pieces.string) ELSE 0
      files  == LoadedFiles(info, name)
  IN  IF \/ ~HasType(info, "dict")
         \/ hashes % HashLen # 0
         \/ NULL \in Range(files)
      THEN NULL
      ELSE [info_hash    |-> InfoHash(info),
            piece_length |-> PieceLength(pl),
            num_pieces   |-> hashes \div HashLen,
            files        |-> files,
            total_length |-> TotalLength(files)]

ReadFails == /\ pc = "read"
             /\ Exit("exit 1")
             /\ UNCHANGED <<file, root, tor, body, sent, chunk, peers, output>>

(* torrent_load and torrent_load_from_memory.                              *)
torrent_load ==
  /\ pc = "read"
  /\ \E obj \in bencode_decode(file.data, FALSE) :
       /\ root' = obj
       /\ LET loaded == LoadTorrent(obj)
          IN  IF obj = CRASH THEN Exit("crashed") /\ UNCHANGED tor
              ELSE IF loaded = NULL THEN Exit("exit 1") /\ UNCHANGED tor
              ELSE pc' = "request" /\ tor' = loaded
  /\ UNCHANGED <<file, body, sent, chunk, peers, output>>

-----------------------------------------------------------------------------
(* tracker_get_peers: the body comes in pieces cut anywhere; the request   *)
(* fails when libcurl does, on a timeout in the middle too, when the       *)
(* buffer cannot grow, and when the code is not 200.                       *)
Request == /\ pc = "request"
           /\ body' \in Bodies
           /\ pc' = "receive"
           /\ UNCHANGED <<file, root, tor, sent, chunk, peers, output>>

RequestFails == /\ pc \in {"request", "receive"}
                /\ Exit("exit 1")
                /\ UNCHANGED <<file, root, tor, body, sent, chunk, peers, output>>

Collected(contents) == chunk \o contents
write_callback == /\ pc = "receive"
                  /\ sent' \in sent + 1 .. Len(body.data)
                  /\ chunk' = Collected(SubSeq(body.data, sent + 1, sent'))
                  /\ UNCHANGED <<file, pc, root, tor, body, peers, output>>

PeersIn(obj) == bencode_dict_get(obj, peers_key)
Bug_RoundsDown(obj) == HasType(PeersIn(obj), "string")
GoodPeers(obj) == /\ HasType(PeersIn(obj), "string")
                  /\ Len(PeersIn(obj).string) % PeerLen = 0
PeerList(s) == [k \in 1 .. Len(s) \div PeerLen |-> SubSeq(s, (k - 1) * PeerLen + 1, k * PeerLen)]

(* The answer is complete; the buffer of write_callback ends with a zero   *)
(* byte, but does not exist when nothing was written to it.  No peer is as *)
(* bad as no answer (main).                                                *)
tracker_get_peers ==
  /\ pc = "receive" /\ sent = Len(body.data)
  /\ \E obj \in bencode_decode(chunk, TRUE) :
       IF obj = CRASH THEN Exit("crashed") /\ UNCHANGED peers
       ELSE IF ~GoodPeers(obj) THEN Exit("exit 1") /\ UNCHANGED peers
       ELSE /\ peers' = PeerList(PeersIn(obj).string)
            /\ pc' = IF peers' = <<>> THEN "exit 1" ELSE "output"
  /\ UNCHANGED <<file, root, tor, body, sent, chunk, output>>

-----------------------------------------------------------------------------
CanOpen(mode) == mode = "-o" => Len(tor.files) <= 1
setup_output_context(mode) ==
  /\ pc = "output"
  /\ \/ CanOpen(mode) /\ output' = mode /\ pc' = "download"
     \/ Exit("exit 1") /\ UNCHANGED output         \* refused, or it cannot be opened
  /\ UNCHANGED <<file, root, tor, body, sent, chunk, peers>>

Bug_LastPieceEmpty(index) ==
  CASE index < (tor.num_pieces - 1) % U32 -> tor.piece_length
    [] index = (tor.num_pieces - 1) % U32 -> tor.total_length % tor.piece_length
    [] OTHER -> 0
piece_size(index) ==
  CASE index < (tor.num_pieces - 1) % U32 -> tor.piece_length
    [] index = (tor.num_pieces - 1) % U32 ->
         IF tor.total_length % tor.piece_length # 0
         THEN tor.total_length % tor.piece_length ELSE tor.piece_length
    [] OTHER -> 0

(* The name of a file in the archive: its path, joined by slashes, in a    *)
(* buffer of PathMax bytes that strcat does not respect; "unknown" where   *)
(* there is no name.                                                       *)
PathLen(path) ==
  LET part(k) == IF HasType(path[k], "string") THEN Len(path[k].string) ELSE 7
  IN  MapThenSumSet(part, DOMAIN path) + Len(path) - 1
full_path_overflows ==
  /\ output = "tar" /\ tor.num_pieces > 0
  /\ \E k \in DOMAIN tor.files :
       tor.files[k].length > 0 /\ PathLen(tor.files[k].path) + 1 > PathMax

(* The download loop is DownloadPieces; here only what it makes of what    *)
(* was loaded: when it gets to the last piece it divides by the piece      *)
(* length, when the tar writer gets to a file it joins its path.  It       *)
(* returns 0 however much is missing.                                      *)
download_pieces == /\ pc = "download"
                   /\ \/ Exit("exit 0")
                      \/ tor.num_pieces > 0 /\ tor.piece_length = 0 /\ Exit("crashed")
                      \/ full_path_overflows /\ Exit("crashed")
                   /\ UNCHANGED <<file, root, tor, body, sent, chunk, peers, output>>

Next == \/ ReadFails
        \/ torrent_load
        \/ Request
        \/ RequestFails
        \/ write_callback
        \/ tracker_get_peers
        \/ \E mode \in Modes : setup_output_context(mode)
        \/ download_pieces

Spec == Init /\ [][Next]_vars

-----------------------------------------------------------------------------
Canonical(f) == Denotes(f.data, f.meant)

(* A file that is the bencoding of an object is accepted and read as that  *)
(* object; and whatever bytes are accepted, they are a spelling of the     *)
(* object they are read as, with every string and number taken from its    *)
(* own place and nothing left over (bencode.c:104-272).                    *)
JustRead == root # UNREAD /\ (pc = "request" \/ tor = NoTor)
ReadAsSpelled ==
  JustRead =>
    /\ Canonical(file) => root = file.meant
    /\ root \notin {NULL, CRASH} => Spells(file.data, root)

(* The info_hash is computed from the info dictionary written anew         *)
(* (torrent.c:123-130, bencode.c:49-82).  What is hashed is the bencoding  *)
(* of that dictionary and is read again as the same, in whatever spelling  *)
(* it was accepted; and for a file in the one right spelling it is a part  *)
(* of the file itself, so that tracker and peers know the hash.            *)
InfoHashOfFile ==
  pc = "request" =>
    LET info == bencode_dict_get(root, info_key)
    IN  /\ Denotes(tor.info_hash, info)
        /\ bencode_decode(tor.info_hash, FALSE) = {info}
        /\ Denotes(file.data, root) =>
             \E i, j \in DOMAIN file.data : SubSeq(file.data, i, j) = tor.info_hash

(* A torrent as it should be: lengths not negative, a piece length, one    *)
(* hash for each piece of the total.                                       *)
Lengths(info) ==
  LET files == bencode_dict_get(info, files_key)
  IN  IF HasType(files, "list")
      THEN [k \in DOMAIN files.list |-> bencode_dict_get(files.list[k], length_key)]
      ELSE <<bencode_dict_get(info, length_key)>>
SumOf(lengths) == FoldLeft(LAMBDA sum, l : sum + l.int, 0, lengths)
WellFormed(o) ==
  LET info == bencode_dict_get(o, info_key)
      pl   == bencode_dict_get(info, piece_length_key)
      pcs  == bencode_dict_get(info, pieces_key)
  IN  /\ LoadTorrent(o) # NULL
      /\ HasType(pl, "int") /\ HasType(pcs, "string")
      /\ pl.int \in 1 .. U32 - 1
      /\ \A k \in DOMAIN Lengths(info) : Lengths(info)[k].int >= 0
      /\ SumOf(Lengths(info)) < U64
      /\ Len(pcs.string) = HashLen * ((SumOf(Lengths(info)) + pl.int - 1) \div pl.int)

(* The pieces of a well-formed torrent that was loaded are exactly its     *)
(* bytes: sizes between 1 and the piece length that add up to the length   *)
(* of the files (torrent.c:132-209, 260-268).                              *)
PiecesCover ==
  pc = "request" /\ WellFormed(root) =>
    LET sizes == [k \in 1 .. tor.num_pieces |-> piece_size(k - 1)]
        files == [k \in DOMAIN tor.files |-> tor.files[k].length]
    IN  /\ \A k \in DOMAIN sizes : sizes[k] \in 1 .. tor.piece_length
        /\ FoldLeft(+, 0, sizes) = FoldLeft(+, 0, files)
        /\ FoldLeft(+, 0, files) = SumOf(Lengths(bencode_dict_get(root, info_key)))

(* However the answer was cut on its way, the peers are those the tracker  *)
(* sent, none of them cut short (tracker.c:12-26, 131-159).                *)
PeersRight ==
  /\ chunk = SubSeq(body.data, 1, sent)
  /\ peers # <<>> /\ Canonical(body) =>
       /\ FlattenSeq(peers) = PeersIn(body.meant).string
       /\ \A k \in DOMAIN peers : Len(peers[k]) = PeerLen

(* The process is ended by a signal only for a file or an answer that is   *)
(* no bencoding, for a torrent whose pieces have no length, or when a path *)
(* of PathMax bytes or more goes into an archive: never for input that is  *)
(* as it should be (bencode.c:104-308, torrent.c:264, tar.c:127-131).      *)
CrashExplained ==
  pc = "crashed" =>
    \/ root = CRASH /\ ~Canonical(file)
    \/ peers = <<>> /\ root # CRASH /\ ~Canonical(body)
    \/ output # "none" /\ tor.piece_length = 0
    \/ output = "tar" /\ \E k \in DOMAIN tor.files : PathLen(tor.files[k].path) >= PathMax
=============================================================================
