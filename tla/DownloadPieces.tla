--------------------------- MODULE DownloadPieces ---------------------------
(***************************************************************************)
(* The download loop of the torrent client (FINAL/src/main.c,              *)
(* download_pieces) with the peer session it drives (peer.c, network.c):   *)
(* peers are tried one after the other, once each; on a connection the     *)
(* client shakes hands, declares its interest, waits for unchoke and then  *)
(* asks for the missing pieces block by block, checks the SHA1 of a whole  *)
(* piece and hands it to the output.                                       *)
(*                                                                         *)
(* Two processes interleave: the client, and the remote peer, which puts   *)
(* one message at a time on the wire.  The signal handler of utils.c may   *)
(* clear `running' between any two steps.  Peers outside Honest may send   *)
(* anything, which covers a stream that lost its framing after a timeout.  *)
(***************************************************************************)
EXTENDS Integers, Sequences, FiniteSets

CONSTANTS
  NumPieces,    \* torrent_t.num_pieces
  Blocks,       \* number of BLOCK_SIZE blocks of each piece
  PeerCount,    \* number of peers the tracker returned
  BitsPerByte,  \* pieces per bitfield byte (8 in the code)
  MaxSockets,   \* descriptors the system leaves the process for its peers
  Bitfields,    \* the bitfields a peer may send
  Honest,       \* peers that hold the torrent and answer what was asked
  Seeds,        \* honest peers that are reachable, prompt and never choke
  NoBitfield,   \* peer_connection_t.bitfield = NULL
  NoMsg         \* nothing on the wire

Pieces == 0 .. NumPieces - 1
Peers  == 1 .. PeerCount
BlocksOf(p) == 0 .. Blocks[p] - 1
AllBlocks   == UNION {BlocksOf(p) : p \in Pieces}
Descriptors == 0 .. MaxSockets - 1
Contents    == {"good", "bad"}

Bitfield == [len : Nat, bits : SUBSET Nat]

ASSUME ParametersAssumption ==
  /\ NumPieces \in Nat
  /\ PeerCount \in Nat
  /\ MaxSockets \in Nat \ {0}
  /\ BitsPerByte \in Nat \ {0}
  /\ Blocks \in [Pieces -> Nat \ {0}]
  /\ Bitfields \subseteq Bitfield
  /\ Honest \subseteq Peers
  /\ Seeds \subseteq Honest
  /\ NoBitfield \notin Bitfield

(* What a peer can put on the wire.  A block of the wrong length is        *)
(* ignored exactly like a block that was not asked for, so PieceMsg need   *)
(* not carry a length; "short_piece" is a piece message without its index  *)
(* and offset, "other" any message no handler looks at.                    *)
PlainMsg    == [t : {"keepalive", "choke", "unchoke", "other", "short_piece"}]
HaveMsg     == [t : {"have"}, idx : 0 .. NumPieces]
BitfieldMsg == [t : {"bitfield"}, bf : Bitfields]
PieceMsg    == [t : {"piece"}, idx : Pieces, blk : AllBlocks, data : Contents]
Message     == PlainMsg \cup HaveMsg \cup BitfieldMsg \cup PieceMsg

ASSUME NoMsgAssumption == NoMsg \notin Message

VARIABLES
  running,      \* utils.c: cleared by the signal handler
  pc,           \* where the client is
  peer_idx,     \* loop variable over peers
  sock,         \* the socket of this turn, -1 before it has one
  fds,          \* the sockets the process has open
  choked,       \* peer_connection_t.choked
  bitfield,     \* peer_connection_t.bitfield
  i,            \* loop variable over pieces
  offset,       \* blocks of piece i received so far
  buf,          \* contents of the piece buffer, block by block
  pieces_done,  \* the bitmap, as a set
  pieces_left,  \* the counter
  out,          \* what was handed to the output, in order
  wire,         \* the message in flight from the peer
  asked,        \* requests an honest peer has not answered yet
  line,         \* the connection: up, closed, reset (not yet noticed), broken
  at_signal     \* history: pieces done when the signal came

client  == <<peer_idx, sock, fds, choked, bitfield, i, offset, buf>>
result  == <<pieces_done, pieces_left, out>>
network == <<wire, asked, line>>
vars == <<running, pc, client, result, network, at_signal>>

Init ==
  /\ running = TRUE
  /\ pc = "next_peer"
  /\ peer_idx = 1
  /\ sock = -1 /\ fds = {} /\ choked = FALSE /\ bitfield = NoBitfield
  /\ i = 0 /\ offset = 0 /\ buf = <<>>
  /\ pieces_done = {} /\ pieces_left = NumPieces /\ out = <<>>
  /\ wire = NoMsg /\ asked = {} /\ line = "up"
  /\ at_signal = {}

-----------------------------------------------------------------------------
(* The next turn of the loop over peers.  What the turn declared (sock,    *)
(* peer, i, buf) is gone; what it opened is not, unless it was closed.     *)
(* Definitions named Bug_... are mistakes the loop could have had: the     *)
(* properties below are tried against them.                                *)
NextPeer ==
  /\ pc' = "next_peer"
  /\ peer_idx' = peer_idx + 1
  /\ sock' = -1 /\ choked' = FALSE /\ bitfield' = NoBitfield
  /\ i' = 0 /\ offset' = 0 /\ buf' = <<>>
  /\ wire' = NoMsg /\ asked' = {} /\ line' = "up"

close(fd)  == fds' = fds \ {fd}
peer_close == close(sock)

(* The peer closes the connection, or aborts it; a closed one is aborted   *)
(* as well when the peer is sent something or still had data to read.      *)
PeerDrops ==
  /\ sock # -1 /\ pc # "connect" /\ peer_idx \notin Seeds
  /\ \/ line = "up" /\ line' \in {"closed", "reset"}
     \/ line = "closed" /\ line' = "broken"
  /\ UNCHANGED <<running, pc, client, result, wire, asked, at_signal>>

(* What send() and recv() make of that: what the peer closed can still be  *)
(* sent to; the first call after an abort reports it (ECONNRESET), and on a *)
(* broken line send() raises SIGPIPE.  send_full_timeout does not pass     *)
(* MSG_NOSIGNAL, and SIGPIPE has the handler that clears `running'.        *)
Sends == line \in {"up", "closed"}
AfterError == IF line = "reset" THEN "broken" ELSE line
SendFails ==
  /\ running' = IF line = "broken" THEN FALSE ELSE running
  /\ at_signal' = IF line = "broken" /\ running THEN pieces_done ELSE at_signal

(* A step of the session can fail with every peer that is not a seed, and  *)
(* fails for sure once the program is being stopped.                       *)
MayFail == peer_idx \notin Seeds \/ ~running

MorePeers == peer_idx <= PeerCount /\ pieces_left > 0 /\ running

(* tcp_connect_timeout opens the socket and waits for the connection; it   *)
(* closes the socket itself when that fails.  socket() fails when there is *)
(* no descriptor left; otherwise it gives the lowest one.                  *)
Unused == Descriptors \ fds

OpenSocket ==
  /\ pc = "next_peer" /\ MorePeers
  /\ \E fd \in Unused :
       /\ \A other \in Unused : fd <= other
       /\ sock' = fd /\ fds' = fds \cup {fd}
  /\ pc' = "connect"
  /\ UNCHANGED <<running, peer_idx, choked, bitfield, i, offset, buf, result,
                 network, at_signal>>

OpenFails ==
  /\ pc = "next_peer" /\ MorePeers
  /\ MayFail \/ Unused = {}
  /\ NextPeer
  /\ UNCHANGED <<running, fds, result, at_signal>>

Connect ==
  /\ pc = "connect"
  /\ pc' = "handshake"
  /\ choked' = TRUE
  /\ UNCHANGED <<running, peer_idx, sock, fds, bitfield, i, offset, buf, result,
                 network, at_signal>>

ConnectFails ==
  /\ pc = "connect" /\ MayFail
  /\ close(sock)
  /\ NextPeer
  /\ UNCHANGED <<running, result, at_signal>>

peer_handshake ==
  /\ pc = "handshake" /\ running /\ Sends
  /\ pc' = "interested"
  /\ UNCHANGED <<running, client, result, network, at_signal>>

Bug_HandshakeKeepsSocket ==
  /\ pc = "handshake" /\ MayFail
  /\ SendFails
  /\ NextPeer
  /\ UNCHANGED <<fds, result>>
HandshakeFails ==
  /\ pc = "handshake" /\ MayFail
  /\ SendFails
  /\ close(sock)
  /\ NextPeer
  /\ UNCHANGED result

peer_send_interested ==
  /\ pc = "interested" /\ running /\ Sends
  /\ pc' = "wait_unchoke"
  /\ UNCHANGED <<running, client, result, network, at_signal>>

InterestedFails ==
  /\ pc = "interested" /\ MayFail
  /\ SendFails
  /\ close(sock)
  /\ NextPeer
  /\ UNCHANGED result

-----------------------------------------------------------------------------
(* A message of the peer reaches the socket.  The client looks at the wire *)
(* only in its two receive loops, so a message is put there when it looks. *)
Reading == pc \in {"wait_unchoke", "receive"}

FullBitfields == {bf \in Bitfields : Pieces \subseteq bf.bits}

HonestMessages ==
  IF pc = "wait_unchoke"
  THEN [t : {"unchoke", "keepalive"}] \cup [t : {"bitfield"}, bf : FullBitfields]
  ELSE {[t |-> "piece", idx |-> r[1], blk |-> r[2], data |-> "good"] : r \in asked}

PeerSends ==
  /\ Reading /\ wire = NoMsg /\ line = "up"
  /\ wire' \in IF peer_idx \in Honest THEN HonestMessages ELSE Message
  /\ asked' = IF wire'.t = "piece" THEN asked \ {<<wire'.idx, wire'.blk>>} ELSE asked
  /\ UNCHANGED <<running, pc, client, result, line, at_signal>>

(* recv_full_timeout reads while the program runs.  It gives up when there *)
(* is no data for the whole timeout, when the connection was closed, or    *)
(* when the signal came: every receive loop returns -1 then.               *)
Bug_DeafToSignal == TRUE
KeepsReading == running
RecvFails == (wire = NoMsg /\ MayFail) \/ ~KeepsReading

peer_wait_for_unchoke ==
  /\ pc = "wait_unchoke" /\ KeepsReading /\ wire # NoMsg
  /\ wire' = NoMsg
  /\ CASE wire.t = "unchoke" ->
            /\ choked' = FALSE /\ pc' = "pieces"
            /\ UNCHANGED bitfield
       [] wire.t = "have" ->
            /\ bitfield' =
                 IF bitfield # NoBitfield /\ wire.idx \div BitsPerByte < bitfield.len
                 THEN [bitfield EXCEPT !.bits = @ \cup {wire.idx}]
                 ELSE bitfield
            /\ UNCHANGED <<pc, choked>>
       [] wire.t = "bitfield" ->
            /\ bitfield' = wire.bf
            /\ UNCHANGED <<pc, choked>>
       [] OTHER -> UNCHANGED <<pc, choked, bitfield>>
  /\ UNCHANGED <<running, peer_idx, sock, fds, i, offset, buf, result, asked, line,
                 at_signal>>

UnchokeFails ==
  /\ pc = "wait_unchoke" /\ RecvFails
  /\ peer_close
  /\ NextPeer
  /\ UNCHANGED <<running, result, at_signal>>

-----------------------------------------------------------------------------
Bug_NoBitfieldNoPieces(p) == bitfield # NoBitfield /\ p \in bitfield.bits
peer_has_piece(p) ==
  bitfield # NoBitfield =>
    p \div BitsPerByte < bitfield.len /\ p \in bitfield.bits

Bug_SignalIgnored == i < NumPieces /\ pieces_left > 0
MorePieces == i < NumPieces /\ pieces_left > 0 /\ running

SkipPiece ==
  /\ pc = "pieces" /\ MorePieces
  /\ i \in pieces_done \/ ~peer_has_piece(i)
  /\ i' = i + 1
  /\ UNCHANGED <<running, pc, peer_idx, sock, fds, choked, bitfield, offset, buf,
                 result, network, at_signal>>

(* malloc leaves whatever the heap held in the buffer.                     *)
StartPiece ==
  /\ pc = "pieces" /\ MorePieces
  /\ i \notin pieces_done /\ peer_has_piece(i)
  /\ buf' \in [BlocksOf(i) -> Contents]
  /\ offset' = 0
  /\ pc' = "block"
  /\ UNCHANGED <<running, peer_idx, sock, fds, choked, bitfield, i, result, network,
                 at_signal>>

EndOfPieces ==
  /\ pc = "pieces" /\ ~MorePieces
  /\ peer_close
  /\ NextPeer
  /\ UNCHANGED <<running, result, at_signal>>

peer_send_request ==
  /\ pc = "block" /\ offset < Blocks[i] /\ running
  /\ Sends
  /\ pc' = "receive"
  /\ asked' = IF peer_idx \in Honest THEN asked \cup {<<i, offset>>} ELSE asked
  /\ UNCHANGED <<running, client, result, wire, line, at_signal>>

(* The piece is given up, the loop goes on with the next one.              *)
Bug_StepsTwice ==
  /\ pc' = "pieces"
  /\ i' = i + 2 /\ offset' = 0 /\ buf' = <<>>
  /\ UNCHANGED <<peer_idx, sock, fds, choked, bitfield, result>>
GiveUpPiece ==
  /\ pc' = "pieces"
  /\ i' = i + 1 /\ offset' = 0 /\ buf' = <<>>
  /\ UNCHANGED <<peer_idx, sock, fds, choked, bitfield, result>>

SendRequestFails ==
  /\ pc = "block" /\ offset < Blocks[i] /\ running
  /\ peer_idx \notin Seeds
  /\ SendFails
  /\ GiveUpPiece
  /\ line' = AfterError
  /\ UNCHANGED <<wire, asked>>

Bug_AnyPiece(m) == m.t = "piece" /\ m.blk = offset
WantedBlock(m) == m.t = "piece" /\ m.idx = i /\ m.blk = offset

(* A block is right only in its own place.                                 *)
InPlace(m) == IF m.idx = i /\ m.blk = offset THEN m.data ELSE "bad"

peer_receive_block ==
  /\ pc = "receive" /\ KeepsReading /\ wire # NoMsg
  /\ wire' = NoMsg
  /\ \/ /\ WantedBlock(wire)
        /\ buf' = [buf EXCEPT ![offset] = InPlace(wire)]
        /\ offset' = offset + 1
        /\ pc' = "block"
        /\ UNCHANGED <<peer_idx, sock, fds, choked, bitfield, i, result>>
     \/ wire.t \in {"choke", "short_piece"} /\ GiveUpPiece
     \/ /\ ~WantedBlock(wire) /\ wire.t \notin {"choke", "short_piece"}
        /\ UNCHANGED <<pc, client, result>>
  /\ UNCHANGED <<running, asked, line, at_signal>>

ReceiveFails ==
  /\ pc = "receive" /\ RecvFails
  /\ GiveUpPiece
  /\ line' = AfterError
  /\ UNCHANGED <<running, wire, asked, at_signal>>

(* SHA1 identifies the contents of a piece.                                *)
Bug_VerifyReceived(data) == \A b \in DOMAIN data : b < offset => data[b] = "good"
verify_piece(data) == \A b \in DOMAIN data : data[b] = "good"

(* Hand the piece to the output, MARK_DONE, pieces_left--.                 *)
Bug_NotMarked ==
  /\ out' = Append(out, [piece |-> i, data |-> buf])
  /\ pieces_left' = pieces_left - 1
  /\ UNCHANGED pieces_done
AcceptPiece ==
  /\ out' = Append(out, [piece |-> i, data |-> buf])
  /\ pieces_done' = pieces_done \cup {i}
  /\ pieces_left' = pieces_left - 1

FinishPiece ==
  /\ pc = "block" /\ (offset = Blocks[i] \/ ~running)
  /\ IF verify_piece(buf) THEN AcceptPiece ELSE UNCHANGED result
  /\ pc' = "pieces"
  /\ i' = i + 1 /\ offset' = 0 /\ buf' = <<>>
  /\ UNCHANGED <<running, peer_idx, sock, fds, choked, bitfield, network, at_signal>>

(* The output is closed and download_pieces returns pieces_left.           *)
Return ==
  /\ pc = "next_peer" /\ ~MorePeers
  /\ pc' = "returned"
  /\ UNCHANGED <<running, client, result, network, at_signal>>

signal_handler ==
  /\ running
  /\ running' = FALSE
  /\ at_signal' = pieces_done
  /\ UNCHANGED <<pc, client, result, network>>

Terminated == pc = "returned" /\ UNCHANGED vars

Client ==
  \/ OpenSocket \/ OpenFails \/ Connect \/ ConnectFails
  \/ peer_handshake \/ HandshakeFails \/ peer_send_interested \/ InterestedFails
  \/ peer_wait_for_unchoke \/ UnchokeFails
  \/ SkipPiece \/ StartPiece \/ EndOfPieces
  \/ peer_send_request \/ SendRequestFails
  \/ peer_receive_block \/ ReceiveFails \/ FinishPiece
  \/ Return

Next == Client \/ PeerSends \/ PeerDrops \/ signal_handler \/ Terminated

Spec == Init /\ [][Next]_vars

(* The client process keeps running: every system call it blocks in has a  *)
(* timeout.                                                                *)
FairSpec == Spec /\ WF_vars(Client)

(* What the peers may be asked besides: they are not endlessly chatty, so  *)
(* that a wait during which the wire falls silent again and again ends in  *)
(* a timeout, and a seed answers.                                          *)
SeedAnswers == peer_idx \in Seeds /\ PeerSends /\ wire'.t \in {"unchoke", "piece"}
TimesOut == UnchokeFails \/ ReceiveFails

QuietPeers == SF_vars(TimesOut) /\ SF_vars(SeedAnswers)

-----------------------------------------------------------------------------
Delivery ==
  [piece : Pieces, data : UNION {[BlocksOf(p) -> Contents] : p \in Pieces}]

(* Types of the state: no loop variable leaves its range, and no answer is *)
(* outstanding for a block that does not exist.                            *)
TypeOK ==
  /\ running \in BOOLEAN
  /\ pc \in {"next_peer", "connect", "handshake", "interested", "wait_unchoke", "pieces",
             "block", "receive", "returned"}
  /\ peer_idx \in 1 .. PeerCount + 1
  /\ pc \notin {"next_peer", "returned"} => peer_idx \in Peers
  /\ sock \in Descriptors \cup {-1} /\ fds \subseteq Descriptors
  /\ choked \in BOOLEAN
  /\ bitfield \in Bitfield \cup {NoBitfield}
  /\ i \in 0 .. NumPieces
  /\ offset \in Nat
  /\ pc \in {"block", "receive"} =>
       /\ i \in Pieces
       /\ offset \in 0 .. Blocks[i]
       /\ buf \in [BlocksOf(i) -> Contents]
  /\ pc = "receive" => offset < Blocks[i]
  /\ pieces_done \subseteq Pieces
  /\ pieces_left \in Int
  /\ out \in Seq(Delivery)
  /\ wire \in Message \cup {NoMsg}
  /\ line \in {"up", "closed", "reset", "broken"}
  /\ asked \subseteq UNION {{p} \X BlocksOf(p) : p \in Pieces}
  /\ at_signal \subseteq Pieces

(* The bitmap, the counter the loops and the exit status rely on, and what *)
(* reached the output agree (main.c marks, counts and writes in three      *)
(* separate statements): no piece is written twice, none is marked without *)
(* being written, and the counter is the number of pieces still missing.   *)
BookkeepingAgrees ==
  /\ pieces_left = NumPieces - Cardinality(pieces_done)
  /\ pieces_done = {out[k].piece : k \in DOMAIN out}
  /\ \A j, k \in DOMAIN out : out[j].piece = out[k].piece => j = k

(* Whatever the peers send, and also when a signal interrupts a piece whose *)
(* buffer is only partly filled, only contents that match the torrent are   *)
(* ever handed to the output.                                               *)
OutputVerified == \A k \in DOMAIN out : \A b \in DOMAIN out[k].data : out[k].data[b] = "good"

(* The loop implements the abstract download.                              *)
Store == INSTANCE PieceStore WITH
  have <- pieces_done,
  missing <- pieces_left,
  delivered <- [k \in DOMAIN out |->
                  [piece |-> out[k].piece,
                   intact |-> \A b \in DOMAIN out[k].data : out[k].data[b] = "good"]],
  stopped <- pc = "returned"

(* What main.c does to its bitmap, its counter and its output is what the   *)
(* abstract download does: whole intact pieces, once each, until it stops.  *)
ImplementsStore == Store!Spec

(* Six ways lead out of a turn of the peer loop (main.c:189, 203, 210, 216, *)
(* 265 and tcp_connect_timeout), some through close(), some through          *)
(* peer_close(): whichever was taken, the only socket open is the one the    *)
(* turn uses, and between two turns there is none.                           *)
NoSocketLeak == fds = IF pc \in {"next_peer", "returned"} THEN {} ELSE {sock}

(* An honest but slow peer never costs a piece: a late answer to an earlier *)
(* request is not taken for the block being waited for, so every block      *)
(* received from it is right (the matching of peer_receive_block).          *)
HonestBlocksGood ==
  pc \in {"block", "receive"} /\ peer_idx \in Honest =>
    \A b \in 0 .. offset - 1 : buf[b] = "good"

(* After SIGINT at most the piece under way still reaches the output.       *)
AtMostOneAfterSignal == ~running => Cardinality(pieces_done \ at_signal) <= 1

(* A signal ends the program whatever the peer does: receive loops that go  *)
(* on as long as a peer talks are left as soon as `running' is cleared.     *)
SignalEnds == ~running ~> pc = "returned"

(* The loop over peers ends, and a swarm with one seed suffices for it:     *)
(* unless it is interrupted the client has every piece then, whatever the   *)
(* peers tried before or after the seed do, as long as none of them talks   *)
(* for ever.                                                                *)
SeedCompletes == QuietPeers => <>(pc = "returned" /\ (pieces_left = 0 \/ ~running))

(* The comment at the end of the loop over pieces: a piece that could not   *)
(* be had is tried with another peer.  So what a peer does to its           *)
(* connection may cost the session, never the program: no step of the       *)
(* session clears `running', only a signal from outside does.               *)
PeerCannotStop == [][pc' # pc => running' = running]_vars
=============================================================================
