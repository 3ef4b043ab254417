--------------------------- MODULE DownloadProofs ---------------------------
(***************************************************************************)
(* Proofs about DownloadPieces, for any number of pieces, blocks and peers *)
(* and any peers whatsoever.                                               *)
(***************************************************************************)
EXTENDS DownloadPieces, FiniteSetTheorems, TLAPS

(* The ways out of a turn of the loop over peers, each with its own call   *)
(* that closes the socket, leave none open; a turn under way has one.      *)
THEOREM NoSocketLeakHolds == Spec => []NoSocketLeak
<1>1. Init => NoSocketLeak
  BY DEF Init, NoSocketLeak
<1>2. ASSUME NoSocketLeak, [Next]_vars
      PROVE  NoSocketLeak'
  <2> USE <1>2 DEF NoSocketLeak
  <2>1. CASE OpenSocket
    BY <2>1 DEF OpenSocket
  <2>2. CASE OpenFails
    BY <2>2 DEF OpenFails, NextPeer
  <2>3. CASE Connect
    BY <2>3 DEF Connect
  <2>4. CASE ConnectFails
    BY <2>4 DEF ConnectFails, NextPeer, close
  <2>5. CASE peer_handshake \/ peer_send_interested
    BY <2>5 DEF peer_handshake, peer_send_interested, client
  <2>6. CASE HandshakeFails
    BY <2>6 DEF HandshakeFails, NextPeer, close
  <2>7. CASE InterestedFails
    BY <2>7 DEF InterestedFails, NextPeer, close
  <2>8. CASE UnchokeFails
    BY <2>8 DEF UnchokeFails, NextPeer, peer_close, close
  <2>9. CASE EndOfPieces
    BY <2>9 DEF EndOfPieces, NextPeer, peer_close, close
  <2>10. CASE peer_wait_for_unchoke \/ SkipPiece \/ StartPiece \/ peer_send_request
    BY <2>10 DEF peer_wait_for_unchoke, SkipPiece, StartPiece, peer_send_request, client
  <2>11. CASE SendRequestFails \/ peer_receive_block \/ ReceiveFails \/ FinishPiece
    BY <2>11 DEF SendRequestFails, peer_receive_block, ReceiveFails, FinishPiece,
       GiveUpPiece, client
  <2>12. CASE Return
    BY <2>12 DEF Return, client
  <2>13. CASE PeerSends \/ PeerDrops \/ signal_handler \/ Terminated \/ UNCHANGED vars
    BY <2>13 DEF PeerSends, PeerDrops, signal_handler, Terminated, vars, client
  <2> QED BY <2>1, <2>2, <2>3, <2>4, <2>5, <2>6, <2>7, <2>8, <2>9, <2>10, <2>11, <2>12,
             <2>13 DEF Next, Client
<1> QED BY <1>1, <1>2, PTL DEF Spec

-----------------------------------------------------------------------------
(* A peer, honest or not, puts a message on the wire.                      *)
LEMMA PeerSendsMessage == ASSUME TypeOK, PeerSends PROVE wire' \in Message
<1>1. CASE wire' \in Message
  BY <1>1
<1>2. CASE peer_idx \in Honest /\ wire' \in HonestMessages
  <2>1. CASE pc = "wait_unchoke"
    <3>1. [t : {"unchoke", "keepalive"}] \subseteq PlainMsg
      BY DEF PlainMsg
    <3>2. FullBitfields \subseteq Bitfields
      BY DEF FullBitfields
    <3>3. [t : {"bitfield"}, bf : FullBitfields] \subseteq BitfieldMsg
      BY <3>2 DEF BitfieldMsg
    <3> QED BY <1>2, <2>1, <3>1, <3>3 DEF HonestMessages, Message
  <2>2. CASE pc # "wait_unchoke"
    <3>1. PICK r \in asked :
            wire' = [t |-> "piece", idx |-> r[1], blk |-> r[2], data |-> "good"]
      BY <1>2, <2>2 DEF HonestMessages
    <3>2. PICK p \in Pieces : r \in {p} \X BlocksOf(p)
      BY DEF TypeOK
    <3>3. r[1] \in Pieces /\ r[2] \in AllBlocks
      BY <3>2 DEF AllBlocks
    <3>4. wire' \in PieceMsg
      BY <3>1, <3>3 DEF PieceMsg, Contents
    <3> QED BY <3>4 DEF Message
  <2> QED BY <2>1, <2>2
<1> QED BY <1>1, <1>2 DEF PeerSends

(* What a message of each kind carries.                                    *)
LEMMA MessageKinds ==
  ASSUME NEW m \in Message
  PROVE  /\ m.t = "have" => m.idx \in 0 .. NumPieces
         /\ m.t = "bitfield" => m.bf \in Bitfields
         /\ m.t = "piece" => m.idx \in Pieces /\ m.blk \in AllBlocks /\ m.data \in Contents
<1>1. CASE m \in PlainMsg
  BY <1>1 DEF PlainMsg
<1>2. CASE m \in HaveMsg
  BY <1>2 DEF HaveMsg
<1>3. CASE m \in BitfieldMsg
  BY <1>3 DEF BitfieldMsg
<1>4. CASE m \in PieceMsg
  BY <1>4 DEF PieceMsg
<1> QED BY <1>1, <1>2, <1>3, <1>4 DEF Message

(* What a failed send does to `running'.                                   *)
LEMMA SendFailsTyped ==
  ASSUME TypeOK, SendFails
  PROVE  running' \in BOOLEAN /\ at_signal' \subseteq Pieces
<1>2. running' \in BOOLEAN
  BY DEF SendFails, TypeOK
<1>3. at_signal' = at_signal \/ at_signal' = pieces_done
  BY DEF SendFails
<1> QED BY <1>2, <1>3 DEF TypeOK

(* Whatever made the client leave a peer, it ends where it began.          *)
LEMMA LeaveTyped ==
  ASSUME TypeOK, peer_idx \in Peers, NextPeer, UNCHANGED result,
         fds' \subseteq fds, running' \in BOOLEAN, at_signal' \subseteq Pieces
  PROVE  TypeOK'
<1>1. /\ pc' = "next_peer" /\ peer_idx' = peer_idx + 1
      /\ sock' = -1 /\ choked' = FALSE /\ bitfield' = NoBitfield
      /\ i' = 0 /\ offset' = 0
      /\ UNCHANGED <<pieces_done, pieces_left, out>>
      /\ wire' = NoMsg /\ asked' = {} /\ line' = "up"
  BY DEF NextPeer, result
<1>2. peer_idx' \in 1 .. PeerCount + 1 /\ i' \in 0 .. NumPieces
  BY <1>1, ParametersAssumption DEF Peers
<1> QED BY <1>1, <1>2 DEF TypeOK

(* A piece was given up or finished: on to the next one.                   *)
LEMMA NextPieceTyped ==
  ASSUME TypeOK, pc \in {"block", "receive"}, GiveUpPiece,
         wire' \in Message \cup {NoMsg}, UNCHANGED asked,
         line' \in {"up", "closed", "reset", "broken"},
         running' \in BOOLEAN, at_signal' \subseteq Pieces
  PROVE  TypeOK'
BY ParametersAssumption DEF TypeOK, GiveUpPiece, result, Pieces

LEMMA TypedInit == Init => TypeOK
<1> SUFFICES ASSUME Init PROVE TypeOK
  OBVIOUS
<1>1. peer_idx \in 1 .. PeerCount + 1 /\ i \in 0 .. NumPieces /\ pieces_left \in Int
  BY ParametersAssumption DEF Init
<1>2. out \in Seq(Delivery)
  BY DEF Init
<1> QED BY <1>1, <1>2 DEF Init, TypeOK

LEMMA TypedStep == ASSUME TypeOK, [Next]_vars PROVE TypeOK'
<1> USE ParametersAssumption
<1>1. CASE OpenSocket
  <2>1. sock' \in Descriptors /\ fds' \subseteq Descriptors
    BY <1>1 DEF OpenSocket, Unused, TypeOK
  <2>2. peer_idx \in Peers
    BY <1>1 DEF OpenSocket, MorePeers, TypeOK, Peers
  <2>3. /\ pc' = "connect"
        /\ UNCHANGED <<running, peer_idx, choked, bitfield, i, offset, buf, result, network,
                       at_signal>>
    BY <1>1 DEF OpenSocket
  <2> QED BY <2>1, <2>2, <2>3 DEF TypeOK, result, network
<1>18. CASE Connect
  BY <1>18 DEF Connect, TypeOK, result, network
<1>2. CASE OpenFails \/ ConnectFails
  BY <1>2, LeaveTyped DEF OpenFails, ConnectFails, close, MorePeers, TypeOK, Peers
<1>3. CASE peer_handshake \/ peer_send_interested
  BY <1>3 DEF peer_handshake, peer_send_interested, TypeOK, client, network, result
<1>17. CASE HandshakeFails \/ InterestedFails
  <2>1. /\ SendFails /\ NextPeer /\ UNCHANGED result
        /\ fds' \subseteq fds /\ peer_idx \in Peers
    BY <1>17 DEF HandshakeFails, InterestedFails, close, TypeOK
  <2> QED BY <2>1, LeaveTyped, SendFailsTyped
<1>4. CASE PeerSends
  <2>1. wire' \in Message
    BY <1>4, PeerSendsMessage
  <2>2. asked' \subseteq asked
    BY <1>4 DEF PeerSends
  <2> QED BY <1>4, <2>1, <2>2 DEF PeerSends, TypeOK, client, result
<1>5. CASE peer_wait_for_unchoke
  <2> USE <1>5 DEF peer_wait_for_unchoke
  <2>1. wire \in Message
    BY DEF TypeOK
  <2>2. bitfield' \in Bitfield \cup {NoBitfield}
    <3>1. CASE wire.t = "have"
      <4>1. wire.idx \in Nat
        BY <2>1, <3>1, MessageKinds
      <4> QED BY <3>1, <4>1 DEF TypeOK, Bitfield
    <3>2. CASE wire.t = "bitfield"
      BY <2>1, <3>2, MessageKinds
    <3>3. CASE wire.t \notin {"have", "bitfield"}
      BY <3>3 DEF TypeOK
    <3> QED BY <3>1, <3>2, <3>3
  <2>3. choked' \in BOOLEAN /\ pc' \in {"wait_unchoke", "pieces"}
    BY DEF TypeOK
  <2> QED BY <2>2, <2>3 DEF TypeOK, result
<1>6. CASE UnchokeFails \/ EndOfPieces
  BY <1>6, LeaveTyped DEF UnchokeFails, EndOfPieces, peer_close, close, TypeOK
<1>7. CASE SkipPiece
  BY <1>7 DEF SkipPiece, MorePieces, TypeOK, result, network
<1>8. CASE StartPiece
  BY <1>8 DEF StartPiece, MorePieces, TypeOK, result, network, Pieces
<1>9. CASE peer_send_request
  <2>1. i \in Pieces /\ offset \in BlocksOf(i) /\ offset < Blocks[i]
    BY <1>9 DEF peer_send_request, TypeOK, BlocksOf, Pieces
  <2>2. asked' \subseteq UNION {{p} \X BlocksOf(p) : p \in Pieces}
    BY <1>9, <2>1 DEF peer_send_request, TypeOK
  <2> QED BY <1>9, <2>1, <2>2 DEF peer_send_request, TypeOK, client, result
<1>10. CASE SendRequestFails \/ ReceiveFails
  <2>1. running' \in BOOLEAN /\ at_signal' \subseteq Pieces
    <3>1. CASE UNCHANGED <<running, at_signal>>
      BY <3>1 DEF TypeOK
    <3> QED BY <1>10, <3>1, SendFailsTyped DEF SendRequestFails, ReceiveFails
  <2>2. line' \in {"up", "closed", "reset", "broken"}
    BY <1>10 DEF SendRequestFails, ReceiveFails, AfterError, TypeOK
  <2>3. GiveUpPiece /\ UNCHANGED <<wire, asked>> /\ pc \in {"block", "receive"}
    BY <1>10 DEF SendRequestFails, ReceiveFails
  <2> QED BY <2>1, <2>2, <2>3, NextPieceTyped DEF TypeOK
<1>11. CASE peer_receive_block
  <2> USE <1>11 DEF peer_receive_block
  <2>1. CASE WantedBlock(wire) /\ pc' = "block"
    <3>1. InPlace(wire) \in Contents
      BY <2>1, MessageKinds DEF TypeOK, InPlace, WantedBlock, Contents
    <3>2. /\ buf' = [buf EXCEPT ![offset] = InPlace(wire)]
          /\ offset' = offset + 1
          /\ UNCHANGED <<running, peer_idx, sock, fds, choked, bitfield, i, result, at_signal>>
      BY <2>1 DEF GiveUpPiece, WantedBlock
    <3>3. buf' \in [BlocksOf(i) -> Contents]
      BY <3>1, <3>2 DEF TypeOK
    <3>4. offset' \in 0 .. Blocks[i]
      BY <3>2 DEF TypeOK
    <3> QED BY <2>1, <3>2, <3>3, <3>4 DEF TypeOK, result
  <2>2. CASE GiveUpPiece
    BY <2>2, NextPieceTyped DEF TypeOK
  <2>3. CASE UNCHANGED <<running, pc, client, result, at_signal>>
    BY <2>3 DEF TypeOK, client, result
  <2> QED BY <2>1, <2>2, <2>3
<1>12. CASE FinishPiece
  <2> USE <1>12 DEF FinishPiece
  <2>1. CASE verify_piece(buf)
    <3>1. [piece |-> i, data |-> buf] \in Delivery
      BY DEF TypeOK, Delivery
    <3>2. out' \in Seq(Delivery)
      <4>1. out \in Seq(Delivery)
        BY DEF TypeOK
      <4>2. out' = Append(out, [piece |-> i, data |-> buf])
        BY <2>1 DEF AcceptPiece
      <4> HIDE DEF FinishPiece
      <4> QED BY <3>1, <4>1, <4>2
    <3>3. pieces_done' \subseteq Pieces /\ pieces_left' \in Int
      BY <2>1 DEF AcceptPiece, TypeOK
    <3>4. i' \in 0 .. NumPieces
      BY DEF TypeOK, Pieces
    <3> QED BY <3>2, <3>3, <3>4 DEF TypeOK, network
  <2>2. CASE ~verify_piece(buf)
    <3>1. i' \in 0 .. NumPieces
      BY DEF TypeOK, Pieces
    <3> QED BY <2>2, <3>1 DEF TypeOK, network, result
  <2> QED BY <2>1, <2>2
<1>13. CASE Return
  BY <1>13 DEF Return, TypeOK, client, result, network
<1>14. CASE signal_handler
  BY <1>14, ZenonT(60) DEF signal_handler, TypeOK, client, result, network
<1>15. CASE Terminated \/ UNCHANGED vars
  BY <1>15 DEF Terminated, TypeOK, vars, client, result, network
<1>16. CASE PeerDrops
  BY <1>16 DEF PeerDrops, TypeOK, client, result
<1> QED
  BY <1>1, <1>2, <1>3, <1>4, <1>5, <1>6, <1>7, <1>8, <1>9, <1>10, <1>11, <1>12,
     <1>13, <1>14, <1>15, <1>16, <1>17, <1>18 DEF Next, Client

(* No loop variable of download_pieces leaves its range, and no request is *)
(* outstanding for a block that does not exist, whatever the peers send.   *)
THEOREM TypesHold == Spec => []TypeOK
BY TypedInit, TypedStep, PTL DEF Spec

-----------------------------------------------------------------------------
(* The bookkeeping.  While a piece is under way it is one that is missing: *)
(* the test at the top of the loop over pieces still holds when the piece  *)
(* is handed over, because nothing in between marks a piece.               *)
UnderWay == pc \in {"block", "receive"} => i \notin pieces_done
Delivered == \A k \in DOMAIN out : verify_piece(out[k].data)

BInv == TypeOK /\ UnderWay /\ BookkeepingAgrees /\ Delivered

(* A step that hands nothing over: everything but FinishPiece.             *)
LEMMA NothingDelivered ==
  ASSUME BInv, TypeOK', UNCHANGED result,
         pc' \in {"block", "receive"} =>
           \/ pc \in {"block", "receive"} /\ i' = i
           \/ i' \notin pieces_done
  PROVE  BInv'
BY DEF BInv, UnderWay, BookkeepingAgrees, Delivered, result, verify_piece

(* Every step is a delivery of a verified missing piece, the return, or    *)
(* leaves the result alone.                                                *)
LEMMA StepKinds ==
  ASSUME BInv, [Next]_vars
  PROVE  \/ FinishPiece /\ verify_piece(buf) /\ AcceptPiece
         \/ Return
         \/ /\ UNCHANGED result
            /\ (pc # "returned" /\ pc' # "returned") \/ pc' = pc
            /\ pc' \in {"block", "receive"} =>
                 \/ pc \in {"block", "receive"} /\ i' = i
                 \/ i' \notin pieces_done
<1>1. CASE NextPeer /\ pc # "returned" /\ UNCHANGED result
  BY <1>1 DEF NextPeer
<1>8. CASE \/ OpenFails \/ ConnectFails \/ HandshakeFails \/ InterestedFails
           \/ UnchokeFails \/ EndOfPieces
  BY <1>1, <1>8 DEF OpenFails, ConnectFails, HandshakeFails, InterestedFails, UnchokeFails,
     EndOfPieces
<1>2. CASE OpenSocket \/ Connect \/ peer_handshake \/ peer_send_interested
  BY <1>2 DEF OpenSocket, Connect, peer_handshake, peer_send_interested
<1>3. CASE peer_wait_for_unchoke
  BY <1>3 DEF peer_wait_for_unchoke
<1>4. CASE SkipPiece \/ StartPiece \/ peer_send_request
  BY <1>4 DEF SkipPiece, StartPiece, peer_send_request, client
<1>5. CASE SendRequestFails \/ ReceiveFails \/ peer_receive_block
  BY <1>5 DEF SendRequestFails, ReceiveFails, peer_receive_block, GiveUpPiece, client
<1>6. CASE FinishPiece
  BY <1>6 DEF FinishPiece
<1>7. CASE PeerSends \/ PeerDrops \/ signal_handler \/ Terminated \/ UNCHANGED vars
  BY <1>7 DEF PeerSends, PeerDrops, signal_handler, Terminated, vars, client
<1> QED BY <1>2, <1>3, <1>4, <1>5, <1>6, <1>7, <1>8 DEF Next, Client

(* Marking, counting and writing one missing piece keeps the three books.  *)
LEMMA DeliveryKeepsBooks ==
  ASSUME BInv, TypeOK', FinishPiece, verify_piece(buf), AcceptPiece
  PROVE  BInv'
<1> DEFINE d == [piece |-> i, data |-> buf]
<1>1. i \in Pieces /\ i \notin pieces_done /\ out \in Seq(Delivery) /\ d \in Delivery
  BY DEF BInv, TypeOK, UnderWay, FinishPiece, Delivery
<1>2. /\ out' = Append(out, d)
      /\ pieces_done' = pieces_done \cup {i}
      /\ pieces_left' = pieces_left - 1
      /\ pc' = "pieces"
  BY DEF AcceptPiece, FinishPiece
<1> HIDE DEF d
<1>3. /\ DOMAIN out' = DOMAIN out \cup {Len(out) + 1}
      /\ Len(out) + 1 \notin DOMAIN out
      /\ \A k \in DOMAIN out : out'[k] = out[k]
      /\ out'[Len(out) + 1] = d
  BY <1>1, <1>2
<1>4. d.piece = i /\ d.data = buf
  BY DEF d
<1>5. IsFiniteSet(pieces_done)
  <2>1. IsFiniteSet(Pieces)
    BY ParametersAssumption, FS_Interval DEF Pieces
  <2> QED BY <2>1, FS_Subset DEF BInv, TypeOK
<1>6. Cardinality(pieces_done') = Cardinality(pieces_done) + 1
  BY <1>1, <1>2, <1>5, FS_AddElement
<1>7. pieces_left' = NumPieces - Cardinality(pieces_done')
  <2>1. pieces_left = NumPieces - Cardinality(pieces_done)
    BY DEF BInv, BookkeepingAgrees
  <2>2. Cardinality(pieces_done) \in Nat
    BY <1>5, FS_CardinalityType
  <2> QED BY <1>2, <1>6, <2>1, <2>2, ParametersAssumption
<1>8. pieces_done' = {out'[k].piece : k \in DOMAIN out'}
  BY <1>1, <1>2, <1>3, <1>4 DEF BInv, BookkeepingAgrees
<1>9. \A j, k \in DOMAIN out' : out'[j].piece = out'[k].piece => j = k
  BY <1>1, <1>3, <1>4 DEF BInv, BookkeepingAgrees
<1>10. Delivered'
  BY <1>1, <1>3, <1>4 DEF BInv, Delivered, verify_piece
<1>11. UnderWay'
  BY <1>2 DEF UnderWay
<1> QED BY <1>7, <1>8, <1>9, <1>10, <1>11 DEF BInv, BookkeepingAgrees

LEMMA BInvInit == Init => BInv
<1> SUFFICES ASSUME Init PROVE BInv
  OBVIOUS
<1>1. Cardinality({}) = 0
  BY FS_EmptySet
<1>2. TypeOK
  BY TypedInit
<1> QED BY <1>1, <1>2, ParametersAssumption
        DEF Init, BInv, UnderWay, BookkeepingAgrees, Delivered

LEMMA BInvStep == BInv /\ [Next]_vars => BInv'
<1> SUFFICES ASSUME BInv, [Next]_vars PROVE BInv'
  OBVIOUS
<1>1. TypeOK'
  BY TypedStep DEF BInv
<1>2. CASE FinishPiece /\ verify_piece(buf) /\ AcceptPiece
  BY <1>1, <1>2, DeliveryKeepsBooks
<1>3. CASE Return
  BY <1>1, <1>3, NothingDelivered DEF Return
<1> QED BY <1>1, <1>2, <1>3, NothingDelivered, StepKinds

LEMMA BInvHolds == Spec => []BInv
BY BInvInit, BInvStep, PTL DEF Spec

(* The bitmap, the counter and the output agree: no piece is written       *)
(* twice, none is marked without being written, none is miscounted.        *)
THEOREM BookkeepingHolds == Spec => []BookkeepingAgrees
<1>1. BInv => BookkeepingAgrees
  BY DEF BInv
<1> QED BY <1>1, BInvHolds, PTL

(* Only contents that match the torrent reach the output, whatever the     *)
(* peers send and whenever the signal comes.                               *)
THEOREM OutputVerifiedHolds == Spec => []OutputVerified
<1>1. BInv => OutputVerified
  BY DEF BInv, Delivered, OutputVerified, verify_piece
<1> QED BY <1>1, BInvHolds, PTL

-----------------------------------------------------------------------------
(* The refinement.                                                         *)
LEMMA StoreInit == Init => Store!Init
BY DEF Init, Store!Init

LEMMA StoreStep ==
  ASSUME BInv, BInv', [Next]_vars
  PROVE  [Store!Next]_Store!vars
<1>1. CASE FinishPiece /\ verify_piece(buf) /\ AcceptPiece
  <2> DEFINE d == [piece |-> i, data |-> buf]
             intact(x) == \A b \in DOMAIN x.data : x.data[b] = "good"
             seen(x) == [piece |-> x.piece, intact |-> intact(x)]
             new == [piece |-> i, intact |-> TRUE]
  <2>1. i \in Pieces /\ i \notin pieces_done /\ out \in Seq(Delivery) /\ d \in Delivery
    BY <1>1 DEF BInv, TypeOK, UnderWay, FinishPiece, Delivery
  <2>2. out' = Append(out, d)
    BY <1>1 DEF AcceptPiece
  <2>3. seen(d) = new
    <3>1. intact(d)
      BY <1>1 DEF verify_piece
    <3> QED BY <3>1, Zenon
  <2> HIDE DEF d, seen, new
  <2>4. /\ DOMAIN out' = 1 .. Len(out) + 1
        /\ \A k \in 1 .. Len(out) : out'[k] = out[k]
        /\ out'[Len(out) + 1] = d
    BY <2>1, <2>2
  <2>5. [k \in DOMAIN out' |-> seen(out'[k])] = Append([k \in DOMAIN out |-> seen(out[k])], new)
    <3> DEFINE mapped == [k \in 1 .. Len(out) |-> seen(out[k])]
    <3>1. DOMAIN out = 1 .. Len(out) /\ Len(out) \in Nat
      BY <2>1
    <3>2. mapped \in Seq({seen(out[k]) : k \in 1 .. Len(out)}) /\ Len(mapped) = Len(out)
      BY <3>1
    <3>3. Append(mapped, new) =
            [k \in 1 .. Len(out) + 1 |-> IF k = Len(out) + 1 THEN new ELSE mapped[k]]
      BY <3>1, <3>2
    <3>4. \A k \in 1 .. Len(out) + 1 :
            seen(out'[k]) = IF k = Len(out) + 1 THEN new ELSE mapped[k]
      BY <2>3, <2>4, <3>1
    <3> QED BY <2>4, <3>1, <3>3, <3>4
  <2>6. /\ pc # "returned" /\ pc' # "returned"
        /\ pieces_done' = pieces_done \cup {i}
        /\ pieces_left' = pieces_left - 1
    BY <1>1 DEF AcceptPiece, FinishPiece
  <2>7. PICK p \in Pieces : p = i
    BY <2>1
  <2>8. Store!Deliver(p)
    BY <2>1, <2>5, <2>6, <2>7, Zenon DEF Store!Deliver, seen, new
  <2> QED BY <2>8 DEF Store!Next, Pieces
<1>2. CASE Return
  BY <1>2 DEF Return, Store!Next, Store!Stop, result
<1>3. CASE UNCHANGED result /\ ((pc # "returned" /\ pc' # "returned") \/ pc' = pc)
  BY <1>3 DEF result, Store!vars
<1> QED BY <1>1, <1>2, <1>3, StepKinds

(* download_pieces implements the abstract download: whole intact pieces,  *)
(* once each, in any order, until it returns the number of missing ones.   *)
THEOREM ImplementsStoreHolds == Spec => ImplementsStore
<1>1. Init => Store!Init
  BY StoreInit
<1>2. BInv /\ BInv' /\ [Next]_vars => [Store!Next]_Store!vars
  BY StoreStep
<1> QED BY <1>1, <1>2, BInvHolds, PTL DEF Spec, Store!Spec, ImplementsStore

-----------------------------------------------------------------------------
(* The signal.  What was done when it came, and what is done since.        *)
SInv ==
  ~running =>
    /\ pc \in {"block", "receive"} => pieces_done \subseteq at_signal
    /\ \E p \in 0 .. NumPieces : pieces_done \subseteq at_signal \cup {p}

LEMMA SInvStep == ASSUME BInv, SInv, [Next]_vars PROVE SInv'
<1>1. CASE FinishPiece
  <2>1. /\ UNCHANGED <<running, at_signal>> /\ pc' = "pieces"
        /\ pieces_done' = pieces_done \/ pieces_done' = pieces_done \cup {i}
        /\ i \in Pieces
        /\ pc = "block"
    BY <1>1 DEF FinishPiece, AcceptPiece, result, BInv, TypeOK
  <2>2. i \in 0 .. NumPieces
    BY <2>1, ParametersAssumption DEF Pieces
  <2> QED BY <2>1, <2>2 DEF SInv
<1>2. CASE signal_handler
  <2>1. 0 \in 0 .. NumPieces
    BY ParametersAssumption
  <2> QED BY <1>2, <2>1 DEF signal_handler, SInv, client, result
<1>3. CASE UNCHANGED <<running, at_signal, pieces_done>> /\
           (pc' \in {"block", "receive"} /\ ~running => pc \in {"block", "receive"})
  BY <1>3 DEF SInv
<1>8. CASE UNCHANGED pieces_done /\ SendFails /\ pc' \in {"next_peer", "pieces"}
  <2>1. CASE line = "broken" /\ running
    <3>1. at_signal' = pieces_done' /\ pc' \notin {"block", "receive"}
      BY <1>8, <2>1 DEF SendFails
    <3>2. 0 \in 0 .. NumPieces
      BY ParametersAssumption
    <3> QED BY <3>1, <3>2 DEF SInv
  <2>2. CASE line # "broken"
    BY <1>3, <1>8, <2>2 DEF SendFails
  <2>3. CASE line = "broken" /\ ~running
    BY <1>8, <2>3 DEF SendFails, SInv
  <2> QED BY <2>1, <2>2, <2>3
<1>4. CASE \/ OpenSocket \/ OpenFails \/ Connect \/ ConnectFails \/ UnchokeFails
           \/ EndOfPieces \/ peer_wait_for_unchoke
  BY <1>3, <1>4 DEF OpenSocket, OpenFails, Connect, ConnectFails, UnchokeFails, EndOfPieces,
     peer_wait_for_unchoke, NextPeer, result
<1>5. CASE SkipPiece \/ StartPiece \/ peer_send_request
  BY <1>3, <1>5 DEF SkipPiece, StartPiece, peer_send_request, MorePieces, result
<1>6. CASE ReceiveFails \/ peer_receive_block
  BY <1>3, <1>6 DEF ReceiveFails, peer_receive_block, GiveUpPiece, result
<1>7. CASE PeerSends \/ PeerDrops \/ Return \/ Terminated \/ UNCHANGED vars
  BY <1>3, <1>7 DEF PeerSends, PeerDrops, Return, Terminated, vars, result
<1>9. CASE HandshakeFails \/ InterestedFails \/ SendRequestFails
  BY <1>8, <1>9 DEF HandshakeFails, InterestedFails, SendRequestFails, GiveUpPiece, NextPeer,
     result
<1>10. CASE peer_handshake \/ peer_send_interested
  BY <1>3, <1>10 DEF peer_handshake, peer_send_interested, result
<1> QED BY <1>1, <1>2, <1>4, <1>5, <1>6, <1>7, <1>9, <1>10 DEF Next, Client

(* After the signal at most the piece under way still reaches the output:  *)
(* every loop of download_pieces tests `running' before it starts one.     *)
THEOREM AtMostOneHolds == Spec => []AtMostOneAfterSignal
<1>1. Init => SInv
  BY DEF Init, SInv
<1>2. BInv /\ SInv /\ [Next]_vars => SInv'
  BY SInvStep
<1>3. SInv => AtMostOneAfterSignal
  <2> SUFFICES ASSUME SInv, ~running PROVE Cardinality(pieces_done \ at_signal) <= 1
    BY DEF AtMostOneAfterSignal
  <2>1. PICK p : pieces_done \ at_signal \subseteq {p}
    BY DEF SInv
  <2>2. IsFiniteSet({p}) /\ Cardinality({p}) = 1
    BY FS_Singleton
  <2> QED BY <2>1, <2>2, FS_Subset
<1> QED BY <1>1, <1>2, <1>3, BInvHolds, PTL DEF Spec

-----------------------------------------------------------------------------
(* An honest peer never has a wrong block on the wire.                     *)
HInv ==
  peer_idx \in Honest =>
    /\ wire # NoMsg /\ wire.t = "piece" => wire.data = "good"
    /\ pc \in {"block", "receive"} => \A b \in 0 .. offset - 1 : buf[b] = "good"

LEMMA HInvStep == ASSUME TypeOK, HInv, [Next]_vars PROVE HInv'
<1>1. CASE NextPeer
  BY <1>1 DEF NextPeer, HInv
<1>2. CASE OpenSocket \/ Connect \/ SkipPiece \/ peer_send_request \/ FinishPiece \/ Return
  BY <1>2 DEF OpenSocket, Connect, SkipPiece, peer_send_request, FinishPiece, Return, HInv,
     client, network
<1>3. CASE UNCHANGED <<client, wire>>
           /\ (pc' \in {"block", "receive"} => pc \in {"block", "receive"})
  BY <1>3 DEF HInv, client
<1>4. CASE \/ OpenFails \/ ConnectFails \/ HandshakeFails \/ InterestedFails
           \/ UnchokeFails \/ EndOfPieces
  BY <1>1, <1>4 DEF OpenFails, ConnectFails, HandshakeFails, InterestedFails, UnchokeFails,
     EndOfPieces
<1>5. CASE peer_handshake \/ peer_send_interested
  BY <1>3, <1>5 DEF peer_handshake, peer_send_interested, network
<1>6. CASE peer_wait_for_unchoke
  BY <1>6 DEF peer_wait_for_unchoke, HInv
<1>7. CASE StartPiece
  BY <1>7 DEF StartPiece, HInv, network
<1>8. CASE SendRequestFails \/ ReceiveFails
  BY <1>8 DEF SendRequestFails, ReceiveFails, GiveUpPiece, HInv, network
<1>9. CASE PeerSends
  <2> SUFFICES ASSUME peer_idx \in Honest, wire'.t = "piece" PROVE wire'.data = "good"
    BY <1>9 DEF PeerSends, HInv, client
  <2>1. wire' \in HonestMessages
    BY <1>9 DEF PeerSends
  <2>2. pc # "wait_unchoke"
    BY <2>1 DEF HonestMessages
  <2> QED BY <2>1, <2>2 DEF HonestMessages
<1>10. CASE peer_receive_block
  <2> SUFFICES ASSUME peer_idx \in Honest, pc' \in {"block", "receive"}
               PROVE  \A b \in 0 .. offset' - 1 : buf'[b] = "good"
    BY <1>10 DEF peer_receive_block, HInv, GiveUpPiece, client
  <2>1. CASE WantedBlock(wire) /\ pc' = "block"
    <3>1. wire.data = "good" /\ InPlace(wire) = "good"
      BY <1>10, <2>1 DEF peer_receive_block, HInv, WantedBlock, InPlace
    <3>2. /\ buf' = [buf EXCEPT ![offset] = "good"] /\ offset' = offset + 1
          /\ pc = "receive"
      BY <1>10, <2>1, <3>1 DEF peer_receive_block, GiveUpPiece, WantedBlock
    <3>3. /\ offset \in Nat /\ i \in Pieces /\ offset < Blocks[i]
          /\ buf \in [BlocksOf(i) -> Contents]
      BY <3>2 DEF TypeOK
    <3> QED BY <3>2, <3>3, ParametersAssumption DEF HInv, BlocksOf
  <2>2. CASE UNCHANGED <<pc, client>>
    BY <1>10, <2>2 DEF peer_receive_block, HInv, client
  <2> QED BY <1>10, <2>1, <2>2 DEF peer_receive_block, GiveUpPiece
<1>11. CASE PeerDrops \/ signal_handler \/ Terminated \/ UNCHANGED vars
  BY <1>3, <1>11 DEF PeerDrops, signal_handler, Terminated, vars, network
<1> QED BY <1>2, <1>4, <1>5, <1>6, <1>7, <1>8, <1>9, <1>10, <1>11 DEF Next, Client

(* A late answer of an honest peer is never taken for another block.       *)
THEOREM HonestBlocksHold == Spec => []HonestBlocksGood
<1>1. Init => HInv
  BY DEF Init, HInv
<1>2. TypeOK /\ HInv /\ [Next]_vars => HInv'
  BY HInvStep
<1>3. HInv => HonestBlocksGood
  BY DEF HInv, HonestBlocksGood
<1> QED BY <1>1, <1>2, <1>3, TypesHold, PTL DEF Spec
=============================================================================
