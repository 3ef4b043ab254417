CONSTANTS
  NumPieces = 3
  Blocks <- BlocksMixed
  PeerCount = 1
  BitsPerByte = 2
  MaxSockets = 2
  Bitfields <- MCBitfields
  Honest = {}
  Seeds = {}
  NoBitfield = NoBitfield
  NoMsg = NoMsg
SPECIFICATION Spec
PROPERTY PeerCannotStop
