CONSTANTS
  NumPieces = 3
  Blocks <- BlocksMixed
  PeerCount = 4
  BitsPerByte = 2
  MaxSockets = 2
  Bitfields <- MCBitfields
  Honest = {2, 4}
  Seeds = {4}
  NoBitfield = NoBitfield
  NoMsg = NoMsg
SPECIFICATION FairSpec
INVARIANTS TypeOK BookkeepingAgrees NoSocketLeak HonestBlocksGood AtMostOneAfterSignal
PROPERTIES ImplementsStore SignalEnds SeedCompletes
