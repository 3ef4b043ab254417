CONSTANTS
  NumPieces = 3
  PieceTotal = 3
  PieceLength = 2
  FileLengths <- MCFiles
  TarBlock = 2
  StdioBuffer = 1
  MaxLost = 0
  LongPathSets <- MCLongPathSets
  IoFaults = TRUE
  Hole = Hole
  PeerCount = 2
  Honest = {}
  Seeds = {}
  Blocks <- OneBlock
  BitsPerByte = 2
  MaxSockets = 2
  Bitfields <- MCBitfields
  NoBitfield = NoBitfield
  NoMsg = NoMsg
SPECIFICATION OutputSpec
INVARIANT HeadersAligned
