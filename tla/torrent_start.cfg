CONSTANTS
  Files <- MCFiles
  Bodies <- MCBodies
  HashLen = 2
  PeerLen = 2
  U32 = 8
  U64 = 64
  PathMax = 8
  Alphabet = {"d", "l", "i", "e", ":", "0", "1", "-"}
  ShortLen = 5
SPECIFICATION Spec
INVARIANTS ReadAsSpelled InfoHashOfFile PiecesCover PeersRight CrashExplained
CHECK_DEADLOCK FALSE
