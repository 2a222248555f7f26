\* Blocks of one pixel and two channels, three channels in and out: tile B is
\* the longer one, the last block has a thread past the last channel, tiles of
\* 8 terms straddle filter cells, and four blocks run in any order.
\* A word counts exactly the elements of the largest tensor, the 81 weights.
CONSTANTS
  InH = 2
  InW = 1
  InC = 3
  OutC = 3
  BlockX = 1
  BlockY = 1
  BlockZ = 2
  TileK = 8
  LogTileK = 3
  Word = 81
SPECIFICATION Spec
PROPERTY ComputesConvolution
