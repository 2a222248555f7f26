\* Blocks of 2x2 pixels of one channel on a 3x2 image: tile A is the longer
\* one, the second block has threads outside the image, and the last of the
\* three tiles (9 = 2 * 4 + 1 terms) is partly padding.  A word counts exactly
\* the elements of the largest tensor.
CONSTANTS
  InH = 3
  InW = 2
  InC = 1
  OutC = 1
  BlockX = 2
  BlockY = 2
  BlockZ = 1
  TileK = 4
  LogTileK = 2
  Word = 9
SPECIFICATION Spec
INVARIANT TypeOK
INVARIANT NoRace
INVARIANT OperandsFresh
INVARIANT IInv
PROPERTY ComputesConvolution
PROPERTY LaunchCompletes
