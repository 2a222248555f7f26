\* A 3x3 image in 2x2 tiles: four tiles of three different sizes.  Two input
\* channels and five output channels with two floats per vector: the
\* transposition of the weights matters, and each pixel takes two vectors and a
\* tail.  The biases and the tiles are handed out in any order, the 18 turns of
\* the packing loop first to last.
CONSTANTS
  InH = 3
  InW = 3
  InC = 2
  OutC = 5
  Threads = {t1, t2}
  SimdWidth = 2
  TileH = 2
  TileW = 2
  Ordered = {"pack"}
SPECIFICATION Spec
INVARIANT TypeOK
INVARIANT DisjointWrites
PROPERTY ComputesConvolution
PROPERTY ConvReturns
