\* The six encoder layers, with libstdc++'s vectors of three pointers.
CONSTANTS
  NumLayers = 6
  VectorWords = 3
SPECIFICATION Spec
INVARIANT CpuSeesModel
