\* Seven convolutions, two blocks that an sm_89 device runs and others beyond its
\* limits, arbitrary times, and a device that works or where any call may fail.
CONSTANTS
  Encoder <- MCEncoder
  Decoder <- MCDecoder
  ImageChannels = 3
  ImageSizes <- MCImages
  XyVals <- MCXy
  ZVals <- MCZ
  Tiles <- MCTiles
  Times = {1, 2}
  Infinity = 9
  MaxThreads = 1024
  SharedDefault = 49152
  SharedOptin = 101376
  SupportedInC <- MCSupportedInC
SPECIFICATION Spec
INVARIANT TimesTheNetwork
INVARIANT PrintsEveryConvolution
INVARIANT BestOfTrials
PROPERTY Suggests
