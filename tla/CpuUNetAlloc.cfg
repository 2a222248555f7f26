\* Images of several sizes, any allocation may fail.
CONSTANTS
  Encoder <- RtHdrEncoder
  Decoder <- RtHdrDecoder
  ImageChannels = 3
  ImageSizes <- MCImages
  AllocFails = TRUE
  NoOutput = NoOutput
SPECIFICATION Spec
INVARIANT ChannelsAgree
INVARIANT SkipsMatch
PROPERTY ImplementsDenoise
