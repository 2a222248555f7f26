\* Images of several sizes, from one pixel to one that is padded in both
\* directions, on a GPU that works and on one that may refuse any call and
\* fault in any operation.
CONSTANTS
  Encoder <- RtHdrEncoder
  Decoder <- RtHdrDecoder
  ImageChannels = 3
  ImageSizes <- MCImages
  SupportedInC <- MCSupportedInC
  NoOutput = NoOutput
SPECIFICATION Spec
INVARIANT TypeOK
INVARIANT NoUseAfterFree
INVARIANT NoSilentFailure
INVARIANT FitsInBuffers
INVARIANT ReleasesAll
INVARIANT ChannelsAgree
INVARIANT PoolsEven
PROPERTY ImplementsDenoise
PROPERTY Ends
PROPERTY Returns
