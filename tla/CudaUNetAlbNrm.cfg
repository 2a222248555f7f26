\* The three channels that main loads, given to rt_hdr_alb_nrm.
CONSTANTS
  Encoder <- AlbNrmEncoder
  Decoder <- AlbNrmDecoder
  ImageChannels = 3
  ImageSizes <- MCOneImage
  SupportedInC <- MCSupportedInC
  NoOutput = NoOutput
SPECIFICATION Spec
INVARIANT ChannelsAgree
