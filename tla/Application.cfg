\* Command lines of up to five arguments, any step failing.  The model names are
\* one that the program knows, one that only has a weights file and one without.
CONSTANTS
  Encoder <- RtHdrEncoder
  Decoder <- RtHdrDecoder
  ImageChannels = 3
  ImageSizes <- MCImages
  CommandLines <- MCLines
  Disk <- MCDisk
  WeightsFiles = {"rt_hdr", "rt_ldr"}
  KnownNames = {"rt_hdr"}
  NoOutput = NoOutput
  Truncated = Truncated
SPECIFICATION Spec
INVARIANT SavesDenoised
INVARIANT FailsCleanly
