\* Two loads in a row and a dump, with failures at every step.
CONSTANTS
  ExrFiles <- MCFiles
  Requests <- MCRequests
  MaxLoads = 2
  Junk = Junk
SPECIFICATION Spec
INVARIANT LoadsRequest
INVARIANT PixelsInPlane
INVARIANT RoundTrip
