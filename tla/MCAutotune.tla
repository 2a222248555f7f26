----------------------------- MODULE MCAutotune -----------------------------
(* The tuner for TLC: a network built like rt_hdr, with fewer layers, and  *)
(* candidates on both sides of what the device can run at all.             *)
EXTENDS Autotune, RtHdr

MCEncoder == ZeroBased(<<
  Layer(<<3>>,      <<32>>,     "NONE",        -1),
  Layer(<<32>>,     <<48>>,     "MAX_POOL",    -1),
  Layer(<<48>>,     <<64>>,     "MAX_POOL",    -1),
  Layer(<<64, 80>>, <<80, 80>>, "NN_UPSAMPLE", -1)>>)

MCDecoder == ZeroBased(<<
  Layer(<<128>>, <<64>>, "NN_UPSAMPLE", 1),
  Layer(<<67>>,  <<3>>,  "NONE",        0)>>)

MCSupportedInC == {3, 9, 16, 32, 48, 64, 67, 73, 80, 96, 112, 128, 160}
MCImages == {<<17, 16>>}

(* Some of the program's own candidates.  16x16x2 and 16x16x4 take the     *)
(* opt-in, so that the convolutions may differ in their fastest block.     *)
(* 16x32x2 and 32x16x2 have no room for their tiles; the other             *)
(* combinations have too many threads.                                     *)
MCXy == <<16, 32>>
MCZ == <<2, 4>>
MCTiles == <<64>>

(* This network is one that the theorems are about: one that the CUDA      *)
(* pipeline is written for.  Of that pipeline only constants are used.     *)
Cuda == INSTANCE CudaUNet WITH
  NoOutput <- <<>>, sizes <- <<>>, layer <- <<>>, conv <- 0, bufs <- <<>>, lastError <- FALSE,
  outputImg <- <<>>, queue <- <<>>, mem <- <<>>, saved <- {}, fault <- FALSE, allocated <- {}
ASSUME SmallDeviceFits == CandidatesAreNumbers /\ DeviceFits
ASSUME SmallNetworkFits == Cuda!UNet /\ WidthsAddUp /\ Cuda!WidthsSupported
=============================================================================
