------------------------------- MODULE RtHdr -------------------------------
(***************************************************************************)
(* The network that model_spec.h describes for rt_hdr: the order of its    *)
(* layers and what follows them, with the channels of the published        *)
(* weights (weights/rt_hdr.tza) and the skip connections these add up to.  *)
(***************************************************************************)
EXTENDS Integers, Sequences

Layer(in, out, post, skip) == [in |-> in, out |-> out, post |-> post, skip |-> skip]

ZeroBased(s) == [i \in 0 .. Len(s) - 1 |-> s[i + 1]]

RtHdrEncoder == ZeroBased(<<
  Layer(<<3>>,      <<32>>,     "NONE",        -1),
  Layer(<<32>>,     <<32>>,     "MAX_POOL",    -1),
  Layer(<<32>>,     <<48>>,     "MAX_POOL",    -1),
  Layer(<<48>>,     <<64>>,     "MAX_POOL",    -1),
  Layer(<<64>>,     <<80>>,     "MAX_POOL",    -1),
  Layer(<<80, 96>>, <<96, 96>>, "NN_UPSAMPLE", -1)>>)

RtHdrDecoder == ZeroBased(<<
  Layer(<<160, 112>>, <<112, 112>>, "NN_UPSAMPLE",  3),
  Layer(<<160, 96>>,  <<96, 96>>,   "NN_UPSAMPLE",  2),
  Layer(<<128, 64>>,  <<64, 64>>,   "NN_UPSAMPLE",  1),
  Layer(<<67, 64>>,   <<64, 32>>,   "NONE",         0),
  Layer(<<32>>,       <<3>>,        "NONE",        -1)>>)

(* rt_hdr_alb_nrm has the same layers, but its image has an albedo and a   *)
(* normal besides the color: nine channels into the first layer, and       *)
(* 64 + 9 where the image itself is appended.                              *)
AlbNrmEncoder == [RtHdrEncoder EXCEPT ![0].in = <<9>>]
AlbNrmDecoder == [RtHdrDecoder EXCEPT ![3].in = <<73, 64>>]
=============================================================================
