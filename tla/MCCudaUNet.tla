----------------------------- MODULE MCCudaUNet -----------------------------
(* The CUDA pipeline on the rt_hdr network, for TLC.                       *)
EXTENDS CudaUNet, RtHdr

MCSupportedInC == {3, 9, 16, 32, 48, 64, 67, 73, 80, 96, 112, 128, 160}
MCOneImage == {<<17, 5>>}
MCImages == {<<1, 1>>, <<16, 16>>, <<17, 5>>, <<17, 16>>, <<33, 48>>}

(* rt_hdr is a network that the theorems are about, if it is given the     *)
(* image it was trained for; rt_hdr_alb_nrm is given another.              *)
ASSUME RtHdrFits == /\ UNet /\ OutputFits /\ WidthsSupported
                    /\ Encoder[0].in[1] = ImageChannels => WidthsAddUp
=============================================================================
