----------------------------- MODULE MCCpuUNet -----------------------------
(* The CPU pipeline on the rt_hdr network, for TLC.                        *)
EXTENDS CpuUNet, RtHdr

MCImages == {<<1, 1>>, <<16, 16>>, <<17, 16>>, <<33, 48>>}

(* rt_hdr has the number of layers for which the literal start of skip_idx *)
(* is right; what else the theorems take for granted of it is evaluated    *)
(* with the CUDA pipeline.                                                 *)
ASSUME RtHdrHasSix == EncoderLayers = 6
=============================================================================
