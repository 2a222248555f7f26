---------------------------- MODULE MCConvKernel ----------------------------
(* Small launches of ConvKernel for TLC; the .cfg files give the shapes.   *)
(* All of them are launches that the theorems are about.                   *)
EXTENDS ConvKernel

ASSUME LaunchShape == BlockXPowerOfTwo /\ PositionsFit
=============================================================================
