----------------------------- MODULE MCCpuConv -----------------------------
(* A small instance of CpuConv for TLC; the .cfg file gives the shape.     *)
EXTENDS CpuConv

=============================================================================
