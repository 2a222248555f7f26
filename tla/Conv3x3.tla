------------------------------ MODULE Conv3x3 ------------------------------
(***************************************************************************)
(* The 3x3 convolution, stride 1, one pixel of zero padding, that both     *)
(* back ends compute, stated over coordinates and independently of how     *)
(* either of them walks the tensors.                                       *)
(*                                                                         *)
(* A tensor element is named by its position in memory: images are NHWC    *)
(* (n = 1), weights are KRSC, the layout createUNetModel stores.  A tap is *)
(* a pair <<input position, weight position>>: one product of the sum.     *)
(***************************************************************************)
EXTENDS Integers, FiniteSets

CONSTANTS
  InH,    \* height of the input, and of the output
  InW,    \* width
  InC,    \* channels of the input
  OutC    \* channels of the output

ASSUME ConvShape == InH \in Nat \ {0} /\ InW \in Nat \ {0}
                    /\ InC \in Nat \ {0} /\ OutC \in Nat \ {0}

Rows == 0 .. InH - 1
Cols == 0 .. InW - 1
InChannels == 0 .. InC - 1
OutChannels == 0 .. OutC - 1

(* Where an element of an NHWC image of C channels is stored.              *)
Nhwc(h, w, c, C) == (h * InW + w) * C + c

(* Where weight (o, c, fh, fw) of the OIHW tensor is stored.               *)
Krsc(o, fh, fw, c) == ((o * 3 + fh) * 3 + fw) * InC + c

Outputs == Rows \X Cols \X OutChannels

OutIndex(e) == Nhwc(e[1], e[2], e[3], OutC)

(* The products that make up output (h, w, o): filter cells that fall off  *)
(* the image contribute nothing.                                           *)
Taps(h, w, o) ==
  LET cells == {f \in (0 .. 2) \X (0 .. 2) \X InChannels :
                  h + f[1] - 1 \in Rows /\ w + f[2] - 1 \in Cols}
  IN {<<Nhwc(h + f[1] - 1, w + f[2] - 1, f[3], InC), Krsc(o, f[1], f[2], f[3])>> :
        f \in cells}

(* The value of an output element: its bias and every tap exactly once.    *)
Convolved(h, w, o) ==
  [bias |-> o, taps |-> Taps(h, w, o), terms |-> Cardinality(Taps(h, w, o))]
=============================================================================
