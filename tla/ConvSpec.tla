------------------------------ MODULE ConvSpec ------------------------------
(***************************************************************************)
(* What a convolution promises its caller: output elements appear one or   *)
(* several at a time, in any order, each of them is stored once and with   *)
(* the convolution's value, and in the end all of them are there.  The     *)
(* CUDA kernel (ConvKernel) and the OpenMP loop nest (CpuConv) both        *)
(* implement this specification.                                           *)
(***************************************************************************)
EXTENDS Conv3x3

CONSTANT Unwritten   \* what an element holds before anyone stored to it

VARIABLE out         \* output position -> value

Positions == {OutIndex(e) : e \in Outputs}

Init == out = [p \in Positions |-> Unwritten]

(* Some elements that were still unwritten receive their value.            *)
StoreSome ==
  /\ out' # out
  /\ DOMAIN out' = Positions
  /\ \A e \in Outputs :
       LET p == OutIndex(e)
       IN \/ out'[p] = out[p]
          \/ out[p] = Unwritten /\ out'[p] = Convolved(e[1], e[2], e[3])

Spec == Init /\ [][StoreSome]_out

Complete == \A p \in Positions : out[p] # Unwritten

(* The convolution ends: every output element is eventually stored.        *)
Completes == <>Complete
=============================================================================
