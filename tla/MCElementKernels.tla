-------------------------- MODULE MCElementKernels --------------------------
(* Small calls of every operation on both back ends, for TLC.              *)
EXTENDS ElementKernels

Call(op, target, h, w, c, h0, w0, skip, block) ==
  [op |-> op, target |-> target, h |-> h, w |-> w, c |-> c, h0 |-> h0, w0 |-> w0,
   skip |-> skip, block |-> block]

Targets == {"cuda", "cpu"}

MCCalls ==
  {Call(op, target, h, w, 2, 1, 1, 1, <<1, 2, 2>>) :
     op \in Pools, target \in Targets, h \in {2, 3}, w \in {5, 6}}
  \cup {Call("nn_upsample", target, h, w, 2, 1, 1, 1, <<2, 4, 1>>) :
     target \in Targets, h \in {1}, w \in {1}}
  \cup {Call("nn_upsample", target, 1, 3, 1, 1, 1, 1, <<2, 2, 1>>) : target \in Targets}
  \cup {Call("transfer", target, 2, 3, 2, h0, w0, 1, <<2, 2, 2>>) :
     target \in {"cpu"}, h0 \in 1 .. 2, w0 \in 1 .. 3}
  \cup {Call("transfer", "cuda", 2, 2, 2, h0, w0, 1, <<2, 1, 3>>) : h0 \in 1 .. 2, w0 \in 1 .. 2}
  \cup {Call("inverse", target, 3, 4, c, 2, w0, 1, <<2, 2, 1>>) :
     target \in Targets, c \in 1 .. 2, w0 \in 1 .. 2}
  \cup {Call("concat", target, 2, 3, c, 1, 1, skip, <<4, 1, 1>>) :
     target \in Targets, c \in 1 .. 2, skip \in 1 .. 3}
=============================================================================
