---------------------------- MODULE LayerLayout ----------------------------
(***************************************************************************)
(* struct Layer as the two compilers of the program lay it out.  The two   *)
(* vectors at its end exist only when __CUDACC__ is defined: CMakeLists    *)
(* gives model.cu and the CUDA pipeline to nvcc, cpu/unet.cpp and          *)
(* application.cpp to the C++ compiler.  createUNetModel fills             *)
(* vector<Layer> with the elements of nvcc; oidn_unet takes the same       *)
(* memory for elements of the other layout, and computes size() and        *)
(* operator[] with its size.                                               *)
(*                                                                         *)
(* Memory is an array of words of eight bytes.  A word holds the layer and *)
(* the field it was written for.                                           *)
(***************************************************************************)
EXTENDS Integers, Sequences

CONSTANTS
  NumLayers,    \* layers of this half of the model
  VectorWords   \* words of a std::vector: begin, end, end of storage

(* The four members that every compiler sees: num_convs and post_op share  *)
(* a word.                                                                 *)
Fields == <<"weight_idxs", "bias_idxs", "out_channels", "num_convs, post_op">>

HostWords == Len(Fields)
CudaWords == HostWords + 2 * VectorWords

VARIABLES
  words,    \* the storage of the vector, word by word
  built,    \* layers createUNetModel has written
  at,       \* layer_idx of oidn_unet's loop; -1 before the call
  seen      \* what the loop read, one tuple of words per turn

vars == <<words, built, at, seen>>

Written(l, f) == <<l, f>>
FieldAt(k) == IF k < HostWords THEN Fields[k + 1] ELSE "block_dims, conv_im2col_tile_ks"

(* One turn of the loop of createUNetModel.                                *)
WriteLayer ==
  /\ at = -1 /\ built < NumLayers
  /\ words' = words \o [k \in 1 .. CudaWords |-> Written(built, FieldAt(k - 1))]
  /\ built' = built + 1
  /\ UNCHANGED <<at, seen>>

Call ==
  /\ at = -1 /\ built = NumLayers
  /\ at' = 0
  /\ UNCHANGED <<words, built, seen>>

(* (end - begin) / sizeof(Layer) in the C++ translation unit.              *)
SizeOnHost == Len(words) \div HostWords

(* One turn of the loop of oidn_unet: the elements it reads.               *)
ReadLayer ==
  /\ at >= 0 /\ at < SizeOnHost
  /\ seen' = Append(seen, SubSeq(words, at * HostWords + 1, (at + 1) * HostWords))
  /\ at' = at + 1
  /\ UNCHANGED <<words, built>>

Done == at = SizeOnHost /\ UNCHANGED vars

Init == words = <<>> /\ built = 0 /\ at = -1 /\ seen = <<>>

Next == WriteLayer \/ Call \/ ReadLayer \/ Done

Spec == Init /\ [][Next]_vars

(* target=cpu is one of the two targets main offers: each turn of          *)
(* oidn_unet's loop over the layers reads the layer of its index, whole.   *)
CpuSeesModel ==
  \A i \in DOMAIN seen :
    seen[i] = [k \in 1 .. HostWords |-> Written(i - 1, Fields[k])]
=============================================================================
