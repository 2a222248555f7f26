---------------------------- MODULE ModelBuilder ----------------------------
(***************************************************************************)
(* createUNetModel and freeUNetModel: the tensors of the weights file are  *)
(* copied, one after the other, into one buffer of halfs on the host or on *)
(* the device, convolution weights reordered from OIHW to KRSC on the way, *)
(* and the layers keep the offsets.                                        *)
(*                                                                         *)
(* A network is [layers, offset]: for each layer the names of its tensors, *)
(* a weight and a bias per convolution, and the number of encoder layers.  *)
(* file is what loadTza returned, as find sees it: a function from names   *)
(* to tensors.  The value of a half is the element it is of the tensor's   *)
(* data: <<data, number>>; the halfs of 32-bit floats are <<data, number,  *)
(* which half>>.                                                           *)
(***************************************************************************)
EXTENDS Integers, Sequences

CONSTANTS
  Networks,   \* what get_model_spec may describe
  Junk        \* what memory holds before it is written

VARIABLES
  net, file, cuda,   \* the arguments
  pc,
  layer, conv,       \* i and j; layers count from 0
  offset,
  buffer,            \* model.weights
  layers,            \* the layers built, encoder and decoder in one list
  live               \* what is allocated: <<what, "host" or "device">>

vars == <<net, file, cuda, pc, layer, conv, offset, buffer, layers, live>>

Names == net.layers[layer + 1]
Tensor(name) == file[name]
Found(name) == name \in DOMAIN file

Product(dims) ==
  LET upTo[i \in 0 .. Len(dims)] == IF i = 0 THEN 1 ELSE upTo[i - 1] * dims[i]
  IN upTo[Len(dims)]
ElementCount(name) == Product(Tensor(name).dims)

(* The data of a tensor, taken as halfs.                                   *)
Half(name, n) ==
  IF Tensor(name).type = "h" THEN <<Tensor(name).data, n>>
  ELSE <<Tensor(name).data, n \div 2, n % 2>>

(* What reorder_oihw_to_krsc stores at position d.                         *)
Reordered_Kcrs(name, d) == Half(name, d)
Reordered(name, d) ==
  LET C == Tensor(name).dims[2]
      R == Tensor(name).dims[3]
      S == Tensor(name).dims[4]
      c == d % C
      s == (d \div C) % S
      r == (d \div (C * S)) % R
      k == d \div (C * S * R)
  IN Half(name, ((k * C + c) * R + r) * S + s)

(* Tensor idx of a layer, on its way into the buffer: the weights are at   *)
(* the even places, and a weight of four dimensions is reordered; a bias   *)
(* is copied as it is.                                                     *)
Copied(name, idx) ==
  [d \in 0 .. ElementCount(name) - 1 |->
     IF idx % 2 = 0 /\ Len(Tensor(name).dims) = 4 THEN Reordered(name, d) ELSE Half(name, d)]

Upload(name, idx, at) ==
  buffer' = [p \in DOMAIN buffer |->
               IF p - at \in DOMAIN Copied(name, idx) THEN Copied(name, idx)[p - at] ELSE buffer[p]]

-----------------------------------------------------------------------------
(* createUNetModel.  With the model on the device, CUDA_ERR may end the    *)
(* process at any call.                                                    *)

Exit ==
  /\ cuda
  /\ pc' = "exited"
  /\ UNCHANGED <<net, file, cuda, layer, conv, offset, buffer, layers, live>>

(* The sums of the first terms of f: element i is that of i of them.       *)
Sums(f) ==
  LET upTo[i \in 0 .. Len(f)] == IF i = 0 THEN 0 ELSE upTo[i - 1] + f[i]
  IN upTo

Counts(names) == [j \in DOMAIN names |-> ElementCount(names[j])]
Elements(names) == Sums(Counts(names))[Len(names)]

TotalElements_NoBias ==
  Sums([i \in DOMAIN net.layers |-> ElementCount(net.layers[i][1])])[Len(net.layers)]
TotalElements ==
  Sums([i \in DOMAIN net.layers |-> Elements(net.layers[i])])[Len(net.layers)]

(* Adding up the sizes dereferences what find returned for every tensor.   *)
CreateBuffer ==
  /\ pc = "create"
  /\ \/ /\ \A i \in DOMAIN net.layers : \A j \in DOMAIN net.layers[i] : Found(net.layers[i][j])
        /\ buffer' = [p \in 0 .. TotalElements - 1 |-> Junk]
        /\ live' = {<<<<"TensorData">>, "host">>, <<<<"weights">>, IF cuda THEN "device" ELSE "host">>}
        /\ pc' = "layer"
        /\ UNCHANGED <<net, file, cuda, layer, conv, offset, layers>>
     \/ /\ \E i \in DOMAIN net.layers : \E j \in DOMAIN net.layers[i] : ~Found(net.layers[i][j])
        /\ pc' = "crashed"
        /\ UNCHANGED <<net, file, cuda, layer, conv, offset, buffer, layers, live>>
     \/ Exit

(* The place of the layer in encoder_layers or decoder_layers.             *)
Place == IF layer - net.offset >= 0 THEN <<"decoder", layer - net.offset>> ELSE <<"encoder", layer>>

Arrays(place) ==
  {<<place \o <<array>>, "host">> : array \in {"weight_idxs", "bias_idxs", "out_channels"}}

StartLayer ==
  /\ pc = "layer" /\ layer < Len(net.layers)
  /\ layers' = [p \in DOMAIN layers \cup {Place} |->
                  IF p = Place
                  THEN [weightIdxs |-> <<>>, biasIdxs |-> <<>>, outChannels |-> <<>>, blocks |-> <<>>]
                  ELSE layers[p]]
  /\ live' = live \cup Arrays(Place)
  /\ conv' = 0
  /\ pc' = "weight"
  /\ UNCHANGED <<net, file, cuda, layer, offset, buffer>>

NumConvs == Len(Names) \div 2

CopyWeight ==
  /\ pc = "weight" /\ conv < NumConvs
  /\ LET name == Names[2 * conv + 1]
     IN \/ /\ layers' = [layers EXCEPT ![Place].weightIdxs = Append(@, offset)]
           /\ Upload(name, 2 * conv, offset)
           /\ offset' = offset + ElementCount(name)
           /\ pc' = "bias"
           /\ UNCHANGED <<net, file, cuda, layer, conv, live>>
        \/ Exit

(* The bias, and for CUDA the block and tile length that get_model_spec    *)
(* has for the convolution: <<i, j>> stands for both.                      *)
CopyBias ==
  /\ pc = "bias"
  /\ LET name == Names[2 * conv + 2]
     IN \/ /\ layers' = [layers EXCEPT ![Place].biasIdxs = Append(@, offset),
                                      ![Place].outChannels = Append(@, Tensor(Names[2 * conv + 1]).dims[1]),
                                      ![Place].blocks = IF cuda THEN Append(@, <<layer, conv>>) ELSE @]
           /\ Upload(name, 2 * conv + 1, offset)
           /\ offset' = offset + ElementCount(name)
           /\ conv' = conv + 1
           /\ pc' = "weight"
           /\ UNCHANGED <<net, file, cuda, layer, live>>
        \/ Exit

EndLayer ==
  /\ pc = "weight" /\ conv = NumConvs
  /\ layer' = layer + 1
  /\ pc' = "layer"
  /\ UNCHANGED <<net, file, cuda, conv, offset, buffer, layers, live>>

Return ==
  /\ pc = "layer" /\ layer = Len(net.layers)
  /\ pc' = "built"
  /\ UNCHANGED <<net, file, cuda, layer, conv, offset, buffer, layers, live>>

(* freeUNetModel.  Its callers are oidn_unet_cuda and the tuner, and each   *)
(* says that the model is on the device, as it is for these two: main asks *)
(* for a model on the host for the target cpu, and nobody frees that.      *)
CallerSaysCuda == TRUE
Freed_EncoderOnly ==
  UNION {Arrays(<<"encoder", i>>) : i \in 0 .. net.offset - 1}
Freed ==
  (UNION {Arrays(<<"encoder", i>>) : i \in 0 .. net.offset - 1})
  \cup (UNION {Arrays(<<"decoder", i>>) : i \in 0 .. Len(net.layers) - net.offset - 1})

Free ==
  /\ pc = "built" /\ cuda
  /\ \/ /\ live' = (live \ Freed) \ {<<<<"weights">>, IF CallerSaysCuda THEN "device" ELSE "host">>,
                                   <<<<"TensorData">>, "host">>}
        /\ pc' = "freed"
        /\ UNCHANGED <<net, file, cuda, layer, conv, offset, buffer, layers>>
     \/ Exit

Over == (pc \in {"freed", "exited", "crashed"} \/ (pc = "built" /\ ~cuda)) /\ UNCHANGED vars

Init ==
  /\ net \in Networks /\ cuda \in BOOLEAN
  /\ pc = "create" /\ layer = 0 /\ conv = 0 /\ offset = 0
  /\ buffer = [p \in {} |-> Junk] /\ layers = [p \in {} |-> Junk] /\ live = {}

Next ==
  \/ CreateBuffer \/ StartLayer \/ CopyWeight \/ CopyBias \/ EndLayer \/ Return
  \/ Free \/ Over

Spec == Init /\ [][Next]_vars

-----------------------------------------------------------------------------
(* Properties.                                                             *)

(* Where both back ends look for a weight of C input channels.             *)
Kernel(C) == INSTANCE Conv3x3 WITH InH <- 1, InW <- 1, InC <- C, OutC <- 1

(* Convolution j of a layer finds each of its weights, by the index        *)
(* arithmetic of the kernels, and each of its biases behind its offsets.   *)
(* The data of a tensor is written as its name.                            *)
ConvInPlace(built, weight, bias, j) ==
  LET K == Tensor(weight).dims[1]
      C == Tensor(weight).dims[2]
      At(base, i) == IF base + i \in DOMAIN buffer THEN buffer[base + i] ELSE Junk
  IN /\ built.outChannels[j] = K
     /\ \A o \in 0 .. K - 1, c \in 0 .. C - 1, fh \in 0 .. 2, fw \in 0 .. 2 :
          At(built.weightIdxs[j], Kernel(C)!Krsc(o, fh, fw, c)) = <<weight, ((o * C + c) * 3 + fh) * 3 + fw>>
     /\ \A o \in 0 .. K - 1 : At(built.biasIdxs[j], o) = <<bias, o>>

(* A model that is handed over has every tensor of every layer of both     *)
(* halves in place: no offset is off, no copy overwrote another.           *)
WeightsInPlace ==
  pc = "built" =>
    \A i \in 0 .. Len(net.layers) - 1 :
      LET place == IF i < net.offset THEN <<"encoder", i>> ELSE <<"decoder", i - net.offset>>
          names == net.layers[i + 1]
      IN /\ place \in DOMAIN layers
         /\ Len(layers[place].outChannels) = Len(names) \div 2
         /\ \A j \in 1 .. Len(names) \div 2 :
              /\ ConvInPlace(layers[place], names[2 * j - 1], names[2 * j], j)
              /\ cuda => layers[place].blocks[j] = <<i, j - 1>>

(* The two passes over the tensors, one that counts and one that copies,   *)
(* agree: a copy never leaves the buffer and none of it stays unwritten.   *)
CopiesFill ==
  /\ pc \in {"layer", "weight", "bias"} => offset <= TotalElements
  /\ pc = "built" => \A p \in DOMAIN buffer : buffer[p] # Junk

(* freeUNetModel releases all that createUNetModel allocated, on the side  *)
(* that it was allocated on.                                               *)
ReleasesAll == pc = "freed" => live = {}
=============================================================================
