------------------------------ MODULE CpuUNet ------------------------------
(***************************************************************************)
(* oidn_unet: the same network on the CPU.  The function is sequential but *)
(* for the loops inside one step, which Conv3x3 and CpuConv look into.     *)
(* Every tensor is a new allocation owned by a unique_ptr, and every one   *)
(* of them may fail: main does not catch bad_alloc.                        *)
(*                                                                         *)
(* The module is about the text of the function, with a model that it sees *)
(* as createUNetModel built it; LayerLayout is about whether it does.      *)
(***************************************************************************)
EXTENDS Network

CONSTANTS
  AllocFails,   \* whether operator new may throw
  NoOutput

ASSUME AllocFails \in BOOLEAN

VARIABLES
  image,          \* <<height, width>> of the image
  pc,             \* where the function is
  layer,          \* <<half, layer_idx>> being processed
  conv,           \* the next convolution of the layer
  shape,          \* h, w and c
  input,          \* the tensor that input points to
  original,       \* original_input
  encodeOutputs,  \* encode_outputs
  skipIdx,        \* skip_idx
  outputImg       \* output_img

vars == <<image, pc, layer, conv, shape, input, original, encodeOutputs, skipIdx, outputImg>>

LayerAt(at) == IF at[1] = "encoder" THEN Encoder[at[2]] ELSE Decoder[at[2]]
LayerCount(half) == IF half = "encoder" THEN EncoderLayers ELSE DecoderLayers

FirstSkip_PreviousLayer == 2
FirstSkip == 3

SkipChannels_In(idx) == IF idx = 0 THEN ImageChannels ELSE Encoder[idx].in[1]
SkipChannels(idx) == IF idx = 0 THEN ImageChannels ELSE OutChannels(Encoder[idx], 0)

Shape(h, w, c) == [h |-> h, w |-> w, c |-> c]
Input == View(input, shape.h, shape.w, shape.c)

-----------------------------------------------------------------------------
(* make_unique throws, nobody catches, the process is aborted.             *)
Throw ==
  /\ AllocFails
  /\ pc' = "threw"
  /\ UNCHANGED <<image, layer, conv, shape, input, original, encodeOutputs, skipIdx, outputImg>>

EnterLayer(at, skip) ==
  /\ layer' = at
  /\ conv' = 0
  /\ pc' = IF at[1] = "decoder" /\ skip >= 0 THEN "concat" ELSE "layer"

LeaveLayer ==
  IF layer[2] + 1 < LayerCount(layer[1])
  THEN EnterLayer(<<layer[1], layer[2] + 1>>, skipIdx) /\ skipIdx' = skipIdx
  ELSE IF layer[1] = "encoder"
  THEN EnterLayer(<<"decoder", 0>>, FirstSkip) /\ skipIdx' = FirstSkip
  ELSE pc' = "inverse" /\ UNCHANGED <<layer, conv, skipIdx>>

(* The image goes, transferred, to the top left corner of a zeroed tensor. *)
Transfer ==
  /\ pc = "transfer"
  /\ \/ /\ input' = Transferred(Raw(image))
        /\ pc' = "keepOriginal"
        /\ UNCHANGED <<image, layer, conv, shape, original, encodeOutputs, skipIdx, outputImg>>
     \/ Throw

KeepOriginal ==
  /\ pc = "keepOriginal"
  /\ \/ /\ original' = Input
        /\ pc' = "layer"
        /\ UNCHANGED <<image, layer, conv, shape, input, encodeOutputs, skipIdx, outputImg>>
     \/ Throw

(* One turn of apply_convolutions.                                         *)
Convolve ==
  /\ pc = "layer"
  /\ conv < NumConvs(LayerAt(layer))
  /\ LET c2 == OutChannels(LayerAt(layer), conv)
     IN \/ /\ input' = Convolved(Append(layer, conv), c2, Input)
           /\ shape' = [shape EXCEPT !.c = c2]
           /\ conv' = conv + 1
           /\ UNCHANGED <<image, pc, layer, original, encodeOutputs, skipIdx, outputImg>>
        \/ Throw

(* apply_post_op: any other post_op than these two is silently skipped.    *)
AfterPostOp == IF layer[1] = "encoder"
               THEN pc' = "save" /\ UNCHANGED <<layer, conv, skipIdx>>
               ELSE LeaveLayer

AtPostOp(post) == pc = "layer" /\ conv = NumConvs(LayerAt(layer)) /\ LayerAt(layer).post = post

MaxPool ==
  /\ AtPostOp("MAX_POOL")
  /\ \/ /\ input' = Pooled(Input)
        /\ shape' = Shape(shape.h \div 2, shape.w \div 2, shape.c)
        /\ AfterPostOp
        /\ UNCHANGED <<image, original, encodeOutputs, outputImg>>
     \/ Throw

NnUpsample ==
  /\ AtPostOp("NN_UPSAMPLE")
  /\ \/ /\ input' = Upsampled(Input)
        /\ shape' = Shape(shape.h * 2, shape.w * 2, shape.c)
        /\ AfterPostOp
        /\ UNCHANGED <<image, original, encodeOutputs, outputImg>>
     \/ Throw

NoPostOp ==
  /\ pc = "layer" /\ conv = NumConvs(LayerAt(layer))
  /\ LayerAt(layer).post \notin {"MAX_POOL", "NN_UPSAMPLE"}
  /\ AfterPostOp
  /\ UNCHANGED <<image, shape, input, original, encodeOutputs, outputImg>>

SaveOutput ==
  /\ pc = "save"
  /\ \/ /\ encodeOutputs' = Append(encodeOutputs, Input)
        /\ LeaveLayer
        /\ UNCHANGED <<image, shape, input, original, outputImg>>
     \/ Throw

(* Each pixel of input is followed by the same pixel of a saved tensor.    *)
Concat ==
  /\ pc = "concat"
  /\ LET c2   == SkipChannels(skipIdx)
         skip == IF skipIdx = 0 THEN original ELSE encodeOutputs[skipIdx + 1]
     IN \/ /\ input' = Concatenated(Input, View(skip, shape.h, shape.w, c2))
           /\ shape' = [shape EXCEPT !.c = @ + c2]
           /\ skipIdx' = skipIdx - 1
           /\ pc' = "layer"
           /\ UNCHANGED <<image, layer, conv, original, encodeOutputs, outputImg>>
        \/ Throw

InverseTransfer_Padded ==
  /\ pc = "inverse"
  /\ \/ /\ outputImg' = Inverted(Input, <<shape.h, shape.w>>)
        /\ pc' = "returned"
        /\ UNCHANGED <<image, layer, conv, shape, input, original, encodeOutputs, skipIdx>>
     \/ Throw

(* The output is cropped to the size of the image.                         *)
InverseTransfer ==
  /\ pc = "inverse"
  /\ \/ /\ outputImg' = Inverted(Input, image)
        /\ pc' = "returned"
        /\ UNCHANGED <<image, layer, conv, shape, input, original, encodeOutputs, skipIdx>>
     \/ Throw

Ended == {"returned", "threw"}
Over == pc \in Ended /\ UNCHANGED vars

Init ==
  /\ image \in ImageSizes
  /\ pc = "transfer"
  /\ layer = <<"encoder", 0>> /\ conv = 0
  /\ shape = Shape(Padded(image[1]), Padded(image[2]), ImageChannels)
  /\ input = Garbage /\ original = Garbage
  /\ encodeOutputs = <<>>
  /\ skipIdx = FirstSkip
  /\ outputImg = NoOutput

Step ==
  \/ Transfer \/ KeepOriginal \/ Convolve \/ MaxPool \/ NnUpsample \/ NoPostOp
  \/ SaveOutput \/ Concat \/ InverseTransfer

Next == Step \/ Over

Spec == Init /\ [][Next]_vars

-----------------------------------------------------------------------------
(* Properties.                                                             *)

(* The image is handed over once and complete, or the process ends; with   *)
(* ImplementsDenoise of CudaUNet, both targets compute the same network    *)
(* although they number the saved tensors differently.                     *)
Abstract == INSTANCE Denoise WITH
  status <- IF pc = "returned" THEN "returned"
            ELSE IF pc \in Ended THEN "failed" ELSE "running",
  output <- outputImg

ImplementsDenoise == Abstract!Spec

(* Every convolution is given the number of channels its weights were      *)
(* trained for.                                                            *)
AtConvolution == pc = "layer" /\ conv < NumConvs(LayerAt(layer))
ChannelsAgree == AtConvolution => shape.c = LayerAt(layer).in[conv + 1]

(* The function reads a saved tensor only when the encoder has pushed it,  *)
(* and with the height and width that it has.                              *)
SkipsMatch ==
  pc = "concat" /\ skipIdx > 0 =>
    /\ skipIdx < Len(encodeOutputs)
    /\ encodeOutputs[skipIdx + 1].h = shape.h /\ encodeOutputs[skipIdx + 1].w = shape.w
=============================================================================
