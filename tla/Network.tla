------------------------------ MODULE Network ------------------------------
(***************************************************************************)
(* The denoising network and the value it computes, apart from how either  *)
(* pipeline walks it.  A tensor is a record: the operation that produced   *)
(* it, its shape, and the tensors it was produced from.  Two tensors are   *)
(* equal exactly when the same operations were applied to the same image   *)
(* in the same order with the same shapes.                                 *)
(*                                                                         *)
(* A layer is a record [in, out, post, skip]: for each of its convolutions *)
(* the input channels its weight tensor was trained for and the output     *)
(* channels, the operation after them, and - in the decoder - which        *)
(* encoder layer's output is appended to its input: 0 is the image itself, *)
(* -1 nothing.  The lists are 0-based, like the vectors in the code.       *)
(***************************************************************************)
EXTENDS Integers, Sequences, FiniteSets

CONSTANTS
  Encoder, Decoder,   \* layer number -> layer
  ImageChannels,      \* channels of an image: loaded_channels.size()
  ImageSizes          \* the <<height, width>> of the images considered

PostOps == {"MAX_POOL", "AVG_POOL", "NN_UPSAMPLE", "NONE"}

EncoderLayers == Cardinality(DOMAIN Encoder)
DecoderLayers == Cardinality(DOMAIN Decoder)

IsLayer(layer) == /\ layer.post \in PostOps
                  /\ layer.in \in Seq(Nat \ {0}) /\ layer.out \in Seq(Nat \ {0})
                  /\ layer.out # <<>> /\ Len(layer.in) = Len(layer.out)

ASSUME NetworkShape ==
  /\ EncoderLayers \in Nat \ {0} /\ DOMAIN Encoder = 0 .. EncoderLayers - 1
  /\ DecoderLayers \in Nat \ {0} /\ DOMAIN Decoder = 0 .. DecoderLayers - 1
  /\ \A l \in DOMAIN Encoder : IsLayer(Encoder[l])
  /\ \A l \in DOMAIN Decoder : IsLayer(Decoder[l])
ASSUME ImagesNotEmpty ==
  /\ ImageChannels \in Nat \ {0}
  /\ \A s \in ImageSizes : s[1] \in Nat \ {0} /\ s[2] \in Nat \ {0}

NumConvs(layer) == Len(layer.out)
OutChannels(layer, i) == layer.out[i + 1]
LastChannels(layer) == layer.out[NumConvs(layer)]

(* Images are padded to a multiple of the alignment.                       *)
Alignment_8 == 8
Alignment == 16
Padded(n) == ((n + Alignment - 1) \div Alignment) * Alignment

-----------------------------------------------------------------------------
(* Tensors.                                                                *)

Tensor(op, h, w, c, of) == [op |-> op, h |-> h, w |-> w, c |-> c, of |-> of]

(* What is in memory that nothing was written to, or that was written with *)
(* another shape than it is read with.                                     *)
Garbage == Tensor(<<"garbage">>, 0, 0, 0, <<>>)
View(t, h, w, c) == IF t.h = h /\ t.w = w /\ t.c = c THEN t ELSE Garbage

Raw(size) == Tensor(<<"image">>, size[1], size[2], ImageChannels, <<>>)
Transferred(t) == Tensor(<<"transfer">>, Padded(t.h), Padded(t.w), t.c, <<t>>)
Convolved(id, c, t) == Tensor(<<"conv">> \o id, t.h, t.w, c, <<t>>)
Concatenated(t, s) == Tensor(<<"concat">>, t.h, t.w, t.c + s.c, <<t, s>>)
Inverted(t, size) == Tensor(<<"inverse">>, size[1], size[2], t.c, <<t>>)

(* 2x2 pooling and nearest-neighbour upsampling.                           *)
Pooled(t) == Tensor(<<"max_pool">>, t.h \div 2, t.w \div 2, t.c, <<t>>)
Averaged(t) == Tensor(<<"avg_pool">>, t.h \div 2, t.w \div 2, t.c, <<t>>)
Upsampled(t) == Tensor(<<"nn_upsample">>, t.h * 2, t.w * 2, t.c, <<t>>)

PostOperated(post, t) ==
  CASE post = "MAX_POOL"    -> Pooled(t)
    [] post = "AVG_POOL"    -> Averaged(t)
    [] post = "NN_UPSAMPLE" -> Upsampled(t)
    [] post = "NONE"        -> t

-----------------------------------------------------------------------------
(* The denoised image.                                                     *)

(* The tensors between the convolutions <<half, l, i>> of a layer.         *)
Convolutions(half, l, layer, t) ==
  LET after[i \in 0 .. NumConvs(layer)] ==
        IF i = 0 THEN t ELSE Convolved(<<half, l, i - 1>>, layer.out[i], after[i - 1])
  IN after

LayerOutput(half, l, layer, t) ==
  PostOperated(layer.post, Convolutions(half, l, layer, t)[NumConvs(layer)])

(* Element 0 is the padded image, element l + 1 the output of encoder      *)
(* layer l.                                                                *)
Encoded(size) ==
  LET encoded[l \in 0 .. EncoderLayers] ==
        IF l = 0 THEN Transferred(Raw(size))
        ELSE LayerOutput("encoder", l - 1, Encoder[l - 1], encoded[l - 1])
  IN encoded

(* The saved tensor that a skip connection names.                          *)
SavedAt(skip) == IF skip = 0 THEN 0 ELSE skip + 1
Saved(encoded, skip) == encoded[SavedAt(skip)]

(* What the convolutions of a decoder layer start from: the output of the  *)
(* layer before it and, if it has a skip connection, the saved tensor.     *)
Joined(layer, encoded, t) ==
  IF layer.skip < 0 THEN t ELSE Concatenated(t, Saved(encoded, layer.skip))

(* Element 0 is the output of the encoder, element l + 1 of decoder layer  *)
(* l.                                                                      *)
Decoded(size) ==
  LET encoded == Encoded(size)
      decoded[l \in 0 .. DecoderLayers] ==
        IF l = 0 THEN encoded[EncoderLayers]
        ELSE LayerOutput("decoder", l - 1, Decoder[l - 1],
                         Joined(Decoder[l - 1], encoded, decoded[l - 1]))
  IN decoded

Denoised(size) == Inverted(Decoded(size)[DecoderLayers], size)

-----------------------------------------------------------------------------
(* Networks that fit together, which the code does not check.              *)

(* How many times the image has been halved before a layer.                *)
Count(layers, l, post) == Cardinality({k \in 0 .. l - 1 : layers[k].post = post})
EncoderLevel(l) == Count(Encoder, l, "MAX_POOL") - Count(Encoder, l, "NN_UPSAMPLE")
DecoderLevel(l) == EncoderLevel(EncoderLayers) - Count(Decoder, l, "NN_UPSAMPLE")

(* The decoder does not pool, no layer averages, and the image is halved   *)
(* no more often than the alignment allows, nor enlarged.                  *)
LevelsFit ==
  /\ \A l \in DOMAIN Encoder : Encoder[l].post # "AVG_POOL"
  /\ \A l \in DOMAIN Decoder : Decoder[l].post \in {"NN_UPSAMPLE", "NONE"}
  /\ \A l \in 0 .. EncoderLayers : EncoderLevel(l) \in 0 .. 4
  /\ \A l \in 0 .. DecoderLayers : DecoderLevel(l) \in 0 .. 4

(* A skip connection joins tensors of one height and width.                *)
SkipsJoin ==
  \A l \in DOMAIN Decoder : Decoder[l].skip >= 0 =>
    /\ SavedAt(Decoder[l].skip) \in 0 .. EncoderLayers
    /\ EncoderLevel(SavedAt(Decoder[l].skip)) = DecoderLevel(l)

(* The channels with which a layer starts, and what its weights were       *)
(* trained for.                                                            *)
EncoderChannels(l) == IF l = 0 THEN ImageChannels ELSE LastChannels(Encoder[l - 1])
DecoderChannels(l) ==
  IF l = 0 THEN EncoderChannels(EncoderLayers) ELSE LastChannels(Decoder[l - 1])
JoinedChannels(l) ==
  IF Decoder[l].skip < 0 THEN DecoderChannels(l)
  ELSE DecoderChannels(l) + EncoderChannels(SavedAt(Decoder[l].skip))

TrainedFor(layer, c) ==
  /\ layer.in[1] = c
  /\ \A i \in 1 .. NumConvs(layer) - 1 : layer.in[i + 1] = layer.out[i]
WidthsAddUp ==
  /\ \A l \in DOMAIN Encoder : TrainedFor(Encoder[l], EncoderChannels(l))
  /\ \A l \in DOMAIN Decoder : TrainedFor(Decoder[l], JoinedChannels(l))
=============================================================================
