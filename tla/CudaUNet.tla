------------------------------ MODULE CudaUNet ------------------------------
(***************************************************************************)
(* oidn_unet_cuda: the host thread sizes and allocates device memory, then *)
(* issues copies and kernels to the default stream and runs on while the   *)
(* device executes them in order.  Two work buffers swap roles after every *)
(* operation; the image and the encoder outputs that the decoder will need *)
(* again are kept side by side in a third allocation.                      *)
(*                                                                         *)
(* The GPU may refuse an allocation, a launch or a copy, and may fault     *)
(* while it executes an operation.  A refused launch is only remembered,   *)
(* until the host next asks cudaGetLastError; a fault surfaces at some     *)
(* later call, at the latest at a blocking one.  CUDA_ERR ends the process.*)
(***************************************************************************)
EXTENDS Network, FiniteSetsExt

CONSTANTS
  SupportedInC,   \* FOR_EACH_IN_C: the instantiations of the kernel
  NoOutput

VARIABLES
  image,       \* <<height, width>> of the image
  gpuFails,    \* whether the GPU may refuse work or fault
  pc,          \* where the host is
  sizes,       \* hx, wx, cx, max_sz, next_encode_offset and encode_output_offset
  layer,       \* <<half, layer_idx>> being processed
  conv,        \* the next convolution of the layer
  bufs,        \* what d_buf0 and d_buf1 point to
  shape,       \* h, w and c
  skipIdx,     \* skip_idx
  lastError,   \* a launch was refused and nobody has asked yet
  outputImg,   \* the host copy of the result
  queue,       \* operations issued and not executed
  mem,         \* work buffer -> the tensor in it
  saved,       \* d_encode_outputs: the regions written, [off, len, tensor]
  fault,       \* the device has faulted: nothing executes any more
  allocated    \* live device allocations, the model's weights among them

given == <<image, gpuFails>>
hostVars == <<given, pc, sizes, layer, conv, bufs, shape, skipIdx, lastError, outputImg>>
deviceVars == <<queue, mem, saved, fault, allocated>>
vars == <<hostVars, deviceVars>>

LayerAt(at) == IF at[1] = "encoder" THEN Encoder[at[2]] ELSE Decoder[at[2]]
LayerCount(half) == IF half = "encoder" THEN EncoderLayers ELSE DecoderLayers

FirstSkip == Max({0, EncoderLayers - 3})

(* The channels the code takes a saved tensor to have.                     *)
SkipChannels_In(idx) == IF idx = 0 THEN ImageChannels ELSE Encoder[idx].in[1]
SkipChannels(idx) == IF idx = 0 THEN ImageChannels ELSE OutChannels(Encoder[idx], 0)

-----------------------------------------------------------------------------
(* The sizing pass: the largest tensor, and where each saved one goes.     *)

Scaled(post, n) ==
  CASE post = "MAX_POOL"    -> n \div 2
    [] post = "NN_UPSAMPLE" -> n * 2
    [] OTHER                -> n

Widths(at) == {LayerAt(at).out[j] : j \in DOMAIN LayerAt(at).out}

(* The maximum so far, and tensors of h x w with each of these widths.     *)
Peak(max, h, w, channels) == Max({max} \cup {h * w * c : c \in channels})

InitSizes(size) ==
  LET h == Padded(size[1])
      w == Padded(size[2])
      n == h * w * ImageChannels
  IN [h |-> h, w |-> w, c |-> ImageChannels, max |-> n * 2, next |-> n, offset |-> <<0>>]

(* One turn of the encoder's loop: every layer but the last saves its      *)
(* output.                                                                 *)
SizedEncoder(p, l) ==
  LET y == Encoder[l]
      h == Scaled(y.post, p.h)
      w == Scaled(y.post, p.w)
      c == LastChannels(y)
      last == l + 1 = EncoderLayers
  IN [h |-> h, w |-> w, c |-> c,
      max |-> Peak(Peak(p.max, p.h, p.w, Widths(<<"encoder", l>>)), h, w, {c}),
      next |-> IF last THEN p.next ELSE p.next + h * w * c,
      offset |-> IF last THEN p.offset ELSE Append(p.offset, p.next)]

(* One turn of the decoder's loop; joined is the channels it starts with,  *)
(* after its skip connection.                                              *)
SizedDecoder_NoConcat(p, l, joined) ==
  LET y == Decoder[l]
      h == IF y.post = "NN_UPSAMPLE" THEN p.h * 2 ELSE p.h
      w == IF y.post = "NN_UPSAMPLE" THEN p.w * 2 ELSE p.w
      c == LastChannels(y)
  IN [p EXCEPT !.h = h, !.w = w, !.c = c,
               !.max = Peak(Peak(@, p.h, p.w, Widths(<<"decoder", l>>)), h, w, {c})]

SizedDecoder(p, l, joined) ==
  LET y == Decoder[l]
      h == IF y.post = "NN_UPSAMPLE" THEN p.h * 2 ELSE p.h
      w == IF y.post = "NN_UPSAMPLE" THEN p.w * 2 ELSE p.w
      c == LastChannels(y)
  IN [p EXCEPT !.h = h, !.w = w, !.c = c,
               !.max = Peak(Peak(@, p.h, p.w, Widths(<<"decoder", l>>) \cup {joined}),
                            h, w, {c})]

-----------------------------------------------------------------------------
(* The device.                                                             *)

(* An operation reads the tensor in src with shape h, w, c.  Further:      *)
(* c2 is the output channels of a convolution or the channels of a skip    *)
(* tensor, off where the saved tensor is, id which convolution it is.      *)
Operation(kind, src, dst, c2, off, id) ==
  [kind |-> kind, src |-> src, dst |-> dst, h |-> shape.h, w |-> shape.w, c |-> shape.c,
   c2 |-> c2, off |-> off, id |-> id]

(* The operands, in the memory m and the saved regions s.                  *)
Operand(op, m) == View(m[op.src], op.h, op.w, op.c)

ReadSaved(op, s) ==
  LET hits == {r \in s : r.off = op.off /\ r.len = op.h * op.w * op.c2}
  IN IF hits = {} THEN Garbage
     ELSE View((CHOOSE r \in hits : TRUE).tensor, op.h, op.w, op.c2)

Result(op, m, s) ==
  CASE op.kind = "transfer"    -> Transferred(Operand(op, m))
    [] op.kind = "conv"        -> Convolved(op.id, op.c2, Operand(op, m))
    [] op.kind = "MAX_POOL"    -> Pooled(Operand(op, m))
    [] op.kind = "NN_UPSAMPLE" -> Upsampled(Operand(op, m))
    [] op.kind = "concat"      -> Concatenated(Operand(op, m), ReadSaved(op, s))
    [] op.kind = "inverse"     -> Inverted(Operand(op, m), image)

(* A region that is written replaces whatever it overlaps.                 *)
Disjoint(r, off, len) == r.off + r.len <= off \/ off + len <= r.off
Save(op, m, s) ==
  LET len == op.h * op.w * op.c
  IN {r \in s : Disjoint(r, op.off, len)}
       \cup {[off |-> op.off, len |-> len, tensor |-> Operand(op, m)]}

(* What an operation makes of the memory and the saved regions.            *)
Executed(op, m, s) ==
  IF op.kind = "save" THEN <<m, Save(op, m, s)>>
  ELSE <<[m EXCEPT ![op.dst] = Result(op, m, s)], s>>

(* The stream executes its oldest operation.                               *)
Execute ==
  /\ queue # <<>> /\ ~fault
  /\ queue' = Tail(queue)
  /\ mem' = Executed(Head(queue), mem, saved)[1]
  /\ saved' = Executed(Head(queue), mem, saved)[2]
  /\ UNCHANGED <<hostVars, fault, allocated>>

Fault ==
  /\ gpuFails
  /\ queue # <<>> /\ ~fault
  /\ fault' = TRUE
  /\ UNCHANGED <<hostVars, queue, mem, saved, allocated>>

-----------------------------------------------------------------------------
(* The host.                                                               *)

(* A call fails or a check finds an error: exit() tears everything down.   *)
Exit ==
  /\ gpuFails
  /\ pc' = "exited"
  /\ queue' = <<>>
  /\ allocated' = {}
  /\ UNCHANGED <<given, sizes, layer, conv, bufs, shape, skipIdx, lastError, outputImg,
                 mem, saved, fault>>

(* kernel<<<...>>>(...) without a check after it.                          *)
Launch(op) ==
  \/ queue' = Append(queue, op) /\ lastError' = lastError
  \/ gpuFails /\ queue' = queue /\ lastError' = TRUE

(* kernel<<<...>>>(...); CUDA_ERR(cudaGetLastError());                     *)
CheckedLaunch(op) == ~lastError /\ queue' = Append(queue, op) /\ lastError' = lastError

Swap_OneSide(b) == <<b[2], b[2]>>
Swap(b) == <<b[2], b[1]>>
Shape(h, w, c) == [h |-> h, w |-> w, c |-> c]

(* Where the host goes at the start of layer at: decoder layers first      *)
(* append a saved tensor while there are any.                              *)
EnterLayer(at, skip) ==
  /\ layer' = at
  /\ conv' = 0
  /\ pc' = IF at[1] = "decoder" /\ skip >= 0 THEN "concat" ELSE "layer"

(* The layer is done: on to the next one of this half, to the first of the *)
(* decoder, or to the end.                                                 *)
LeaveLayer ==
  IF layer[2] + 1 < LayerCount(layer[1])
  THEN EnterLayer(<<layer[1], layer[2] + 1>>, skipIdx) /\ skipIdx' = skipIdx
  ELSE IF layer[1] = "encoder"
  THEN EnterLayer(<<"decoder", 0>>, FirstSkip) /\ skipIdx' = FirstSkip
  ELSE pc' = "inverse" /\ UNCHANGED <<layer, conv, skipIdx>>

SizeEncoder ==
  /\ pc = "sizeEncoder"
  /\ sizes' = SizedEncoder(sizes, layer[2])
  /\ IF layer[2] + 1 < EncoderLayers
     THEN layer' = <<"encoder", layer[2] + 1>> /\ pc' = pc
     ELSE layer' = <<"decoder", 0>> /\ pc' = "sizeDecoder"
  /\ UNCHANGED <<given, conv, bufs, shape, skipIdx, lastError, outputImg, deviceVars>>

SizeDecoder ==
  /\ pc = "sizeDecoder"
  /\ IF skipIdx >= 0
     THEN /\ sizes' = SizedDecoder(sizes, layer[2], sizes.c + SkipChannels(skipIdx))
          /\ skipIdx' = skipIdx - 1
     ELSE sizes' = SizedDecoder(sizes, layer[2], sizes.c) /\ skipIdx' = skipIdx
  /\ IF layer[2] + 1 < DecoderLayers
     THEN layer' = <<"decoder", layer[2] + 1>> /\ pc' = pc
     ELSE layer' = layer /\ pc' = "malloc"
  /\ UNCHANGED <<given, conv, bufs, shape, lastError, outputImg, deviceVars>>

(* d_encode_outputs, d_buf0 and d_buf1, in this order.                     *)
Malloc ==
  /\ pc = "malloc"
  /\ LET b == IF "encode" \notin allocated THEN "encode"
              ELSE IF "buf0" \notin allocated THEN "buf0" ELSE "buf1"
     IN \/ /\ allocated' = allocated \cup {b}
           /\ pc' = IF b = "buf1" THEN "upload" ELSE "malloc"
           /\ UNCHANGED <<given, sizes, layer, conv, bufs, shape, skipIdx, lastError,
                          outputImg, queue, mem, saved, fault>>
        \/ Exit

(* The blocking copy of the image to d_buf0.                               *)
Upload ==
  /\ pc = "upload"
  /\ \/ /\ mem' = [mem EXCEPT ![bufs[1]] = Raw(image)]
        /\ pc' = "transfer"
        /\ UNCHANGED <<given, sizes, layer, conv, bufs, shape, skipIdx, lastError,
                       outputImg, queue, saved, fault, allocated>>
     \/ Exit

Transfer ==
  /\ pc = "transfer"
  /\ \/ /\ CheckedLaunch(Operation("transfer", bufs[1], bufs[2], 0, 0, <<>>))
        /\ shape' = Shape(Padded(image[1]), Padded(image[2]), ImageChannels)
        /\ pc' = "saveImage"
        /\ UNCHANGED <<given, sizes, layer, conv, bufs, skipIdx, outputImg,
                       mem, saved, fault, allocated>>
     \/ Exit

(* The padded image is kept at the start of d_encode_outputs.              *)
SaveImage ==
  /\ pc = "saveImage"
  /\ \/ /\ queue' = Append(queue, Operation("save", bufs[2], "encode", 0, 0, <<>>))
        /\ bufs' = Swap(bufs)
        /\ EnterLayer(<<"encoder", 0>>, skipIdx)
        /\ UNCHANGED <<given, sizes, shape, skipIdx, lastError, outputImg,
                       mem, saved, fault, allocated>>
     \/ Exit

(* One turn of apply_convolutions.  gpu_conv throws when the kernel has no *)
(* instantiation for the channels of its input.                            *)
Convolve ==
  /\ pc = "layer"
  /\ conv < NumConvs(LayerAt(layer))
  /\ IF shape.c \in SupportedInC
     THEN LET c2 == OutChannels(LayerAt(layer), conv)
          IN /\ Launch(Operation("conv", bufs[1], bufs[2], c2, 0, Append(layer, conv)))
             /\ shape' = [shape EXCEPT !.c = c2]
             /\ bufs' = Swap(bufs)
             /\ conv' = conv + 1
             /\ pc' = pc
     ELSE pc' = "threw" /\ UNCHANGED <<shape, bufs, conv, lastError, queue>>
  /\ UNCHANGED <<given, sizes, layer, skipIdx, outputImg, mem, saved, fault, allocated>>

(* apply_post_op; afterwards every encoder layer but the last saves its    *)
(* output.  Any other post_op than these two is silently skipped.          *)
SavesOutput == layer[1] = "encoder" /\ layer[2] + 1 < EncoderLayers

PostOp ==
  /\ pc = "layer"
  /\ conv = NumConvs(LayerAt(layer))
  /\ LET post == LayerAt(layer).post
         next == IF SavesOutput
                 THEN pc' = "saveOutput" /\ UNCHANGED <<layer, conv, skipIdx>>
                 ELSE LeaveLayer
     IN IF post \in {"MAX_POOL", "NN_UPSAMPLE"}
        THEN \/ /\ CheckedLaunch(Operation(post, bufs[1], bufs[2], 0, 0, <<>>))
                /\ bufs' = Swap(bufs)
                /\ shape' = Shape(Scaled(post, shape.h), Scaled(post, shape.w), shape.c)
                /\ next
                /\ UNCHANGED <<given, sizes, outputImg, mem, saved, fault, allocated>>
             \/ Exit
        ELSE /\ next
             /\ UNCHANGED <<given, sizes, bufs, shape, lastError, outputImg, deviceVars>>

(* encode_output_offset[layer_idx + 1]                                     *)
SaveOffset_OwnSlot(l) == sizes.offset[l + 1]
SaveOffset(l) == sizes.offset[l + 2]

SaveOutput ==
  /\ pc = "saveOutput"
  /\ \/ /\ queue' = Append(queue, Operation("save", bufs[1], "encode", 0,
                                            SaveOffset(layer[2]), <<>>))
        /\ LeaveLayer
        /\ UNCHANGED <<given, sizes, bufs, shape, lastError, outputImg,
                       mem, saved, fault, allocated>>
     \/ Exit

Concat_KeepChannels ==
  /\ pc = "concat"
  /\ LET off == IF skipIdx = 0 THEN 0 ELSE sizes.offset[skipIdx + 2]
         c2  == SkipChannels(skipIdx)
     IN \/ /\ CheckedLaunch(Operation("concat", bufs[1], bufs[2], c2, off, <<>>))
           /\ bufs' = Swap(bufs)
           /\ skipIdx' = skipIdx - 1
           /\ pc' = "layer"
           /\ UNCHANGED <<given, sizes, layer, conv, shape, outputImg, mem, saved, fault,
                          allocated>>
        \/ Exit

(* The saved tensor skip_idx is appended to the output of the layer before.*)
Concat ==
  /\ pc = "concat"
  /\ LET off == IF skipIdx = 0 THEN 0 ELSE sizes.offset[skipIdx + 2]
         c2  == SkipChannels(skipIdx)
     IN \/ /\ CheckedLaunch(Operation("concat", bufs[1], bufs[2], c2, off, <<>>))
           /\ bufs' = Swap(bufs)
           /\ shape' = [shape EXCEPT !.c = @ + c2]
           /\ skipIdx' = skipIdx - 1
           /\ pc' = "layer"
           /\ UNCHANGED <<given, sizes, layer, conv, outputImg, mem, saved, fault, allocated>>
        \/ Exit

InverseTransfer_Unchecked ==
  /\ pc = "inverse"
  /\ \/ /\ Launch(Operation("inverse", bufs[1], bufs[2], 0, 0, <<>>))
        /\ pc' = "download"
        /\ UNCHANGED <<given, sizes, layer, conv, bufs, shape, skipIdx, outputImg,
                       mem, saved, fault, allocated>>
     \/ Exit

InverseTransfer ==
  /\ pc = "inverse"
  /\ \/ /\ CheckedLaunch(Operation("inverse", bufs[1], bufs[2], 0, 0, <<>>))
        /\ pc' = "download"
        /\ UNCHANGED <<given, sizes, layer, conv, bufs, shape, skipIdx, outputImg,
                       mem, saved, fault, allocated>>
     \/ Exit

(* The blocking copy of the result: it waits for all that was issued.      *)
Download_Polling ==
  /\ pc = "download"
  /\ \/ /\ queue = <<>>
        /\ outputImg' = View(mem[bufs[2]], image[1], image[2], shape.c)
        /\ pc' = "release"
        /\ UNCHANGED <<given, sizes, layer, conv, bufs, shape, skipIdx, lastError, deviceVars>>
     \/ queue # <<>> /\ UNCHANGED vars

Download_Async ==
  /\ pc = "download"
  /\ \/ /\ ~fault
        /\ outputImg' = View(mem[bufs[2]], image[1], image[2], shape.c)
        /\ pc' = "release"
        /\ UNCHANGED <<given, sizes, layer, conv, bufs, shape, skipIdx, lastError, deviceVars>>
     \/ Exit

Download ==
  /\ pc = "download"
  /\ \/ /\ queue = <<>> /\ ~fault
        /\ outputImg' = View(mem[bufs[2]], image[1], image[2], shape.c)
        /\ pc' = "release"
        /\ UNCHANGED <<given, sizes, layer, conv, bufs, shape, skipIdx, lastError, deviceVars>>
     \/ Exit

(* The three buffers and the model go, and the image is main's.            *)
Release_KeepWeights ==
  /\ pc = "release"
  /\ \/ /\ allocated' = allocated \ {bufs[1], bufs[2], "encode"}
        /\ pc' = "returned"
        /\ UNCHANGED <<given, sizes, layer, conv, bufs, shape, skipIdx, lastError,
                       outputImg, queue, mem, saved, fault>>
     \/ Exit

Release ==
  /\ pc = "release"
  /\ \/ /\ allocated' = allocated \ {bufs[1], bufs[2], "encode", "weights"}
        /\ pc' = "returned"
        /\ UNCHANGED <<given, sizes, layer, conv, bufs, shape, skipIdx, lastError,
                       outputImg, queue, mem, saved, fault>>
     \/ Exit

Ended == {"returned", "exited", "threw"}
Over == pc \in Ended /\ UNCHANGED vars

Init ==
  /\ image \in ImageSizes
  /\ gpuFails \in BOOLEAN
  /\ pc = "sizeEncoder"
  /\ sizes = InitSizes(image)
  /\ layer = <<"encoder", 0>> /\ conv = 0
  /\ bufs = <<"buf0", "buf1">>
  /\ shape = Shape(image[1], image[2], ImageChannels)
  /\ skipIdx = FirstSkip
  /\ lastError = FALSE
  /\ outputImg = NoOutput
  /\ queue = <<>>
  /\ mem = [b \in {"buf0", "buf1"} |-> Garbage]
  /\ saved = {}
  /\ fault = FALSE
  /\ allocated = {"weights"}

HostStep ==
  \/ SizeEncoder \/ SizeDecoder \/ Malloc \/ Upload \/ Transfer \/ SaveImage \/ Convolve
  \/ PostOp \/ SaveOutput \/ Concat \/ InverseTransfer \/ Download \/ Release

Next == HostStep \/ Execute \/ Fault \/ Over

(* The host thread runs, and the stream makes progress unless it faults.   *)
Fairness == WF_vars(HostStep) /\ WF_vars(Execute)

Spec == Init /\ [][Next]_vars /\ Fairness

-----------------------------------------------------------------------------
(* Properties.                                                             *)

(* The networks the pipeline is written for: the n-th decoder layer from   *)
(* the first takes the saved tensor that the host counts down to, which    *)
(* has as many channels as the first convolution that made it, and the     *)
(* image does not get more channels than it had.                           *)
SkipAt(l) == IF l <= FirstSkip THEN FirstSkip - l ELSE -1

SkipsInOrder ==
  /\ \A l \in DOMAIN Decoder : Decoder[l].skip = SkipAt(l)
  /\ \A idx \in 1 .. FirstSkip : OutChannels(Encoder[idx], 0) = LastChannels(Encoder[idx])

OutputFits == LastChannels(Decoder[DecoderLayers - 1]) <= ImageChannels

UNet == LevelsFit /\ SkipsJoin /\ SkipsInOrder

(* gpu_conv is instantiated for every width that weights are trained for.  *)
WidthsSupported ==
  \A y \in {Encoder[l] : l \in DOMAIN Encoder} \cup {Decoder[l] : l \in DOMAIN Decoder} :
    \A i \in DOMAIN y.in : y.in[i] \in SupportedInC

Work == {"buf0", "buf1"}

TypeOK ==
  /\ image \in ImageSizes
  /\ layer \in {<<"encoder", l>> : l \in DOMAIN Encoder} \cup {<<"decoder", l>> : l \in DOMAIN Decoder}
  /\ conv \in 0 .. NumConvs(LayerAt(layer))
  /\ bufs \in {<<"buf0", "buf1">>, <<"buf1", "buf0">>}
  /\ skipIdx \in -1 .. FirstSkip
  /\ allocated \subseteq Work \cup {"encode", "weights"}
  /\ \A i \in DOMAIN queue : queue[i].src \in Work /\ queue[i].dst \in Work \cup {"encode"}

(* The call hands over the denoised image or ends the process: however far *)
(* the host runs ahead of the device, no operation reads a tensor before   *)
(* it is complete or after it was overwritten, and no refused launch and   *)
(* no fault goes unnoticed, although convolutions are launched unchecked.  *)
Abstract == INSTANCE Denoise WITH
  status <- IF pc = "returned" THEN "returned"
            ELSE IF pc \in Ended THEN "failed" ELSE "running",
  output <- IF pc = "returned" THEN outputImg ELSE NoOutput

ImplementsDenoise == Abstract!Spec

Issued == {queue[i] : i \in DOMAIN queue}

(* How much of its source and destination an operation touches, in halfs.  *)
SourceExtent(op) == IF op.kind = "transfer" THEN 2 * op.h * op.w * op.c ELSE op.h * op.w * op.c
TargetExtent(op) ==
  CASE op.kind = "transfer"    -> Padded(op.h) * Padded(op.w) * op.c
    [] op.kind = "conv"        -> op.h * op.w * op.c2
    [] op.kind = "MAX_POOL"    -> (op.h \div 2) * (op.w \div 2) * op.c
    [] op.kind = "NN_UPSAMPLE" -> 4 * op.h * op.w * op.c
    [] op.kind = "concat"      -> op.h * op.w * (op.c + op.c2)
    [] op.kind = "inverse"     -> 2 * image[1] * image[2] * op.c
    [] op.kind = "save"        -> op.h * op.w * op.c

(* No operation reads or writes outside the allocation it works in: the    *)
(* sizing pass foresees every tensor, the float views of the first and the *)
(* last kernel and the region of every saved tensor.                       *)
FitsInBuffers ==
  \A op \in Issued :
    /\ SourceExtent(op) <= sizes.max
    /\ op.kind # "save" => TargetExtent(op) <= sizes.max
    /\ op.kind = "save" => op.off + TargetExtent(op) <= sizes.next
    /\ op.kind = "concat" => op.off + op.h * op.w * op.c2 <= sizes.next

(* Nothing that an issued operation still uses is freed.                   *)
Uses(op) == {op.src, op.dst} \cup (IF op.kind = "concat" THEN {"encode"} ELSE {})
                             \cup (IF op.kind = "conv" THEN {"weights"} ELSE {})
NoUseAfterFree == pc # "exited" => \A op \in Issued : Uses(op) \subseteq allocated

(* A call that returns leaves no device memory behind.                     *)
ReleasesAll == pc = "returned" => allocated = {}

(* A call that returns did all of its work: no launch was refused, though  *)
(* those of convolutions are not checked, and the device did not fault.    *)
NoSilentFailure == pc = "returned" => ~lastError /\ ~fault

(* Every convolution is given the number of channels its weights were      *)
(* trained for, which the code does not compare: the saved tensors, their  *)
(* assumed channels and the layers' outputs have to add up.                *)
ChannelsAgree ==
  \A op \in Issued : op.kind = "conv" =>
    op.c = LayerAt(<<op.id[1], op.id[2]>>).in[op.id[3] + 1]

(* in_h and in_w of a pooling are even: no row or column is dropped.       *)
PoolsEven ==
  \A op \in Issued : op.kind = "MAX_POOL" => op.h % 2 = 0 /\ op.w % 2 = 0

(* The call ends, whatever the GPU does ...                                *)
Ends == <>(pc \in Ended)

(* ... and returns if it does nothing wrong: every width that a            *)
(* convolution of the network meets has an instantiation of the kernel.    *)
Returns == gpuFails \/ <>(pc = "returned")
=============================================================================
