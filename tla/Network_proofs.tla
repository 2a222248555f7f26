--------------------------- MODULE Network_proofs ---------------------------
(***************************************************************************)
(* The walks over Network: oidn_unet_cuda, for every network, image and    *)
(* behaviour of the GPU, oidn_unet, whichever of its allocations fails,    *)
(* and conv_autotune, whatever it measures.                                *)
(*                                                                         *)
(* Memory and errors, for any network (IInv, ErrorInv).  The host issues   *)
(* operations only between its last cudaMalloc and the blocking copy of    *)
(* the result, and in between all of the memory is allocated; when it      *)
(* frees the buffers the queue is empty.  Whatever a launch leaves in      *)
(* lastError is found by a checked one before the result is copied.        *)
(*                                                                         *)
(* Sizes, for networks that fit together (HostInv, OpsInv).  By induction  *)
(* over layers and convolutions, the tensors of Network have the heights   *)
(* and widths that the image has after so many halvings.  Wherever the     *)
(* host is, h, w and c are the shape of the tensor that Network has there, *)
(* and the sizing pass has met every one of these tensors: so all that is  *)
(* issued fits.                                                            *)
(*                                                                         *)
(* Values, for the same networks (ValueInv).  Executing all that is queued *)
(* would leave the tensor that Network has at the host's place in the      *)
(* buffer that the host takes it to be in, and each tensor saved so far at *)
(* its offset, until a launch is refused.  Issuing an operation moves the  *)
(* host on by what the operation computes; executing the oldest one        *)
(* changes nothing about the end.  The queue is empty when the result is   *)
(* copied, so it is the denoised image.                                    *)
(*                                                                         *)
(* oidn_unet (CpuInv) works on the same tensors, each at once: input is    *)
(* the tensor that Network has at the place, and encodeOutputs what the    *)
(* encoder has saved.                                                      *)
(*                                                                         *)
(* conv_autotune walks over the same network without tensors (FoundInv,    *)
(* ShapesInv): each convolution it has reached is in specs, at its number  *)
(* in the network and with its shape.  What it measured, it keeps to the   *)
(* best of (BestInv) and prints layer by layer.                            *)
(*                                                                         *)
(* Ends, last.  Each of the three has a number of steps left (StepsLeft,   *)
(* CpuLeft, TunerLeft) that every step lowers; and where nothing fails     *)
(* nothing stops the host (Unhindered) or the tuner (TunerUnhindered).     *)
(***************************************************************************)
EXTENDS CudaUNet, Numbers, SequenceTheorems

(* No step changes the image or the GPU.                                   *)
USE DEF given

-----------------------------------------------------------------------------
(* Sequences.                                                              *)

Elements(q) == {q[i] : i \in DOMAIN q}

LEMMA SeqOfElements ==
  ASSUME NEW S, NEW q \in Seq(S)
  PROVE  q \in Seq(Elements(q))
<1>1. Len(q) \in Nat /\ q \in [1 .. Len(q) -> S] /\ DOMAIN q = 1 .. Len(q)
  BY LenProperties
<1>2. q \in [1 .. Len(q) -> Elements(q)]
  BY <1>1 DEF Elements
<1>3. QED
  BY <1>1, <1>2, SeqDef

LEMMA AppendElements ==
  ASSUME NEW q, q \in Seq(Elements(q)), NEW op
  PROVE  /\ Append(q, op) \in Seq(Elements(Append(q, op)))
         /\ Elements(Append(q, op)) = Elements(q) \cup {op}
<1> DEFINE a == Append(q, op)
<1>1. /\ Len(q) \in Nat /\ DOMAIN q = 1 .. Len(q)
      /\ a \in Seq(Elements(q) \cup {op})
  OBVIOUS
<1>2. DOMAIN a = 1 .. Len(q) + 1 /\ \A i \in 1 .. Len(q) : a[i] = q[i]
  BY <1>1
<1>3. a[Len(q) + 1] = op
  BY <1>1
<1> HIDE DEF a
<1>4. Elements(a) = Elements(q) \cup {op}
  BY <1>1, <1>2, <1>3 DEF Elements
<1>5. a \in Seq(Elements(a))
  BY <1>1, <1>4
<1>6. QED
  BY <1>4, <1>5 DEF a

LEMMA TailElements ==
  ASSUME NEW q, q \in Seq(Elements(q)), q # <<>>
  PROVE  /\ Tail(q) \in Seq(Elements(Tail(q)))
         /\ Elements(Tail(q)) \subseteq Elements(q)
<1> DEFINE a == Tail(q)
<1>1. Len(q) \in Nat /\ DOMAIN q = 1 .. Len(q) /\ Len(q) > 0
  OBVIOUS
<1>2. /\ DOMAIN a = 1 .. Len(q) - 1 /\ \A i \in 1 .. Len(q) - 1 : a[i] = q[i + 1]
      /\ a \in Seq(Elements(q)) /\ Len(a) = Len(q) - 1
  BY <1>1
<1> HIDE DEF a
<1>3. Elements(a) \subseteq Elements(q)
  BY <1>1, <1>2 DEF Elements
<1>4. a \in Seq(Elements(a))
  BY <1>2, SeqOfElements
<1>5. QED
  BY <1>3, <1>4 DEF a

-----------------------------------------------------------------------------
(* Layers.                                                                 *)

LayerNames == {<<"encoder", l>> : l \in DOMAIN Encoder} \cup {<<"decoder", l>> : l \in DOMAIN Decoder}

LEMMA LayerFacts ==
  /\ EncoderLayers \in Nat \ {0} /\ DOMAIN Encoder = 0 .. EncoderLayers - 1
  /\ DecoderLayers \in Nat \ {0} /\ DOMAIN Decoder = 0 .. DecoderLayers - 1
  /\ \A at \in LayerNames : NumConvs(LayerAt(at)) \in Nat
<1>1. \A l \in DOMAIN Encoder : Len(Encoder[l].out) \in Nat
  BY NetworkShape DEF IsLayer
<1>2. \A l \in DOMAIN Decoder : Len(Decoder[l].out) \in Nat
  BY NetworkShape DEF IsLayer
<1>3. QED
  BY <1>1, <1>2, NetworkShape DEF LayerNames, LayerAt, NumConvs

LEMMA FirstSkipIs ==
  /\ FirstSkip \in Nat /\ FirstSkip >= EncoderLayers - 3
  /\ FirstSkip = 0 \/ FirstSkip = EncoderLayers - 3
<1> DEFINE S == {0, EncoderLayers - 3}
<1>1. 0 \in Int /\ EncoderLayers - 3 \in Int
  BY LayerFacts
<1>2. \E x \in S : \A y \in S : x >= y
  BY <1>1
<1>3. Max(S) \in S /\ \A y \in S : Max(S) >= y
  BY <1>2 DEF Max
<1>4. QED
  BY <1>1, <1>3 DEF FirstSkip

LEMMA FirstSkipType == FirstSkip \in Nat
  BY FirstSkipIs

-----------------------------------------------------------------------------
(* Memory: the inductive invariant.                                        *)

Everything == {"encode", "buf0", "buf1", "weights"}
Before == {"sizeEncoder", "sizeDecoder", "malloc"}
Issuing == {"transfer", "saveImage", "concat", "layer", "saveOutput", "inverse", "download"}

WorkOp(op) == op.src \in Work /\ op.dst \in Work \cup {"encode"}

(* Where the host is in the network,                                       *)
InLayer ==
  /\ layer \in LayerNames
  /\ conv \in 0 .. NumConvs(LayerAt(layer))
  /\ skipIdx \in -1 .. FirstSkip

Walk ==
  /\ image \in ImageSizes /\ InLayer
  /\ bufs \in {<<"buf0", "buf1">>, <<"buf1", "buf0">>}
  /\ pc \in Before \cup {"upload"} \cup Issuing \cup {"release"} \cup Ended
  /\ pc = "concat" => skipIdx >= 0
  /\ pc \in Before => conv = 0

(* what it has issued,                                                     *)
Stream ==
  /\ queue \in Seq(Elements(queue))
  /\ \A op \in Elements(queue) : WorkOp(op)
  /\ pc \in Before \cup {"upload", "release", "returned"} => queue = <<>>

(* and what is allocated.                                                  *)
Memory ==
  /\ pc \in {"sizeEncoder", "sizeDecoder"} => allocated = {"weights"}
  /\ pc = "malloc" => allocated \in {{"weights"}, {"weights", "encode"},
                                     {"weights", "encode", "buf0"}}
  /\ pc \in Issuing \cup {"upload", "release", "threw"} => allocated = Everything
  /\ pc \in {"returned", "exited"} => allocated = {}

IInv == Walk /\ Stream /\ Memory

LEMMA Types == IInv => TypeOK
<1>1. Memory /\ Walk => allocated \subseteq Work \cup {"encode", "weights"}
  BY DEF Memory, Walk, InLayer, Work, Everything, Issuing, Before, Ended
<1>2. Stream => \A i \in DOMAIN queue : queue[i].src \in Work /\ queue[i].dst \in Work \cup {"encode"}
  BY DEF Stream, WorkOp, Elements
<1>3. QED
  BY <1>1, <1>2 DEF Walk, InLayer, IInv, TypeOK, LayerNames

LEMMA InitIInv == Init => IInv
<1> SUFFICES ASSUME Init PROVE IInv
  OBVIOUS
<1>1. Walk
  BY LayerFacts, FirstSkipType DEF Init, Walk, InLayer, LayerNames, Before, Issuing, Ended
<1>2. Stream
  BY DEF Init, Stream, Elements
<1>3. Memory
  BY DEF Init, Memory, Issuing
<1>4. QED
  BY <1>1, <1>2, <1>3 DEF IInv

-----------------------------------------------------------------------------
(* What the steps have in common.                                          *)

(* exit() empties the stream and returns the memory.                       *)
LEMMA ExitIInv == IInv /\ Exit => IInv'
<1> SUFFICES ASSUME IInv, Exit PROVE IInv'
  OBVIOUS
<1>1. pc' = "exited" /\ queue' = <<>> /\ allocated' = {}
  BY DEF Exit
<1>2. Walk'
  BY DEF IInv, Walk, InLayer, Exit, Before, Issuing, Ended, LayerAt
<1>3. Stream'
  BY <1>1 DEF Stream, Elements
<1>4. Memory'
  BY <1>1 DEF Memory, Issuing
<1>5. QED
  BY <1>2, <1>3, <1>4 DEF IInv

(* The host issues an operation and goes on issuing.                       *)
LEMMA IssueStream ==
  ASSUME IInv, NEW op, WorkOp(op), pc' \in Issuing, queue' = Append(queue, op)
  PROVE  Stream'
<1>1. queue' \in Seq(Elements(queue')) /\ Elements(queue') = Elements(queue) \cup {op}
  BY AppendElements DEF IInv, Stream
<1>2. pc' \notin Before \cup {"upload", "release", "returned"}
  BY DEF Issuing, Before
<1>3. QED
  BY <1>1, <1>2 DEF IInv, Stream

LEMMA KeepStream ==
  ASSUME IInv, pc' \in Issuing \cup {"threw"}, queue' = queue
  PROVE  Stream'
<1>1. pc' \notin Before \cup {"upload", "release", "returned"}
  BY DEF Issuing, Before
<1>2. QED
  BY <1>1 DEF IInv, Stream

LEMMA KeepMemory ==
  ASSUME IInv, pc \in Issuing \cup {"upload"}, pc' \in Issuing \cup {"threw", "release"},
         allocated' = allocated
  PROVE  Memory'
  BY DEF IInv, Memory, Issuing

LEMMA OperationIsWork ==
  ASSUME IInv, NEW kind, NEW c2, NEW off, NEW id
  PROVE  /\ WorkOp(Operation(kind, bufs[1], bufs[2], c2, off, id))
         /\ WorkOp(Operation(kind, bufs[1], "encode", c2, off, id))
         /\ WorkOp(Operation(kind, bufs[2], "encode", c2, off, id))
  BY DEF IInv, Walk, InLayer, WorkOp, Operation, Work

LEMMA EnterLayerType ==
  ASSUME NEW at \in LayerNames, NEW skip, EnterLayer(at, skip)
  PROVE  /\ layer' = at /\ conv' \in 0 .. NumConvs(LayerAt(layer'))
         /\ pc' \in {"concat", "layer"} /\ (pc' = "concat" => skip >= 0)
  BY LayerFacts DEF EnterLayer

LEMMA LeaveLayerType ==
  ASSUME InLayer, LeaveLayer
  PROVE  /\ InLayer'
         /\ pc' \in {"concat", "layer", "inverse"} /\ (pc' = "concat" => skipIdx' >= 0)
<1>1. layer \in LayerNames /\ skipIdx \in -1 .. FirstSkip /\ conv \in 0 .. NumConvs(LayerAt(layer))
  BY DEF InLayer
<1>2. CASE layer[2] + 1 < LayerCount(layer[1])
  <2>1. EnterLayer(<<layer[1], layer[2] + 1>>, skipIdx) /\ skipIdx' = skipIdx
    BY <1>2 DEF LeaveLayer
  <2>2. <<layer[1], layer[2] + 1>> \in LayerNames
    BY <1>1, <1>2, LayerFacts DEF LayerNames, LayerCount
  <2>3. QED
    BY <1>1, <2>1, <2>2, EnterLayerType DEF InLayer
<1>3. CASE ~(layer[2] + 1 < LayerCount(layer[1])) /\ layer[1] = "encoder"
  <2>1. EnterLayer(<<"decoder", 0>>, FirstSkip) /\ skipIdx' = FirstSkip
    BY <1>3 DEF LeaveLayer
  <2>2. <<"decoder", 0>> \in LayerNames
    BY LayerFacts DEF LayerNames
  <2>3. QED
    BY <2>1, <2>2, EnterLayerType, FirstSkipType DEF InLayer
<1>4. CASE ~(layer[2] + 1 < LayerCount(layer[1])) /\ layer[1] # "encoder"
  BY <1>1, <1>4 DEF LeaveLayer, InLayer
<1>5. QED
  BY <1>2, <1>3, <1>4

-----------------------------------------------------------------------------
(* The steps.                                                              *)

LEMMA SizingIInv == IInv /\ (SizeEncoder \/ SizeDecoder) => IInv'
<1> SUFFICES ASSUME IInv, SizeEncoder \/ SizeDecoder PROVE IInv'
  OBVIOUS
<1>1. /\ queue' = queue /\ allocated' = allocated /\ image' = image /\ bufs' = bufs /\ conv' = conv
      /\ pc \in {"sizeEncoder", "sizeDecoder"} /\ pc' \in {"sizeEncoder", "sizeDecoder", "malloc"}
  BY DEF SizeEncoder, SizeDecoder, deviceVars
<1>2. layer' \in LayerNames /\ skipIdx' \in -1 .. FirstSkip
  BY LayerFacts, FirstSkipType DEF SizeEncoder, SizeDecoder, IInv, Walk, InLayer, LayerNames
<1>3. conv' = 0 /\ 0 \in 0 .. NumConvs(LayerAt(layer'))
  BY <1>1, <1>2, LayerFacts DEF IInv, Walk, InLayer, Before
<1>4. Walk'
  BY <1>1, <1>2, <1>3 DEF IInv, Walk, InLayer, Before
<1>5. Stream'
  BY <1>1 DEF IInv, Stream, Before
<1>6. Memory'
  BY <1>1 DEF IInv, Memory, Issuing
<1>7. QED
  BY <1>4, <1>5, <1>6 DEF IInv

LEMMA MallocIInv == IInv /\ Malloc => IInv'
<1> SUFFICES ASSUME IInv, Malloc PROVE IInv'
  OBVIOUS
<1> DEFINE b == IF "encode" \notin allocated THEN "encode"
                ELSE IF "buf0" \notin allocated THEN "buf0" ELSE "buf1"
<1>1. pc = "malloc" /\ allocated \in {{"weights"}, {"weights", "encode"}, {"weights", "encode", "buf0"}}
  BY DEF Malloc, IInv, Memory
<1>2. CASE Exit
  BY <1>2, ExitIInv
<1>3. CASE ~Exit
  <2>1. /\ allocated' = allocated \cup {b} /\ pc' = IF b = "buf1" THEN "upload" ELSE "malloc"
        /\ UNCHANGED <<image, layer, conv, bufs, skipIdx, queue>>
    BY <1>3 DEF Malloc
  <2>2. Walk'
    BY <1>1, <2>1 DEF IInv, Walk, InLayer, Before, LayerAt
  <2>3. Stream'
    BY <1>1, <2>1 DEF IInv, Stream, Before
  <2>4. Memory'
    BY <1>1, <2>1 DEF Memory, Issuing, Everything
  <2>5. QED
    BY <2>2, <2>3, <2>4 DEF IInv
<1>4. QED
  BY <1>2, <1>3

LEMMA UploadIInv == IInv /\ Upload => IInv'
<1> SUFFICES ASSUME IInv, Upload PROVE IInv'
  OBVIOUS
<1>1. CASE ~Exit
  <2>1. /\ pc = "upload" /\ pc' = "transfer"
        /\ UNCHANGED <<image, layer, conv, bufs, skipIdx, queue, allocated>>
    BY <1>1 DEF Upload
  <2>2. Walk'
    BY <2>1 DEF IInv, Walk, InLayer, Issuing, Before, LayerAt
  <2>3. Stream' /\ Memory'
    BY <2>1, KeepStream, KeepMemory DEF Issuing
  <2>4. QED
    BY <2>2, <2>3 DEF IInv
<1>2. QED
  BY <1>1, ExitIInv

LEMMA TransferIInv == IInv /\ Transfer => IInv'
<1> SUFFICES ASSUME IInv, Transfer PROVE IInv'
  OBVIOUS
<1>1. CASE ~Exit
  <2> DEFINE op == Operation("transfer", bufs[1], bufs[2], 0, 0, <<>>)
  <2>1. /\ pc = "transfer" /\ pc' = "saveImage" /\ queue' = Append(queue, op)
        /\ UNCHANGED <<image, layer, conv, bufs, skipIdx, allocated>>
    BY <1>1 DEF Transfer, CheckedLaunch
  <2>2. WorkOp(op)
    BY OperationIsWork
  <2> HIDE DEF op
  <2>3. Walk'
    BY <2>1 DEF IInv, Walk, InLayer, Issuing, Before, LayerAt
  <2>4. Stream' /\ Memory'
    BY <2>1, <2>2, IssueStream, KeepMemory DEF Issuing
  <2>5. QED
    BY <2>3, <2>4 DEF IInv
<1>2. QED
  BY <1>1, ExitIInv

LEMMA SaveImageIInv == IInv /\ SaveImage => IInv'
<1> SUFFICES ASSUME IInv, SaveImage PROVE IInv'
  OBVIOUS
<1>1. CASE ~Exit
  <2> DEFINE op == Operation("save", bufs[2], "encode", 0, 0, <<>>)
  <2>1. /\ pc = "saveImage" /\ queue' = Append(queue, op) /\ bufs' = Swap(bufs)
        /\ EnterLayer(<<"encoder", 0>>, skipIdx)
        /\ UNCHANGED <<image, skipIdx, allocated>>
    BY <1>1 DEF SaveImage
  <2>2. WorkOp(op)
    BY OperationIsWork
  <2> HIDE DEF op
  <2>3. <<"encoder", 0>> \in LayerNames
    BY LayerFacts DEF LayerNames
  <2>4. /\ layer' \in LayerNames /\ conv' \in 0 .. NumConvs(LayerAt(layer'))
        /\ pc' \in {"concat", "layer"} /\ (pc' = "concat" => skipIdx >= 0)
    BY <2>1, <2>3, EnterLayerType
  <2>5. Walk'
    BY <2>1, <2>4 DEF IInv, Walk, InLayer, Issuing, Before, Swap
  <2>6. Stream' /\ Memory'
    BY <2>1, <2>2, <2>4, IssueStream, KeepMemory DEF Issuing
  <2>7. QED
    BY <2>5, <2>6 DEF IInv
<1>2. QED
  BY <1>1, ExitIInv

LEMMA ConvolveIInv == IInv /\ Convolve => IInv'
<1> SUFFICES ASSUME IInv, Convolve PROVE IInv'
  OBVIOUS
<1> DEFINE op == Operation("conv", bufs[1], bufs[2], OutChannels(LayerAt(layer), conv), 0,
                           Append(layer, conv))
<1>1. /\ pc = "layer" /\ conv < NumConvs(LayerAt(layer))
      /\ UNCHANGED <<image, layer, skipIdx, allocated>>
  BY DEF Convolve
<1>2. WorkOp(op)
  BY OperationIsWork
<1>3. CASE shape.c \in SupportedInC
  <2>1. Launch(op) /\ bufs' = Swap(bufs) /\ conv' = conv + 1 /\ pc' = pc
    BY <1>3 DEF Convolve
  <2> HIDE DEF op
  <2>2. conv' \in 0 .. NumConvs(LayerAt(layer'))
    <3>1. conv \in 0 .. NumConvs(LayerAt(layer)) /\ layer \in LayerNames
      BY DEF IInv, Walk, InLayer
    <3>2. NumConvs(LayerAt(layer)) \in Nat
      BY <3>1, LayerFacts
    <3>3. LayerAt(layer') = LayerAt(layer)
      BY <1>1
    <3>4. QED
      BY <1>1, <2>1, <3>1, <3>2, <3>3
  <2>3. Walk'
    BY <1>1, <2>1, <2>2 DEF IInv, Walk, InLayer, Issuing, Before, Swap
  <2>4. Stream'
    BY <1>1, <1>2, <2>1, IssueStream, KeepStream DEF Launch, Issuing
  <2>5. Memory'
    BY <1>1, <2>1, KeepMemory DEF Issuing
  <2>6. QED
    BY <2>3, <2>4, <2>5 DEF IInv
<1>4. CASE shape.c \notin SupportedInC
  <2>1. pc' = "threw" /\ UNCHANGED <<bufs, conv, queue>>
    BY <1>4 DEF Convolve
  <2>2. Walk'
    BY <1>1, <2>1 DEF IInv, Walk, InLayer, Before, Ended, LayerAt
  <2>3. Stream' /\ Memory'
    BY <1>1, <2>1, KeepStream, KeepMemory DEF Issuing
  <2>4. QED
    BY <2>2, <2>3 DEF IInv
<1>5. QED
  BY <1>3, <1>4

LEMMA PostOpIInv == IInv /\ PostOp => IInv'
<1> SUFFICES ASSUME IInv, PostOp PROVE IInv'
  OBVIOUS
<1> DEFINE post == LayerAt(layer).post
           op == Operation(post, bufs[1], bufs[2], 0, 0, <<>>)
           next == IF SavesOutput THEN pc' = "saveOutput" /\ UNCHANGED <<layer, conv, skipIdx>>
                   ELSE LeaveLayer
<1>1. CASE ~Exit
  <2>1. /\ pc = "layer" /\ next
        /\ UNCHANGED <<image, allocated>>
        /\ \/ queue' = Append(queue, op) /\ bufs' = Swap(bufs)
           \/ queue' = queue /\ bufs' = bufs
    BY <1>1 DEF PostOp, CheckedLaunch, deviceVars
  <2>2. WorkOp(op)
    BY OperationIsWork
  <2>3. /\ layer' \in LayerNames /\ skipIdx' \in -1 .. FirstSkip
        /\ conv' \in 0 .. NumConvs(LayerAt(layer'))
        /\ pc' \in {"saveOutput", "concat", "layer", "inverse"}
        /\ pc' = "concat" => skipIdx' >= 0
    <3>1. CASE SavesOutput
      BY <2>1, <3>1 DEF IInv, Walk, InLayer, LayerAt
    <3>2. CASE ~SavesOutput
      BY <2>1, <3>2, LeaveLayerType DEF IInv, Walk, InLayer
    <3>3. QED
      BY <3>1, <3>2
  <2> HIDE DEF op, next
  <2>4. Walk'
    BY <2>1, <2>3 DEF IInv, Walk, InLayer, Issuing, Before, Swap
  <2>5. Stream'
    BY <2>1, <2>2, <2>3, IssueStream, KeepStream DEF Issuing
  <2>6. Memory'
    BY <2>1, <2>3, KeepMemory DEF Issuing
  <2>7. QED
    BY <2>4, <2>5, <2>6 DEF IInv
<1>2. QED
  BY <1>1, ExitIInv

LEMMA SaveOutputIInv == IInv /\ SaveOutput => IInv'
<1> SUFFICES ASSUME IInv, SaveOutput PROVE IInv'
  OBVIOUS
<1>1. CASE ~Exit
  <2> DEFINE op == Operation("save", bufs[1], "encode", 0, SaveOffset(layer[2]), <<>>)
  <2>1. /\ pc = "saveOutput" /\ queue' = Append(queue, op) /\ LeaveLayer
        /\ UNCHANGED <<image, bufs, allocated>>
    BY <1>1 DEF SaveOutput
  <2>2. WorkOp(op)
    BY OperationIsWork
  <2> HIDE DEF op
  <2>3. /\ layer' \in LayerNames /\ skipIdx' \in -1 .. FirstSkip
        /\ conv' \in 0 .. NumConvs(LayerAt(layer'))
        /\ pc' \in {"concat", "layer", "inverse"} /\ (pc' = "concat" => skipIdx' >= 0)
    BY <2>1, LeaveLayerType DEF IInv, Walk, InLayer
  <2>4. Walk'
    BY <2>1, <2>3 DEF IInv, Walk, InLayer, Issuing, Before
  <2>5. Stream' /\ Memory'
    BY <2>1, <2>2, <2>3, IssueStream, KeepMemory DEF Issuing
  <2>6. QED
    BY <2>4, <2>5 DEF IInv
<1>2. QED
  BY <1>1, ExitIInv

LEMMA ConcatIInv == IInv /\ Concat => IInv'
<1> SUFFICES ASSUME IInv, Concat PROVE IInv'
  OBVIOUS
<1>1. CASE ~Exit
  <2> DEFINE op == Operation("concat", bufs[1], bufs[2], SkipChannels(skipIdx),
                             IF skipIdx = 0 THEN 0 ELSE sizes.offset[skipIdx + 2], <<>>)
  <2>1. /\ pc = "concat" /\ pc' = "layer" /\ queue' = Append(queue, op) /\ bufs' = Swap(bufs)
        /\ skipIdx' = skipIdx - 1
        /\ UNCHANGED <<image, layer, conv, allocated>>
    BY <1>1 DEF Concat, CheckedLaunch
  <2>2. WorkOp(op)
    BY OperationIsWork
  <2> HIDE DEF op
  <2>3. skipIdx' \in -1 .. FirstSkip
    BY <2>1, FirstSkipType DEF IInv, Walk, InLayer
  <2>4. Walk'
    BY <2>1, <2>3 DEF IInv, Walk, InLayer, Issuing, Before, Swap, LayerAt
  <2>5. Stream' /\ Memory'
    BY <2>1, <2>2, IssueStream, KeepMemory DEF Issuing
  <2>6. QED
    BY <2>4, <2>5 DEF IInv
<1>2. QED
  BY <1>1, ExitIInv

LEMMA InverseIInv == IInv /\ InverseTransfer => IInv'
<1> SUFFICES ASSUME IInv, InverseTransfer PROVE IInv'
  OBVIOUS
<1>1. CASE ~Exit
  <2> DEFINE op == Operation("inverse", bufs[1], bufs[2], 0, 0, <<>>)
  <2>1. /\ pc = "inverse" /\ pc' = "download" /\ queue' = Append(queue, op)
        /\ UNCHANGED <<image, layer, conv, bufs, skipIdx, allocated>>
    BY <1>1 DEF InverseTransfer, CheckedLaunch
  <2>2. WorkOp(op)
    BY OperationIsWork
  <2> HIDE DEF op
  <2>3. Walk'
    BY <2>1 DEF IInv, Walk, InLayer, Issuing, Before, LayerAt
  <2>4. Stream' /\ Memory'
    BY <2>1, <2>2, IssueStream, KeepMemory DEF Issuing
  <2>5. QED
    BY <2>3, <2>4 DEF IInv
<1>2. QED
  BY <1>1, ExitIInv

(* The blocking copy leaves the queue empty, ...                           *)
LEMMA DownloadIInv == IInv /\ Download => IInv'
<1> SUFFICES ASSUME IInv, Download PROVE IInv'
  OBVIOUS
<1>1. CASE ~Exit
  <2>1. /\ pc = "download" /\ pc' = "release" /\ queue = <<>> /\ queue' = queue
        /\ UNCHANGED <<image, layer, conv, bufs, skipIdx, allocated>>
    BY <1>1 DEF Download, deviceVars
  <2>2. Walk'
    BY <2>1 DEF IInv, Walk, InLayer, Issuing, Before, LayerAt
  <2>3. Stream' /\ Memory'
    BY <2>1, KeepMemory DEF IInv, Stream, Issuing
  <2>4. QED
    BY <2>2, <2>3 DEF IInv
<1>2. QED
  BY <1>1, ExitIInv

(* ... so nothing needs what is freed then.                                *)
LEMMA ReleaseIInv == IInv /\ Release => IInv'
<1> SUFFICES ASSUME IInv, Release PROVE IInv'
  OBVIOUS
<1>1. CASE ~Exit
  <2>1. /\ pc = "release" /\ pc' = "returned" /\ queue' = queue
        /\ allocated' = allocated \ {bufs[1], bufs[2], "encode", "weights"}
        /\ UNCHANGED <<image, layer, conv, bufs, skipIdx>>
    BY <1>1 DEF Release
  <2>2. allocated' = {}
    BY <2>1 DEF IInv, Walk, InLayer, Memory, Everything
  <2>3. Walk'
    BY <2>1 DEF IInv, Walk, InLayer, Ended, Before, LayerAt
  <2>4. Stream' /\ Memory'
    BY <2>1, <2>2 DEF IInv, Stream, Memory, Issuing
  <2>5. QED
    BY <2>3, <2>4 DEF IInv
<1>2. QED
  BY <1>1, ExitIInv

LEMMA DeviceIInv == IInv /\ (Execute \/ Fault) => IInv'
<1> SUFFICES ASSUME IInv, Execute \/ Fault PROVE IInv'
  OBVIOUS
<1>1. UNCHANGED hostVars /\ allocated' = allocated
  BY DEF Execute, Fault
<1>2. Walk' /\ Memory'
  BY <1>1 DEF IInv, Walk, InLayer, Memory, hostVars, LayerAt
<1>3. CASE Execute
  <2>1. queue # <<>> /\ queue' = Tail(queue)
    BY <1>3 DEF Execute
  <2>2. queue' \in Seq(Elements(queue')) /\ Elements(queue') \subseteq Elements(queue)
    BY <2>1, TailElements DEF IInv, Stream
  <2>3. pc' \notin Before \cup {"upload", "release", "returned"}
    BY <1>1, <2>1 DEF IInv, Stream, hostVars
  <2>4. Stream'
    BY <2>2, <2>3 DEF IInv, Stream
  <2>5. QED
    BY <1>2, <2>4 DEF IInv
<1>4. CASE Fault
  BY <1>1, <1>2, <1>4 DEF Fault, IInv, Stream, hostVars
<1>5. QED
  BY <1>3, <1>4

LEMMA StepIInv == IInv /\ [Next]_vars => IInv'
<1>1. IInv /\ UNCHANGED vars => IInv'
  BY DEF IInv, Walk, InLayer, Stream, Memory, vars, hostVars, deviceVars, LayerAt
<1>2. IInv /\ Over => IInv'
  BY <1>1 DEF Over
<1>3. QED
  BY <1>1, <1>2, SizingIInv, MallocIInv, UploadIInv, TransferIInv, SaveImageIInv, ConvolveIInv,
     PostOpIInv, SaveOutputIInv, ConcatIInv, InverseIInv, DownloadIInv, ReleaseIInv, DeviceIInv
     DEF Next, HostStep

(* oidn_unet_cuda keeps its inductive invariant: wherever the host is in   *)
(* the network, the stream holds only work on the buffers that are still   *)
(* allocated, and nothing once the host has waited for it.                 *)
THEOREM IInvHolds == Spec => []IInv
  BY InitIInv, StepIInv, PTL DEF Spec

-----------------------------------------------------------------------------
(* Memory: the properties.                                                 *)

(* The host never gets to a layer, a convolution or a saved tensor that    *)
(* the network does not have, and issues work on the two buffers only.     *)
THEOREM TypeCorrect == Spec => []TypeOK
  BY IInvHolds, Types, PTL

(* oidn_unet_cuda frees nothing that an operation still in the stream      *)
(* uses, for any network, image and failure of the GPU.                    *)
THEOREM NothingFreedInUse == Spec => []NoUseAfterFree
<1>1. IInv => NoUseAfterFree
  <2> SUFFICES ASSUME IInv, pc # "exited", NEW op \in Issued PROVE Uses(op) \subseteq allocated
    BY DEF NoUseAfterFree
  <2>1. op \in Elements(queue) /\ queue # <<>>
    BY DEF Issued, Elements
  <2>2. pc \in Issuing \cup {"threw"}
    BY <2>1 DEF IInv, Walk, InLayer, Stream, Ended
  <2>3. allocated = Everything
    BY <2>2 DEF IInv, Memory
  <2>4. WorkOp(op)
    BY <2>1 DEF IInv, Stream
  <2>5. QED
    BY <2>3, <2>4 DEF WorkOp, Work, Uses, Everything
<1>2. QED
  BY <1>1, IInvHolds, PTL

(* A call that returns has given back the buffers and the model.           *)
THEOREM EverythingReleased == Spec => []ReleasesAll
<1>1. IInv => ReleasesAll
  BY DEF IInv, Memory, ReleasesAll
<1>2. QED
  BY <1>1, IInvHolds, PTL

-----------------------------------------------------------------------------
(* Errors.  Only a convolution's launch leaves an error behind, and a      *)
(* checked launch follows all of them; a fault needs an operation to       *)
(* execute, and there is none after the blocking copy.                     *)

ErrorInv ==
  /\ pc \in Before \cup {"upload", "transfer", "download", "release", "returned"} => ~lastError
  /\ pc \in {"release", "returned"} => ~fault

LEMMA InitErrorInv == Init => ErrorInv
  BY DEF Init, ErrorInv

LEMMA StepErrorInv == IInv /\ ErrorInv /\ [Next]_vars => ErrorInv'
<1> SUFFICES ASSUME IInv, ErrorInv, [Next]_vars PROVE ErrorInv'
  OBVIOUS
<1>1. CASE Exit
  BY <1>1 DEF Exit, ErrorInv, Before
<1>2. CASE SizeEncoder \/ SizeDecoder
  BY <1>2 DEF SizeEncoder, SizeDecoder, ErrorInv, Before, deviceVars
<1>3. CASE (Malloc \/ Upload) /\ ~Exit
  BY <1>3 DEF Malloc, Upload, ErrorInv, Before
<1>4. CASE (Transfer \/ InverseTransfer) /\ ~Exit
  BY <1>4 DEF Transfer, InverseTransfer, CheckedLaunch, ErrorInv, Before
<1>5. CASE SaveImage /\ ~Exit
  <2>1. pc' = "layer"
    BY <1>5 DEF SaveImage, EnterLayer
  <2>2. QED
    BY <2>1 DEF ErrorInv, Before
<1>6. CASE Convolve
  <2>1. pc' \in {"layer", "threw"}
    BY <1>6 DEF Convolve
  <2>2. QED
    BY <2>1 DEF ErrorInv, Before
<1>7. CASE (PostOp \/ SaveOutput) /\ ~Exit
  <2>1. pc' = "saveOutput" \/ LeaveLayer
    BY <1>7 DEF PostOp, SaveOutput
  <2>2. pc' \in {"saveOutput", "concat", "layer", "inverse"}
    BY <2>1, LeaveLayerType DEF IInv, Walk, InLayer
  <2>3. QED
    BY <2>2 DEF ErrorInv, Before
<1>8. CASE Concat /\ ~Exit
  <2>1. pc' = "layer"
    BY <1>8 DEF Concat
  <2>2. QED
    BY <2>1 DEF ErrorInv, Before
<1>9. CASE (Download \/ Release) /\ ~Exit
  BY <1>9 DEF Download, Release, ErrorInv, Before, deviceVars
<1>10. CASE Execute
  BY <1>10 DEF Execute, ErrorInv, hostVars
<1>11. CASE Fault
  <2>1. pc \notin {"release", "returned"}
    BY <1>11 DEF Fault, IInv, Stream
  <2>2. QED
    BY <1>11, <2>1 DEF Fault, ErrorInv, hostVars
<1>12. CASE Over \/ UNCHANGED vars
  BY <1>12 DEF Over, vars, hostVars, deviceVars, ErrorInv
<1>13. QED
  BY <1>1, <1>2, <1>3, <1>4, <1>5, <1>6, <1>7, <1>8, <1>9, <1>10, <1>11, <1>12 DEF Next, HostStep

(* Although gpu_conv's launches are not checked, oidn_unet_cuda never      *)
(* hands over an image that one of them, or a faulting device, is missing  *)
(* from.                                                                   *)
THEOREM FailuresNoticed == Spec => []NoSilentFailure
<1>1. ErrorInv => NoSilentFailure
  BY DEF ErrorInv, NoSilentFailure
<1>2. QED
  BY <1>1, IInvHolds, InitErrorInv, StepErrorInv, PTL DEF Spec

-----------------------------------------------------------------------------
(* The value of the network.  Its three recursive functions exist, so they *)
(* satisfy their equations: each is extended by one element at a time.     *)

LEMMA ConvolutionsAre ==
  ASSUME NEW half, NEW l, NEW y, NEW t, NumConvs(y) \in Nat
  PROVE  LET after == Convolutions(half, l, y, t)
         IN /\ after[0] = t
            /\ \A i \in 1 .. NumConvs(y) :
                 after[i] = Convolved(<<half, l, i - 1>>, y.out[i], after[i - 1])
<1> DEFINE Step(i, u) == Convolved(<<half, l, i - 1>>, y.out[i], u)
           Begins(g, n) == g[0] = t /\ \A i \in 1 .. n : g[i] = Step(i, g[i - 1])
           N == NumConvs(y)
           S == {n \in 0 .. N : \E g : Begins(g, n)}
           f == Convolutions(half, l, y, t)
<1> HIDE DEF Step
<1>1. 0 \in S
  <2> DEFINE e == [i \in {0} |-> t]
  <2>1. e[0] = t
    OBVIOUS
  <2> HIDE DEF e
  <2>2. Begins(e, 0) /\ 0 \in 0 .. N
    BY <2>1
  <2>3. QED
    BY <2>2
<1>2. \A n \in 0 .. N - 1 : n \in S => n + 1 \in S
  <2> TAKE n \in 0 .. N - 1
  <2> HAVE n \in S
  <2> PICK g : Begins(g, n)
    OBVIOUS
  <2> DEFINE h == [i \in 0 .. n + 1 |-> IF i <= n THEN g[i] ELSE Step(n + 1, g[n])]
  <2>1. /\ h[0] = g[0] /\ h[n + 1] = Step(n + 1, h[n])
        /\ \A i \in 1 .. n : h[i] = g[i] /\ h[i - 1] = g[i - 1]
    OBVIOUS
  <2> HIDE DEF h
  <2>2. Begins(h, n + 1)
    BY <2>1
  <2>3. n + 1 \in 0 .. N
    OBVIOUS
  <2>4. QED
    BY <2>2, <2>3
<1>3. PICK g : Begins(g, N)
  <2> HIDE DEF S
  <2>1. 0 .. N \subseteq S
    BY <1>1, <1>2, InductionUpTo
  <2>2. QED
    BY <2>1 DEF S
<1>4. \E e : e = [i \in 0 .. N |-> IF i = 0 THEN t ELSE Step(i, e[i - 1])]
  <2> DEFINE e == [i \in 0 .. N |-> g[i]]
  <2>1. \A i \in 0 .. N : e[i] = IF i = 0 THEN t ELSE Step(i, e[i - 1])
    BY <1>3
  <2>2. e = [i \in 0 .. N |-> IF i = 0 THEN t ELSE Step(i, e[i - 1])]
    BY <2>1
  <2>3. QED
    BY <2>2
<1>5. f = [i \in 0 .. N |-> IF i = 0 THEN t ELSE Step(i, f[i - 1])]
  BY <1>4 DEF Convolutions, Step
<1>6. QED
  BY <1>5 DEF Step

LEMMA EncodedIs ==
  ASSUME NEW size
  PROVE  LET encoded == Encoded(size)
         IN /\ encoded[0] = Transferred(Raw(size))
            /\ \A l \in 0 .. EncoderLayers - 1 :
                 encoded[l + 1] = LayerOutput("encoder", l, Encoder[l], encoded[l])
<1> DEFINE t == Transferred(Raw(size))
           Step(i, u) == LayerOutput("encoder", i - 1, Encoder[i - 1], u)
           Begins(g, n) == g[0] = t /\ \A i \in 1 .. n : g[i] = Step(i, g[i - 1])
           N == EncoderLayers
           S == {n \in 0 .. N : \E g : Begins(g, n)}
           f == Encoded(size)
<1> N \in Nat
  BY NetworkShape
<1> HIDE DEF Step, t
<1>1. 0 \in S
  <2> DEFINE e == [i \in {0} |-> t]
  <2>1. e[0] = t
    OBVIOUS
  <2> HIDE DEF e
  <2>2. Begins(e, 0) /\ 0 \in 0 .. N
    BY <2>1
  <2>3. QED
    BY <2>2
<1>2. \A n \in 0 .. N - 1 : n \in S => n + 1 \in S
  <2> TAKE n \in 0 .. N - 1
  <2> HAVE n \in S
  <2> PICK g : Begins(g, n)
    OBVIOUS
  <2> DEFINE h == [i \in 0 .. n + 1 |-> IF i <= n THEN g[i] ELSE Step(n + 1, g[n])]
  <2>1. /\ h[0] = g[0] /\ h[n + 1] = Step(n + 1, h[n])
        /\ \A i \in 1 .. n : h[i] = g[i] /\ h[i - 1] = g[i - 1]
    OBVIOUS
  <2> HIDE DEF h
  <2>2. Begins(h, n + 1)
    BY <2>1
  <2>3. n + 1 \in 0 .. N
    OBVIOUS
  <2>4. QED
    BY <2>2, <2>3
<1>3. PICK g : Begins(g, N)
  <2> HIDE DEF S
  <2>1. 0 .. N \subseteq S
    BY <1>1, <1>2, InductionUpTo
  <2>2. QED
    BY <2>1 DEF S
<1>4. \E e : e = [i \in 0 .. N |-> IF i = 0 THEN t ELSE Step(i, e[i - 1])]
  <2> DEFINE e == [i \in 0 .. N |-> g[i]]
  <2>1. \A i \in 0 .. N : e[i] = IF i = 0 THEN t ELSE Step(i, e[i - 1])
    BY <1>3
  <2>2. e = [i \in 0 .. N |-> IF i = 0 THEN t ELSE Step(i, e[i - 1])]
    BY <2>1
  <2>3. QED
    BY <2>2
<1>5. f = [i \in 0 .. N |-> IF i = 0 THEN t ELSE Step(i, f[i - 1])]
  BY <1>4 DEF Encoded, Step, t
<1>6. f[0] = t /\ \A i \in 0 .. N - 1 : i + 1 \in 0 .. N /\ f[i + 1] = Step(i + 1, f[i])
  BY <1>5
<1>7. \A i \in 0 .. N - 1 : (i + 1) - 1 = i
  OBVIOUS
<1>8. QED
  BY <1>6, <1>7 DEF Step, t

LEMMA DecodedIs ==
  ASSUME NEW size
  PROVE  LET encoded == Encoded(size)
             decoded == Decoded(size)
         IN /\ decoded[0] = encoded[EncoderLayers]
            /\ \A l \in 0 .. DecoderLayers - 1 :
                 decoded[l + 1] = LayerOutput("decoder", l, Decoder[l],
                                              Joined(Decoder[l], encoded, decoded[l]))
<1> DEFINE t == Encoded(size)[EncoderLayers]
           Step(i, u) == LayerOutput("decoder", i - 1, Decoder[i - 1], Joined(Decoder[i - 1], Encoded(size), u))
           Begins(g, n) == g[0] = t /\ \A i \in 1 .. n : g[i] = Step(i, g[i - 1])
           N == DecoderLayers
           S == {n \in 0 .. N : \E g : Begins(g, n)}
           f == Decoded(size)
<1> N \in Nat
  BY NetworkShape
<1> HIDE DEF Step, t
<1>1. 0 \in S
  <2> DEFINE e == [i \in {0} |-> t]
  <2>1. e[0] = t
    OBVIOUS
  <2> HIDE DEF e
  <2>2. Begins(e, 0) /\ 0 \in 0 .. N
    BY <2>1
  <2>3. QED
    BY <2>2
<1>2. \A n \in 0 .. N - 1 : n \in S => n + 1 \in S
  <2> TAKE n \in 0 .. N - 1
  <2> HAVE n \in S
  <2> PICK g : Begins(g, n)
    OBVIOUS
  <2> DEFINE h == [i \in 0 .. n + 1 |-> IF i <= n THEN g[i] ELSE Step(n + 1, g[n])]
  <2>1. /\ h[0] = g[0] /\ h[n + 1] = Step(n + 1, h[n])
        /\ \A i \in 1 .. n : h[i] = g[i] /\ h[i - 1] = g[i - 1]
    OBVIOUS
  <2> HIDE DEF h
  <2>2. Begins(h, n + 1)
    BY <2>1
  <2>3. n + 1 \in 0 .. N
    OBVIOUS
  <2>4. QED
    BY <2>2, <2>3
<1>3. PICK g : Begins(g, N)
  <2> HIDE DEF S
  <2>1. 0 .. N \subseteq S
    BY <1>1, <1>2, InductionUpTo
  <2>2. QED
    BY <2>1 DEF S
<1>4. \E e : e = [i \in 0 .. N |-> IF i = 0 THEN t ELSE Step(i, e[i - 1])]
  <2> DEFINE e == [i \in 0 .. N |-> g[i]]
  <2>1. \A i \in 0 .. N : e[i] = IF i = 0 THEN t ELSE Step(i, e[i - 1])
    BY <1>3
  <2>2. e = [i \in 0 .. N |-> IF i = 0 THEN t ELSE Step(i, e[i - 1])]
    BY <2>1
  <2>3. QED
    BY <2>2
<1>5. f = [i \in 0 .. N |-> IF i = 0 THEN t ELSE Step(i, f[i - 1])]
  BY <1>4 DEF Decoded, Step, t
<1>6. f[0] = t /\ \A i \in 0 .. N - 1 : i + 1 \in 0 .. N /\ f[i + 1] = Step(i + 1, f[i])
  BY <1>5
<1>7. \A i \in 0 .. N - 1 : (i + 1) - 1 = i
  OBVIOUS
<1>8. QED
  BY <1>6, <1>7 DEF Step, t

-----------------------------------------------------------------------------
(* Heights and widths.                                                     *)

LEMMA CountIs ==
  ASSUME NEW layers, NEW post
  PROVE  /\ Count(layers, 0, post) = 0
         /\ \A l \in Nat :
              /\ Count(layers, l, post) \in Nat
              /\ Count(layers, l + 1, post)
                   = Count(layers, l, post) + (IF layers[l].post = post THEN 1 ELSE 0)
<1> DEFINE S(l) == {k \in 0 .. l - 1 : layers[k].post = post}
<1>1. S(0) = {}
  OBVIOUS
<1>2. ASSUME NEW l \in Nat
      PROVE  /\ IsFiniteSet(S(l)) /\ l \notin S(l)
             /\ S(l + 1) = IF layers[l].post = post THEN S(l) \cup {l} ELSE S(l)
  <2>1. S(l) \in SUBSET Nat /\ l - 1 \in Int /\ \A k \in S(l) : k <= l
    OBVIOUS
  <2>2. IsFiniteSet(S(l))
    <3> HIDE DEF S
    <3>1. QED
      BY <2>1, FS_BoundedSetOfNaturals
  <2>3. l \notin S(l)
    OBVIOUS
  <2>4. S(l + 1) = IF layers[l].post = post THEN S(l) \cup {l} ELSE S(l)
    OBVIOUS
  <2>5. QED
    BY <2>2, <2>3, <2>4
<1> HIDE DEF S
<1>3. ASSUME NEW l \in Nat
      PROVE  /\ Cardinality(S(l)) \in Nat
             /\ Cardinality(S(l + 1)) = Cardinality(S(l)) + (IF layers[l].post = post THEN 1 ELSE 0)
  <2>1. IsFiniteSet(S(l)) /\ Cardinality(S(l)) \in Nat
    BY <1>2, FS_CardinalityType
  <2>2. Cardinality(S(l) \cup {l}) = Cardinality(S(l)) + 1
    BY <1>2, <2>1, FS_AddElement
  <2>3. CASE layers[l].post = post
    <3>1. S(l + 1) = S(l) \cup {l}
      BY <1>2, <2>3
    <3>2. QED
      BY <2>1, <2>2, <2>3, <3>1
  <2>4. CASE layers[l].post # post
    <3>1. S(l + 1) = S(l)
      BY <1>2, <2>4
    <3>2. QED
      BY <2>1, <2>4, <3>1
  <2>5. QED
    BY <2>3, <2>4
<1>4. Cardinality(S(0)) = 0
  BY <1>1, FS_EmptySet
<1>5. QED
  BY <1>3, <1>4 DEF Count, S

LEMMA LevelSteps ==
  /\ EncoderLevel(0) = 0
  /\ \A l \in 0 .. EncoderLayers - 1 :
       EncoderLevel(l + 1) = EncoderLevel(l) + (CASE Encoder[l].post = "MAX_POOL" -> 1
                                                  [] Encoder[l].post = "NN_UPSAMPLE" -> -1
                                                  [] OTHER -> 0)
  /\ DecoderLevel(0) = EncoderLevel(EncoderLayers)
  /\ \A l \in 0 .. DecoderLayers - 1 :
       DecoderLevel(l + 1) = DecoderLevel(l) - (IF Decoder[l].post = "NN_UPSAMPLE" THEN 1 ELSE 0)
<1> DEFINE E(l, post) == Count(Encoder, l, post)
           D(l, post) == Count(Decoder, l, post)
<1>a. \A post : E(0, post) = 0 /\ D(0, post) = 0
  BY CountIs
<1>b. \A post : \A l \in Nat :
        /\ E(l, post) \in Nat
        /\ E(l + 1, post) = E(l, post) + (IF Encoder[l].post = post THEN 1 ELSE 0)
  BY CountIs
<1>c. \A post : \A l \in Nat :
        /\ D(l, post) \in Nat
        /\ D(l + 1, post) = D(l, post) + (IF Decoder[l].post = post THEN 1 ELSE 0)
  BY CountIs
<1> HIDE DEF E, D
<1>1. EncoderLevel(0) = 0
  BY <1>a DEF EncoderLevel, E
<1>2. ASSUME NEW l \in 0 .. EncoderLayers - 1
      PROVE  EncoderLevel(l + 1) = EncoderLevel(l) + (CASE Encoder[l].post = "MAX_POOL" -> 1
                                                  [] Encoder[l].post = "NN_UPSAMPLE" -> -1
                                                  [] OTHER -> 0)
  BY <1>b, NetworkShape DEF EncoderLevel, E
<1>3. EncoderLevel(EncoderLayers) \in Int
  BY <1>b, NetworkShape DEF EncoderLevel, E
<1>4. DecoderLevel(0) = EncoderLevel(EncoderLayers)
  BY <1>3, <1>a DEF DecoderLevel, D
<1>5. ASSUME NEW l \in 0 .. DecoderLayers - 1
      PROVE  DecoderLevel(l + 1) = DecoderLevel(l) - (IF Decoder[l].post = "NN_UPSAMPLE" THEN 1 ELSE 0)
  <2>1. /\ D(l, "NN_UPSAMPLE") \in Nat
        /\ D(l + 1, "NN_UPSAMPLE") = D(l, "NN_UPSAMPLE") + (IF Decoder[l].post = "NN_UPSAMPLE" THEN 1 ELSE 0)
    <3>1. l \in Nat
      BY NetworkShape
    <3>2. QED
      BY <1>c, <3>1, Zenon
  <2>2. QED
    BY <1>3, <2>1 DEF DecoderLevel, D
<1>6. QED
  BY <1>1, <1>2, <1>4, <1>5

(* The height or width, n to begin with, after it was halved d times.      *)
Part(d) == CASE d = 0 -> 16 [] d = 1 -> 8 [] d = 2 -> 4 [] d = 3 -> 2 [] d = 4 -> 1
Extent(n, d) == (Padded(n) \div 16) * Part(d)

LEMMA Extents ==
  ASSUME NEW n \in Nat \ {0}
  PROVE  /\ Extent(n, 0) = Padded(n) /\ n <= Padded(n)
         /\ \A d \in 0 .. 4 : Extent(n, d) \in Nat \ {0} /\ Extent(n, d) <= Padded(n)
         /\ \A d \in 0 .. 3 : Extent(n, d) % 2 = 0 /\ Extent(n, d) \div 2 = Extent(n, d + 1)
         /\ \A d \in 1 .. 4 : Extent(n, d) * 2 = Extent(n, d - 1)
<1> DEFINE q == (n + 15) \div 16
<1>1. q \in Nat \ {0} /\ n <= q * 16 /\ Padded(n) = q * 16
  BY DEF Padded, Alignment
<1> HIDE DEF q
<1>2. Padded(n) \div 16 = q
  BY <1>1
<1>3. /\ Extent(n, 0) = q * 16 /\ Extent(n, 1) = q * 8 /\ Extent(n, 2) = q * 4
      /\ Extent(n, 3) = q * 2 /\ Extent(n, 4) = q
  BY <1>1, <1>2 DEF Extent, Part
<1>4. \A d \in 0 .. 4 : d = 0 \/ d = 1 \/ d = 2 \/ d = 3 \/ d = 4
  OBVIOUS
<1>5. \A d \in 0 .. 3 : Extent(n, d) % 2 = 0 /\ Extent(n, d) \div 2 = Extent(n, d + 1)
  BY <1>1, <1>3, <1>4
<1>6. \A d \in 1 .. 4 : Extent(n, d) * 2 = Extent(n, d - 1)
  BY <1>1, <1>3, <1>4
<1>7. \A d \in 0 .. 4 : Extent(n, d) \in Nat \ {0} /\ Extent(n, d) <= Padded(n)
  BY <1>1, <1>3, <1>4
<1>8. QED
  BY <1>1, <1>3, <1>5, <1>6, <1>7

LEMMA LayerFactsOf ==
  ASSUME NEW y, IsLayer(y)
  PROVE  /\ NumConvs(y) \in Nat \ {0}
         /\ y.out \in [1 .. NumConvs(y) -> Nat \ {0}]
         /\ LastChannels(y) \in Nat \ {0}
  BY DEF IsLayer, NumConvs, LastChannels

(* The convolutions of a layer keep height and width, and have the output  *)
(* channels of the layer.                                                  *)
LEMMA ConvolutionShapes ==
  ASSUME NEW half, NEW l, NEW y, NEW t, IsLayer(y)
  PROVE  LET after == Convolutions(half, l, y, t)
         IN /\ after[0] = t
            /\ \A i \in 1 .. NumConvs(y) :
                 after[i].h = t.h /\ after[i].w = t.w /\ after[i].c = y.out[i]
<1> DEFINE after == Convolutions(half, l, y, t)
           N == NumConvs(y)
           S == {i \in 0 .. N : after[i].h = t.h /\ after[i].w = t.w}
<1>1. /\ N \in Nat \ {0} /\ after[0] = t
      /\ \A i \in 1 .. N : after[i] = Convolved(<<half, l, i - 1>>, y.out[i], after[i - 1])
  BY LayerFactsOf, ConvolutionsAre
<1> HIDE DEF after
<1>2. \A i \in 1 .. N : /\ after[i].h = after[i - 1].h /\ after[i].w = after[i - 1].w
                        /\ after[i].c = y.out[i]
  <2> TAKE i \in 1 .. N
  <2>1. after[i] = Convolved(<<half, l, i - 1>>, y.out[i], after[i - 1])
    BY <1>1
  <2>2. QED
    BY <2>1 DEF Convolved, Tensor
<1> HIDE DEF N
<1>3. 0 \in S /\ \A i \in 0 .. N - 1 : i \in S => i + 1 \in S
  BY <1>1, <1>2
<1>4. 0 .. N \subseteq S
  <2> HIDE DEF S
  <2>1. QED
    BY <1>1, <1>3, InductionUpTo
<1>5. QED
  BY <1>1, <1>2, <1>4 DEF after, N

LEMMA LayerOutputShape ==
  ASSUME NEW half, NEW l, NEW y, NEW t, IsLayer(y), y.post # "AVG_POOL"
  PROVE  LET out == LayerOutput(half, l, y, t)
         IN /\ out.h = Scaled(y.post, t.h) /\ out.w = Scaled(y.post, t.w)
            /\ out.c = LastChannels(y)
<1> DEFINE u == Convolutions(half, l, y, t)[NumConvs(y)]
<1>1. u.h = t.h /\ u.w = t.w /\ u.c = LastChannels(y)
  BY LayerFactsOf, ConvolutionShapes DEF LastChannels
<1>2. LayerOutput(half, l, y, t) = PostOperated(y.post, u)
  BY DEF LayerOutput
<1> HIDE DEF u
<1>3. y.post \in {"MAX_POOL", "NN_UPSAMPLE", "NONE"}
  BY DEF IsLayer, PostOps
<1>4. QED
  BY <1>1, <1>2, <1>3 DEF PostOperated, Pooled, Upsampled, Tensor, Scaled

-----------------------------------------------------------------------------
(* The tensors of the network, by layer: what goes into a layer, what its  *)
(* convolutions start from, what there is between them and what comes out. *)

Entry(size, at) == IF at[1] = "encoder" THEN Encoded(size)[at[2]] ELSE Decoded(size)[at[2]]
Start(size, at) ==
  IF at[1] = "encoder" THEN Encoded(size)[at[2]]
  ELSE Joined(Decoder[at[2]], Encoded(size), Decoded(size)[at[2]])
Within(size, at, i) == Convolutions(at[1], at[2], LayerAt(at), Start(size, at))[i]
Behind(size, at) ==
  IF at[1] = "encoder" THEN Encoded(size)[at[2] + 1] ELSE Decoded(size)[at[2] + 1]

Level(at) == IF at[1] = "encoder" THEN EncoderLevel(at[2]) ELSE DecoderLevel(at[2])
NextLevel(at) == IF at[1] = "encoder" THEN EncoderLevel(at[2] + 1) ELSE DecoderLevel(at[2] + 1)
StartChannels(at) == IF at[1] = "encoder" THEN EncoderChannels(at[2]) ELSE JoinedChannels(at[2])

Volume(t) == t.h * t.w * t.c
HasShape(t, h, w, c) == t.h = h /\ t.w = w /\ t.c = c

LEMMA LayerNamed ==
  ASSUME NEW at \in LayerNames
  PROVE  /\ at = <<at[1], at[2]>> /\ at[2] \in Nat
         /\ \/ at[1] = "encoder" /\ at[2] \in 0 .. EncoderLayers - 1 /\ LayerAt(at) = Encoder[at[2]]
            \/ at[1] = "decoder" /\ at[2] \in 0 .. DecoderLayers - 1 /\ LayerAt(at) = Decoder[at[2]]
         /\ IsLayer(LayerAt(at)) /\ NumConvs(LayerAt(at)) \in Nat \ {0}
<1>1. /\ at = <<at[1], at[2]>> /\ at[2] \in Nat
      /\ \/ at[1] = "encoder" /\ at[2] \in 0 .. EncoderLayers - 1
         \/ at[1] = "decoder" /\ at[2] \in 0 .. DecoderLayers - 1
  BY NetworkShape DEF LayerNames
<1>2. /\ at[1] = "encoder" => LayerAt(at) = Encoder[at[2]]
      /\ at[1] = "decoder" => LayerAt(at) = Decoder[at[2]]
  BY DEF LayerAt
<1>3. IsLayer(LayerAt(at))
  BY <1>1, <1>2, NetworkShape
<1>4. NumConvs(LayerAt(at)) \in Nat \ {0}
  BY <1>3, LayerFactsOf
<1>5. QED
  BY <1>1, <1>2, <1>3, <1>4

(* A layer leads from its entry to what is behind it.                      *)
LEMMA ThroughLayer ==
  ASSUME NEW size, NEW at \in LayerNames
  PROVE  /\ Within(size, at, 0) = Start(size, at)
         /\ \A i \in 0 .. NumConvs(LayerAt(at)) - 1 :
              Within(size, at, i + 1)
                = Convolved(<<at[1], at[2], i>>, LayerAt(at).out[i + 1], Within(size, at, i))
         /\ Behind(size, at)
              = PostOperated(LayerAt(at).post, Within(size, at, NumConvs(LayerAt(at))))
<1> DEFINE y == LayerAt(at)
           f == Convolutions(at[1], at[2], y, Start(size, at))
<1>1. /\ f[0] = Start(size, at)
      /\ \A i \in 1 .. NumConvs(y) : f[i] = Convolved(<<at[1], at[2], i - 1>>, y.out[i], f[i - 1])
  BY LayerNamed, ConvolutionsAre
<1>2. Behind(size, at) = LayerOutput(at[1], at[2], y, Start(size, at))
  <2>1. CASE at[1] = "encoder"
    BY <2>1, LayerNamed, EncodedIs DEF Behind, Start
  <2>2. CASE at[1] = "decoder"
    BY <2>2, LayerNamed, DecodedIs DEF Behind, Start
  <2>3. QED
    BY <2>1, <2>2, LayerNamed
<1>3. \A i \in 0 .. NumConvs(y) - 1 : i + 1 \in 1 .. NumConvs(y) /\ (i + 1) - 1 = i
  BY LayerNamed
<1> HIDE DEF f
<1>4. \A i \in 0 .. NumConvs(y) - 1 :
        f[i + 1] = Convolved(<<at[1], at[2], i>>, y.out[i + 1], f[i])
  <2> TAKE i \in 0 .. NumConvs(y) - 1
  <2>1. f[i + 1] = Convolved(<<at[1], at[2], (i + 1) - 1>>, y.out[i + 1], f[(i + 1) - 1])
    BY <1>1, <1>3
  <2>2. QED
    BY <1>3, <2>1
<1>5. QED
  BY <1>1, <1>2, <1>4 DEF f, Within, LayerOutput

(* Layers follow each other.                                               *)
LEMMA BetweenLayers ==
  ASSUME NEW size
  PROVE  /\ Entry(size, <<"encoder", 0>>) = Transferred(Raw(size))
         /\ \A at \in LayerNames : Behind(size, at) = Entry(size, <<at[1], at[2] + 1>>)
         /\ Entry(size, <<"decoder", 0>>) = Entry(size, <<"encoder", EncoderLayers>>)
<1>1. ASSUME NEW at \in LayerNames PROVE Behind(size, at) = Entry(size, <<at[1], at[2] + 1>>)
  BY DEF Behind, Entry
<1>2. QED
  BY <1>1, EncodedIs, DecodedIs DEF Entry

-----------------------------------------------------------------------------
(* Their shapes, in a network that fits together.                          *)

LEMMA ChannelsPositive ==
  /\ \A l \in 0 .. EncoderLayers : EncoderChannels(l) \in Nat \ {0}
  /\ \A l \in 0 .. DecoderLayers : DecoderChannels(l) \in Nat \ {0}
<1>1. ASSUME NEW l \in 0 .. EncoderLayers PROVE EncoderChannels(l) \in Nat \ {0}
  BY ImagesNotEmpty, NetworkShape, LayerFactsOf DEF EncoderChannels
<1>2. ASSUME NEW l \in 0 .. DecoderLayers PROVE DecoderChannels(l) \in Nat \ {0}
  <2>1. EncoderLayers \in 0 .. EncoderLayers
    BY NetworkShape
  <2>2. QED
    BY <1>1, <2>1, NetworkShape, LayerFactsOf DEF DecoderChannels
<1>3. QED
  BY <1>1, <1>2

LEMMA LevelTypes ==
  ASSUME UNet
  PROVE  /\ \A l \in 0 .. EncoderLayers : EncoderLevel(l) \in 0 .. 4
         /\ \A l \in 0 .. DecoderLayers : DecoderLevel(l) \in 0 .. 4
         /\ \A at \in LayerNames : LayerAt(at).post \in {"MAX_POOL", "NN_UPSAMPLE", "NONE"}
         /\ \A at \in LayerNames : LayerAt(at).post # "AVG_POOL"
<1>1. ASSUME NEW at \in LayerNames
      PROVE  LayerAt(at).post \in {"MAX_POOL", "NN_UPSAMPLE", "NONE"} /\ LayerAt(at).post # "AVG_POOL"
  BY LayerNamed, NetworkShape DEF UNet, LevelsFit, IsLayer, PostOps
<1>2. QED
  BY <1>1 DEF UNet, LevelsFit

(* What a post operation makes of a height or width.                       *)
LEMMA ScaledExtent ==
  ASSUME UNet, NEW n \in Nat \ {0}, NEW at \in LayerNames
  PROVE  /\ Level(at) \in 0 .. 4 /\ NextLevel(at) \in 0 .. 4
         /\ Scaled(LayerAt(at).post, Extent(n, Level(at))) = Extent(n, NextLevel(at))
         /\ LayerAt(at).post = "MAX_POOL" => Extent(n, Level(at)) % 2 = 0
<1> DEFINE post == LayerAt(at).post
           d == Level(at)
           e == NextLevel(at)
<1>1. d \in 0 .. 4 /\ e \in 0 .. 4
  <2>1. \/ at[1] = "encoder" /\ at[2] \in 0 .. EncoderLayers /\ at[2] + 1 \in 0 .. EncoderLayers
        \/ at[1] = "decoder" /\ at[2] \in 0 .. DecoderLayers /\ at[2] + 1 \in 0 .. DecoderLayers
    BY LayerNamed, NetworkShape
  <2>2. QED
    BY <2>1, LevelTypes DEF Level, NextLevel
<1>2. post \in {"MAX_POOL", "NN_UPSAMPLE", "NONE"}
  BY LevelTypes
<1>3. e = d + (IF post = "MAX_POOL" THEN 1 ELSE IF post = "NN_UPSAMPLE" THEN -1 ELSE 0)
  <2>1. CASE at[1] = "encoder"
    BY <1>2, <2>1, LayerNamed, LevelSteps DEF Level, NextLevel
  <2>2. CASE at[1] = "decoder"
    <3>1. post \in {"NN_UPSAMPLE", "NONE"}
      BY <2>2, LayerNamed, NetworkShape DEF UNet, LevelsFit
    <3>2. DecoderLevel(at[2]) \in Int
      <4>1. at[2] \in 0 .. DecoderLayers
        BY <2>2, LayerNamed, NetworkShape
      <4>2. QED
        BY <4>1, LevelTypes
    <3>3. QED
      BY <2>2, <3>1, <3>2, LayerNamed, LevelSteps DEF Level, NextLevel
  <2>3. QED
    BY <2>1, <2>2, LayerNamed
<1> HIDE DEF d, e
<1>4. /\ post = "MAX_POOL" => d \in 0 .. 3 /\ e = d + 1
      /\ post = "NN_UPSAMPLE" => d \in 1 .. 4 /\ e = d - 1
      /\ post = "NONE" => e = d
  BY <1>1, <1>2, <1>3
<1>5. CASE post = "MAX_POOL"
  BY <1>1, <1>4, <1>5, Extents DEF Scaled, d, e
<1>6. CASE post = "NN_UPSAMPLE"
  BY <1>1, <1>4, <1>6, Extents DEF Scaled, d, e
<1>7. CASE post = "NONE"
  BY <1>1, <1>4, <1>7 DEF Scaled, d, e
<1>8. QED
  BY <1>2, <1>5, <1>6, <1>7

LEMMA EncodedShape ==
  ASSUME UNet, NEW size \in ImageSizes
  PROVE  \A l \in 0 .. EncoderLayers :
           HasShape(Encoded(size)[l], Extent(size[1], EncoderLevel(l)),
                    Extent(size[2], EncoderLevel(l)), EncoderChannels(l))
<1> DEFINE T == Encoded(size)
           E == EncoderLayers
           S == {l \in 0 .. E : HasShape(T[l], Extent(size[1], EncoderLevel(l)),
                                         Extent(size[2], EncoderLevel(l)), EncoderChannels(l))}
<1>a. E \in Nat /\ size[1] \in Nat \ {0} /\ size[2] \in Nat \ {0}
  BY NetworkShape, ImagesNotEmpty
<1>1. 0 \in S
  <2>1. T[0] = Transferred(Raw(size))
    BY EncodedIs
  <2>2. HasShape(T[0], Padded(size[1]), Padded(size[2]), ImageChannels)
    BY <2>1 DEF Transferred, Raw, Tensor, HasShape
  <2>3. QED
    BY <1>a, <2>2, LevelSteps, Extents DEF EncoderChannels
<1>2. \A l \in 0 .. E - 1 : l \in S => l + 1 \in S
  <2> TAKE l \in 0 .. E - 1
  <2> HAVE l \in S
  <2> DEFINE at == <<"encoder", l>>
             y == Encoder[l]
  <2>1. at \in LayerNames /\ LayerAt(at) = y /\ at[1] = "encoder" /\ at[2] = l /\ l + 1 \in 0 .. E
    BY NetworkShape DEF LayerNames, LayerAt
  <2>2. IsLayer(y) /\ y.post # "AVG_POOL"
    BY <2>1, LayerNamed, LevelTypes
  <2>3. T[l + 1] = LayerOutput("encoder", l, y, T[l])
    BY EncodedIs
  <2>4. HasShape(T[l + 1], Scaled(y.post, T[l].h), Scaled(y.post, T[l].w), LastChannels(y))
    <3> HIDE DEF T
    <3>1. QED
      BY <2>2, <2>3, LayerOutputShape DEF HasShape
  <2>5. \A n \in Nat \ {0} : Scaled(y.post, Extent(n, EncoderLevel(l))) = Extent(n, EncoderLevel(l + 1))
    BY <2>1, ScaledExtent DEF Level, NextLevel
  <2>6. EncoderChannels(l + 1) = LastChannels(y)
    BY DEF EncoderChannels
  <2> HIDE DEF T
  <2>7. QED
    BY <1>a, <2>1, <2>4, <2>5, <2>6 DEF HasShape
<1> HIDE DEF T
<1>3. 0 .. E \subseteq S
  <2> HIDE DEF S
  <2>1. QED
    BY <1>a, <1>1, <1>2, InductionUpTo
<1>4. QED
  BY <1>3 DEF T

(* What a decoder layer's convolutions start from.                         *)
LEMMA JoinedShape ==
  ASSUME UNet, NEW size \in ImageSizes, NEW l \in 0 .. DecoderLayers - 1, NEW t,
         HasShape(t, Extent(size[1], DecoderLevel(l)), Extent(size[2], DecoderLevel(l)),
                  DecoderChannels(l))
  PROVE  /\ HasShape(Joined(Decoder[l], Encoded(size), t), t.h, t.w, JoinedChannels(l))
         /\ JoinedChannels(l) \in Nat \ {0}
<1>1. DecoderChannels(l) \in Nat \ {0}
  BY NetworkShape, ChannelsPositive
<1>2. CASE Decoder[l].skip < 0
  BY <1>1, <1>2 DEF Joined, JoinedChannels, HasShape
<1>3. CASE ~(Decoder[l].skip < 0)
  <2> DEFINE k == SavedAt(Decoder[l].skip)
             s == Encoded(size)[k]
  <2>1. k \in 0 .. EncoderLayers
    <3>1. Decoder[l].skip = SkipAt(l) /\ SkipAt(l) \in Int
      BY FirstSkipType, NetworkShape DEF UNet, SkipsInOrder, SkipAt
    <3>2. QED
      BY <1>3, <3>1, NetworkShape DEF UNet, SkipsJoin
  <2>2. s.c = EncoderChannels(k) /\ EncoderChannels(k) \in Nat \ {0}
    BY <2>1, EncodedShape, ChannelsPositive DEF HasShape
  <2>3. Joined(Decoder[l], Encoded(size), t) = Concatenated(t, s)
    BY <1>3 DEF Joined, Saved
  <2>4. JoinedChannels(l) = DecoderChannels(l) + EncoderChannels(k)
    BY <1>3 DEF JoinedChannels
  <2> HIDE DEF s, k
  <2>5. QED
    BY <1>1, <2>2, <2>3, <2>4 DEF Concatenated, Tensor, HasShape
<1>4. QED
  BY <1>2, <1>3

LEMMA DecodedShape ==
  ASSUME UNet, NEW size \in ImageSizes
  PROVE  \A l \in 0 .. DecoderLayers :
           HasShape(Decoded(size)[l], Extent(size[1], DecoderLevel(l)),
                    Extent(size[2], DecoderLevel(l)), DecoderChannels(l))
<1> DEFINE X == Decoded(size)
           N == DecoderLayers
           S == {l \in 0 .. N : HasShape(X[l], Extent(size[1], DecoderLevel(l)),
                                         Extent(size[2], DecoderLevel(l)), DecoderChannels(l))}
<1>a. N \in Nat /\ size[1] \in Nat \ {0} /\ size[2] \in Nat \ {0} /\ EncoderLayers \in 0 .. EncoderLayers
  BY NetworkShape, ImagesNotEmpty
<1>1. 0 \in S
  <2>1. X[0] = Encoded(size)[EncoderLayers]
    BY DecodedIs
  <2>2. QED
    BY <1>a, <2>1, EncodedShape, LevelSteps DEF DecoderChannels
<1>2. \A l \in 0 .. N - 1 : l \in S => l + 1 \in S
  <2> TAKE l \in 0 .. N - 1
  <2> HAVE l \in S
  <2> DEFINE at == <<"decoder", l>>
             y == Decoder[l]
             t == Joined(y, Encoded(size), X[l])
  <2>1. at \in LayerNames /\ LayerAt(at) = y /\ at[1] = "decoder" /\ at[2] = l /\ l + 1 \in 0 .. N
    BY NetworkShape DEF LayerNames, LayerAt
  <2>2. IsLayer(y) /\ y.post # "AVG_POOL"
    BY <2>1, LayerNamed, LevelTypes
  <2>3. X[l + 1] = LayerOutput("decoder", l, y, t)
    BY DecodedIs
  <2> HIDE DEF X
  <2>4. t.h = X[l].h /\ t.w = X[l].w
    BY JoinedShape DEF HasShape
  <2> HIDE DEF t
  <2>5. HasShape(X[l + 1], Scaled(y.post, t.h), Scaled(y.post, t.w), LastChannels(y))
    BY <2>2, <2>3, LayerOutputShape DEF HasShape
  <2>6. \A n \in Nat \ {0} : Scaled(y.post, Extent(n, DecoderLevel(l))) = Extent(n, DecoderLevel(l + 1))
    BY <2>1, ScaledExtent DEF Level, NextLevel
  <2>7. DecoderChannels(l + 1) = LastChannels(y)
    BY DEF DecoderChannels
  <2>8. QED
    BY <1>a, <2>1, <2>4, <2>5, <2>6, <2>7 DEF HasShape
<1> HIDE DEF X
<1>3. 0 .. N \subseteq S
  <2> HIDE DEF S
  <2>1. QED
    BY <1>a, <1>1, <1>2, InductionUpTo
<1>4. QED
  BY <1>3 DEF X

-----------------------------------------------------------------------------
(* The sizing pass.                                                        *)

LEMMA PeakCovers ==
  ASSUME NEW max \in Nat, NEW h \in Nat, NEW w \in Nat, NEW channels \in SUBSET Nat,
         NEW b \in Nat, \A c \in channels : c <= b
  PROVE  /\ Peak(max, h, w, channels) \in Nat /\ Peak(max, h, w, channels) >= max
         /\ \A c \in channels : h * w * c <= Peak(max, h, w, channels)
<1> DEFINE n == h * w
           V == {max} \cup {h * w * c : c \in channels}
<1>1. n \in Nat /\ n * b \in Nat
  <2>1. n \in Nat
    BY SMT
  <2> HIDE DEF n
  <2>2. QED
    BY <2>1, SMT
<1>2. \A c \in channels : h * w * c \in Nat /\ h * w * c <= max + n * b
  <2> TAKE c \in channels
  <2>1. c \in Nat /\ c <= b
    OBVIOUS
  <2> HIDE DEF n
  <2>2. n * c \in Nat /\ n * c <= n * b
    BY <1>1, <2>1, SMT
  <2>3. QED
    BY <1>1, <2>2 DEF n
<1>3. V \in SUBSET Nat /\ V # {} /\ max + n * b \in Nat /\ \A v \in V : v <= max + n * b
  BY <1>1, <1>2
<1>4. \E v \in V : \A u \in V : v >= u
  <2> HIDE DEF V, n
  <2>1. QED
    BY <1>3, GreatestElement
<1>5. Max(V) \in V /\ \A u \in V : Max(V) >= u
  <2> HIDE DEF V, n
  <2>1. QED
    BY <1>4 DEF Max
<1>6. max \in V /\ \A c \in channels : h * w * c \in V
  OBVIOUS
<1> HIDE DEF V
<1>7. Max(V) \in Nat /\ Max(V) >= max /\ \A c \in channels : h * w * c <= Max(V)
  BY <1>3, <1>5, <1>6
<1>8. QED
  BY <1>7 DEF Peak, V

LEMMA WidthsBounded ==
  ASSUME NEW at \in LayerNames
  PROVE  /\ Widths(at) \in SUBSET Nat
         /\ \E b \in Nat : \A c \in Widths(at) : c <= b
         /\ \A i \in 1 .. NumConvs(LayerAt(at)) : LayerAt(at).out[i] \in Widths(at)
<1> DEFINE f == LayerAt(at).out
           n == NumConvs(LayerAt(at))
<1>1. n \in Nat /\ f \in [1 .. n -> Nat] /\ DOMAIN f = 1 .. n
  BY LayerNamed, LayerFactsOf
<1>2. \E b \in Nat : \A i \in 1 .. n : f[i] <= b
  <2> HIDE DEF f, n
  <2>1. QED
    BY <1>1, SequenceBounded
<1>3. Widths(at) = {f[i] : i \in 1 .. n}
  BY <1>1 DEF Widths
<1> HIDE DEF f, n
<1>4. QED
  BY <1>1, <1>2, <1>3 DEF f, n

(* The shapes of the tensors of a layer.                                   *)
LEMMA TensorShapes ==
  ASSUME UNet, NEW size \in ImageSizes, NEW at \in LayerNames
  PROVE  LET h == Extent(size[1], Level(at))
             w == Extent(size[2], Level(at))
         IN /\ h \in Nat \ {0} /\ w \in Nat \ {0}
            /\ Entry(size, at).h = h /\ Entry(size, at).w = w /\ Entry(size, at).c \in Nat \ {0}
            /\ HasShape(Start(size, at), h, w, StartChannels(at)) /\ StartChannels(at) \in Nat \ {0}
            /\ \A i \in 1 .. NumConvs(LayerAt(at)) :
                 HasShape(Within(size, at, i), h, w, LayerAt(at).out[i])
            /\ HasShape(Behind(size, at), Scaled(LayerAt(at).post, h), Scaled(LayerAt(at).post, w),
                        LastChannels(LayerAt(at)))
            /\ LastChannels(LayerAt(at)) \in Nat \ {0}
<1> DEFINE h == Extent(size[1], Level(at))
           w == Extent(size[2], Level(at))
           y == LayerAt(at)
<1>a. size[1] \in Nat \ {0} /\ size[2] \in Nat \ {0} /\ Level(at) \in 0 .. 4
  BY ImagesNotEmpty, ScaledExtent
<1>1. h \in Nat \ {0} /\ w \in Nat \ {0}
  BY <1>a, Extents
<1>2. \/ at[1] = "encoder" /\ at[2] \in 0 .. EncoderLayers - 1 /\ at[2] \in 0 .. EncoderLayers
      \/ at[1] = "decoder" /\ at[2] \in 0 .. DecoderLayers - 1 /\ at[2] \in 0 .. DecoderLayers
  BY LayerNamed, NetworkShape
<1>3. /\ Entry(size, at).h = h /\ Entry(size, at).w = w /\ Entry(size, at).c \in Nat \ {0}
      /\ HasShape(Start(size, at), h, w, StartChannels(at)) /\ StartChannels(at) \in Nat \ {0}
  <2>1. CASE at[1] = "encoder"
    <3>1. /\ HasShape(Encoded(size)[at[2]], h, w, EncoderChannels(at[2]))
          /\ EncoderChannels(at[2]) \in Nat \ {0}
      BY <1>2, <2>1, EncodedShape, ChannelsPositive DEF Level
    <3>2. QED
      BY <2>1, <3>1 DEF Entry, Start, StartChannels, HasShape
  <2>2. CASE at[1] = "decoder"
    <3> DEFINE t == Decoded(size)[at[2]]
    <3>1. /\ HasShape(t, h, w, DecoderChannels(at[2]))
          /\ DecoderChannels(at[2]) \in Nat \ {0}
      BY <1>2, <2>2, DecodedShape, ChannelsPositive DEF Level
    <3> HIDE DEF t
    <3>2. /\ HasShape(Joined(Decoder[at[2]], Encoded(size), t), t.h, t.w, JoinedChannels(at[2]))
          /\ JoinedChannels(at[2]) \in Nat \ {0}
      BY <1>2, <2>2, <3>1, JoinedShape DEF Level
    <3>3. QED
      BY <2>2, <3>1, <3>2 DEF Entry, Start, StartChannels, HasShape, t
  <2>3. QED
    BY <1>2, <2>1, <2>2
<1>4. IsLayer(y) /\ y.post # "AVG_POOL"
  BY LayerNamed, LevelTypes
<1> HIDE DEF h, w
<1>5. \A i \in 1 .. NumConvs(y) : HasShape(Within(size, at, i), h, w, y.out[i])
  BY <1>3, <1>4, ConvolutionShapes DEF Within, HasShape
<1>6. HasShape(Behind(size, at), Scaled(y.post, h), Scaled(y.post, w), LastChannels(y))
  <2> DEFINE t == Start(size, at)
  <2>1. Behind(size, at) = LayerOutput(at[1], at[2], y, t)
    BY ThroughLayer DEF LayerOutput, Within
  <2>2. t.h = h /\ t.w = w
    BY <1>3 DEF HasShape
  <2> HIDE DEF t
  <2>3. QED
    BY <1>4, <2>1, <2>2, LayerOutputShape DEF HasShape
<1>7. LastChannels(y) \in Nat \ {0}
  BY <1>4, LayerFactsOf
<1>8. QED
  BY <1>1, <1>3, <1>5, <1>6, <1>7 DEF h, w

(* A work buffer has room for every tensor of a layer.                     *)
Bounded(size, max, at) ==
  /\ Volume(Entry(size, at)) <= max
  /\ \A i \in 0 .. NumConvs(LayerAt(at)) : Volume(Within(size, at, i)) <= max
  /\ Volume(Behind(size, at)) <= max

(* Both loops of the sizing pass take the maximum over the tensors of a    *)
(* layer, the one it starts from counted with its skip connection, and go  *)
(* on with the shape of its output.                                        *)
LEMMA LayerSized ==
  ASSUME UNet, NEW size \in ImageSizes, NEW at \in LayerNames,
         NEW max \in Nat, Volume(Entry(size, at)) <= max,
         NEW channels \in SUBSET Nat, NEW b \in Nat, \A c \in channels : c <= b,
         Widths(at) \subseteq channels,
         StartChannels(at) \in channels \/ Start(size, at) = Entry(size, at)
  PROVE  LET h == Entry(size, at).h
             w == Entry(size, at).w
             post == LayerAt(at).post
             c == LastChannels(LayerAt(at))
             peak == Peak(Peak(max, h, w, channels), Scaled(post, h), Scaled(post, w), {c})
         IN /\ peak \in Nat /\ peak >= max
            /\ Bounded(size, peak, at)
            /\ HasShape(Behind(size, at), Scaled(post, h), Scaled(post, w), c)
<1> DEFINE h == Entry(size, at).h
           w == Entry(size, at).w
           y == LayerAt(at)
           c == LastChannels(y)
           h2 == Scaled(y.post, h)
           w2 == Scaled(y.post, w)
           first == Peak(max, h, w, channels)
           peak == Peak(first, h2, w2, {c})
<1>1. /\ h \in Nat \ {0} /\ w \in Nat \ {0} /\ c \in Nat \ {0}
      /\ h = Extent(size[1], Level(at)) /\ w = Extent(size[2], Level(at))
      /\ HasShape(Start(size, at), h, w, StartChannels(at))
      /\ \A i \in 1 .. NumConvs(y) : HasShape(Within(size, at, i), h, w, y.out[i])
      /\ HasShape(Behind(size, at), h2, w2, c)
  BY TensorShapes
<1>2. h2 \in Nat /\ w2 \in Nat
  <2>1. /\ size[1] \in Nat \ {0} /\ size[2] \in Nat \ {0}
        /\ \A d \in 0 .. 4 : Extent(size[1], d) \in Nat /\ Extent(size[2], d) \in Nat
    BY ImagesNotEmpty, Extents
  <2>2. /\ NextLevel(at) \in 0 .. 4
        /\ h2 = Extent(size[1], NextLevel(at)) /\ w2 = Extent(size[2], NextLevel(at))
    BY <1>1, <2>1, ScaledExtent
  <2>3. QED
    BY <2>1, <2>2
<1> HIDE DEF h, w, h2, w2, c
<1>3. first \in Nat /\ first >= max /\ \A k \in channels : h * w * k <= first
  BY <1>1, PeakCovers
<1> HIDE DEF first
<1>4. peak \in Nat /\ peak >= first /\ h2 * w2 * c <= peak
  <2>1. {c} \in SUBSET Nat /\ c \in Nat /\ \A k \in {c} : k <= c
    BY <1>1
  <2>2. QED
    BY <1>2, <1>3, <2>1, PeakCovers
<1> HIDE DEF peak
<1>5. Volume(Behind(size, at)) <= peak
  BY <1>1, <1>4 DEF Volume, HasShape
<1>6. Volume(Entry(size, at)) \in Int
  <2>1. Entry(size, at).c \in Nat
    BY TensorShapes
  <2>2. QED
    BY <1>1, <2>1 DEF Volume, h, w
<1>7. Volume(Entry(size, at)) <= peak
  BY <1>3, <1>4, <1>6
<1>8. \A k \in channels : h * w * k <= peak
  <2> TAKE k \in channels
  <2>1. h * w * k \in Int /\ h * w * k <= first
    BY <1>1, <1>3
  <2>2. QED
    BY <1>3, <1>4, <2>1
<1>9. ASSUME NEW i \in 0 .. NumConvs(y) PROVE Volume(Within(size, at, i)) <= peak
  <2>1. CASE i = 0
    <3>1. Within(size, at, i) = Start(size, at)
      BY <2>1, ThroughLayer
    <3>2. CASE StartChannels(at) \in channels
      BY <1>1, <1>8, <3>1, <3>2 DEF Volume, HasShape
    <3>3. CASE Start(size, at) = Entry(size, at)
      BY <1>7, <3>1, <3>3
    <3>4. QED
      BY <3>2, <3>3
  <2>2. CASE i # 0
    <3>1. i \in 1 .. NumConvs(y) /\ y.out[i] \in channels
      BY <2>2, LayerNamed, WidthsBounded
    <3>2. HasShape(Within(size, at, i), h, w, y.out[i])
      BY <1>1, <3>1
    <3>3. QED
      BY <1>8, <3>1, <3>2 DEF Volume, HasShape
  <2>3. QED
    BY <2>1, <2>2
<1>10. peak >= max
  BY <1>3, <1>4
<1>11. QED
  BY <1>1, <1>4, <1>5, <1>7, <1>9, <1>10 DEF Bounded, h, w, h2, w2, c, first, peak

LEMMA VolumesAreNumbers ==
  ASSUME UNet, NEW size \in ImageSizes, NEW at \in LayerNames
  PROVE  /\ Volume(Entry(size, at)) \in Nat /\ Volume(Behind(size, at)) \in Nat
         /\ \A i \in 0 .. NumConvs(LayerAt(at)) : Volume(Within(size, at, i)) \in Nat
<1> DEFINE h == Extent(size[1], Level(at))
           w == Extent(size[2], Level(at))
           y == LayerAt(at)
<1>1. h \in Nat /\ w \in Nat /\ h * w \in Nat
  BY TensorShapes
<1>2. \A h1, w1, c \in Nat : h1 * w1 * c \in Nat
  <2>1. ASSUME NEW h1 \in Nat, NEW w1 \in Nat, NEW c \in Nat PROVE h1 * w1 * c \in Nat
    <3>1. h1 * w1 \in Nat
      OBVIOUS
    <3>2. QED
      BY <3>1
  <2>2. QED
    BY <2>1
<1> HIDE DEF h, w
<1>3. Volume(Entry(size, at)) \in Nat
  <2>1. Entry(size, at).h = h /\ Entry(size, at).w = w /\ Entry(size, at).c \in Nat
    BY TensorShapes DEF h, w
  <2>2. QED
    BY <1>1, <1>2, <2>1 DEF Volume
<1>4. Volume(Behind(size, at)) \in Nat
  <2>1. /\ HasShape(Behind(size, at), Scaled(y.post, h), Scaled(y.post, w), LastChannels(y))
        /\ LastChannels(y) \in Nat
    BY TensorShapes DEF h, w
  <2>2. Scaled(y.post, h) \in Nat /\ Scaled(y.post, w) \in Nat
    BY <1>1 DEF Scaled
  <2>3. QED
    BY <1>2, <2>1, <2>2 DEF Volume, HasShape
<1>5. ASSUME NEW i \in 0 .. NumConvs(y) PROVE Volume(Within(size, at, i)) \in Nat
  <2>1. Within(size, at, 0) = Start(size, at) /\ HasShape(Start(size, at), h, w, StartChannels(at))
        /\ StartChannels(at) \in Nat
    BY ThroughLayer, TensorShapes DEF h, w
  <2>2. \A j \in 1 .. NumConvs(y) : HasShape(Within(size, at, j), h, w, y.out[j]) /\ y.out[j] \in Nat
    BY TensorShapes, LayerNamed, LayerFactsOf DEF h, w
  <2>3. i = 0 \/ i \in 1 .. NumConvs(y)
    BY LayerNamed
  <2>4. PICK c \in Nat : HasShape(Within(size, at, i), h, w, c)
    BY <2>1, <2>2, <2>3
  <2>5. QED
    BY <1>1, <1>2, <2>4 DEF Volume, HasShape
<1>6. QED
  BY <1>3, <1>4, <1>5

LEMMA BoundedMore ==
  ASSUME UNet, NEW size \in ImageSizes, NEW at \in LayerNames, NEW max \in Nat, NEW more \in Nat,
         Bounded(size, max, at), max <= more
  PROVE  Bounded(size, more, at)
<1>1. ASSUME NEW v \in Nat, v <= max PROVE v <= more
  BY <1>1
<1>2. QED
  BY <1>1, VolumesAreNumbers DEF Bounded

(* The first n tensors to be saved have room of their own in               *)
(* d_encode_outputs, one after the other.                                  *)
SavedFits(size, offset, next, n) ==
  /\ offset \in Seq(Nat) /\ Len(offset) = n /\ next \in Nat
  /\ offset[1] = 0
  /\ \A j \in 0 .. n - 1 : offset[j + 1] + Volume(Encoded(size)[j]) <= next
  /\ \A j, k \in 0 .. n - 1 : j < k => offset[j + 1] + Volume(Encoded(size)[j]) <= offset[k + 1]

LEMMA SavedFitsAppend ==
  ASSUME NEW size, NEW offset, NEW next, NEW n \in Nat \ {0}, SavedFits(size, offset, next, n),
         \A j \in 0 .. n : Volume(Encoded(size)[j]) \in Nat
  PROVE  SavedFits(size, Append(offset, next), next + Volume(Encoded(size)[n]), n + 1)
<1> DEFINE V(j) == Volume(Encoded(size)[j])
           more == Append(offset, next)
<1>1. /\ offset \in Seq(Nat) /\ Len(offset) = n /\ next \in Nat /\ offset[1] = 0
      /\ \A j \in 0 .. n - 1 : offset[j + 1] + V(j) <= next
      /\ \A j, k \in 0 .. n - 1 : j < k => offset[j + 1] + V(j) <= offset[k + 1]
  BY DEF SavedFits
<1>2. /\ more \in Seq(Nat) /\ Len(more) = n + 1
      /\ \A j \in 0 .. n - 1 : more[j + 1] = offset[j + 1]
      /\ more[n + 1] = next
  BY <1>1
<1>3. \A j \in 0 .. n - 1 : offset[j + 1] \in Nat
  BY <1>1
<1>4. \A j \in 0 .. n : V(j) \in Nat
  OBVIOUS
<1> HIDE DEF V, more
<1>5. more[1] = 0
  <2>1. 0 \in 0 .. n - 1 /\ 0 + 1 = 1
    OBVIOUS
  <2>2. QED
    BY <1>1, <1>2, <2>1
<1>6. ASSUME NEW j \in 0 .. n PROVE more[j + 1] + V(j) <= next + V(n)
  <2>1. CASE j = n
    BY <1>1, <1>2, <1>4, <2>1
  <2>2. CASE j # n
    <3>1. j \in 0 .. n - 1
      BY <2>2
    <3>2. more[j + 1] = offset[j + 1] /\ offset[j + 1] + V(j) <= next
      BY <1>1, <1>2, <3>1
    <3>3. V(n) \in Nat /\ V(j) \in Nat /\ offset[j + 1] \in Nat
      BY <1>3, <1>4, <3>1
    <3>4. QED
      BY <1>1, <3>2, <3>3
  <2>3. QED
    BY <2>1, <2>2
<1>7. ASSUME NEW j \in 0 .. n, NEW k \in 0 .. n, j < k PROVE more[j + 1] + V(j) <= more[k + 1]
  <2>1. j \in 0 .. n - 1 /\ (k \in 0 .. n - 1 \/ k = n)
    BY <1>7
  <2>2. more[j + 1] = offset[j + 1]
    BY <1>2, <2>1
  <2>3. CASE k = n
    BY <1>1, <1>2, <2>1, <2>2, <2>3
  <2>4. CASE k \in 0 .. n - 1
    <3>1. more[k + 1] = offset[k + 1]
      BY <1>2, <2>4
    <3>2. offset[j + 1] + V(j) <= offset[k + 1]
      BY <1>1, <1>7, <2>1, <2>4
    <3>3. QED
      BY <2>2, <3>1, <3>2
  <2>5. QED
    BY <2>1, <2>3, <2>4
<1>8. next + V(n) \in Nat /\ (n + 1) - 1 = n
  BY <1>1, <1>4
<1>9. QED
  BY <1>2, <1>5, <1>6, <1>7, <1>8 DEF SavedFits, V, more

(* Where the sizing pass is when it comes to a layer, ...                  *)
Precedes(b, at) ==
  IF at[1] = "encoder" THEN b[1] = "encoder" /\ b[2] < at[2]
  ELSE b[1] = "encoder" \/ b[2] < at[2]

Sizing(size, p, at) ==
  /\ p \in [h : Nat, w : Nat, c : Nat, max : Nat, next : Nat, offset : Seq(Nat)]
  /\ HasShape(Entry(size, at), p.h, p.w, p.c)
  /\ 2 * Volume(Encoded(size)[0]) <= p.max
  /\ Volume(Entry(size, at)) <= p.max
  /\ SavedFits(size, p.offset, p.next, IF at[1] = "encoder" THEN at[2] + 1 ELSE EncoderLayers)
  /\ \A b \in LayerNames : Precedes(b, at) => Bounded(size, p.max, b)

(* ... and when it is done.                                                *)
Sized(size, p) ==
  /\ p.max \in Nat
  /\ 2 * Volume(Encoded(size)[0]) <= p.max
  /\ SavedFits(size, p.offset, p.next, EncoderLayers)
  /\ \A at \in LayerNames : Bounded(size, p.max, at)

LEMMA InitSizing ==
  ASSUME UNet, NEW size \in ImageSizes
  PROVE  Sizing(size, InitSizes(size), <<"encoder", 0>>)
<1> DEFINE at == <<"encoder", 0>>
           t == Encoded(size)[0]
           p == InitSizes(size)
           n == Padded(size[1]) * Padded(size[2]) * ImageChannels
<1>1. /\ Padded(size[1]) \in Nat /\ Padded(size[2]) \in Nat /\ ImageChannels \in Nat
  <2>1. size[1] \in Nat \ {0} /\ size[2] \in Nat \ {0} /\ ImageChannels \in Nat /\ 0 \in 0 .. 4
    BY ImagesNotEmpty
  <2>2. \A k \in Nat \ {0} : Extent(k, 0) = Padded(k) /\ Extent(k, 0) \in Nat
    BY <2>1, Extents
  <2>3. QED
    BY <2>1, <2>2
<1>2. HasShape(t, Padded(size[1]), Padded(size[2]), ImageChannels) /\ Entry(size, at) = t
  <2>1. t = Transferred(Raw(size))
    BY EncodedIs
  <2>2. Entry(size, at) = t
    BY DEF Entry
  <2> HIDE DEF t
  <2>3. QED
    BY <2>1, <2>2 DEF HasShape, Transferred, Raw, Tensor
<1>3. Volume(t) = n /\ n \in Nat
  <2>1. Padded(size[1]) * Padded(size[2]) \in Nat
    BY <1>1
  <2>2. QED
    BY <1>1, <1>2, <2>1 DEF Volume, HasShape
<1>4. p = [h |-> Padded(size[1]), w |-> Padded(size[2]), c |-> ImageChannels, max |-> n * 2,
           next |-> n, offset |-> <<0>>]
  BY DEF InitSizes
<1> HIDE DEF p, n, t
<1>5. p \in [h : Nat, w : Nat, c : Nat, max : Nat, next : Nat, offset : Seq(Nat)]
  BY <1>1, <1>3, <1>4
<1>6. SavedFits(size, p.offset, p.next, 1)
  BY <1>3, <1>4 DEF SavedFits, t
<1>7. \A b \in LayerNames : ~Precedes(b, at)
  BY LayerNamed DEF Precedes
<1>8. /\ HasShape(Entry(size, at), p.h, p.w, p.c) /\ 2 * Volume(t) <= p.max
      /\ Volume(Entry(size, at)) <= p.max
  BY <1>2, <1>3, <1>4
<1>9. at[1] = "encoder" /\ at[2] + 1 = 1
  OBVIOUS
<1> HIDE DEF at
<1>10. QED
  BY <1>5, <1>6, <1>7, <1>8, <1>9 DEF Sizing, t, p, at

(* One turn of the encoder's loop ...                                      *)
LEMMA SizingEncoder ==
  ASSUME UNet, NEW size \in ImageSizes, NEW l \in 0 .. EncoderLayers - 1, NEW p,
         Sizing(size, p, <<"encoder", l>>)
  PROVE  Sizing(size, SizedEncoder(p, l), IF l + 1 < EncoderLayers THEN <<"encoder", l + 1>>
                                          ELSE <<"decoder", 0>>)
<1> DEFINE at == <<"encoder", l>>
           y == Encoder[l]
           h == Scaled(y.post, p.h)
           w == Scaled(y.post, p.w)
           c == LastChannels(y)
           peak == Peak(Peak(p.max, p.h, p.w, Widths(at)), h, w, {c})
           q == SizedEncoder(p, l)
           next == IF l + 1 < EncoderLayers THEN <<"encoder", l + 1>> ELSE <<"decoder", 0>>
<1>1. /\ at \in LayerNames /\ LayerAt(at) = y /\ at[1] = "encoder" /\ at[2] = l
      /\ EncoderLayers \in Nat \ {0}
  BY NetworkShape DEF LayerNames, LayerAt
<1>2. /\ p \in [h : Nat, w : Nat, c : Nat, max : Nat, next : Nat, offset : Seq(Nat)]
      /\ Entry(size, at).h = p.h /\ Entry(size, at).w = p.w
      /\ 2 * Volume(Encoded(size)[0]) <= p.max
      /\ Volume(Entry(size, at)) <= p.max
      /\ SavedFits(size, p.offset, p.next, l + 1)
      /\ \A b \in LayerNames : Precedes(b, at) => Bounded(size, p.max, b)
  BY DEF Sizing, HasShape
<1>3. /\ peak \in Nat /\ peak >= p.max /\ Bounded(size, peak, at)
      /\ HasShape(Behind(size, at), h, w, c)
  <2>1. PICK b \in Nat : \A k \in Widths(at) : k <= b
    BY <1>1, WidthsBounded
  <2>2. Widths(at) \in SUBSET Nat /\ Start(size, at) = Entry(size, at) /\ p.max \in Nat
    BY <1>1, <1>2, WidthsBounded DEF Start, Entry
  <2>3. QED
    BY <1>1, <1>2, <2>1, <2>2, LayerSized
<1>4. h \in Nat /\ w \in Nat /\ c \in Nat /\ h * w * c = Volume(Behind(size, at))
      /\ Volume(Behind(size, at)) \in Nat
  <2>1. c \in Nat /\ Volume(Behind(size, at)) \in Nat
    BY <1>1, TensorShapes, VolumesAreNumbers
  <2>2. h \in Nat /\ w \in Nat
    BY <1>2 DEF Scaled
  <2>3. QED
    BY <1>3, <2>1, <2>2 DEF HasShape, Volume
<1>5. Behind(size, at) = Entry(size, next) /\ Behind(size, at) = Encoded(size)[l + 1]
  <2>1. Behind(size, at) = Entry(size, <<"encoder", l + 1>>)
    BY <1>1, BetweenLayers
  <2>2. l + 1 = EncoderLayers \/ l + 1 < EncoderLayers
    BY <1>1
  <2>3. QED
    BY <1>1, <2>1, <2>2, BetweenLayers DEF Behind
<1>6. q = [h |-> h, w |-> w, c |-> c, max |-> peak,
           next |-> IF l + 1 = EncoderLayers THEN p.next ELSE p.next + h * w * c,
           offset |-> IF l + 1 = EncoderLayers THEN p.offset ELSE Append(p.offset, p.next)]
  BY DEF SizedEncoder
<1> HIDE DEF q, h, w, c, peak
<1>7. q \in [h : Nat, w : Nat, c : Nat, max : Nat, next : Nat, offset : Seq(Nat)]
  <2>1. Append(p.offset, p.next) \in Seq(Nat) /\ p.next + h * w * c \in Nat
    BY <1>2, <1>4
  <2>2. QED
    BY <1>2, <1>3, <1>4, <1>6, <2>1
<1>8. SavedFits(size, q.offset, q.next, IF next[1] = "encoder" THEN next[2] + 1 ELSE EncoderLayers)
  <2>1. CASE l + 1 < EncoderLayers
    <3>1. \A j \in 0 .. l + 1 : Volume(Encoded(size)[j]) \in Nat
      <4> TAKE j \in 0 .. l + 1
      <4>1. <<"encoder", j>> \in LayerNames
        BY <1>1, <2>1, NetworkShape DEF LayerNames
      <4>2. QED
        BY <4>1, VolumesAreNumbers DEF Entry
    <3>a. l + 1 \in Nat \ {0}
      OBVIOUS
    <3>2. SavedFits(size, Append(p.offset, p.next), p.next + Volume(Encoded(size)[l + 1]), (l + 1) + 1)
      BY <1>2, <3>a, <3>1, SavedFitsAppend
    <3>3. q.offset = Append(p.offset, p.next) /\ q.next = p.next + Volume(Encoded(size)[l + 1])
      BY <1>4, <1>5, <1>6, <2>1
    <3>4. next[1] = "encoder" /\ next[2] = l + 1
      BY <2>1
    <3>5. QED
      BY <3>2, <3>3, <3>4
  <2>2. CASE ~(l + 1 < EncoderLayers)
    <3>1. l + 1 = EncoderLayers /\ next[1] # "encoder"
      BY <1>1, <2>2
    <3>2. QED
      BY <1>2, <1>6, <3>1
  <2>3. QED
    BY <2>1, <2>2
<1>9. \A b \in LayerNames : Precedes(b, next) => Bounded(size, q.max, b)
  <2> TAKE b \in LayerNames
  <2> HAVE Precedes(b, next)
  <2>1. Precedes(b, at) \/ b = at
    BY <1>1, NetworkShape DEF Precedes, LayerNames
  <2>2. q.max = peak /\ p.max \in Nat
    BY <1>2, <1>6
  <2>3. QED
    BY <1>2, <1>3, <2>1, <2>2, BoundedMore
<1>10. 2 * Volume(Encoded(size)[0]) <= q.max
  <2>1. Volume(Encoded(size)[0]) \in Nat
    <3>1. <<"encoder", 0>> \in LayerNames
      BY <1>1, NetworkShape DEF LayerNames
    <3>2. QED
      BY <3>1, VolumesAreNumbers DEF Entry
  <2>2. QED
    BY <1>2, <1>3, <1>6, <2>1
<1>11. Volume(Entry(size, next)) <= q.max
  BY <1>3, <1>5, <1>6 DEF Bounded
<1>12. HasShape(Entry(size, next), q.h, q.w, q.c)
  BY <1>3, <1>5, <1>6
<1> HIDE DEF next
<1>13. QED
  BY <1>7, <1>8, <1>9, <1>10, <1>11, <1>12 DEF Sizing, q, next

(* The code takes a saved tensor to have the channels that it has.         *)
LEMMA SkipChannelsAre ==
  ASSUME UNet, NEW idx \in 0 .. FirstSkip
  PROVE  /\ SavedAt(idx) \in 0 .. EncoderLayers /\ (idx > 0 => SavedAt(idx) < EncoderLayers)
         /\ SkipChannels(idx) = EncoderChannels(SavedAt(idx))
<1>1. FirstSkip = 0 \/ FirstSkip = EncoderLayers - 3
  BY FirstSkipIs
<1>2. CASE idx = 0
  BY <1>2, NetworkShape DEF SavedAt, SkipChannels, EncoderChannels
<1>3. CASE idx # 0
  <2>1. idx \in 1 .. FirstSkip /\ idx + 1 < EncoderLayers /\ idx + 1 # 0 /\ (idx + 1) - 1 = idx
    BY <1>1, <1>3, NetworkShape
  <2>2. QED
    BY <1>3, <2>1, NetworkShape DEF SavedAt, SkipChannels, EncoderChannels, UNet, SkipsInOrder
<1>4. QED
  BY <1>2, <1>3

(* ... and one of the decoder's.                                           *)
LEMMA SizingDecoder ==
  ASSUME UNet, NEW size \in ImageSizes, NEW l \in 0 .. DecoderLayers - 1, NEW p,
         Sizing(size, p, <<"decoder", l>>)
  PROVE  LET idx == SkipAt(l)
             q == SizedDecoder(p, l, IF idx >= 0 THEN p.c + SkipChannels(idx) ELSE p.c)
         IN IF l + 1 < DecoderLayers THEN Sizing(size, q, <<"decoder", l + 1>>) ELSE Sized(size, q)
<1> DEFINE at == <<"decoder", l>>
           y == Decoder[l]
           h == Scaled(y.post, p.h)
           w == Scaled(y.post, p.w)
           c == LastChannels(y)
           idx == SkipAt(l)
           joined == IF idx >= 0 THEN p.c + SkipChannels(idx) ELSE p.c
           channels == Widths(at) \cup {joined}
           peak == Peak(Peak(p.max, p.h, p.w, channels), h, w, {c})
           q == SizedDecoder(p, l, joined)
<1>1. /\ at \in LayerNames /\ LayerAt(at) = y /\ at[1] = "decoder" /\ at[2] = l
      /\ EncoderLayers \in Nat \ {0} /\ DecoderLayers \in Nat
      /\ Start(size, at) = Joined(y, Encoded(size), Entry(size, at))
      /\ Entry(size, at) = Decoded(size)[l]
  BY NetworkShape DEF LayerNames, LayerAt, Entry, Start
<1>2. /\ p \in [h : Nat, w : Nat, c : Nat, max : Nat, next : Nat, offset : Seq(Nat)]
      /\ Entry(size, at).h = p.h /\ Entry(size, at).w = p.w /\ Entry(size, at).c = p.c
      /\ 2 * Volume(Encoded(size)[0]) <= p.max
      /\ Volume(Entry(size, at)) <= p.max
      /\ SavedFits(size, p.offset, p.next, EncoderLayers)
      /\ \A b \in LayerNames : Precedes(b, at) => Bounded(size, p.max, b)
  BY DEF Sizing, HasShape
<1>3. joined = StartChannels(at) /\ joined \in Nat
  <2>1. StartChannels(at) \in Nat /\ StartChannels(at) = JoinedChannels(l)
    BY <1>1, TensorShapes DEF StartChannels
  <2>2. p.c = DecoderChannels(l)
    <3>1. l \in 0 .. DecoderLayers
      BY <1>1
    <3>2. QED
      BY <1>1, <1>2, <3>1, DecodedShape DEF HasShape
  <2>3. Decoder[l].skip = idx /\ idx \in -1 .. FirstSkip
    BY FirstSkipType, NetworkShape DEF UNet, SkipsInOrder, SkipAt
  <2>4. CASE idx >= 0
    <3>1. idx \in 0 .. FirstSkip /\ ~(idx < 0)
      BY <2>3, <2>4, FirstSkipType
    <3>2. SkipChannels(idx) = EncoderChannels(SavedAt(idx))
      BY <3>1, SkipChannelsAre
    <3> HIDE DEF idx
    <3>3. QED
      BY <2>1, <2>2, <2>3, <2>4, <3>1, <3>2 DEF JoinedChannels
  <2>5. CASE ~(idx >= 0)
    <3>1. idx < 0
      BY <2>3, <2>5, FirstSkipType
    <3> HIDE DEF idx
    <3>2. QED
      BY <2>1, <2>2, <2>3, <2>5, <3>1 DEF JoinedChannels
  <2>6. QED
    BY <2>4, <2>5
<1> HIDE DEF joined, idx
<1>4. /\ peak \in Nat /\ peak >= p.max /\ Bounded(size, peak, at)
      /\ HasShape(Behind(size, at), h, w, c)
  <2>1. PICK b \in Nat : \A k \in Widths(at) : k <= b
    BY <1>1, WidthsBounded
  <2>2. channels \in SUBSET Nat /\ Widths(at) \subseteq channels /\ StartChannels(at) \in channels
    BY <1>1, <1>3, WidthsBounded
  <2>3. b + joined \in Nat /\ \A k \in channels : k <= b + joined
    BY <1>1, <1>3, <2>1, WidthsBounded
  <2>4. p.max \in Nat
    BY <1>2
  <2> HIDE DEF channels
  <2>5. QED
    BY <1>1, <1>2, <2>2, <2>3, <2>4, LayerSized
<1>5. h \in Nat /\ w \in Nat /\ c \in Nat
  <2>1. c \in Nat
    BY <1>1, TensorShapes
  <2>2. \A n \in Nat : Scaled(y.post, n) \in Nat
    BY DEF Scaled
  <2>3. p.h \in Nat /\ p.w \in Nat
    BY <1>2
  <2>4. QED
    BY <2>1, <2>2, <2>3
<1>6. q = [p EXCEPT !.h = h, !.w = w, !.c = c, !.max = peak]
  <2>1. y.post \in {"NN_UPSAMPLE", "NONE"}
    BY <1>1, NetworkShape DEF UNet, LevelsFit
  <2>2. h = (IF y.post = "NN_UPSAMPLE" THEN p.h * 2 ELSE p.h) /\ w = (IF y.post = "NN_UPSAMPLE" THEN p.w * 2 ELSE p.w)
    BY <2>1 DEF Scaled
  <2>3. QED
    BY <1>2, <2>2 DEF SizedDecoder
<1>7. Behind(size, at) = Entry(size, <<"decoder", l + 1>>)
  BY <1>1, BetweenLayers
<1> HIDE DEF q, h, w, c, peak
<1>8. /\ q \in [h : Nat, w : Nat, c : Nat, max : Nat, next : Nat, offset : Seq(Nat)]
      /\ q.h = h /\ q.w = w /\ q.c = c /\ q.max = peak /\ q.next = p.next /\ q.offset = p.offset
  BY <1>2, <1>4, <1>5, <1>6
<1>9. \A b \in LayerNames : Precedes(b, <<"decoder", l + 1>>) => Bounded(size, q.max, b)
  <2> TAKE b \in LayerNames
  <2> HAVE Precedes(b, <<"decoder", l + 1>>)
  <2>1. Precedes(b, at) \/ b = at
    BY <1>1, LayerNamed DEF Precedes
  <2>2. p.max \in Nat
    BY <1>2
  <2>3. QED
    BY <1>2, <1>4, <1>8, <2>1, <2>2, BoundedMore
<1>10. 2 * Volume(Encoded(size)[0]) <= q.max
  <2>1. Volume(Encoded(size)[0]) \in Nat
    <3>1. <<"encoder", 0>> \in LayerNames
      BY <1>1, NetworkShape DEF LayerNames
    <3>2. QED
      BY <3>1, VolumesAreNumbers DEF Entry
  <2>2. QED
    BY <1>2, <1>4, <1>8, <2>1
<1>11. Volume(Entry(size, <<"decoder", l + 1>>)) <= q.max
  BY <1>4, <1>7, <1>8 DEF Bounded
<1>12. HasShape(Entry(size, <<"decoder", l + 1>>), q.h, q.w, q.c)
  BY <1>4, <1>7, <1>8
<1>13. Sizing(size, q, <<"decoder", l + 1>>)
  BY <1>2, <1>8, <1>9, <1>10, <1>11, <1>12 DEF Sizing
<1>14. CASE ~(l + 1 < DecoderLayers)
  <2>1. \A b \in LayerNames : Precedes(b, <<"decoder", l + 1>>)
    BY <1>1, <1>14, LayerNamed DEF Precedes
  <2>2. Sized(size, q)
    BY <1>2, <1>8, <1>9, <1>10, <2>1 DEF Sized
  <2>3. QED
    BY <1>14, <2>2 DEF q, joined, idx
<1>15. QED
  BY <1>13, <1>14 DEF q, joined, idx

-----------------------------------------------------------------------------
(* Where the host is.                                                      *)

InNetwork == {"saveImage", "concat", "layer", "saveOutput", "inverse", "download", "release"}

(* The tensor that the operations issued so far lead to.                   *)
Current(size, where, at, i) ==
  CASE where = "saveImage"  -> Encoded(size)[0]
    [] where = "concat"     -> Entry(size, at)
    [] where = "layer"      -> Within(size, at, i)
    [] where = "saveOutput" -> Behind(size, at)
    [] OTHER                -> Decoded(size)[DecoderLayers]

ShapeOf(t) == Shape(t.h, t.w, t.c)

Position ==
  /\ pc = "sizeEncoder" => layer[1] = "encoder" /\ skipIdx = FirstSkip
  /\ pc = "sizeDecoder" => layer[1] = "decoder" /\ skipIdx = SkipAt(layer[2])
  /\ pc = "concat" => layer[1] = "decoder" /\ skipIdx = SkipAt(layer[2]) /\ conv = 0
  /\ pc = "layer" /\ layer[1] = "decoder" => skipIdx = SkipAt(layer[2] + 1)
  /\ pc = "saveOutput" => SavesOutput

HostInv ==
  /\ Position
  /\ pc \in {"sizeEncoder", "sizeDecoder"} => Sizing(image, sizes, layer)
  /\ pc \notin {"sizeEncoder", "sizeDecoder", "exited"} => Sized(image, sizes)
  /\ pc \in Before \cup {"upload", "transfer"} => shape = Shape(image[1], image[2], ImageChannels)
  /\ pc \in InNetwork => shape = ShapeOf(Current(image, pc, layer, conv))

LEMMA SkipAtSteps ==
  ASSUME UNet
  PROVE  /\ SkipAt(0) = FirstSkip
         /\ \A l \in Nat : SkipAt(l) \in -1 .. FirstSkip
         /\ \A l \in Nat : SkipAt(l + 1) = IF SkipAt(l) >= 0 THEN SkipAt(l) - 1 ELSE SkipAt(l)
         /\ \A l \in DOMAIN Decoder : Decoder[l].skip = SkipAt(l)
  BY FirstSkipType DEF SkipAt, UNet, SkipsInOrder

LEMMA InitHostInv == UNet /\ Init => HostInv
<1> SUFFICES ASSUME UNet, Init PROVE HostInv
  OBVIOUS
<1>1. pc = "sizeEncoder" /\ layer = <<"encoder", 0>> /\ sizes = InitSizes(image) /\ image \in ImageSizes
  BY DEF Init
<1>2. Sizing(image, sizes, layer)
  BY <1>1, InitSizing
<1>3. QED
  BY <1>1, <1>2 DEF Init, HostInv, Position, InNetwork

(* What the steps after the sizing pass have in common.                    *)
LEMMA KeepHost ==
  ASSUME IInv, HostInv, pc \notin {"sizeEncoder", "sizeDecoder", "exited"},
         pc' \notin {"sizeEncoder", "sizeDecoder"}, sizes' = sizes, image' = image,
         Position',
         pc' \in Before \cup {"upload", "transfer"} =>
           shape' = Shape(image[1], image[2], ImageChannels),
         pc' \in InNetwork => shape' = ShapeOf(Current(image, pc', layer', conv'))
  PROVE  HostInv'
  BY DEF HostInv

LEMMA ExitHostInv == HostInv /\ Exit => HostInv'
  BY DEF HostInv, Exit, Position, InNetwork, Before

LEMMA SizingHostInv == UNet /\ IInv /\ HostInv /\ (SizeEncoder \/ SizeDecoder) => HostInv'
<1> SUFFICES ASSUME UNet, IInv, HostInv, SizeEncoder \/ SizeDecoder PROVE HostInv'
  OBVIOUS
<1>1. /\ image' = image /\ shape' = shape /\ image \in ImageSizes /\ layer \in LayerNames
      /\ shape = Shape(image[1], image[2], ImageChannels) /\ layer = <<layer[1], layer[2]>>
      /\ Sizing(image, sizes, layer) /\ pc \in {"sizeEncoder", "sizeDecoder"}
  BY LayerNamed DEF SizeEncoder, SizeDecoder, IInv, Walk, InLayer, HostInv, Before
<1>2. CASE SizeEncoder
  <2> DEFINE l == layer[2]
  <2>1. /\ layer = <<"encoder", l>> /\ l \in 0 .. EncoderLayers - 1 /\ skipIdx' = FirstSkip
        /\ sizes' = SizedEncoder(sizes, l)
    BY <1>1, <1>2, LayerNamed DEF SizeEncoder, HostInv, Position
  <2>2. Sizing(image, sizes', IF l + 1 < EncoderLayers THEN <<"encoder", l + 1>> ELSE <<"decoder", 0>>)
    BY <1>1, <2>1, SizingEncoder
  <2>3. IF l + 1 < EncoderLayers THEN layer' = <<"encoder", l + 1>> /\ pc' = "sizeEncoder"
        ELSE layer' = <<"decoder", 0>> /\ pc' = "sizeDecoder"
    BY <1>2 DEF SizeEncoder
  <2> HIDE DEF l
  <2>4. Position'
    BY <2>1, <2>3, SkipAtSteps DEF Position
  <2>5. Sizing(image, sizes', layer')
    BY <2>2, <2>3
  <2>6. pc' \in {"sizeEncoder", "sizeDecoder"}
    BY <2>3
  <2>7. QED
    BY <1>1, <2>4, <2>5, <2>6 DEF HostInv, InNetwork
<1>3. CASE SizeDecoder
  <2> DEFINE l == layer[2]
  <2>1. /\ layer = <<"decoder", l>> /\ l \in 0 .. DecoderLayers - 1 /\ skipIdx = SkipAt(l)
        /\ SkipAt(l) \in Int
    BY <1>1, <1>3, LayerNamed, SkipAtSteps, FirstSkipType DEF SizeDecoder, HostInv, Position
  <2>2. /\ sizes' = SizedDecoder(sizes, l, IF skipIdx >= 0 THEN sizes.c + SkipChannels(skipIdx) ELSE sizes.c)
        /\ skipIdx' = IF skipIdx >= 0 THEN skipIdx - 1 ELSE skipIdx
    BY <1>3 DEF SizeDecoder
  <2>3. IF l + 1 < DecoderLayers THEN Sizing(image, sizes', <<"decoder", l + 1>>) ELSE Sized(image, sizes')
    BY <1>1, <2>1, <2>2, SizingDecoder
  <2>4. skipIdx' = SkipAt(l + 1)
    BY <2>1, <2>2, SkipAtSteps
  <2>5. IF l + 1 < DecoderLayers THEN layer' = <<"decoder", l + 1>> /\ pc' = "sizeDecoder"
        ELSE layer' = layer /\ pc' = "malloc"
    BY <1>3 DEF SizeDecoder
  <2> HIDE DEF l
  <2>6. Position'
    BY <2>4, <2>5 DEF Position
  <2>7. QED
    BY <1>1, <2>3, <2>5, <2>6 DEF HostInv, InNetwork
<1>4. QED
  BY <1>2, <1>3

(* Leaving a layer, the host is at the next one's entry, with the next     *)
(* saved tensor.                                                           *)
LEMMA LeaveLayerPosition ==
  ASSUME UNet, InLayer, LeaveLayer, layer[1] = "decoder" => skipIdx = SkipAt(layer[2] + 1)
  PROVE  /\ Current(image, pc', layer', conv') = Behind(image, layer)
         /\ pc' \in {"concat", "layer", "inverse"}
         /\ Position'
<1>1. /\ layer \in LayerNames /\ layer = <<layer[1], layer[2]>> /\ layer[2] \in Nat
      /\ \/ layer[1] = "encoder" /\ layer[2] \in 0 .. EncoderLayers - 1
         \/ layer[1] = "decoder" /\ layer[2] \in 0 .. DecoderLayers - 1
  BY LayerNamed DEF InLayer
<1> DEFINE next == <<layer[1], layer[2] + 1>>
<1>2. Behind(image, layer) = Entry(image, next)
  BY <1>1, BetweenLayers
<1>3. CASE layer[2] + 1 < LayerCount(layer[1])
  <2>1. EnterLayer(next, skipIdx) /\ skipIdx' = skipIdx
    BY <1>3 DEF LeaveLayer
  <2>2. layer' = next /\ conv' = 0 /\ next[1] = layer[1] /\ next[2] = layer[2] + 1
    BY <2>1 DEF EnterLayer
  <2>3. next \in LayerNames
    BY <1>1, <1>3, NetworkShape DEF LayerNames, LayerCount
  <2>4. pc' = IF layer[1] = "decoder" /\ skipIdx >= 0 THEN "concat" ELSE "layer"
    BY <2>1, <2>2 DEF EnterLayer
  <2>5. layer[1] = "decoder" => skipIdx' = SkipAt(next[2])
    BY <2>1, <2>2
  <2> HIDE DEF next
  <2>6. CASE pc' = "concat"
    BY <1>2, <2>2, <2>4, <2>5, <2>6 DEF Current, Position
  <2>7. CASE pc' = "layer"
    <3>1. Start(image, next) = Entry(image, next)
      <4>1. CASE layer[1] = "encoder"
        BY <2>2, <4>1 DEF Start, Entry
      <4>2. CASE layer[1] = "decoder"
        <5>1. next[2] \in DOMAIN Decoder
          BY <2>2, <2>3, <4>2, NetworkShape DEF LayerNames
        <5>2. Decoder[next[2]].skip = skipIdx /\ ~(skipIdx >= 0) /\ skipIdx \in Int
          BY <2>1, <2>4, <2>5, <2>7, <4>2, <5>1, SkipAtSteps, FirstSkipType DEF InLayer
        <5>3. Decoder[next[2]].skip < 0
          BY <5>2
        <5>4. QED
          BY <2>2, <4>2, <5>3 DEF Start, Entry, Joined
      <4>3. QED
        BY <1>1, <4>1, <4>2
    <3>2. Within(image, next, 0) = Start(image, next)
      BY <2>3, ThroughLayer
    <3>3. skipIdx' = SkipAt(next[2] + 1) \/ layer[1] # "decoder"
      <4>1. ASSUME layer[1] = "decoder" PROVE skipIdx' = SkipAt(next[2] + 1)
        <5>1. ~(skipIdx' >= 0) /\ skipIdx' = SkipAt(next[2]) /\ next[2] \in Nat
          BY <1>1, <2>1, <2>2, <2>4, <2>5, <2>7, <4>1
        <5>2. QED
          BY <5>1, SkipAtSteps
      <4>2. QED
        BY <4>1
    <3>4. QED
      BY <1>2, <2>2, <2>7, <3>1, <3>2, <3>3 DEF Current, Position
  <2>8. QED
    BY <2>4, <2>6, <2>7
<1>4. CASE ~(layer[2] + 1 < LayerCount(layer[1])) /\ layer[1] = "encoder"
  <2>1. EnterLayer(<<"decoder", 0>>, FirstSkip) /\ skipIdx' = FirstSkip
    BY <1>4 DEF LeaveLayer
  <2>2. layer' = <<"decoder", 0>> /\ pc' = "concat" /\ conv' = 0
    BY <2>1, FirstSkipType DEF EnterLayer
  <2>3. next = <<"encoder", EncoderLayers>>
    BY <1>1, <1>4, NetworkShape DEF LayerCount
  <2>4. Entry(image, layer') = Behind(image, layer)
    BY <1>2, <2>2, <2>3, BetweenLayers
  <2> HIDE DEF next
  <2>5. QED
    BY <2>1, <2>2, <2>4, SkipAtSteps DEF Current, Position
<1>5. CASE ~(layer[2] + 1 < LayerCount(layer[1])) /\ layer[1] # "encoder"
  <2>1. pc' = "inverse"
    BY <1>5 DEF LeaveLayer
  <2>2. layer[1] = "decoder" /\ layer[2] + 1 = DecoderLayers
    BY <1>1, <1>5, NetworkShape DEF LayerCount
  <2>3. QED
    BY <2>1, <2>2 DEF Current, Position, Behind
<1>6. QED
  BY <1>3, <1>4, <1>5

LEMMA AllocHostInv == UNet /\ IInv /\ HostInv /\ (Malloc \/ Upload) => HostInv'
<1> SUFFICES ASSUME UNet, IInv, HostInv, Malloc \/ Upload PROVE HostInv'
  OBVIOUS
<1>1. CASE ~Exit
  <2>1. /\ pc \in {"malloc", "upload"} /\ pc' \in {"malloc", "upload", "transfer"}
        /\ UNCHANGED <<image, sizes, shape>>
    BY <1>1 DEF Malloc, Upload
  <2>2. shape = Shape(image[1], image[2], ImageChannels)
    BY <2>1 DEF HostInv, Before
  <2>3. Position'
    BY <2>1 DEF Position
  <2>4. QED
    BY <2>1, <2>2, <2>3, KeepHost DEF InNetwork
<1>2. QED
  BY <1>1, ExitHostInv

LEMMA TransferHostInv == UNet /\ IInv /\ HostInv /\ Transfer => HostInv'
<1> SUFFICES ASSUME UNet, IInv, HostInv, Transfer PROVE HostInv'
  OBVIOUS
<1>1. CASE ~Exit
  <2>1. /\ pc = "transfer" /\ pc' = "saveImage"
        /\ UNCHANGED <<image, sizes>>
        /\ shape' = Shape(Padded(image[1]), Padded(image[2]), ImageChannels)
    BY <1>1 DEF Transfer
  <2>2. Current(image, pc', layer', conv') = Transferred(Raw(image))
    BY <2>1, EncodedIs DEF Current
  <2>3. shape' = ShapeOf(Transferred(Raw(image)))
    BY <2>1 DEF ShapeOf, Transferred, Raw, Tensor
  <2>4. Position'
    BY <2>1 DEF Position
  <2>5. QED
    BY <2>1, <2>2, <2>3, <2>4, KeepHost DEF InNetwork, Before
<1>2. QED
  BY <1>1, ExitHostInv

LEMMA SaveImageHostInv == UNet /\ IInv /\ HostInv /\ SaveImage => HostInv'
<1> SUFFICES ASSUME UNet, IInv, HostInv, SaveImage PROVE HostInv'
  OBVIOUS
<1>1. CASE ~Exit
  <2>1. pc = "saveImage" /\ EnterLayer(<<"encoder", 0>>, skipIdx) /\ UNCHANGED <<image, sizes, shape>>
    BY <1>1 DEF SaveImage
  <2>2. pc' = "layer" /\ layer' = <<"encoder", 0>> /\ conv' = 0
    BY <2>1 DEF EnterLayer
  <2>3. layer' \in LayerNames
    BY <2>2, NetworkShape DEF LayerNames
  <2>4. Within(image, layer', 0) = Encoded(image)[0]
    BY <2>2, <2>3, ThroughLayer DEF Start
  <2>5. Current(image, pc', layer', conv') = Current(image, pc, layer, conv)
    BY <2>1, <2>2, <2>4 DEF Current
  <2>6. Position'
    BY <2>2 DEF Position
  <2>7. QED
    BY <2>1, <2>2, <2>5, <2>6, KeepHost DEF InNetwork, Before, HostInv
<1>2. QED
  BY <1>1, ExitHostInv

LEMMA ConvolveHostInv == UNet /\ IInv /\ HostInv /\ Convolve => HostInv'
<1> SUFFICES ASSUME UNet, IInv, HostInv, Convolve PROVE HostInv'
  OBVIOUS
<1> DEFINE y == LayerAt(layer)
<1>1. /\ pc = "layer" /\ conv < NumConvs(y)
      /\ UNCHANGED <<image, layer, skipIdx, sizes>>
      /\ layer \in LayerNames /\ conv \in 0 .. NumConvs(y) /\ NumConvs(y) \in Nat
  BY LayerFacts DEF Convolve, IInv, Walk, InLayer
<1>2. shape = ShapeOf(Within(image, layer, conv))
  BY <1>1 DEF HostInv, InNetwork, Current
<1>3. CASE shape.c \in SupportedInC
  <2>1. pc' = pc /\ conv' = conv + 1 /\ shape' = [shape EXCEPT !.c = OutChannels(y, conv)]
    BY <1>3 DEF Convolve
  <2>2. conv \in 0 .. NumConvs(y) - 1
    BY <1>1
  <2>3. Within(image, layer, conv + 1)
          = Convolved(<<layer[1], layer[2], conv>>, y.out[conv + 1], Within(image, layer, conv))
    BY <1>1, <2>2, ThroughLayer
  <2>4. shape' = ShapeOf(Within(image, layer, conv + 1))
    BY <1>2, <2>1, <2>3 DEF ShapeOf, Shape, Convolved, Tensor, OutChannels
  <2>5. Position'
    BY <1>1, <2>1 DEF HostInv, Position
  <2>6. QED
    BY <1>1, <2>1, <2>4, <2>5, KeepHost DEF InNetwork, Before, Current
<1>4. CASE shape.c \notin SupportedInC
  <2>1. pc' = "threw"
    BY <1>4 DEF Convolve
  <2>2. Position'
    BY <2>1 DEF Position
  <2>3. QED
    BY <1>1, <2>1, <2>2, KeepHost DEF InNetwork, Before
<1>5. QED
  BY <1>3, <1>4

(* The post operation gives the output of the layer.                       *)
LEMMA PostOpHostInv == UNet /\ IInv /\ HostInv /\ PostOp => HostInv'
<1> SUFFICES ASSUME UNet, IInv, HostInv, PostOp PROVE HostInv'
  OBVIOUS
<1> DEFINE y == LayerAt(layer)
           t == Within(image, layer, NumConvs(y))
<1>1. /\ pc = "layer" /\ conv = NumConvs(y) /\ layer \in LayerNames
      /\ Behind(image, layer) = PostOperated(y.post, t)
      /\ y.post \in {"MAX_POOL", "NN_UPSAMPLE", "NONE"}
  BY ThroughLayer, LevelTypes DEF PostOp, IInv, Walk, InLayer
<1>2. shape = ShapeOf(t)
  BY <1>1 DEF HostInv, InNetwork, Current
<1> HIDE DEF t
<1>3. CASE ~Exit
  <2>1. /\ UNCHANGED <<image, sizes>>
        /\ \/ SavesOutput /\ pc' = "saveOutput" /\ UNCHANGED <<layer, conv, skipIdx>>
           \/ LeaveLayer
        /\ IF y.post \in {"MAX_POOL", "NN_UPSAMPLE"}
           THEN shape' = Shape(Scaled(y.post, shape.h), Scaled(y.post, shape.w), shape.c)
           ELSE shape' = shape
    BY <1>3 DEF PostOp
  <2>2. shape' = ShapeOf(Behind(image, layer))
    BY <1>1, <1>2, <2>1 DEF ShapeOf, Shape, PostOperated, Pooled, Upsampled, Tensor, Scaled
  <2>3. layer[1] = "decoder" => skipIdx = SkipAt(layer[2] + 1)
    BY <1>1 DEF HostInv, Position
  <2>4. CASE LeaveLayer
    BY <1>1, <2>1, <2>2, <2>3, <2>4, LeaveLayerPosition, KeepHost DEF InNetwork, Before, IInv, Walk
  <2>5. CASE SavesOutput /\ pc' = "saveOutput" /\ UNCHANGED <<layer, conv, skipIdx>>
    <3>1. Position'
      BY <2>5 DEF Position, SavesOutput
    <3>2. QED
      BY <1>1, <2>1, <2>2, <2>5, <3>1, KeepHost DEF InNetwork, Before, Current
  <2>6. QED
    BY <2>1, <2>4, <2>5
<1>4. QED
  BY <1>3, ExitHostInv

LEMMA SaveOutputHostInv == UNet /\ IInv /\ HostInv /\ SaveOutput => HostInv'
<1> SUFFICES ASSUME UNet, IInv, HostInv, SaveOutput PROVE HostInv'
  OBVIOUS
<1>1. CASE ~Exit
  <2>1. pc = "saveOutput" /\ LeaveLayer /\ UNCHANGED <<image, sizes, shape>> /\ layer[1] = "encoder"
    BY <1>1 DEF SaveOutput, HostInv, Position, SavesOutput
  <2>2. shape = ShapeOf(Behind(image, layer))
    BY <2>1 DEF HostInv, InNetwork, Current
  <2>3. QED
    BY <2>1, <2>2, LeaveLayerPosition, KeepHost DEF InNetwork, Before, IInv, Walk
<1>2. QED
  BY <1>1, ExitHostInv

(* The saved tensor that the host has counted down to is the one that the  *)
(* layer's skip connection names.                                          *)
LEMMA SkipTensor ==
  ASSUME UNet, NEW size \in ImageSizes, NEW at \in LayerNames, at[1] = "decoder",
         SkipAt(at[2]) >= 0
  PROVE  LET k == SavedAt(SkipAt(at[2]))
             s == Encoded(size)[k]
             t == Entry(size, at)
         IN /\ k \in 0 .. EncoderLayers - 1
            /\ HasShape(s, t.h, t.w, SkipChannels(SkipAt(at[2])))
            /\ Start(size, at) = Concatenated(t, s)
<1> DEFINE l == at[2]
           idx == SkipAt(l)
           k == SavedAt(idx)
           s == Encoded(size)[k]
           t == Entry(size, at)
<1>1. l \in 0 .. DecoderLayers - 1 /\ l \in DOMAIN Decoder /\ l \in Nat /\ l \in 0 .. DecoderLayers
  BY LayerNamed, NetworkShape
<1>2. idx \in 0 .. FirstSkip /\ Decoder[l].skip = idx /\ ~(idx < 0)
  BY <1>1, SkipAtSteps, FirstSkipType
<1> HIDE DEF idx
<1>3. /\ k \in 0 .. EncoderLayers /\ (idx > 0 => k < EncoderLayers)
      /\ SkipChannels(idx) = EncoderChannels(k)
  BY <1>2, SkipChannelsAre
<1>4. k \in 0 .. EncoderLayers - 1
  <2>1. idx = 0 => k = 0
    BY DEF SavedAt
  <2>2. idx > 0 \/ idx = 0
    BY <1>2, FirstSkipType
  <2>3. QED
    BY <1>3, <2>1, <2>2, NetworkShape
<1>5. EncoderLevel(k) = DecoderLevel(l)
  BY <1>1, <1>2 DEF UNet, SkipsJoin
<1>6. HasShape(s, Extent(size[1], EncoderLevel(k)), Extent(size[2], EncoderLevel(k)), EncoderChannels(k))
  BY <1>3, EncodedShape
<1>7. t = Decoded(size)[l]
  BY DEF Entry
<1>8. HasShape(Decoded(size)[l], Extent(size[1], DecoderLevel(l)), Extent(size[2], DecoderLevel(l)),
               DecoderChannels(l))
  BY <1>1, DecodedShape
<1>9. Start(size, at) = Concatenated(t, s)
  BY <1>2, <1>7 DEF Start, Joined, Saved
<1> HIDE DEF k, s, t
<1>10. HasShape(s, t.h, t.w, SkipChannels(idx))
  BY <1>3, <1>5, <1>6, <1>7, <1>8 DEF HasShape
<1>11. QED
  BY <1>4, <1>9, <1>10 DEF k, s, t, idx

LEMMA ConcatHostInv == UNet /\ IInv /\ HostInv /\ Concat => HostInv'
<1> SUFFICES ASSUME UNet, IInv, HostInv, Concat PROVE HostInv'
  OBVIOUS
<1>1. CASE ~Exit
  <2> DEFINE l == layer[2]
             t == Entry(image, layer)
             s == Encoded(image)[SavedAt(SkipAt(l))]
  <2>1. /\ pc = "concat" /\ pc' = "layer" /\ UNCHANGED <<image, sizes, layer, conv>>
        /\ skipIdx' = skipIdx - 1 /\ shape' = [shape EXCEPT !.c = @ + SkipChannels(skipIdx)]
    BY <1>1 DEF Concat
  <2>2. /\ layer \in LayerNames /\ layer[1] = "decoder" /\ skipIdx = SkipAt(l) /\ skipIdx >= 0
        /\ image \in ImageSizes /\ l \in Nat
    BY <2>1, LayerNamed DEF IInv, Walk, InLayer, HostInv, Position
  <2>3. shape = ShapeOf(t)
    BY <2>1 DEF HostInv, InNetwork, Current
  <2>4. HasShape(s, t.h, t.w, SkipChannels(skipIdx)) /\ Start(image, layer) = Concatenated(t, s)
    BY <2>2, SkipTensor
  <2> HIDE DEF s, t
  <2>5. shape' = ShapeOf(Start(image, layer))
    BY <2>1, <2>3, <2>4 DEF ShapeOf, Shape, Concatenated, Tensor, HasShape
  <2>6. Start(image, layer) = Within(image, layer, 0)
    BY <2>2, ThroughLayer
  <2>7. conv' = 0
    BY <2>1 DEF HostInv, Position
  <2>8. Position'
    BY <2>1, <2>2, SkipAtSteps DEF Position
  <2>9. QED
    BY <2>1, <2>5, <2>6, <2>7, <2>8, KeepHost DEF InNetwork, Before, Current
<1>2. QED
  BY <1>1, ExitHostInv

LEMMA EndHostInv == UNet /\ IInv /\ HostInv /\ (InverseTransfer \/ Download \/ Release) => HostInv'
<1> SUFFICES ASSUME UNet, IInv, HostInv, InverseTransfer \/ Download \/ Release PROVE HostInv'
  OBVIOUS
<1>1. CASE ~Exit
  <2>1. /\ pc \in {"inverse", "download", "release"} /\ pc' \in {"download", "release", "returned"}
        /\ UNCHANGED <<image, sizes, layer, conv, shape>>
    BY <1>1 DEF InverseTransfer, Download, Release
  <2>2. shape = ShapeOf(Current(image, pc, layer, conv))
    BY <2>1 DEF HostInv, InNetwork
  <2>3. Position'
    BY <2>1 DEF Position
  <2>4. QED
    BY <2>1, <2>2, <2>3, KeepHost DEF InNetwork, Before, Current
<1>2. QED
  BY <1>1, ExitHostInv

LEMMA StepHostInv == UNet /\ IInv /\ HostInv /\ [Next]_vars => HostInv'
<1>1. HostInv /\ UNCHANGED hostVars => HostInv'
  BY DEF HostInv, Position, SavesOutput, hostVars
<1>2. Execute \/ Fault \/ Over \/ UNCHANGED vars => UNCHANGED hostVars
  BY DEF Execute, Fault, Over, vars
<1>3. QED
  BY <1>1, <1>2, SizingHostInv, AllocHostInv, TransferHostInv, SaveImageHostInv, ConvolveHostInv,
     PostOpHostInv, SaveOutputHostInv, ConcatHostInv, EndHostInv DEF Next, HostStep

-----------------------------------------------------------------------------
(* What the host issues.                                                   *)

LEMMA AppendToPair ==
  ASSUME NEW a, NEW b, NEW c
  PROVE  Append(<<a, b>>, c) = <<a, b, c>>
<1> DEFINE S == {a, b, c}
           s == <<a, b>>
           t == <<a, b, c>>
<1>1. s \in Seq(S) /\ Len(s) = 2 /\ s[1] = a /\ s[2] = b /\ c \in S
  OBVIOUS
<1>2. t \in Seq(S) /\ Len(t) = 3 /\ t[1] = a /\ t[2] = b /\ t[3] = c
  OBVIOUS
<1> HIDE DEF S, s, t
<1>3. /\ Append(s, c) \in Seq(S) /\ Len(Append(s, c)) = 3
      /\ Append(s, c)[1] = a /\ Append(s, c)[2] = b /\ Append(s, c)[3] = c
  <2>1. /\ Append(s, c) \in Seq(S) /\ Len(Append(s, c)) = Len(s) + 1
        /\ \A i \in 1 .. Len(s) : Append(s, c)[i] = s[i]
        /\ Append(s, c)[Len(s) + 1] = c
    <3>1. ASSUME NEW U, NEW e \in U, NEW q \in Seq(U)
          PROVE  /\ Append(q, e) \in Seq(U) /\ Len(Append(q, e)) = Len(q) + 1
                 /\ \A i \in 1 .. Len(q) : Append(q, e)[i] = q[i]
                 /\ Append(q, e)[Len(q) + 1] = e
      OBVIOUS
    <3>2. QED
      BY <1>1, <3>1, Zenon
  <2> DEFINE u == Append(s, c)
  <2> HIDE DEF u
  <2>2. u \in Seq(S) /\ Len(u) = 2 + 1 /\ (\A i \in 1 .. 2 : u[i] = s[i]) /\ u[2 + 1] = c
    BY <1>1, <2>1 DEF u
  <2>3. 1 \in 1 .. 2 /\ 2 \in 1 .. 2 /\ 2 + 1 = 3
    OBVIOUS
  <2>4. Len(u) = 3 /\ u[1] = a /\ u[2] = b /\ u[3] = c
    BY <1>1, <2>2, <2>3
  <2>5. QED
    BY <2>2, <2>4 DEF u
<1>4. \A i \in 1 .. 3 : Append(s, c)[i] = t[i]
  <2>1. \A i \in 1 .. 3 : i = 1 \/ i = 2 \/ i = 3
    OBVIOUS
  <2>2. QED
    BY <1>2, <1>3, <2>1
<1>5. Append(s, c) = t
  BY <1>2, <1>3, <1>4, SeqEqual
<1>6. QED
  BY <1>5 DEF s, t

OpFits(op) ==
  /\ SourceExtent(op) <= sizes.max
  /\ op.kind # "save" => TargetExtent(op) <= sizes.max
  /\ op.kind = "save" => op.off + TargetExtent(op) <= sizes.next
  /\ op.kind = "concat" => op.off + op.h * op.w * op.c2 <= sizes.next

OpTrained(op) == op.kind = "conv" => op.c = LayerAt(<<op.id[1], op.id[2]>>).in[op.id[3] + 1]
OpEven(op) == op.kind = "MAX_POOL" => op.h % 2 = 0 /\ op.w % 2 = 0

OpInv(op) ==
  /\ OutputFits => OpFits(op)
  /\ WidthsAddUp => OpTrained(op)
  /\ OpEven(op)

OpsInv == \A op \in Elements(queue) : OpInv(op)

(* The operation's view of the current tensor.                             *)
LEMMA OperationIs ==
  ASSUME NEW t, shape = ShapeOf(t), NEW kind, NEW src, NEW dst, NEW c2, NEW off, NEW id
  PROVE  LET op == Operation(kind, src, dst, c2, off, id)
         IN /\ op.kind = kind /\ op.src = src /\ op.dst = dst
            /\ op.h = t.h /\ op.w = t.w /\ op.c = t.c
            /\ op.c2 = c2 /\ op.off = off /\ op.id = id
  BY DEF Operation, ShapeOf, Shape

LEMMA SavedTensorFits ==
  ASSUME UNet, HostInv, pc \notin {"sizeEncoder", "sizeDecoder", "exited"},
         NEW k \in 0 .. EncoderLayers - 1
  PROVE  /\ sizes.offset[k + 1] + Volume(Encoded(image)[k]) <= sizes.next
         /\ sizes.offset[1] = 0
  BY DEF HostInv, Sized, SavedFits

LEMMA Sizes ==
  ASSUME UNet, IInv, HostInv, pc \notin {"sizeEncoder", "sizeDecoder", "exited"}
  PROVE  /\ image \in ImageSizes /\ layer \in LayerNames
         /\ Sized(image, sizes) /\ sizes.max \in Nat
         /\ Bounded(image, sizes.max, layer)
  BY DEF HostInv, Sized, IInv, Walk, InLayer

LEMMA TransferOp ==
  ASSUME UNet, IInv, HostInv, pc = "transfer"
  PROVE  OpInv(Operation("transfer", bufs[1], bufs[2], 0, 0, <<>>))
<1> DEFINE op == Operation("transfer", bufs[1], bufs[2], 0, 0, <<>>)
           h == image[1]
           w == image[2]
           c == ImageChannels
           t == Encoded(image)[0]
<1>1. /\ op.kind = "transfer" /\ op.h = h /\ op.w = w /\ op.c = c
  BY DEF HostInv, Operation, Shape, Before
<1>2. /\ h \in Nat /\ w \in Nat /\ c \in Nat /\ Padded(h) \in Nat /\ Padded(w) \in Nat
      /\ h <= Padded(h) /\ w <= Padded(w)
  <2>1. h \in Nat \ {0} /\ w \in Nat \ {0} /\ c \in Nat /\ 0 \in 0 .. 4
    BY ImagesNotEmpty DEF IInv, Walk, InLayer
  <2>2. \A n \in Nat \ {0} : Padded(n) \in Nat /\ n <= Padded(n)
    BY <2>1, Extents
  <2>3. QED
    BY <2>1, <2>2
<1>3. t.h = Padded(h) /\ t.w = Padded(w) /\ t.c = c
  <2>1. t = Transferred(Raw(image))
    BY EncodedIs
  <2>2. QED
    BY <2>1 DEF Transferred, Raw, Tensor
<1>4. 2 * Volume(t) <= sizes.max /\ sizes.max \in Nat
  BY Sizes DEF Sized
<1> HIDE DEF op, t
<1>5. \A h1, w1, H, W \in Nat : h1 <= H /\ w1 <= W => h1 * w1 <= H * W /\ h1 * w1 \in Nat /\ H * W \in Nat
  <2>1. ASSUME NEW h1 \in Nat, NEW w1 \in Nat, NEW H \in Nat, NEW W \in Nat, h1 <= H, w1 <= W
        PROVE  h1 * w1 <= H * W /\ h1 * w1 \in Nat /\ H * W \in Nat
    <3>1. h1 * w1 <= H * w1 /\ H * w1 <= H * W
      BY <2>1, SMT
    <3>2. QED
      BY <3>1, SMT
  <2>2. QED
    BY <2>1
<1>6. h * w <= Padded(h) * Padded(w) /\ h * w \in Nat /\ Padded(h) * Padded(w) \in Nat
  BY <1>2, <1>5
<1>7. (h * w) * c <= (Padded(h) * Padded(w)) * c /\ (h * w) * c \in Nat /\ (Padded(h) * Padded(w)) * c \in Nat
  BY <1>2, <1>5, <1>6
<1>8. Volume(t) = (Padded(h) * Padded(w)) * c
  BY <1>3 DEF Volume
<1>9. 2 * h * w * c = 2 * ((h * w) * c)
  BY <1>2, SMT
<1>10. SourceExtent(op) <= sizes.max /\ TargetExtent(op) <= sizes.max
  BY <1>1, <1>4, <1>7, <1>8, <1>9 DEF SourceExtent, TargetExtent
<1>11. QED
  BY <1>1, <1>10 DEF OpInv, OpFits, OpTrained, OpEven, op

LEMMA SaveImageOp ==
  ASSUME UNet, IInv, HostInv, pc = "saveImage"
  PROVE  OpInv(Operation("save", bufs[2], "encode", 0, 0, <<>>))
<1> DEFINE op == Operation("save", bufs[2], "encode", 0, 0, <<>>)
           t == Encoded(image)[0]
           at == <<"encoder", 0>>
<1>1. op.kind = "save" /\ op.h = t.h /\ op.w = t.w /\ op.c = t.c /\ op.off = 0
  BY OperationIs DEF HostInv, InNetwork, Current
<1>2. /\ 0 + Volume(t) <= sizes.next /\ Bounded(image, sizes.max, at) /\ t = Entry(image, at)
  <2>1. 0 \in 0 .. EncoderLayers - 1 /\ at \in LayerNames
    BY NetworkShape DEF LayerNames
  <2>2. QED
    BY <2>1, Sizes, SavedTensorFits DEF Sized, Entry
<1> HIDE DEF op, t
<1>3. SourceExtent(op) = Volume(t) /\ TargetExtent(op) = Volume(t)
  BY <1>1 DEF SourceExtent, TargetExtent, Volume
<1>4. QED
  BY <1>1, <1>2, <1>3 DEF OpInv, OpFits, OpTrained, OpEven, Bounded, op

(* A convolution gets the channels that the one before it, or the layer    *)
(* before with the saved tensor, has.                                      *)
(* A convolution finds the channels that it is trained for.                *)
LEMMA WidthTrainedFor ==
  ASSUME UNet, WidthsAddUp, NEW size \in ImageSizes, NEW at \in LayerNames,
         NEW i \in 0 .. NumConvs(LayerAt(at)) - 1
  PROVE  Within(size, at, i).c = LayerAt(at).in[i + 1]
<1> DEFINE y == LayerAt(at)
           t == Within(size, at, i)
<1>1. NumConvs(y) \in Nat /\ i \in Nat
  BY LayerNamed
<1>2. TrainedFor(y, StartChannels(at))
  BY LayerNamed, NetworkShape DEF WidthsAddUp, StartChannels
<1>3. CASE i = 0
  <2>1. t = Start(size, at) /\ HasShape(Start(size, at), t.h, t.w, StartChannels(at))
    BY <1>3, ThroughLayer, TensorShapes DEF HasShape
  <2>2. QED
    BY <1>2, <1>3, <2>1 DEF TrainedFor, HasShape
<1>4. CASE i # 0
  <2>1. i \in 1 .. NumConvs(y) - 1 /\ i \in 1 .. NumConvs(y)
    BY <1>1, <1>4
  <2>2. t.c = y.out[i]
    BY <2>1, TensorShapes DEF HasShape
  <2>3. QED
    BY <1>2, <2>1, <2>2 DEF TrainedFor
<1>5. QED
  BY <1>3, <1>4

LEMMA ConvolveOp ==
  ASSUME UNet, IInv, HostInv, pc = "layer", conv < NumConvs(LayerAt(layer))
  PROVE  OpInv(Operation("conv", bufs[1], bufs[2], OutChannels(LayerAt(layer), conv), 0,
                         Append(layer, conv)))
<1> DEFINE y == LayerAt(layer)
           op == Operation("conv", bufs[1], bufs[2], OutChannels(y, conv), 0, Append(layer, conv))
           t == Within(image, layer, conv)
           u == Within(image, layer, conv + 1)
<1>1. /\ image \in ImageSizes /\ layer \in LayerNames /\ Bounded(image, sizes.max, layer)
      /\ conv \in 0 .. NumConvs(y) - 1 /\ conv \in 0 .. NumConvs(y) /\ conv + 1 \in 0 .. NumConvs(y)
      /\ NumConvs(y) \in Nat /\ layer = <<layer[1], layer[2]>>
  BY Sizes, LayerNamed DEF IInv, Walk, InLayer
<1>2. shape = ShapeOf(t)
  BY DEF HostInv, InNetwork, Current
<1>3. /\ op.kind = "conv" /\ op.h = t.h /\ op.w = t.w /\ op.c = t.c
      /\ op.c2 = y.out[conv + 1] /\ op.id = Append(layer, conv)
  <2>1. OutChannels(y, conv) = y.out[conv + 1]
    BY DEF OutChannels
  <2> DEFINE c2 == OutChannels(y, conv)
             id == Append(layer, conv)
  <2>2. op = Operation("conv", bufs[1], bufs[2], c2, 0, id)
    OBVIOUS
  <2> HIDE DEF c2, id, op, t
  <2>3. op.kind = "conv" /\ op.h = t.h /\ op.w = t.w /\ op.c = t.c /\ op.c2 = c2 /\ op.id = id
    BY <1>2, <2>2, OperationIs
  <2>4. QED
    BY <2>1, <2>3 DEF c2, id
<1>4. u = Convolved(<<layer[1], layer[2], conv>>, y.out[conv + 1], t)
  BY <1>1, ThroughLayer
<1>5. u.h = t.h /\ u.w = t.w /\ u.c = y.out[conv + 1]
  BY <1>4 DEF Convolved, Tensor
<1>6. Volume(t) <= sizes.max /\ Volume(u) <= sizes.max
  BY <1>1 DEF Bounded
<1>7. op.id[1] = layer[1] /\ op.id[2] = layer[2] /\ op.id[3] = conv
  <2>1. Append(<<layer[1], layer[2]>>, conv) = <<layer[1], layer[2], conv>>
    BY AppendToPair
  <2>2. op.id = <<layer[1], layer[2], conv>>
    BY <1>1, <1>3, <2>1
  <2>3. QED
    BY <2>2
<1> HIDE DEF op, u
<1>8. OpFits(op)
  <2>1. SourceExtent(op) = Volume(t) /\ TargetExtent(op) = Volume(u)
    BY <1>3, <1>5 DEF SourceExtent, TargetExtent, Volume
  <2>2. QED
    BY <1>3, <1>6, <2>1 DEF OpFits
<1>9. ASSUME WidthsAddUp PROVE t.c = y.in[conv + 1]
  BY <1>1, <1>9, WidthTrainedFor
<1>10. WidthsAddUp => OpTrained(op)
  BY <1>1, <1>3, <1>7, <1>9 DEF OpTrained
<1>11. QED
  BY <1>3, <1>8, <1>10 DEF OpInv, OpEven, op

LEMMA PostOpOp ==
  ASSUME UNet, IInv, HostInv, pc = "layer", conv = NumConvs(LayerAt(layer)),
         LayerAt(layer).post \in {"MAX_POOL", "NN_UPSAMPLE"}
  PROVE  OpInv(Operation(LayerAt(layer).post, bufs[1], bufs[2], 0, 0, <<>>))
<1> DEFINE post == LayerAt(layer).post
           op == Operation(post, bufs[1], bufs[2], 0, 0, <<>>)
           t == Within(image, layer, conv)
           u == Behind(image, layer)
           d == Level(layer)
<1>1. /\ image \in ImageSizes /\ layer \in LayerNames /\ Bounded(image, sizes.max, layer)
      /\ conv \in 0 .. NumConvs(LayerAt(layer)) /\ conv \in 1 .. NumConvs(LayerAt(layer))
  BY Sizes, LayerNamed
<1>2. shape = ShapeOf(t)
  BY DEF HostInv, InNetwork, Current
<1>3. op.kind = post /\ op.h = t.h /\ op.w = t.w /\ op.c = t.c
  BY <1>2, OperationIs
<1>4. u = PostOperated(post, t)
  BY <1>1, ThroughLayer
<1>5. Volume(t) <= sizes.max /\ Volume(u) <= sizes.max
  BY <1>1 DEF Bounded
<1>6. /\ t.h = Extent(image[1], d) /\ t.w = Extent(image[2], d) /\ t.h \in Nat /\ t.w \in Nat
      /\ t.c \in Nat
  <2>1. /\ HasShape(t, Extent(image[1], d), Extent(image[2], d), LayerAt(layer).out[conv])
        /\ Extent(image[1], d) \in Nat /\ Extent(image[2], d) \in Nat
    BY <1>1, TensorShapes
  <2>2. LayerAt(layer).out[conv] \in Nat
    BY <1>1, LayerNamed, LayerFactsOf
  <2>3. QED
    BY <2>1, <2>2 DEF HasShape
<1> HIDE DEF op, t, u
<1>7. post = "MAX_POOL" => t.h % 2 = 0 /\ t.w % 2 = 0
  <2>1. image[1] \in Nat \ {0} /\ image[2] \in Nat \ {0}
    BY <1>1, ImagesNotEmpty
  <2>2. QED
    BY <1>1, <1>6, <2>1, ScaledExtent
<1>8. SourceExtent(op) = Volume(t)
  BY <1>3 DEF SourceExtent, Volume
<1>9. TargetExtent(op) = Volume(u)
  <2>1. CASE post = "MAX_POOL"
    BY <1>3, <1>4, <2>1 DEF TargetExtent, Volume, PostOperated, Pooled, Tensor
  <2>2. CASE post = "NN_UPSAMPLE"
    <3>1. u.h = t.h * 2 /\ u.w = t.w * 2 /\ u.c = t.c
      BY <1>4, <2>2 DEF PostOperated, Upsampled, Tensor
    <3>2. TargetExtent(op) = 4 * t.h * t.w * t.c
      BY <1>3, <2>2 DEF TargetExtent
    <3>3. \A h, w, c \in Nat : 4 * h * w * c = (h * 2) * (w * 2) * c
      <4>1. ASSUME NEW h \in Nat, NEW w \in Nat PROVE 4 * h * w = (h * 2) * (w * 2)
        BY SMT
      <4>2. QED
        BY <4>1
    <3>4. QED
      BY <1>6, <3>1, <3>2, <3>3 DEF Volume
  <2>3. QED
    BY <2>1, <2>2
<1>10. QED
  BY <1>3, <1>5, <1>7, <1>8, <1>9 DEF OpInv, OpFits, OpTrained, OpEven, op

LEMMA SaveOutputOp ==
  ASSUME UNet, IInv, HostInv, pc = "saveOutput"
  PROVE  OpInv(Operation("save", bufs[1], "encode", 0, SaveOffset(layer[2]), <<>>))
<1> DEFINE l == layer[2]
           op == Operation("save", bufs[1], "encode", 0, SaveOffset(l), <<>>)
           t == Behind(image, layer)
<1>1. /\ image \in ImageSizes /\ layer \in LayerNames /\ Bounded(image, sizes.max, layer)
      /\ layer[1] = "encoder" /\ l + 1 \in 0 .. EncoderLayers - 1 /\ l \in Nat
  <2>1. image \in ImageSizes /\ layer \in LayerNames /\ Bounded(image, sizes.max, layer)
    BY Sizes
  <2>2. layer[1] = "encoder" /\ l + 1 < EncoderLayers
    BY DEF HostInv, Position, SavesOutput
  <2>3. QED
    BY <2>1, <2>2, LayerNamed, NetworkShape
<1>2. /\ op.kind = "save" /\ op.h = t.h /\ op.w = t.w /\ op.c = t.c
      /\ op.off = sizes.offset[(l + 1) + 1]
  <2>1. (l + 1) + 1 = l + 2
    BY <1>1
  <2>2. QED
    BY <2>1, OperationIs DEF HostInv, InNetwork, Current, SaveOffset
<1>3. t = Encoded(image)[l + 1]
  BY <1>1 DEF Behind
<1>4. op.off + Volume(t) <= sizes.next
  BY <1>1, <1>2, <1>3, SavedTensorFits
<1> HIDE DEF op
<1>5. SourceExtent(op) = Volume(t) /\ TargetExtent(op) = Volume(t)
  BY <1>2 DEF SourceExtent, TargetExtent, Volume
<1>6. QED
  BY <1>1, <1>2, <1>4, <1>5 DEF OpInv, OpFits, OpTrained, OpEven, Bounded, op

ConcatOperation ==
  Operation("concat", bufs[1], bufs[2], SkipChannels(skipIdx),
            IF skipIdx = 0 THEN 0 ELSE sizes.offset[skipIdx + 2], <<>>)

(* The offset is that of the tensor which the skip connection names.       *)
LEMMA ConcatOffset ==
  ASSUME UNet, IInv, HostInv, pc = "concat"
  PROVE  /\ layer[1] = "decoder" /\ skipIdx = SkipAt(layer[2]) /\ skipIdx >= 0
         /\ ConcatOperation.off = sizes.offset[SavedAt(skipIdx) + 1]
         /\ SavedAt(skipIdx) \in 0 .. EncoderLayers - 1
<1>1. layer[1] = "decoder" /\ skipIdx = SkipAt(layer[2]) /\ skipIdx >= 0 /\ skipIdx \in Nat
  BY FirstSkipType DEF IInv, Walk, InLayer, HostInv, Position
<1>2. SavedAt(skipIdx) \in 0 .. EncoderLayers - 1
  BY <1>1, SkipTensor, Sizes
<1>3. ConcatOperation.off = IF skipIdx = 0 THEN 0 ELSE sizes.offset[skipIdx + 2]
  BY DEF ConcatOperation, Operation
<1>4. CASE skipIdx = 0
  <2>1. SavedAt(skipIdx) + 1 = 1 /\ sizes.offset[1] = 0
    BY <1>2, <1>4, SavedTensorFits DEF SavedAt
  <2>2. QED
    BY <1>1, <1>2, <1>3, <1>4, <2>1
<1>5. CASE skipIdx # 0
  <2>1. SavedAt(skipIdx) + 1 = skipIdx + 2
    BY <1>1, <1>5 DEF SavedAt
  <2>2. QED
    BY <1>1, <1>2, <1>3, <1>5, <2>1
<1>6. QED
  BY <1>4, <1>5

LEMMA ConcatOp ==
  ASSUME UNet, IInv, HostInv, pc = "concat"
  PROVE  OpInv(ConcatOperation)
<1> DEFINE op == ConcatOperation
           t == Entry(image, layer)
           k == SavedAt(skipIdx)
           s == Encoded(image)[k]
           u == Within(image, layer, 0)
<1>1. /\ image \in ImageSizes /\ layer \in LayerNames /\ Bounded(image, sizes.max, layer)
      /\ 0 \in 0 .. NumConvs(LayerAt(layer))
  BY Sizes, LayerNamed
<1>2. /\ layer[1] = "decoder" /\ skipIdx = SkipAt(layer[2]) /\ skipIdx >= 0
      /\ op.off = sizes.offset[k + 1] /\ k \in 0 .. EncoderLayers - 1
  BY ConcatOffset
<1>3. /\ op.kind = "concat" /\ op.h = t.h /\ op.w = t.w /\ op.c = t.c
      /\ op.c2 = SkipChannels(skipIdx)
  BY OperationIs DEF ConcatOperation, HostInv, InNetwork, Current
<1>4. HasShape(s, t.h, t.w, SkipChannels(skipIdx)) /\ Start(image, layer) = Concatenated(t, s)
  BY <1>1, <1>2, SkipTensor
<1>5. u = Concatenated(t, s)
  BY <1>1, <1>4, ThroughLayer
<1>6. Volume(t) <= sizes.max /\ Volume(u) <= sizes.max
  BY <1>1 DEF Bounded
<1>7. op.off + Volume(s) <= sizes.next
  BY <1>2, SavedTensorFits
<1> HIDE DEF op, t, s, u
<1>8. u.h = t.h /\ u.w = t.w /\ u.c = t.c + SkipChannels(skipIdx)
  BY <1>4, <1>5 DEF Concatenated, Tensor, HasShape
<1>9. SourceExtent(op) = Volume(t) /\ TargetExtent(op) = Volume(u)
  BY <1>3, <1>8 DEF SourceExtent, TargetExtent, Volume
<1>10. op.h * op.w * op.c2 = Volume(s)
  BY <1>3, <1>4 DEF Volume, HasShape
<1>11. QED
  BY <1>3, <1>6, <1>7, <1>9, <1>10 DEF OpInv, OpFits, OpTrained, OpEven, op

LEMMA LastLayer ==
  /\ <<"decoder", DecoderLayers - 1>> \in LayerNames
  /\ \A size : Behind(size, <<"decoder", DecoderLayers - 1>>) = Decoded(size)[DecoderLayers]
<1>1. DecoderLayers - 1 \in DOMAIN Decoder /\ (DecoderLayers - 1) + 1 = DecoderLayers
  BY NetworkShape
<1>2. QED
  BY <1>1 DEF LayerNames, Behind

LEMMA InverseOp ==
  ASSUME UNet, IInv, HostInv, pc = "inverse"
  PROVE  OpInv(Operation("inverse", bufs[1], bufs[2], 0, 0, <<>>))
<1> DEFINE op == Operation("inverse", bufs[1], bufs[2], 0, 0, <<>>)
           t == Decoded(image)[DecoderLayers]
           h == image[1]
           w == image[2]
           H == Padded(image[1])
           W == Padded(image[2])
           last == <<"decoder", DecoderLayers - 1>>
<1>1. op.kind = "inverse" /\ op.h = t.h /\ op.w = t.w /\ op.c = t.c
  BY OperationIs DEF HostInv, InNetwork, Current
<1>2. Volume(t) <= sizes.max /\ 2 * Volume(Encoded(image)[0]) <= sizes.max /\ sizes.max \in Nat
  BY Sizes, LastLayer DEF Sized, Bounded
<1>3. SourceExtent(op) = Volume(t) /\ TargetExtent(op) = 2 * h * w * t.c
  BY <1>1 DEF SourceExtent, TargetExtent, Volume
<1>4. /\ h \in Nat /\ w \in Nat /\ H \in Nat /\ W \in Nat /\ h <= H /\ w <= W /\ ImageChannels \in Nat
  <2>1. h \in Nat \ {0} /\ w \in Nat \ {0} /\ ImageChannels \in Nat /\ 0 \in 0 .. 4
    BY ImagesNotEmpty DEF IInv, Walk, InLayer
  <2>2. \A n \in Nat \ {0} : Padded(n) \in Nat /\ n <= Padded(n)
    BY <2>1, Extents
  <2>3. QED
    BY <2>1, <2>2
<1>5. Volume(Encoded(image)[0]) = H * W * ImageChannels
  <2>1. Encoded(image)[0] = Transferred(Raw(image))
    BY EncodedIs
  <2>2. QED
    BY <2>1 DEF Transferred, Raw, Tensor, Volume
<1>6. t.c = LastChannels(Decoder[DecoderLayers - 1]) /\ t.c \in Nat
  <2>1. LayerAt(last) = Decoder[DecoderLayers - 1]
    BY DEF LayerAt
  <2>2. image \in ImageSizes
    BY DEF IInv, Walk, InLayer
  <2>3. QED
    BY <2>1, <2>2, LastLayer, TensorShapes DEF HasShape
<1> HIDE DEF op, t, h, w, H, W
<1>7. ASSUME OutputFits PROVE 2 * h * w * t.c <= sizes.max
  <2>1. t.c <= ImageChannels
    BY <1>6, <1>7 DEF OutputFits
  <2>2. h * w \in Nat /\ H * W \in Nat /\ h * w <= H * W
    <3>1. h * w <= H * w /\ H * w <= H * W
      BY <1>4, SMT
    <3>2. QED
      BY <1>4, <3>1, SMT
  <2> DEFINE n == h * w
             N == H * W
  <2>3. n \in Nat /\ N \in Nat /\ n <= N /\ 2 * (N * ImageChannels) <= sizes.max
    BY <1>2, <1>5, <2>2
  <2>4. 2 * h * w * t.c = 2 * (n * t.c)
    BY <1>4, <1>6, SMT
  <2> HIDE DEF n, N
  <2>5. n * t.c <= N * t.c /\ N * t.c <= N * ImageChannels
    BY <1>4, <1>6, <2>1, <2>3, SMT
  <2>6. n * t.c \in Nat /\ N * t.c \in Nat /\ N * ImageChannels \in Nat
    BY <1>4, <1>6, <2>3, SMT
  <2>7. QED
    BY <1>2, <2>3, <2>4, <2>5, <2>6
<1>8. QED
  BY <1>1, <1>2, <1>3, <1>7 DEF OpInv, OpFits, OpTrained, OpEven, op

-----------------------------------------------------------------------------
(* What the host issues: the steps.                                        *)

LEMMA KeepOps ==
  ASSUME OpsInv, UNCHANGED <<image, sizes>>, Elements(queue') \subseteq Elements(queue)
  PROVE  OpsInv'
<1> SUFFICES ASSUME NEW op \in Elements(queue') PROVE OpInv(op)'
  BY DEF OpsInv
<1>1. OpInv(op)
  BY DEF OpsInv
<1>2. QED
  BY <1>1 DEF OpInv, OpFits, OpTrained, OpEven, SourceExtent, TargetExtent

LEMMA AddOp ==
  ASSUME IInv, OpsInv, UNCHANGED <<image, sizes>>, NEW op, OpInv(op), queue' = Append(queue, op)
  PROVE  OpsInv'
<1>1. Elements(queue') = Elements(queue) \cup {op}
  BY AppendElements DEF IInv, Stream
<1> SUFFICES ASSUME NEW e \in Elements(queue') PROVE OpInv(e)'
  BY DEF OpsInv
<1>2. OpInv(e)
  BY <1>1 DEF OpsInv
<1>3. QED
  BY <1>2 DEF OpInv, OpFits, OpTrained, OpEven, SourceExtent, TargetExtent

LEMMA NoOps == queue = <<>> => OpsInv
  BY DEF OpsInv, Elements

LEMMA StepOpsInv == UNet /\ IInv /\ HostInv /\ OpsInv /\ [Next]_vars => OpsInv'
<1> SUFFICES ASSUME UNet, IInv, HostInv, OpsInv, [Next]_vars PROVE OpsInv'
  OBVIOUS
<1>1. CASE Exit
  <2>1. queue' = <<>>
    BY <1>1 DEF Exit
  <2>2. QED
    BY <2>1 DEF OpsInv, Elements
<1>2. CASE SizeEncoder \/ SizeDecoder
  <2>1. queue' = <<>>
    BY <1>2 DEF SizeEncoder, SizeDecoder, deviceVars, IInv, Stream, Before
  <2>2. QED
    BY <2>1 DEF OpsInv, Elements
<1>3. CASE (Malloc \/ Upload \/ Download \/ Release) /\ ~Exit
  <2>1. UNCHANGED <<image, sizes, queue>>
    BY <1>3 DEF Malloc, Upload, Download, Release, deviceVars
  <2>2. QED
    BY <2>1, KeepOps
<1>4. CASE Transfer /\ ~Exit
  <2>1. /\ pc = "transfer" /\ UNCHANGED <<image, sizes>>
        /\ queue' = Append(queue, Operation("transfer", bufs[1], bufs[2], 0, 0, <<>>))
    BY <1>4 DEF Transfer, CheckedLaunch
  <2>2. QED
    BY <2>1, TransferOp, AddOp
<1>5. CASE SaveImage /\ ~Exit
  <2>1. /\ pc = "saveImage" /\ UNCHANGED <<image, sizes>>
        /\ queue' = Append(queue, Operation("save", bufs[2], "encode", 0, 0, <<>>))
    BY <1>5 DEF SaveImage
  <2>2. QED
    BY <2>1, SaveImageOp, AddOp
<1>6. CASE Convolve
  <2> DEFINE op == Operation("conv", bufs[1], bufs[2], OutChannels(LayerAt(layer), conv), 0,
                             Append(layer, conv))
  <2>1. /\ pc = "layer" /\ conv < NumConvs(LayerAt(layer)) /\ UNCHANGED <<image, sizes>>
        /\ queue' = queue \/ queue' = Append(queue, op)
    BY <1>6 DEF Convolve, Launch
  <2>2. OpInv(op)
    BY <2>1, ConvolveOp
  <2> HIDE DEF op
  <2>3. QED
    BY <2>1, <2>2, AddOp, KeepOps
<1>7. CASE PostOp /\ ~Exit
  <2> DEFINE post == LayerAt(layer).post
             op == Operation(post, bufs[1], bufs[2], 0, 0, <<>>)
  <2>1. /\ pc = "layer" /\ conv = NumConvs(LayerAt(layer)) /\ UNCHANGED <<image, sizes>>
        /\ \/ post \in {"MAX_POOL", "NN_UPSAMPLE"} /\ queue' = Append(queue, op)
           \/ queue' = queue
    BY <1>7 DEF PostOp, CheckedLaunch, deviceVars
  <2>2. post \in {"MAX_POOL", "NN_UPSAMPLE"} => OpInv(op)
    BY <2>1, PostOpOp
  <2> HIDE DEF op
  <2>3. QED
    BY <2>1, <2>2, AddOp, KeepOps
<1>8. CASE SaveOutput /\ ~Exit
  <2>1. /\ pc = "saveOutput" /\ UNCHANGED <<image, sizes>>
        /\ queue' = Append(queue, Operation("save", bufs[1], "encode", 0, SaveOffset(layer[2]), <<>>))
    BY <1>8 DEF SaveOutput
  <2>2. QED
    BY <2>1, SaveOutputOp, AddOp
<1>9. CASE Concat /\ ~Exit
  <2>1. pc = "concat" /\ UNCHANGED <<image, sizes>> /\ queue' = Append(queue, ConcatOperation)
    BY <1>9 DEF Concat, CheckedLaunch, ConcatOperation
  <2>2. QED
    BY <2>1, ConcatOp, AddOp
<1>10. CASE InverseTransfer /\ ~Exit
  <2>1. /\ pc = "inverse" /\ UNCHANGED <<image, sizes>>
        /\ queue' = Append(queue, Operation("inverse", bufs[1], bufs[2], 0, 0, <<>>))
    BY <1>10 DEF InverseTransfer, CheckedLaunch
  <2>2. QED
    BY <2>1, InverseOp, AddOp
<1>11. CASE Execute \/ Fault \/ Over \/ UNCHANGED vars
  <2>1. UNCHANGED <<image, sizes>>
    BY <1>11 DEF Execute, Fault, Over, vars, hostVars
  <2>2. Elements(queue') \subseteq Elements(queue)
    BY <1>11, TailElements DEF Execute, Fault, Over, vars, deviceVars, IInv, Stream
  <2>3. QED
    BY <2>1, <2>2, KeepOps
<1>12. QED
  BY <1>1, <1>2, <1>3, <1>4, <1>5, <1>6, <1>7, <1>8, <1>9, <1>10, <1>11 DEF Next, HostStep

(* The host is where the network is, and all it has issued fits.           *)
LEMMA NetworkInvHolds ==
  ASSUME UNet
  PROVE  Spec => [](IInv /\ HostInv /\ OpsInv)
<1>1. Init => IInv /\ HostInv /\ OpsInv
  BY InitIInv, InitHostInv, NoOps DEF Init
<1>2. IInv /\ HostInv /\ OpsInv /\ [Next]_vars => (IInv /\ HostInv /\ OpsInv)'
  BY StepIInv, StepHostInv, StepOpsInv
<1>3. QED
  BY <1>1, <1>2, PTL DEF Spec

-----------------------------------------------------------------------------
(* What the device computes.                                               *)

(* The operations in q, executed in order, take the memory m and the saved *)
(* regions s to m2 and s2.                                                 *)
IsRun(run, q, m, s) ==
  /\ run[0] = <<m, s>>
  /\ \A i \in 1 .. Len(q) : run[i] = Executed(q[i], run[i - 1][1], run[i - 1][2])

LeadsTo(q, m, s, m2, s2) == \E run : IsRun(run, q, m, s) /\ run[Len(q)] = <<m2, s2>>

LEMMA LeadsToEmpty ==
  ASSUME NEW m, NEW s, NEW m2, NEW s2
  PROVE  LeadsTo(<<>>, m, s, m2, s2) <=> m2 = m /\ s2 = s
<1>1. Len(<<>>) = 0 /\ 1 .. 0 = {}
  OBVIOUS
<1>2. ASSUME m2 = m, s2 = s PROVE LeadsTo(<<>>, m, s, m2, s2)
  <2> DEFINE run == [i \in {0} |-> <<m, s>>]
  <2>1. run[0] = <<m, s>>
    OBVIOUS
  <2> HIDE DEF run
  <2>2. IsRun(run, <<>>, m, s) /\ run[Len(<<>>)] = <<m2, s2>>
    BY <1>1, <1>2, <2>1 DEF IsRun
  <2>3. QED
    BY <2>2 DEF LeadsTo
<1>3. ASSUME LeadsTo(<<>>, m, s, m2, s2) PROVE m2 = m /\ s2 = s
  <2>1. PICK run : IsRun(run, <<>>, m, s) /\ run[Len(<<>>)] = <<m2, s2>>
    BY <1>3 DEF LeadsTo
  <2>2. <<m, s>> = <<m2, s2>>
    BY <1>1, <2>1 DEF IsRun
  <2>3. QED
    BY <2>2
<1>4. QED
  BY <1>2, <1>3

LEMMA ExecutedPair ==
  ASSUME NEW op, NEW m, NEW s
  PROVE  Executed(op, m, s) = <<Executed(op, m, s)[1], Executed(op, m, s)[2]>>
  BY DEF Executed

LEMMA LeadsToAppend ==
  ASSUME NEW q, q \in Seq(Elements(q)), NEW op, NEW m, NEW s, NEW m1, NEW s1, NEW m2, NEW s2,
         LeadsTo(q, m, s, m1, s1), Executed(op, m1, s1) = <<m2, s2>>
  PROVE  LeadsTo(Append(q, op), m, s, m2, s2)
<1> DEFINE n == Len(q)
           a == Append(q, op)
<1>1. PICK run : IsRun(run, q, m, s) /\ run[n] = <<m1, s1>>
  BY DEF LeadsTo
<1>2. n \in Nat /\ Len(a) = n + 1 /\ (\A i \in 1 .. n : a[i] = q[i]) /\ a[n + 1] = op
  <2>1. q \in Seq(Elements(q) \cup {op})
    OBVIOUS
  <2>2. QED
    BY <2>1
<1> DEFINE more == [i \in 0 .. n + 1 |-> IF i <= n THEN run[i] ELSE <<m2, s2>>]
<1> HIDE DEF n, a
<1>3. (\A i \in 0 .. n : more[i] = run[i]) /\ more[n + 1] = <<m2, s2>>
  BY <1>2
<1> HIDE DEF more
<1>4. more[0] = <<m, s>>
  BY <1>1, <1>2, <1>3 DEF IsRun
<1>5. ASSUME NEW i \in 1 .. n + 1 PROVE more[i] = Executed(a[i], more[i - 1][1], more[i - 1][2])
  <2>1. CASE i = n + 1
    <3>1. more[i - 1] = <<m1, s1>> /\ a[i] = op /\ more[i] = <<m2, s2>>
      BY <1>1, <1>2, <1>3, <2>1
    <3>2. QED
      BY <3>1
  <2>2. CASE i # n + 1
    <3>1. i \in 1 .. n /\ i \in 0 .. n /\ i - 1 \in 0 .. n
      BY <1>2, <2>2
    <3>2. run[i] = Executed(q[i], run[i - 1][1], run[i - 1][2])
      BY <1>1, <3>1 DEF IsRun, n
    <3>3. QED
      BY <1>2, <1>3, <3>1, <3>2
  <2>3. QED
    BY <2>1, <2>2
<1>6. IsRun(more, a, m, s)
  BY <1>2, <1>4, <1>5 DEF IsRun
<1>7. QED
  BY <1>2, <1>3, <1>6 DEF LeadsTo, a

LEMMA LeadsToTail ==
  ASSUME NEW q, q \in Seq(Elements(q)), q # <<>>, NEW m, NEW s, NEW m1, NEW s1, NEW m2, NEW s2,
         LeadsTo(q, m, s, m2, s2), Executed(Head(q), m, s) = <<m1, s1>>
  PROVE  LeadsTo(Tail(q), m1, s1, m2, s2)
<1> DEFINE n == Len(q)
           a == Tail(q)
<1>1. PICK run : IsRun(run, q, m, s) /\ run[n] = <<m2, s2>>
  BY DEF LeadsTo
<1>2. /\ n \in Nat \ {0} /\ Len(a) = n - 1 /\ (\A i \in 1 .. n - 1 : a[i] = q[i + 1])
      /\ Head(q) = q[1]
  OBVIOUS
<1> DEFINE rest == [i \in 0 .. n - 1 |-> run[i + 1]]
<1> HIDE DEF n, a
<1>3. \A i \in 0 .. n - 1 : rest[i] = run[i + 1]
  OBVIOUS
<1> HIDE DEF rest
<1>4. rest[0] = <<m1, s1>>
  <2>1. run[0] = <<m, s>> /\ run[1] = Executed(q[1], run[1 - 1][1], run[1 - 1][2])
    BY <1>1, <1>2 DEF IsRun, n
  <2>2. 1 - 1 = 0 /\ rest[0] = run[0 + 1] /\ 0 + 1 = 1
    BY <1>2, <1>3
  <2>3. run[1] = Executed(Head(q), m, s)
    BY <1>2, <2>1, <2>2
  <2>4. QED
    BY <2>2, <2>3
<1>5. ASSUME NEW i \in 1 .. n - 1 PROVE rest[i] = Executed(a[i], rest[i - 1][1], rest[i - 1][2])
  <2>1. /\ i \in 0 .. n - 1 /\ i - 1 \in 0 .. n - 1 /\ i + 1 \in 1 .. n
        /\ (i + 1) - 1 = i /\ (i - 1) + 1 = i
    BY <1>2
  <2>2. run[i + 1] = Executed(q[i + 1], run[(i + 1) - 1][1], run[(i + 1) - 1][2])
    BY <1>1, <2>1 DEF IsRun, n
  <2>3. rest[i] = run[i + 1] /\ rest[i - 1] = run[i] /\ a[i] = q[i + 1]
    BY <1>2, <1>3, <2>1
  <2>4. QED
    BY <2>1, <2>2, <2>3
<1>6. IsRun(rest, a, m1, s1)
  BY <1>2, <1>4, <1>5 DEF IsRun
<1>7. rest[Len(a)] = <<m2, s2>>
  BY <1>1, <1>2, <1>3
<1>8. QED
  BY <1>6, <1>7 DEF LeadsTo, a

-----------------------------------------------------------------------------
(* The saved tensors.                                                      *)

Region(size, offset, k) ==
  [off |-> offset[k + 1], len |-> Volume(Encoded(size)[k]), tensor |-> Encoded(size)[k]]
Regions(size, offset, n) == {Region(size, offset, k) : k \in 0 .. n - 1}

LEMMA SavedVolumes ==
  ASSUME UNet, NEW size \in ImageSizes, NEW p, Sized(size, p)
  PROVE  \A k \in 0 .. EncoderLayers - 1 :
           /\ Volume(Encoded(size)[k]) \in Nat \ {0} /\ p.offset[k + 1] \in Nat
           /\ \A j \in 0 .. k - 1 : p.offset[j + 1] + Volume(Encoded(size)[j]) <= p.offset[k + 1]
<1> TAKE k \in 0 .. EncoderLayers - 1
<1>1. Volume(Encoded(size)[k]) \in Nat \ {0}
  <2> DEFINE at == <<"encoder", k>>
             t == Entry(size, at)
  <2>1. at \in LayerNames /\ t = Encoded(size)[k]
    BY NetworkShape DEF LayerNames, Entry
  <2>2. t.h \in Nat \ {0} /\ t.w \in Nat \ {0} /\ t.c \in Nat \ {0}
    BY <2>1, TensorShapes
  <2> HIDE DEF t
  <2>3. t.h * t.w \in Nat \ {0}
    BY <2>2, SMT
  <2> DEFINE n == t.h * t.w
  <2> HIDE DEF n
  <2>4. n * t.c \in Nat \ {0}
    BY <2>2, <2>3, SMT DEF n
  <2>5. QED
    BY <2>1, <2>4 DEF Volume, n
<1>2. p.offset[k + 1] \in Nat
  <2>1. p.offset \in Seq(Nat) /\ Len(p.offset) = EncoderLayers
    BY DEF Sized, SavedFits
  <2>2. k + 1 \in 1 .. Len(p.offset)
    BY <2>1, NetworkShape
  <2>3. QED
    BY <2>1, <2>2, ElementOfSeq
<1>3. \A j \in 0 .. k - 1 : p.offset[j + 1] + Volume(Encoded(size)[j]) <= p.offset[k + 1]
  <2> TAKE j \in 0 .. k - 1
  <2>1. j \in 0 .. EncoderLayers - 1 /\ j < k
    BY NetworkShape
  <2>2. QED
    BY <2>1 DEF Sized, SavedFits
<1>4. QED
  BY <1>1, <1>2, <1>3

(* The next tensor is saved behind the ones before it.                     *)
LEMMA SaveNext ==
  ASSUME UNet, NEW size \in ImageSizes, NEW p, Sized(size, p), NEW n \in 0 .. EncoderLayers - 1,
         NEW op, NEW m, op.off = p.offset[n + 1],
         op.h * op.w * op.c = Volume(Encoded(size)[n]), Operand(op, m) = Encoded(size)[n]
  PROVE  Save(op, m, Regions(size, p.offset, n)) = Regions(size, p.offset, n + 1)
<1> DEFINE R(k) == Region(size, p.offset, k)
           len == Volume(Encoded(size)[n])
           s == Regions(size, p.offset, n)
<1>1. ASSUME NEW k \in 0 .. n - 1 PROVE Disjoint(R(k), op.off, len)
  <2>1. p.offset[k + 1] + Volume(Encoded(size)[k]) <= p.offset[n + 1]
    BY SavedVolumes
  <2>2. QED
    BY <2>1 DEF Disjoint, Region
<1>2. s = {R(k) : k \in 0 .. n - 1}
  BY DEF Regions
<1>3. \A r \in s : Disjoint(r, op.off, len)
  BY <1>1, <1>2
<1> HIDE DEF s
<1>4. {r \in s : Disjoint(r, op.off, len)} = s
  BY <1>3
<1>5. Save(op, m, s) = s \cup {R(n)}
  <2>1. [off |-> op.off, len |-> len, tensor |-> Operand(op, m)] = R(n)
    BY DEF Region
  <2> HIDE DEF R
  <2>2. QED
    BY <1>4, <2>1 DEF Save
<1> HIDE DEF R
<1>6. s \cup {R(n)} = {R(k) : k \in 0 .. n}
  BY <1>2
<1>7. QED
  BY <1>5, <1>6 DEF Regions, s, R

(* A saved tensor is read back from where it is.                           *)
LEMMA ReadBack ==
  ASSUME UNet, NEW size \in ImageSizes, NEW p, Sized(size, p), NEW k \in 0 .. EncoderLayers - 1,
         NEW op, op.off = p.offset[k + 1], HasShape(Encoded(size)[k], op.h, op.w, op.c2)
  PROVE  ReadSaved(op, Regions(size, p.offset, EncoderLayers)) = Encoded(size)[k]
<1> DEFINE R(j) == Region(size, p.offset, j)
           t == Encoded(size)[k]
           s == Regions(size, p.offset, EncoderLayers)
           hits == {r \in s : r.off = op.off /\ r.len = op.h * op.w * op.c2}
<1>1. s = {R(j) : j \in 0 .. EncoderLayers - 1}
  BY DEF Regions
<1>2. op.h * op.w * op.c2 = Volume(t)
  BY DEF Volume, HasShape
<1>3. ASSUME NEW j \in 0 .. EncoderLayers - 1, R(j).off = op.off PROVE j = k
  <2>1. /\ Volume(Encoded(size)[k]) \in Nat \ {0} /\ Volume(Encoded(size)[j]) \in Nat \ {0}
        /\ p.offset[k + 1] \in Nat /\ p.offset[j + 1] \in Nat
    BY SavedVolumes
  <2>2. p.offset[j + 1] = p.offset[k + 1]
    BY <1>3 DEF Region
  <2>3. ~(j < k)
    <3> SUFFICES ASSUME j < k PROVE FALSE
      OBVIOUS
    <3>1. j \in 0 .. k - 1
      OBVIOUS
    <3>2. p.offset[j + 1] + Volume(Encoded(size)[j]) <= p.offset[k + 1]
      BY <3>1, SavedVolumes
    <3>3. QED
      BY <2>1, <2>2, <3>2
  <2>4. ~(k < j)
    <3> SUFFICES ASSUME k < j PROVE FALSE
      OBVIOUS
    <3>1. k \in 0 .. j - 1
      OBVIOUS
    <3>2. p.offset[k + 1] + Volume(Encoded(size)[k]) <= p.offset[j + 1]
      BY <3>1, SavedVolumes
    <3>3. QED
      BY <2>1, <2>2, <3>2
  <2>5. QED
    BY <2>3, <2>4
<1>4. R(k).off = op.off /\ R(k).len = Volume(t) /\ R(k).tensor = t
  BY DEF Region
<1> HIDE DEF R, s
<1>5. hits = {R(k)}
  BY <1>1, <1>2, <1>3, <1>4
<1> HIDE DEF hits
<1>6. hits # {} /\ (CHOOSE r \in hits : TRUE) = R(k)
  BY <1>5
<1>7. ReadSaved(op, s) = View(t, op.h, op.w, op.c2)
  BY <1>4, <1>6 DEF ReadSaved, hits
<1>8. View(t, op.h, op.w, op.c2) = t
  BY DEF View, HasShape
<1>9. QED
  BY <1>7, <1>8 DEF s

-----------------------------------------------------------------------------
(* What will have been computed when everything issued is executed.        *)

SavedCount(where, at) ==
  CASE where \in {"transfer", "saveImage"} -> 0
    [] where \in {"concat", "layer", "saveOutput"} /\ at[1] = "encoder" -> at[2] + 1
    [] OTHER -> EncoderLayers

(* The work buffer that the host takes the current tensor to be in, ...    *)
Holder == IF pc \in {"saveImage", "download"} THEN bufs[2] ELSE bufs[1]

(* ... and the tensor.                                                     *)
Awaited ==
  CASE pc = "transfer" -> Raw(image)
    [] pc = "download" -> Denoised(image)
    [] OTHER           -> Current(image, pc, layer, conv)

(* The device memory that the host counts on.                              *)
Holds(m, s) ==
  /\ DOMAIN m = Work
  /\ m[Holder] = Awaited
  /\ s = Regions(image, sizes.offset, SavedCount(pc, layer))

ValueInv ==
  /\ DOMAIN mem = Work
  /\ pc \in Before \cup {"upload"} => saved = {}
  /\ pc \in Issuing /\ ~lastError => \E m, s : LeadsTo(queue, mem, saved, m, s) /\ Holds(m, s)
  /\ pc \in {"release", "returned"} => outputImg = Denoised(image)

LEMMA InitValueInv == Init => ValueInv
  BY DEF Init, ValueInv, Before, Issuing, Work

LEMMA KeepLeadsTo ==
  ASSUME image' = image, NEW m, NEW s
  PROVE  LeadsTo(queue, mem, saved, m, s)' <=> LeadsTo(queue', mem', saved', m, s)
  BY DEF LeadsTo, IsRun, Executed, Result, Operand, ReadSaved, Save

(* The host issues an operation that makes of what it counted on what it   *)
(* counts on now.                                                          *)
LEMMA IssueValue ==
  ASSUME IInv, ValueInv, pc \in Issuing, pc' \in Issuing \ {"release"},
         UNCHANGED <<image, mem, saved, lastError>>, NEW op, queue' = Append(queue, op),
         ~lastError => \A m, s : Holds(m, s) =>
           \E m2, s2 : Executed(op, m, s) = <<m2, s2>> /\ Holds(m2, s2)'
  PROVE  ValueInv'
<1>1. pc' \notin Before \cup {"upload", "release", "returned"}
  BY DEF Before, Issuing
<1>2. ASSUME ~lastError PROVE \E m2, s2 : LeadsTo(queue, mem, saved, m2, s2)' /\ Holds(m2, s2)'
  <2>1. PICK m, s : LeadsTo(queue, mem, saved, m, s) /\ Holds(m, s)
    BY <1>2 DEF ValueInv
  <2>2. PICK m2, s2 : Executed(op, m, s) = <<m2, s2>> /\ Holds(m2, s2)'
    BY <1>2, <2>1
  <2>3. LeadsTo(Append(queue, op), mem, saved, m2, s2)
    BY <2>1, <2>2, LeadsToAppend DEF IInv, Stream
  <2>4. LeadsTo(queue, mem, saved, m2, s2)'
    BY <2>3, KeepLeadsTo
  <2>5. QED
    BY <2>2, <2>4
<1>3. QED
  BY <1>1, <1>2 DEF ValueInv

(* The host goes on without issuing one.                                   *)
LEMMA SkipValue ==
  ASSUME IInv, ValueInv, pc \in Issuing, pc' \in Issuing \ {"release"},
         UNCHANGED <<image, queue, mem, saved, lastError>>,
         \A m, s : Holds(m, s) => Holds(m, s)'
  PROVE  ValueInv'
<1>1. pc' \notin Before \cup {"upload", "release", "returned"}
  BY DEF Before, Issuing
<1>2. ASSUME ~lastError PROVE \E m, s : LeadsTo(queue, mem, saved, m, s)' /\ Holds(m, s)'
  <2>1. PICK m, s : LeadsTo(queue, mem, saved, m, s) /\ Holds(m, s)
    BY <1>2 DEF ValueInv
  <2>2. LeadsTo(queue, mem, saved, m, s)'
    BY <2>1, KeepLeadsTo
  <2>3. QED
    BY <2>1, <2>2
<1>3. QED
  BY <1>1, <1>2 DEF ValueInv

(* An operation that reads the buffer with the current tensor sees it, and *)
(* puts its result where it was told to.                                   *)
LEMMA WorkDone ==
  ASSUME NEW m, NEW s, DOMAIN m = Work, NEW op, op.kind # "save", op.dst \in Work,
         m[op.src].h = op.h, m[op.src].w = op.w, m[op.src].c = op.c
  PROVE  /\ Operand(op, m) = m[op.src]
         /\ \E m2 : /\ Executed(op, m, s) = <<m2, s>> /\ DOMAIN m2 = Work
                    /\ m2[op.dst] = Result(op, m, s)
<1>1. Operand(op, m) = m[op.src]
  BY DEF Operand, View
<1> DEFINE m2 == [m EXCEPT ![op.dst] = Result(op, m, s)]
<1>2. Executed(op, m, s) = <<m2, s>> /\ DOMAIN m2 = Work /\ m2[op.dst] = Result(op, m, s)
  BY DEF Executed
<1>3. QED
  BY <1>1, <1>2

LEMMA BufsTypes ==
  ASSUME IInv
  PROVE  bufs[1] \in Work /\ bufs[2] \in Work /\ Swap(bufs)[1] = bufs[2] /\ Swap(bufs)[2] = bufs[1]
  BY DEF IInv, Walk, InLayer, Work, Swap

LEMMA ExitValue == ValueInv /\ Exit => ValueInv'
  BY DEF ValueInv, Exit, Before, Issuing

LEMMA BeforeValue ==
  UNet /\ IInv /\ ErrorInv /\ ValueInv /\ (SizeEncoder \/ SizeDecoder \/ Malloc) => ValueInv'
<1> SUFFICES ASSUME UNet, IInv, ErrorInv, ValueInv, SizeEncoder \/ SizeDecoder \/ Malloc PROVE ValueInv'
  OBVIOUS
<1>1. CASE ~Exit
  <2>1. /\ pc \in Before /\ pc' \in Before \cup {"upload"} /\ mem' = mem /\ saved' = saved
    BY <1>1 DEF SizeEncoder, SizeDecoder, Malloc, Before, deviceVars
  <2>2. QED
    BY <2>1 DEF ValueInv, Before, Issuing
<1>2. QED
  BY <1>1, ExitValue

LEMMA UploadValue == UNet /\ IInv /\ HostInv /\ ValueInv /\ Upload => ValueInv'
<1> SUFFICES ASSUME UNet, IInv, HostInv, ValueInv, Upload PROVE ValueInv'
  OBVIOUS
<1>1. CASE ~Exit
  <2>1. /\ pc = "upload" /\ pc' = "transfer" /\ mem' = [mem EXCEPT ![bufs[1]] = Raw(image)]
        /\ UNCHANGED <<image, sizes, layer, conv, bufs, queue, saved>>
    BY <1>1 DEF Upload
  <2>2. queue' = <<>> /\ saved' = {} /\ DOMAIN mem' = Work /\ mem'[bufs[1]] = Raw(image)
    BY <2>1, BufsTypes DEF ValueInv, IInv, Stream
  <2>3. Regions(image, sizes.offset, 0) = {}
    BY DEF Regions
  <2>4. PICK m, s : m = mem' /\ s = saved'
    OBVIOUS
  <2>5. Holds(m, s)'
    BY <2>1, <2>2, <2>3, <2>4 DEF Holds, Holder, Awaited, SavedCount
  <2>6. LeadsTo(queue', mem', saved', m, s)
    BY <2>2, <2>4, LeadsToEmpty
  <2>7. LeadsTo(queue, mem, saved, m, s)'
    BY <2>1, <2>6, KeepLeadsTo
  <2>8. QED
    BY <2>1, <2>2, <2>5, <2>7 DEF ValueInv, Before, Issuing
<1>2. QED
  BY <1>1, ExitValue

LEMMA TransferValue == UNet /\ IInv /\ HostInv /\ ValueInv /\ Transfer => ValueInv'
<1> SUFFICES ASSUME UNet, IInv, HostInv, ValueInv, Transfer PROVE ValueInv'
  OBVIOUS
<1>1. CASE ~Exit
  <2> DEFINE op == Operation("transfer", bufs[1], bufs[2], 0, 0, <<>>)
  <2>1. /\ pc = "transfer" /\ pc' = "saveImage" /\ queue' = Append(queue, op)
        /\ UNCHANGED <<image, sizes, layer, conv, bufs, mem, saved, lastError>>
    BY <1>1 DEF Transfer, CheckedLaunch
  <2>2. /\ op.kind = "transfer" /\ op.src = bufs[1] /\ op.dst = bufs[2]
        /\ op.h = Raw(image).h /\ op.w = Raw(image).w /\ op.c = Raw(image).c
    BY <2>1 DEF HostInv, Before, Operation, Shape, Raw, Tensor
  <2> HIDE DEF op
  <2>3. ASSUME NEW m, NEW s, Holds(m, s)
        PROVE  \E m2, s2 : Executed(op, m, s) = <<m2, s2>> /\ Holds(m2, s2)'
    <3>1. DOMAIN m = Work /\ m[op.src] = Raw(image) /\ s = Regions(image, sizes.offset, 0)
      BY <2>1, <2>2, <2>3 DEF Holds, Holder, Awaited, SavedCount
    <3>2. op.dst \in Work
      BY <2>2, BufsTypes
    <3>3. PICK m2 : Executed(op, m, s) = <<m2, s>> /\ DOMAIN m2 = Work
                    /\ m2[op.dst] = Result(op, m, s) /\ Operand(op, m) = m[op.src]
      BY <2>2, <3>1, <3>2, WorkDone
    <3>4. Result(op, m, s) = Transferred(Raw(image))
      BY <2>2, <3>1, <3>3 DEF Result
    <3>5. Encoded(image)[0] = Transferred(Raw(image))
      BY EncodedIs
    <3>6. Holds(m2, s)'
      BY <2>1, <2>2, <3>1, <3>3, <3>4, <3>5 DEF Holds, Holder, Awaited, SavedCount, Current
    <3>7. QED
      BY <3>3, <3>6
  <2>4. QED
    BY <2>1, <2>3, IssueValue DEF Issuing
<1>2. QED
  BY <1>1, ExitValue

LEMMA SaveImageValue == UNet /\ IInv /\ HostInv /\ ValueInv /\ SaveImage => ValueInv'
<1> SUFFICES ASSUME UNet, IInv, HostInv, ValueInv, SaveImage PROVE ValueInv'
  OBVIOUS
<1>1. CASE ~Exit
  <2> DEFINE op == Operation("save", bufs[2], "encode", 0, 0, <<>>)
             t == Encoded(image)[0]
  <2>1. /\ pc = "saveImage" /\ queue' = Append(queue, op) /\ bufs' = Swap(bufs)
        /\ EnterLayer(<<"encoder", 0>>, skipIdx)
        /\ UNCHANGED <<image, sizes, mem, saved, lastError>>
    BY <1>1 DEF SaveImage
  <2>2. /\ op.kind = "save" /\ op.src = bufs[2] /\ op.off = 0
        /\ op.h = t.h /\ op.w = t.w /\ op.c = t.c
    BY <2>1, OperationIs DEF HostInv, InNetwork, Current
  <2>3. pc' = "layer" /\ layer' = <<"encoder", 0>> /\ conv' = 0
    BY <2>1 DEF EnterLayer
  <2>4. Within(image, <<"encoder", 0>>, 0) = t
    <3>1. <<"encoder", 0>> \in LayerNames
      BY NetworkShape DEF LayerNames
    <3>2. QED
      BY <3>1, ThroughLayer DEF Start
  <2>5. sizes.offset[0 + 1] = 0 /\ 0 \in 0 .. EncoderLayers - 1
    BY <2>1, NetworkShape, SavedTensorFits
  <2> HIDE DEF op, t
  <2>6. ASSUME NEW m, NEW s, Holds(m, s)
        PROVE  \E m2, s2 : Executed(op, m, s) = <<m2, s2>> /\ Holds(m2, s2)'
    <3>1. DOMAIN m = Work /\ m[op.src] = t /\ s = Regions(image, sizes.offset, 0)
      BY <2>1, <2>2, <2>6 DEF Holds, Holder, Awaited, SavedCount, Current, t
    <3>2. Operand(op, m) = t
      BY <2>2, <3>1 DEF Operand, View
    <3>3. image \in ImageSizes /\ Sized(image, sizes)
      BY <2>1, Sizes
    <3>4. op.off = sizes.offset[0 + 1] /\ op.h * op.w * op.c = Volume(t)
      BY <2>2, <2>5 DEF Volume
    <3>5. Save(op, m, Regions(image, sizes.offset, 0)) = Regions(image, sizes.offset, 0 + 1)
      BY <2>5, <3>2, <3>3, <3>4, SaveNext DEF t
    <3>6. Executed(op, m, s) = <<m, Regions(image, sizes.offset, 1)>>
      BY <2>2, <3>1, <3>5 DEF Executed
    <3>7. Holder' = op.src
      BY <2>1, <2>2, <2>3, BufsTypes DEF Holder
    <3>8. Awaited' = t
      BY <2>1, <2>3, <2>4 DEF Awaited, Current
    <3>9. SavedCount(pc', layer') = 1
      BY <2>3 DEF SavedCount
    <3>10. \A s2 : s2 = Regions(image, sizes.offset, 1) => Holds(m, s2)'
      BY <2>1, <3>1, <3>7, <3>8, <3>9 DEF Holds
    <3>11. QED
      BY <3>6, <3>10
  <2>7. QED
    BY <2>1, <2>3, <2>6, IssueValue DEF Issuing
<1>2. QED
  BY <1>1, ExitValue

LEMMA ConvolveValue == UNet /\ IInv /\ HostInv /\ ValueInv /\ Convolve => ValueInv'
<1> SUFFICES ASSUME UNet, IInv, HostInv, ValueInv, Convolve PROVE ValueInv'
  OBVIOUS
<1> DEFINE y == LayerAt(layer)
           op == Operation("conv", bufs[1], bufs[2], OutChannels(y, conv), 0, Append(layer, conv))
           t == Within(image, layer, conv)
<1>1. /\ pc = "layer" /\ conv < NumConvs(y)
      /\ UNCHANGED <<image, sizes, layer, mem, saved>>
  BY DEF Convolve
<1>2. CASE shape.c \notin SupportedInC
  <2>1. pc' = "threw"
    BY <1>2 DEF Convolve
  <2>2. QED
    BY <1>1, <2>1 DEF ValueInv, Before, Issuing
<1>3. CASE shape.c \in SupportedInC /\ lastError'
  <2>1. pc' = "layer"
    BY <1>1, <1>3 DEF Convolve
  <2>2. QED
    BY <1>1, <1>3, <2>1 DEF ValueInv, Before, Issuing
<1>4. CASE shape.c \in SupportedInC /\ ~lastError'
  <2>1. /\ pc' = pc /\ conv' = conv + 1 /\ bufs' = Swap(bufs)
        /\ \/ queue' = Append(queue, op) /\ lastError' = lastError
           \/ lastError' = TRUE
    BY <1>4 DEF Convolve, Launch
  <2>2. queue' = Append(queue, op) /\ lastError' = lastError
    BY <1>4, <2>1
  <2>3. shape = ShapeOf(t)
    BY <1>1 DEF HostInv, InNetwork, Current
  <2>4. /\ op.kind = "conv" /\ op.src = bufs[1] /\ op.dst = bufs[2]
        /\ op.h = t.h /\ op.w = t.w /\ op.c = t.c
        /\ op.c2 = y.out[conv + 1] /\ op.id = <<layer[1], layer[2], conv>>
    <3> DEFINE c2 == OutChannels(y, conv)
               id == Append(layer, conv)
    <3>1. op = Operation("conv", bufs[1], bufs[2], c2, 0, id)
      OBVIOUS
    <3>2. id = <<layer[1], layer[2], conv>>
      <4>1. layer = <<layer[1], layer[2]>>
        BY LayerNamed DEF IInv, Walk, InLayer
      <4>2. Append(<<layer[1], layer[2]>>, conv) = <<layer[1], layer[2], conv>>
        BY AppendToPair
      <4>3. QED
        BY <4>1, <4>2
    <3>3. c2 = y.out[conv + 1]
      BY DEF OutChannels
    <3> HIDE DEF c2, id, op, t
    <3>4. /\ op.kind = "conv" /\ op.src = bufs[1] /\ op.dst = bufs[2]
          /\ op.h = t.h /\ op.w = t.w /\ op.c = t.c /\ op.c2 = c2 /\ op.id = id
      BY <2>3, <3>1, OperationIs
    <3>5. QED
      BY <3>2, <3>3, <3>4
  <2>5. Within(image, layer, conv + 1) = Convolved(<<layer[1], layer[2], conv>>, y.out[conv + 1], t)
    <3>1. layer \in LayerNames /\ conv \in 0 .. NumConvs(y) - 1
      BY <1>1, LayerFacts DEF IInv, Walk, InLayer
    <3>2. QED
      BY <3>1, ThroughLayer
  <2> HIDE DEF op, t
  <2>6. ASSUME NEW m, NEW s, Holds(m, s)
        PROVE  \E m2, s2 : Executed(op, m, s) = <<m2, s2>> /\ Holds(m2, s2)'
    <3>1. /\ DOMAIN m = Work /\ m[op.src] = t
          /\ s = Regions(image, sizes.offset, SavedCount(pc, layer))
      BY <1>1, <2>4, <2>6 DEF Holds, Holder, Awaited, Current, t
    <3>2. op.dst \in Work
      BY <2>4, BufsTypes
    <3>3. PICK m2 : Executed(op, m, s) = <<m2, s>> /\ DOMAIN m2 = Work
                    /\ m2[op.dst] = Result(op, m, s) /\ Operand(op, m) = m[op.src]
      BY <2>4, <3>1, <3>2, WorkDone
    <3>4. Result(op, m, s) = Convolved(op.id, op.c2, t)
      BY <2>4, <3>1, <3>3 DEF Result
    <3>5. Result(op, m, s) = Within(image, layer, conv + 1)
      BY <2>4, <2>5, <3>4
    <3>6. Holder' = op.dst
      BY <1>1, <2>1, <2>4, BufsTypes DEF Holder
    <3>7. Awaited' = Within(image, layer, conv + 1)
      BY <1>1, <2>1 DEF Awaited, Current
    <3>8. Holds(m2, s)'
      BY <1>1, <2>1, <3>1, <3>3, <3>5, <3>6, <3>7 DEF Holds
    <3>9. QED
      BY <3>3, <3>8
  <2>7. QED
    BY <1>1, <2>1, <2>2, <2>6, IssueValue DEF Issuing
<1>5. QED
  BY <1>2, <1>3, <1>4

(* How many tensors are saved when the host leaves a layer.                *)
LEMMA LeaveLayerCount ==
  ASSUME IInv, LeaveLayer
  PROVE  SavedCount(pc', layer') = IF SavesOutput THEN layer[2] + 2 ELSE EncoderLayers
<1>1. /\ layer[2] \in Nat
      /\ \/ layer[1] = "encoder" /\ layer[2] \in 0 .. EncoderLayers - 1
         \/ layer[1] = "decoder" /\ layer[2] \in 0 .. DecoderLayers - 1
  BY LayerNamed DEF IInv, Walk, InLayer
<1>2. CASE SavesOutput
  <2>1. EnterLayer(<<layer[1], layer[2] + 1>>, skipIdx) /\ layer[1] = "encoder"
    BY <1>2 DEF LeaveLayer, SavesOutput, LayerCount
  <2>2. layer' = <<"encoder", layer[2] + 1>> /\ pc' = "layer"
    BY <2>1 DEF EnterLayer
  <2>3. SavedCount(pc', layer') = (layer[2] + 1) + 1
    BY <2>2 DEF SavedCount
  <2>4. QED
    BY <1>1, <1>2, <2>3
<1>3. CASE ~SavesOutput
  <2>1. CASE layer[1] = "encoder"
    <3>1. EnterLayer(<<"decoder", 0>>, FirstSkip)
      BY <1>3, <2>1 DEF LeaveLayer, SavesOutput, LayerCount
    <3>2. layer' = <<"decoder", 0>> /\ pc' \in {"concat", "layer"}
      BY <3>1 DEF EnterLayer
    <3>3. QED
      BY <1>3, <3>2 DEF SavedCount
  <2>2. CASE layer[1] = "decoder"
    <3>1. \/ EnterLayer(<<"decoder", layer[2] + 1>>, skipIdx)
          \/ pc' = "inverse"
      BY <2>2 DEF LeaveLayer
    <3>2. \/ layer'[1] = "decoder" /\ pc' \in {"concat", "layer"}
          \/ pc' = "inverse"
      BY <3>1 DEF EnterLayer
    <3>3. QED
      BY <1>3, <3>2 DEF SavedCount
  <2>3. QED
    BY <1>1, <2>1, <2>2
<1>4. QED
  BY <1>2, <1>3

(* After the post operation the output of the layer is awaited.            *)
LEMMA PostOpValue == UNet /\ IInv /\ HostInv /\ ValueInv /\ PostOp => ValueInv'
<1> SUFFICES ASSUME UNet, IInv, HostInv, ValueInv, PostOp PROVE ValueInv'
  OBVIOUS
<1>1. CASE ~Exit
  <2> DEFINE post == LayerAt(layer).post
             op == Operation(post, bufs[1], bufs[2], 0, 0, <<>>)
             t == Within(image, layer, conv)
             u == Behind(image, layer)
  <2>1. /\ pc = "layer" /\ conv = NumConvs(LayerAt(layer)) /\ layer \in LayerNames
        /\ UNCHANGED <<image, sizes, mem, saved, lastError>>
        /\ \/ SavesOutput /\ pc' = "saveOutput" /\ UNCHANGED <<layer, conv, skipIdx>>
           \/ ~SavesOutput /\ LeaveLayer
        /\ IF post \in {"MAX_POOL", "NN_UPSAMPLE"}
           THEN queue' = Append(queue, op) /\ bufs' = Swap(bufs)
           ELSE UNCHANGED <<queue, bufs>>
    BY <1>1 DEF PostOp, CheckedLaunch, deviceVars, IInv, Walk, InLayer
  <2>2. u = PostOperated(post, t) /\ post \in {"MAX_POOL", "NN_UPSAMPLE", "NONE"}
    BY <2>1, ThroughLayer, LevelTypes
  <2>3. op.kind = post /\ op.src = bufs[1] /\ op.dst = bufs[2]
        /\ op.h = t.h /\ op.w = t.w /\ op.c = t.c
    <3>1. shape = ShapeOf(t)
      BY <2>1 DEF HostInv, InNetwork, Current
    <3>2. QED
      BY <3>1, OperationIs
  <2>4. pc' \in {"saveOutput", "concat", "layer", "inverse"} /\ Current(image, pc', layer', conv') = u
    <3>1. layer[1] = "decoder" => skipIdx = SkipAt(layer[2] + 1)
      BY <2>1 DEF HostInv, Position
    <3>2. CASE LeaveLayer
      BY <3>1, <3>2, LeaveLayerPosition DEF IInv, Walk
    <3>3. CASE SavesOutput /\ pc' = "saveOutput" /\ UNCHANGED <<layer, conv, skipIdx>>
      BY <3>3 DEF Current
    <3>4. QED
      BY <2>1, <3>2, <3>3
  <2>5. SavedCount(pc', layer') = SavedCount(pc, layer)
    <3>1. CASE SavesOutput /\ pc' = "saveOutput" /\ UNCHANGED <<layer, conv, skipIdx>>
      BY <2>1, <3>1 DEF SavedCount
    <3>2. CASE ~SavesOutput /\ LeaveLayer
      <4>1. SavedCount(pc', layer') = EncoderLayers
        BY <3>2, LeaveLayerCount
      <4>2. CASE layer[1] = "encoder"
        <5>1. layer[2] + 1 = EncoderLayers
          BY <2>1, <3>2, <4>2, LayerNamed, NetworkShape DEF SavesOutput
        <5>2. QED
          BY <2>1, <4>1, <4>2, <5>1 DEF SavedCount
      <4>3. CASE layer[1] # "encoder"
        BY <2>1, <4>1, <4>3 DEF SavedCount
      <4>4. QED
        BY <4>2, <4>3
    <3>3. QED
      BY <2>1, <3>1, <3>2
  <2>6. Awaited' = u /\ Holder' = bufs'[1] /\ Awaited = t /\ Holder = bufs[1]
    BY <2>1, <2>4 DEF Awaited, Holder, Current
  <2>7. pc' \in Issuing \ {"release"} /\ pc \in Issuing
    BY <2>1, <2>4 DEF Issuing
  <2> HIDE DEF op, t, u
  <2>8. CASE post = "NONE"
    <3>1. queue' = queue /\ bufs' = bufs /\ u = t
      BY <2>1, <2>2, <2>8 DEF PostOperated
    <3>2. \A m, s : Holds(m, s) => Holds(m, s)'
      BY <2>1, <2>5, <2>6, <3>1 DEF Holds
    <3>3. QED
      BY <2>1, <2>7, <3>1, <3>2, SkipValue
  <2>9. CASE post \in {"MAX_POOL", "NN_UPSAMPLE"}
    <3>1. queue' = Append(queue, op) /\ bufs' = Swap(bufs)
      BY <2>1, <2>9
    <3>2. ASSUME NEW m, NEW s, Holds(m, s)
          PROVE  \E m2, s2 : Executed(op, m, s) = <<m2, s2>> /\ Holds(m2, s2)'
      <4>1. /\ DOMAIN m = Work /\ m[op.src] = t
            /\ s = Regions(image, sizes.offset, SavedCount(pc, layer))
        BY <2>3, <2>6, <3>2 DEF Holds
      <4>2. op.dst \in Work /\ op.kind # "save"
        BY <2>3, <2>9, BufsTypes
      <4>3. PICK m2 : Executed(op, m, s) = <<m2, s>> /\ DOMAIN m2 = Work
                      /\ m2[op.dst] = Result(op, m, s) /\ Operand(op, m) = m[op.src]
        BY <2>3, <4>1, <4>2, WorkDone
      <4>4. Result(op, m, s) = u
        BY <2>2, <2>3, <2>9, <4>1, <4>3 DEF Result, PostOperated
      <4>5. Holder' = op.dst
        BY <2>3, <2>6, <3>1, BufsTypes
      <4>6. Holds(m2, s)'
        BY <2>1, <2>5, <2>6, <4>1, <4>3, <4>4, <4>5 DEF Holds
      <4>7. QED
        BY <4>3, <4>6
    <3>3. QED
      BY <2>1, <2>7, <3>1, <3>2, IssueValue
  <2>10. QED
    BY <2>2, <2>8, <2>9
<1>2. QED
  BY <1>1, ExitValue

LEMMA SaveOutputValue == UNet /\ IInv /\ HostInv /\ ValueInv /\ SaveOutput => ValueInv'
<1> SUFFICES ASSUME UNet, IInv, HostInv, ValueInv, SaveOutput PROVE ValueInv'
  OBVIOUS
<1>1. CASE ~Exit
  <2> DEFINE l == layer[2]
             op == Operation("save", bufs[1], "encode", 0, SaveOffset(l), <<>>)
             t == Behind(image, layer)
  <2>1. /\ pc = "saveOutput" /\ queue' = Append(queue, op) /\ LeaveLayer
        /\ UNCHANGED <<image, sizes, bufs, mem, saved, lastError>>
    BY <1>1 DEF SaveOutput
  <2>2. SavesOutput /\ layer[1] = "encoder" /\ l \in Nat /\ l + 1 \in 0 .. EncoderLayers - 1
    <3>1. SavesOutput /\ layer[1] = "encoder" /\ l + 1 < EncoderLayers
      BY <2>1 DEF HostInv, Position, SavesOutput
    <3>2. l \in Nat
      BY LayerNamed DEF IInv, Walk, InLayer
    <3>3. QED
      BY <3>1, <3>2, NetworkShape
  <2>3. /\ op.kind = "save" /\ op.src = bufs[1] /\ op.off = sizes.offset[(l + 1) + 1]
        /\ op.h = t.h /\ op.w = t.w /\ op.c = t.c
    <3>1. (l + 1) + 1 = l + 2
      BY <2>2
    <3>2. QED
      BY <2>1, <3>1, OperationIs DEF HostInv, InNetwork, Current, SaveOffset
  <2>4. t = Encoded(image)[l + 1]
    BY <2>2 DEF Behind
  <2>5. Current(image, pc', layer', conv') = t /\ pc' \in {"concat", "layer", "inverse"}
    BY <2>1, <2>2, LeaveLayerPosition DEF IInv, Walk
  <2>6. SavedCount(pc', layer') = (l + 1) + 1 /\ SavedCount(pc, layer) = l + 1
    <3>1. SavedCount(pc', layer') = l + 2
      BY <2>1, <2>2, LeaveLayerCount
    <3>2. SavedCount(pc, layer) = l + 1
      BY <2>1, <2>2 DEF SavedCount
    <3>3. QED
      BY <2>2, <3>1, <3>2
  <2>7. Awaited' = t /\ Holder' = bufs[1] /\ Awaited = t /\ Holder = bufs[1]
    BY <2>1, <2>5 DEF Awaited, Holder, Current
  <2>8. pc' \in Issuing \ {"release"} /\ pc \in Issuing
    BY <2>1, <2>5 DEF Issuing
  <2> HIDE DEF op, t, l
  <2>9. ASSUME NEW m, NEW s, Holds(m, s)
        PROVE  \E m2, s2 : Executed(op, m, s) = <<m2, s2>> /\ Holds(m2, s2)'
    <3>1. DOMAIN m = Work /\ m[op.src] = t /\ s = Regions(image, sizes.offset, l + 1)
      BY <2>3, <2>6, <2>7, <2>9 DEF Holds
    <3>2. Operand(op, m) = t
      BY <2>3, <3>1 DEF Operand, View
    <3>3. image \in ImageSizes /\ Sized(image, sizes)
      BY <2>1, Sizes
    <3>4. op.h * op.w * op.c = Volume(Encoded(image)[l + 1])
      BY <2>3, <2>4 DEF Volume
    <3>5. Save(op, m, Regions(image, sizes.offset, l + 1)) = Regions(image, sizes.offset, (l + 1) + 1)
      BY <2>2, <2>3, <2>4, <3>2, <3>3, <3>4, SaveNext
    <3>6. Executed(op, m, s) = <<m, Regions(image, sizes.offset, (l + 1) + 1)>>
      BY <2>3, <3>1, <3>5 DEF Executed
    <3>7. m[bufs[1]] = t
      BY <2>3, <3>1
    <3>8. \A s2 : s2 = Regions(image, sizes.offset, (l + 1) + 1) => Holds(m, s2)'
      BY <2>1, <2>6, <2>7, <3>1, <3>7 DEF Holds
    <3>9. QED
      BY <3>6, <3>8
  <2>10. QED
    BY <2>1, <2>8, <2>9, IssueValue
<1>2. QED
  BY <1>1, ExitValue

LEMMA ConcatValue == UNet /\ IInv /\ HostInv /\ ValueInv /\ Concat => ValueInv'
<1> SUFFICES ASSUME UNet, IInv, HostInv, ValueInv, Concat PROVE ValueInv'
  OBVIOUS
<1>1. CASE ~Exit
  <2> DEFINE op == ConcatOperation
             k == SavedAt(skipIdx)
             v == Encoded(image)[k]
             t == Entry(image, layer)
             u == Within(image, layer, 0)
  <2>1. /\ pc = "concat" /\ pc' = "layer" /\ queue' = Append(queue, op) /\ bufs' = Swap(bufs)
        /\ UNCHANGED <<image, sizes, layer, conv, mem, saved, lastError>>
    BY <1>1 DEF Concat, CheckedLaunch, ConcatOperation
  <2>2. /\ layer[1] = "decoder" /\ skipIdx = SkipAt(layer[2]) /\ skipIdx >= 0
        /\ op.off = sizes.offset[k + 1] /\ k \in 0 .. EncoderLayers - 1 /\ conv = 0
        /\ image \in ImageSizes /\ layer \in LayerNames /\ Sized(image, sizes)
    BY <2>1, ConcatOffset, Sizes DEF HostInv, Position
  <2>3. /\ op.kind = "concat" /\ op.src = bufs[1] /\ op.dst = bufs[2]
        /\ op.h = t.h /\ op.w = t.w /\ op.c = t.c /\ op.c2 = SkipChannels(skipIdx)
    BY <2>1, OperationIs DEF ConcatOperation, HostInv, InNetwork, Current
  <2>4. HasShape(v, op.h, op.w, op.c2) /\ u = Concatenated(t, v)
    BY <2>2, <2>3, SkipTensor, ThroughLayer
  <2>5. Awaited = t /\ Awaited' = u /\ Holder = bufs[1] /\ Holder' = bufs[2]
    BY <2>1, <2>2, BufsTypes DEF Awaited, Current, Holder
  <2>6. SavedCount(pc, layer) = EncoderLayers /\ SavedCount(pc', layer') = EncoderLayers
    BY <2>1, <2>2 DEF SavedCount
  <2> HIDE DEF op, v, t, u
  <2>7. ASSUME NEW m, NEW s, Holds(m, s)
        PROVE  \E m2, s2 : Executed(op, m, s) = <<m2, s2>> /\ Holds(m2, s2)'
    <3>1. DOMAIN m = Work /\ m[op.src] = t /\ s = Regions(image, sizes.offset, EncoderLayers)
      BY <2>3, <2>5, <2>6, <2>7 DEF Holds
    <3>2. op.dst \in Work
      BY <2>3, BufsTypes
    <3>3. PICK m2 : Executed(op, m, s) = <<m2, s>> /\ DOMAIN m2 = Work
                    /\ m2[op.dst] = Result(op, m, s) /\ Operand(op, m) = m[op.src]
      BY <2>3, <3>1, <3>2, WorkDone
    <3>4. ReadSaved(op, s) = v
      BY <2>2, <2>4, <3>1, ReadBack DEF v
    <3>5. Result(op, m, s) = u
      BY <2>3, <2>4, <3>1, <3>3, <3>4 DEF Result
    <3>6. Holds(m2, s)'
      BY <2>1, <2>3, <2>5, <2>6, <3>1, <3>3, <3>5 DEF Holds
    <3>7. QED
      BY <3>3, <3>6
  <2>8. QED
    BY <2>1, <2>7, IssueValue DEF Issuing
<1>2. QED
  BY <1>1, ExitValue

LEMMA InverseValue == UNet /\ IInv /\ HostInv /\ ValueInv /\ InverseTransfer => ValueInv'
<1> SUFFICES ASSUME UNet, IInv, HostInv, ValueInv, InverseTransfer PROVE ValueInv'
  OBVIOUS
<1>1. CASE ~Exit
  <2> DEFINE op == Operation("inverse", bufs[1], bufs[2], 0, 0, <<>>)
             t == Decoded(image)[DecoderLayers]
  <2>1. /\ pc = "inverse" /\ pc' = "download" /\ queue' = Append(queue, op)
        /\ UNCHANGED <<image, sizes, layer, conv, bufs, mem, saved, lastError>>
    BY <1>1 DEF InverseTransfer, CheckedLaunch
  <2>2. /\ op.kind = "inverse" /\ op.src = bufs[1] /\ op.dst = bufs[2]
        /\ op.h = t.h /\ op.w = t.w /\ op.c = t.c
    BY <2>1, OperationIs DEF HostInv, InNetwork, Current
  <2>3. /\ Awaited = t /\ Awaited' = Inverted(t, image)
        /\ Holder = bufs[1] /\ Holder' = bufs[2]
    BY <2>1 DEF Awaited, Current, Holder, Denoised
  <2>4. SavedCount(pc, layer) = EncoderLayers /\ SavedCount(pc', layer') = EncoderLayers
    BY <2>1 DEF SavedCount
  <2> HIDE DEF op, t
  <2>5. ASSUME NEW m, NEW s, Holds(m, s)
        PROVE  \E m2, s2 : Executed(op, m, s) = <<m2, s2>> /\ Holds(m2, s2)'
    <3>1. DOMAIN m = Work /\ m[op.src] = t /\ s = Regions(image, sizes.offset, EncoderLayers)
      BY <2>2, <2>3, <2>4, <2>5 DEF Holds
    <3>2. op.dst \in Work
      BY <2>2, BufsTypes
    <3>3. PICK m2 : Executed(op, m, s) = <<m2, s>> /\ DOMAIN m2 = Work
                    /\ m2[op.dst] = Result(op, m, s) /\ Operand(op, m) = m[op.src]
      BY <2>2, <3>1, <3>2, WorkDone
    <3>4. Result(op, m, s) = Inverted(t, image)
      BY <2>2, <3>1, <3>3 DEF Result
    <3>5. Holds(m2, s)'
      BY <2>1, <2>2, <2>3, <2>4, <3>1, <3>3, <3>4 DEF Holds
    <3>6. QED
      BY <3>3, <3>5
  <2>6. QED
    BY <2>1, <2>5, IssueValue DEF Issuing
<1>2. QED
  BY <1>1, ExitValue

(* The blocking copy waits until there is nothing left to execute.         *)
LEMMA DownloadValue == UNet /\ IInv /\ HostInv /\ ErrorInv /\ ValueInv /\ Download => ValueInv'
<1> SUFFICES ASSUME UNet, IInv, HostInv, ErrorInv, ValueInv, Download PROVE ValueInv'
  OBVIOUS
<1>1. CASE ~Exit
  <2> DEFINE t == Decoded(image)[DecoderLayers]
  <2>1. /\ pc = "download" /\ pc' = "release" /\ queue = <<>>
        /\ outputImg' = View(mem[bufs[2]], image[1], image[2], shape.c)
        /\ UNCHANGED <<image, mem>>
    BY <1>1 DEF Download, deviceVars
  <2>2. PICK m, s : LeadsTo(<<>>, mem, saved, m, s) /\ Holds(m, s)
    BY <2>1 DEF ValueInv, Issuing, ErrorInv
  <2>3. mem[bufs[2]] = Denoised(image)
    BY <2>1, <2>2, LeadsToEmpty DEF Holds, Holder, Awaited
  <2>4. shape.c = t.c
    BY <2>1 DEF HostInv, InNetwork, Current, ShapeOf, Shape
  <2> HIDE DEF t
  <2>5. Denoised(image) = Inverted(t, image)
    BY DEF Denoised, t
  <2>6. outputImg' = Denoised(image)
    BY <2>1, <2>3, <2>4, <2>5 DEF View, Inverted, Tensor
  <2>7. QED
    BY <2>1, <2>6 DEF ValueInv, Before, Issuing
<1>2. QED
  BY <1>1, ExitValue

LEMMA ReleaseValue == UNet /\ IInv /\ HostInv /\ ValueInv /\ Release => ValueInv'
<1> SUFFICES ASSUME UNet, IInv, HostInv, ValueInv, Release PROVE ValueInv'
  OBVIOUS
<1>1. CASE ~Exit
  BY <1>1 DEF Release, ValueInv, Before, Issuing
<1>2. QED
  BY <1>1, ExitValue

(* Executing the oldest operation leaves the others with what they need.   *)
LEMMA ExecuteValue == UNet /\ IInv /\ HostInv /\ ValueInv /\ Execute => ValueInv'
<1> SUFFICES ASSUME UNet, IInv, HostInv, ValueInv, Execute PROVE ValueInv'
  OBVIOUS
<1> DEFINE op == Head(queue)
<1>1. /\ queue # <<>> /\ queue' = Tail(queue) /\ UNCHANGED hostVars
      /\ mem' = Executed(op, mem, saved)[1] /\ saved' = Executed(op, mem, saved)[2]
  BY DEF Execute
<1>2. Executed(op, mem, saved) = <<mem', saved'>>
  BY <1>1, ExecutedPair
<1>3. DOMAIN mem' = Work
  <2> HIDE DEF op
  <2>1. QED
    BY <1>1 DEF ValueInv, Executed
<1>4. ~(pc \in Before \cup {"upload"})
  BY <1>1 DEF IInv, Stream
<1>5. ASSUME pc \in Issuing, ~lastError
      PROVE  \E m, s : LeadsTo(queue, mem, saved, m, s)' /\ Holds(m, s)'
  <2>1. PICK m, s : LeadsTo(queue, mem, saved, m, s) /\ Holds(m, s)
    BY <1>5 DEF ValueInv
  <2>2. LeadsTo(Tail(queue), mem', saved', m, s)
    <3> HIDE DEF op
    <3>1. \A m1, s1 : Executed(op, mem, saved) = <<m1, s1>> => LeadsTo(Tail(queue), m1, s1, m, s)
      BY <1>1, <2>1, LeadsToTail DEF IInv, Stream, op
    <3>2. QED
      BY <1>2, <3>1
  <2>3. LeadsTo(queue, mem, saved, m, s)'
    BY <1>1, <2>2, KeepLeadsTo DEF hostVars
  <2>4. Holds(m, s)'
    BY <1>1, <2>1 DEF Holds, Holder, Awaited, hostVars
  <2>5. QED
    BY <2>3, <2>4
<1>6. QED
  BY <1>1, <1>3, <1>4, <1>5 DEF ValueInv, hostVars

LEMMA StepValueInv == UNet /\ IInv /\ HostInv /\ ErrorInv /\ ValueInv /\ [Next]_vars => ValueInv'
<1>1. ValueInv /\ UNCHANGED <<hostVars, queue, mem, saved>> => ValueInv'
  <2> SUFFICES ASSUME ValueInv, UNCHANGED <<hostVars, queue, mem, saved>> PROVE ValueInv'
    OBVIOUS
  <2>1. ASSUME NEW m, NEW s, LeadsTo(queue, mem, saved, m, s), Holds(m, s)
        PROVE  LeadsTo(queue, mem, saved, m, s)' /\ Holds(m, s)'
    BY <2>1, KeepLeadsTo DEF Holds, Holder, Awaited, hostVars
  <2>2. QED
    BY <2>1 DEF ValueInv, hostVars
<1>2. Fault \/ Over \/ UNCHANGED vars => UNCHANGED <<hostVars, queue, mem, saved>>
  BY DEF Fault, Over, vars, deviceVars
<1>3. QED
  BY <1>1, <1>2, BeforeValue, UploadValue, TransferValue, SaveImageValue, ConvolveValue, PostOpValue,
     SaveOutputValue, ConcatValue, InverseValue, DownloadValue, ReleaseValue, ExecuteValue
     DEF Next, HostStep

-----------------------------------------------------------------------------
(* What follows for the operations issued.                                 *)

LEMMA IssuedOps == Issued = Elements(queue)
  BY DEF Issued, Elements

(* For every network with levels, skip connections and an output that      *)
(* oidn_unet_cuda is written for, and every image, its sizing pass         *)
(* foresees all that the pipeline reads and writes: no copy and no kernel  *)
(* leaves the allocation it works in.                                      *)
THEOREM NothingOutOfBounds ==
  ASSUME UNet, OutputFits
  PROVE  Spec => []FitsInBuffers
<1>1. OpsInv => FitsInBuffers
  BY IssuedOps DEF OpsInv, OpInv, OpFits, FitsInBuffers
<1>2. QED
  BY <1>1, NetworkInvHolds, PTL

(* oidn_unet_cuda never drops a row or a column: alignment to 16 leaves    *)
(* every pooling of such a network an even height and width.               *)
THEOREM PoolingsEven ==
  ASSUME UNet
  PROVE  Spec => []PoolsEven
<1>1. OpsInv => PoolsEven
  BY IssuedOps DEF OpsInv, OpInv, OpEven, PoolsEven
<1>2. QED
  BY <1>1, NetworkInvHolds, PTL

(* If the widths that such a network's convolutions are trained for add    *)
(* up, every convolution that oidn_unet_cuda launches gets a tensor of the *)
(* width it was trained for.                                               *)
THEOREM WidthsAgree ==
  ASSUME UNet, WidthsAddUp
  PROVE  Spec => []ChannelsAgree
<1>1. OpsInv => ChannelsAgree
  BY IssuedOps DEF OpsInv, OpInv, OpTrained, ChannelsAgree
<1>2. QED
  BY <1>1, NetworkInvHolds, PTL

-----------------------------------------------------------------------------
(* The refinement.                                                         *)

Inv == IInv /\ HostInv /\ ErrorInv /\ ValueInv

LEMMA InvHolds ==
  ASSUME UNet
  PROVE  Spec => []Inv
<1>1. Init => Inv
  BY InitIInv, InitHostInv, InitErrorInv, InitValueInv DEF Inv
<1>2. Inv /\ [Next]_vars => Inv'
  BY StepIInv, StepHostInv, StepErrorInv, StepValueInv DEF Inv
<1>3. QED
  BY <1>1, <1>2, PTL DEF Spec

(* Until the call ends, a step that does not end it is none for main, ...  *)
LEMMA GoingOn ==
  ASSUME pc \notin Ended, pc' \notin Ended, image' = image
  PROVE  UNCHANGED Abstract!vars
  BY DEF Abstract!vars, Ended

(* ... and one that ends the process is a failure.                         *)
LEMMA Failing ==
  ASSUME pc \notin Ended, pc' \in {"exited", "threw"}, image' = image
  PROVE  Abstract!Fail
  BY DEF Abstract!Fail, Ended

LEMMA HostStepImplements ==
  Inv /\ HostStep => [Abstract!Next]_(Abstract!vars)
<1> SUFFICES ASSUME Inv, HostStep PROVE [Abstract!Next]_(Abstract!vars)
  OBVIOUS
<1>1. pc \notin Ended
  BY DEF HostStep, SizeEncoder, SizeDecoder, Malloc, Upload, Transfer, SaveImage, Convolve, PostOp,
         SaveOutput, Concat, InverseTransfer, Download, Release, Ended
<1>2. image' = image
  BY DEF HostStep, SizeEncoder, SizeDecoder, Malloc, Upload, Transfer, SaveImage, Convolve, PostOp,
         SaveOutput, Concat, InverseTransfer, Download, Release, Exit
<1>3. CASE Release /\ ~Exit
  <2>1. pc = "release" /\ pc' = "returned" /\ outputImg' = outputImg
    BY <1>3 DEF Release
  <2>2. outputImg = Denoised(image)
    BY <2>1 DEF Inv, ValueInv
  <2>3. Abstract!Return
    BY <1>2, <2>1, <2>2 DEF Abstract!Return, Ended
  <2>4. QED
    BY <2>3 DEF Abstract!Next
<1>4. CASE pc' \in {"exited", "threw"}
  BY <1>1, <1>2, <1>4, Failing DEF Abstract!Next
<1>5. CASE ~(Release /\ ~Exit) /\ pc' \notin {"exited", "threw"}
  <2>1. ~Exit /\ ~Release
    BY <1>5 DEF Exit
  <2>2. LeaveLayer => pc' # "returned"
    BY LeaveLayerType DEF Inv, IInv, Walk
  <2>3. pc' # "returned"
    BY <1>1, <2>1, <2>2 DEF HostStep, SizeEncoder, SizeDecoder, Malloc, Upload, Transfer, SaveImage, Convolve,
       PostOp, SaveOutput, Concat, InverseTransfer, Download, EnterLayer, Ended
  <2>4. QED
    BY <1>1, <1>2, <1>5, <2>3, GoingOn DEF Ended
<1>6. QED
  BY <1>3, <1>4, <1>5

LEMMA StepImplements == Inv /\ [Next]_vars => [Abstract!Next]_(Abstract!vars)
<1>1. Execute \/ Fault \/ Over \/ UNCHANGED vars => UNCHANGED <<pc, image, outputImg>>
  BY DEF Execute, Fault, Over, vars, hostVars
<1>2. UNCHANGED <<pc, image, outputImg>> => UNCHANGED Abstract!vars
  BY DEF Abstract!vars
<1>3. QED
  BY <1>1, <1>2, HostStepImplements DEF Next

(* For every such network, whatever the GPU does and however far the host  *)
(* runs ahead of it, oidn_unet_cuda does what Denoise promises: it hands   *)
(* over the image that the network makes of the input, or ends the         *)
(* process.                                                                *)
THEOREM Implements ==
  ASSUME UNet
  PROVE  Spec => ImplementsDenoise
<1>1. Init => Abstract!Init
  BY DEF Init, Abstract!Init, Ended
<1>2. QED
  BY <1>1, StepImplements, InvHolds, PTL DEF Spec, ImplementsDenoise, Abstract!Spec

-----------------------------------------------------------------------------
(* oidn_unet, which walks over the same network on the CPU.                *)

CONSTANT AllocFails
VARIABLES input, original, encodeOutputs

Cpu == INSTANCE CpuUNet

(* It has skip_idx start at 3, which is the place of the last saved tensor *)
(* if the encoder has six layers.                                          *)
SixEncoderLayers == EncoderLayers = 6

LEMMA SameFirstSkip == SixEncoderLayers => Cpu!FirstSkip = FirstSkip
  BY FirstSkipIs DEF Cpu!FirstSkip, SixEncoderLayers

(* The network is the same one.                                            *)
LEMMA SameTensors ==
  /\ \A size : Cpu!Raw(size) = Raw(size)
  /\ \A t : /\ Cpu!Transferred(t) = Transferred(t)
            /\ Cpu!Pooled(t) = Pooled(t) /\ Cpu!Upsampled(t) = Upsampled(t)
  /\ \A id, c, t : Cpu!Convolved(id, c, t) = Convolved(id, c, t)
  /\ \A t, s : Cpu!Concatenated(t, s) = Concatenated(t, s)
  /\ \A t, size : Cpu!Inverted(t, size) = Inverted(t, size)
  /\ \A t, h, w, c : Cpu!View(t, h, w, c) = View(t, h, w, c)
<1> USE DEF Cpu!Tensor, Tensor
<1>1. /\ \A size : Cpu!Raw(size) = Raw(size)
      /\ \A t : Cpu!Transferred(t) = Transferred(t)
  BY DEF Cpu!Raw, Raw, Cpu!Transferred, Transferred, Cpu!Padded, Padded, Cpu!Alignment, Alignment
<1>2. \A t : Cpu!Pooled(t) = Pooled(t) /\ Cpu!Upsampled(t) = Upsampled(t)
  BY DEF Cpu!Pooled, Pooled, Cpu!Upsampled, Upsampled
<1>3. \A id, c, t : Cpu!Convolved(id, c, t) = Convolved(id, c, t)
  BY DEF Cpu!Convolved, Convolved
<1>4. \A t, s : Cpu!Concatenated(t, s) = Concatenated(t, s)
  BY DEF Cpu!Concatenated, Concatenated
<1>5. \A t, size : Cpu!Inverted(t, size) = Inverted(t, size)
  BY DEF Cpu!Inverted, Inverted
<1>6. \A t, h, w, c : Cpu!View(t, h, w, c) = View(t, h, w, c)
  BY DEF Cpu!View, View, Cpu!Garbage, Garbage
<1>7. QED
  BY <1>1, <1>2, <1>3, <1>4, <1>5, <1>6

LEMMA SameWalk ==
  /\ \A at : Cpu!LayerAt(at) = LayerAt(at)
  /\ \A half : Cpu!LayerCount(half) = LayerCount(half)
  /\ \A y : Cpu!NumConvs(y) = NumConvs(y)
  /\ \A y, i : Cpu!OutChannels(y, i) = OutChannels(y, i)
  /\ \A idx : Cpu!SkipChannels(idx) = SkipChannels(idx)
  /\ \A h, w, c : Cpu!Shape(h, w, c) = Shape(h, w, c)
  /\ \A n : Cpu!Padded(n) = Padded(n)
  /\ Cpu!EncoderLayers = EncoderLayers /\ Cpu!DecoderLayers = DecoderLayers
  BY DEF Cpu!LayerAt, LayerAt, Cpu!LayerCount, LayerCount, Cpu!NumConvs, NumConvs,
     Cpu!OutChannels, OutChannels, Cpu!SkipChannels, SkipChannels, Cpu!Shape, Shape,
     Cpu!EncoderLayers, EncoderLayers, Cpu!DecoderLayers, DecoderLayers,
     Cpu!Cardinality, Cardinality,
     Cpu!Padded, Padded, Cpu!Alignment, Alignment

LEMMA SameLayerOutput ==
  \A half, l, y, t : Cpu!LayerOutput(half, l, y, t) = LayerOutput(half, l, y, t)
  BY DEF Cpu!LayerOutput, LayerOutput, Cpu!Convolutions, Convolutions, Cpu!Convolved, Convolved,
     Cpu!PostOperated, PostOperated, Cpu!Pooled, Pooled, Cpu!Averaged, Averaged,
     Cpu!Upsampled, Upsampled, Cpu!Tensor, Tensor, Cpu!NumConvs, NumConvs

(* Both sides of each equation choose the function with the same equation. *)
LEMMA SameDenoised == \A size : Cpu!Denoised(size) = Denoised(size)
<1> TAKE size
<1> DEFINE encoder(f) == [l \in 0 .. EncoderLayers |->
                            IF l = 0 THEN Transferred(Raw(size))
                            ELSE LayerOutput("encoder", l - 1, Encoder[l - 1], f[l - 1])]
           decoder(f) == [l \in 0 .. DecoderLayers |->
                            IF l = 0 THEN Encoded(size)[EncoderLayers]
                            ELSE LayerOutput("decoder", l - 1, Decoder[l - 1],
                                             Joined(Decoder[l - 1], Encoded(size), f[l - 1]))]
<1>1. Encoded(size) = CHOOSE f : f = encoder(f)
  BY DEF Encoded
<1>2. Decoded(size) = CHOOSE f : f = decoder(f)
  BY DEF Decoded
<1>3. Cpu!Encoded(size) = CHOOSE f : f = encoder(f)
  <2> DEFINE other(f) == [l \in 0 .. Cpu!EncoderLayers |->
                            IF l = 0 THEN Cpu!Transferred(Cpu!Raw(size))
                            ELSE Cpu!LayerOutput("encoder", l - 1, Encoder[l - 1], f[l - 1])]
  <2>1. Cpu!Encoded(size) = CHOOSE f : f = other(f)
    BY DEF Cpu!Encoded
  <2>2. \A f : other(f) = encoder(f)
    BY SameTensors, SameLayerOutput, SameWalk
  <2> HIDE DEF other, encoder
  <2>3. QED
    BY <2>1, <2>2
<1>4. Cpu!Decoded(size) = CHOOSE f : f = decoder(f)
  <2> DEFINE other(f) ==
        [l \in 0 .. Cpu!DecoderLayers |->
           IF l = 0 THEN Cpu!Encoded(size)[Cpu!EncoderLayers]
           ELSE Cpu!LayerOutput("decoder", l - 1, Decoder[l - 1],
                                Cpu!Joined(Decoder[l - 1], Cpu!Encoded(size), f[l - 1]))]
  <2>1. Cpu!Decoded(size) = CHOOSE f : f = other(f)
    BY DEF Cpu!Decoded
  <2>2. \A y, e, t : Cpu!Joined(y, e, t) = Joined(y, e, t)
    BY SameTensors DEF Cpu!Joined, Joined, Cpu!Saved, Saved, Cpu!SavedAt, SavedAt
  <2>3. Cpu!Encoded(size) = Encoded(size)
    BY <1>1, <1>3
  <2>4. \A f : other(f) = decoder(f)
    BY <2>2, <2>3, SameLayerOutput, SameWalk
  <2> HIDE DEF other, decoder
  <2>5. QED
    BY <2>1, <2>4
<1> HIDE DEF encoder, decoder
<1>5. QED
  BY <1>2, <1>4, SameTensors, SameWalk DEF Cpu!Denoised, Denoised

LEMMA SameLeaveLayer == SixEncoderLayers /\ Cpu!LeaveLayer => LeaveLayer
<1>1. \A at, skip : Cpu!EnterLayer(at, skip) => EnterLayer(at, skip)
  BY DEF Cpu!EnterLayer, EnterLayer
<1>2. QED
  BY <1>1, SameFirstSkip, SameWalk DEF Cpu!LeaveLayer, LeaveLayer


-----------------------------------------------------------------------------
(* Where oidn_unet is: the tensor that input points to, and the tensors it *)
(* has kept, are those of the network.                                     *)

CpuPlaces == {"transfer", "keepOriginal", "layer", "save", "concat", "inverse", "returned", "threw"}
Walking == {"layer", "save", "concat", "inverse"}

CpuCurrent ==
  CASE pc = "keepOriginal" -> Encoded(image)[0]
    [] pc = "save"         -> Behind(image, layer)
    [] OTHER               -> Current(image, pc, layer, conv)

CpuWalk ==
  /\ image \in ImageSizes /\ InLayer /\ Position
  /\ pc \in CpuPlaces
  /\ pc \in {"transfer", "keepOriginal"} => layer = <<"encoder", 0>> /\ conv = 0
  /\ pc = "concat" => skipIdx >= 0
  /\ pc = "save" => layer[1] = "encoder"

(* Every layer of the encoder pushes its output.                           *)
Pushed(at) == IF at[1] = "encoder" THEN at[2] ELSE EncoderLayers

CpuKept ==
  /\ encodeOutputs \in Seq(Elements(encodeOutputs)) /\ Len(encodeOutputs) = Pushed(layer)
  /\ \A i \in 1 .. Pushed(layer) : encodeOutputs[i] = Encoded(image)[i]
  /\ pc \in Walking => original = Encoded(image)[0]

CpuValue ==
  /\ pc = "transfer" => shape = ShapeOf(Encoded(image)[0])
  /\ pc \in Walking \cup {"keepOriginal"} => input = CpuCurrent /\ shape = ShapeOf(CpuCurrent)
  /\ outputImg = IF pc = "returned" THEN Denoised(image) ELSE NoOutput

CpuInv == CpuWalk /\ CpuKept /\ CpuValue

LEMMA InitCpuInv == SixEncoderLayers /\ Cpu!Init => CpuInv
<1> SUFFICES ASSUME SixEncoderLayers, Cpu!Init PROVE CpuInv
  OBVIOUS
<1>1. /\ image \in ImageSizes /\ pc = "transfer" /\ layer = <<"encoder", 0>> /\ conv = 0
      /\ encodeOutputs = <<>> /\ skipIdx = FirstSkip /\ outputImg = NoOutput
      /\ shape = Shape(Padded(image[1]), Padded(image[2]), ImageChannels)
  BY SameFirstSkip, SameWalk DEF Cpu!Init
<1>2. shape = ShapeOf(Encoded(image)[0])
  <2>1. Encoded(image)[0] = Transferred(Raw(image))
    BY EncodedIs
  <2>2. shape = ShapeOf(Transferred(Raw(image)))
    BY <1>1 DEF ShapeOf, Transferred, Raw, Tensor
  <2>3. QED
    BY <2>1, <2>2
<1>3. CpuWalk
  BY <1>1, LayerFacts, FirstSkipType DEF CpuWalk, InLayer, Position, CpuPlaces, LayerNames
<1>4. CpuKept
  BY <1>1 DEF CpuKept, Pushed, Elements, Walking
<1>5. QED
  BY <1>1, <1>2, <1>3, <1>4 DEF CpuInv, CpuValue, Walking

(* The tensor is read with the shape that it has.                          *)
LEMMA InputIs ==
  ASSUME CpuInv, pc \in Walking \cup {"keepOriginal"}
  PROVE  Cpu!Input = CpuCurrent
  BY SameTensors DEF Cpu!Input, CpuInv, CpuValue, View, ShapeOf, Shape

LEMMA ThrowCpuInv == CpuInv /\ pc # "returned" /\ Cpu!Throw => CpuInv'
<1> SUFFICES ASSUME CpuInv, pc # "returned", Cpu!Throw PROVE CpuInv'
  OBVIOUS
<1>1. /\ pc' = "threw"
      /\ UNCHANGED <<image, layer, conv, shape, input, original, encodeOutputs, skipIdx, outputImg>>
  BY DEF Cpu!Throw
<1>2. CpuWalk'
  BY <1>1 DEF CpuInv, CpuWalk, InLayer, LayerAt, Position, CpuPlaces
<1>3. CpuKept'
  BY <1>1 DEF CpuInv, CpuKept, Walking
<1>4. CpuValue'
  BY <1>1 DEF CpuInv, CpuValue, Walking
<1>5. QED
  BY <1>2, <1>3, <1>4 DEF CpuInv

(* What the steps have in common that keep no tensor.                      *)
LEMMA KeepKept ==
  ASSUME CpuInv, UNCHANGED <<image, encodeOutputs>>, Pushed(layer') = Pushed(layer),
         pc' \in Walking => original' = Encoded(image)[0]
  PROVE  CpuKept'
  BY DEF CpuInv, CpuKept

LEMMA TransferCpuInv == CpuInv /\ Cpu!Transfer /\ ~Cpu!Throw => CpuInv'
<1> SUFFICES ASSUME CpuInv, Cpu!Transfer, ~Cpu!Throw PROVE CpuInv'
  OBVIOUS
<1>1. /\ pc = "transfer" /\ pc' = "keepOriginal" /\ input' = Transferred(Raw(image))
      /\ UNCHANGED <<image, layer, conv, shape, original, encodeOutputs, skipIdx, outputImg>>
  BY SameTensors DEF Cpu!Transfer
<1>2. input' = Encoded(image)[0]
  BY <1>1, EncodedIs
<1>3. CpuWalk'
  BY <1>1 DEF CpuInv, CpuWalk, InLayer, Position, CpuPlaces
<1>4. CpuKept'
  BY <1>1, KeepKept DEF Walking
<1>5. CpuValue'
  BY <1>1, <1>2 DEF CpuInv, CpuValue, CpuCurrent, Walking
<1>6. QED
  BY <1>3, <1>4, <1>5 DEF CpuInv

LEMMA KeepOriginalCpuInv == CpuInv /\ Cpu!KeepOriginal /\ ~Cpu!Throw => CpuInv'
<1> SUFFICES ASSUME CpuInv, Cpu!KeepOriginal, ~Cpu!Throw PROVE CpuInv'
  OBVIOUS
<1>1. /\ pc = "keepOriginal" /\ pc' = "layer" /\ original' = Cpu!Input
      /\ UNCHANGED <<image, layer, conv, shape, input, encodeOutputs, skipIdx, outputImg>>
  BY DEF Cpu!KeepOriginal
<1>2. layer = <<"encoder", 0>> /\ conv = 0 /\ layer \in LayerNames
  BY <1>1 DEF CpuInv, CpuWalk, InLayer
<1>3. CpuCurrent = Encoded(image)[0] /\ original' = Encoded(image)[0]
  BY <1>1, InputIs DEF CpuCurrent
<1>4. Current(image, pc', layer', conv') = Encoded(image)[0]
  BY <1>1, <1>2, ThroughLayer DEF Current, Start
<1>5. CpuWalk'
  BY <1>1, <1>2 DEF CpuInv, CpuWalk, InLayer, Position, CpuPlaces
<1>6. CpuKept'
  BY <1>1, <1>3, KeepKept
<1>7. CpuValue'
  BY <1>1, <1>3, <1>4 DEF CpuInv, CpuValue, CpuCurrent, Walking
<1>8. QED
  BY <1>5, <1>6, <1>7 DEF CpuInv

LEMMA ConvolveCpuInv == CpuInv /\ Cpu!Convolve /\ ~Cpu!Throw => CpuInv'
<1> SUFFICES ASSUME CpuInv, Cpu!Convolve, ~Cpu!Throw PROVE CpuInv'
  OBVIOUS
<1> DEFINE y == LayerAt(layer)
           t == Within(image, layer, conv)
<1>1. /\ pc = "layer" /\ conv < NumConvs(y) /\ conv' = conv + 1
      /\ input' = Convolved(Append(layer, conv), OutChannels(y, conv), Cpu!Input)
      /\ shape' = [shape EXCEPT !.c = OutChannels(y, conv)]
      /\ UNCHANGED <<image, pc, layer, original, encodeOutputs, skipIdx, outputImg>>
  BY SameTensors, SameWalk DEF Cpu!Convolve
<1>2. /\ layer \in LayerNames /\ layer = <<layer[1], layer[2]>> /\ NumConvs(y) \in Nat
      /\ conv \in 0 .. NumConvs(y) - 1 /\ conv + 1 \in 0 .. NumConvs(y)
  BY <1>1, LayerNamed DEF CpuInv, CpuWalk, InLayer
<1>3. CpuCurrent = t /\ Cpu!Input = t /\ shape = ShapeOf(t)
  BY <1>1, InputIs DEF CpuCurrent, Current, CpuInv, CpuValue, Walking
<1>4. Append(layer, conv) = <<layer[1], layer[2], conv>>
  BY <1>2, AppendToPair
<1>5. Within(image, layer, conv + 1) = Convolved(<<layer[1], layer[2], conv>>, y.out[conv + 1], t)
  BY <1>2, ThroughLayer
<1>6. input' = Within(image, layer, conv + 1)
  BY <1>1, <1>3, <1>4, <1>5 DEF OutChannels
<1>7. shape' = ShapeOf(Within(image, layer, conv + 1))
  BY <1>1, <1>3, <1>5 DEF ShapeOf, Shape, Convolved, Tensor, OutChannels
<1>8. CpuWalk'
  BY <1>1, <1>2 DEF CpuInv, CpuWalk, InLayer, Position
<1>9. CpuKept'
  BY <1>1, KeepKept DEF CpuInv, CpuKept
<1>10. CpuValue'
  BY <1>1, <1>6, <1>7 DEF CpuInv, CpuValue, CpuCurrent, Current, Walking
<1>11. QED
  BY <1>8, <1>9, <1>10 DEF CpuInv

(* After a layer oidn_unet is at the entry of the next one, as the host of *)
(* oidn_unet_cuda is.                                                      *)
LEMMA LeaveLayerCpu ==
  ASSUME UNet, SixEncoderLayers, CpuInv, Cpu!LeaveLayer, image' = image,
         pc = "layer" \/ pc = "save"
  PROVE  /\ CpuWalk' /\ pc' \in Walking
         /\ CpuCurrent' = Behind(image, layer)
         /\ Pushed(layer') = IF layer[1] = "encoder" THEN layer[2] + 1 ELSE EncoderLayers
<1>1. InLayer /\ LeaveLayer /\ (layer[1] = "decoder" => skipIdx = SkipAt(layer[2] + 1))
  BY SameLeaveLayer DEF CpuInv, CpuWalk, Position
<1>2. InLayer' /\ pc' \in {"concat", "layer", "inverse"} /\ (pc' = "concat" => skipIdx' >= 0)
  BY <1>1, LeaveLayerType
<1>3. Position' /\ Current(image, pc', layer', conv') = Behind(image, layer)
  BY <1>1, LeaveLayerPosition
<1>4. CpuWalk'
  BY <1>2, <1>3 DEF CpuInv, CpuWalk, CpuPlaces
<1>5. CpuCurrent' = Behind(image, layer)
  BY <1>2, <1>3 DEF CpuCurrent
<1>6. /\ layer[2] \in Nat
      /\ \/ layer[1] = "encoder" /\ layer[2] \in 0 .. EncoderLayers - 1
         \/ layer[1] = "decoder" /\ layer[2] \in 0 .. DecoderLayers - 1
  BY <1>1, LayerNamed DEF InLayer
<1>7. Pushed(layer') = IF layer[1] = "encoder" THEN layer[2] + 1 ELSE EncoderLayers
  <2>1. CASE layer[2] + 1 < LayerCount(layer[1])
    <3>1. layer' = <<layer[1], layer[2] + 1>>
      BY <1>1, <2>1 DEF LeaveLayer, EnterLayer
    <3>2. QED
      BY <3>1 DEF Pushed
  <2>2. CASE ~(layer[2] + 1 < LayerCount(layer[1])) /\ layer[1] = "encoder"
    <3>1. layer' = <<"decoder", 0>>
      BY <1>1, <2>2 DEF LeaveLayer, EnterLayer
    <3>2. layer[2] + 1 = EncoderLayers
      BY <1>6, <2>2, LayerFacts DEF LayerCount
    <3>3. QED
      BY <2>2, <3>1, <3>2 DEF Pushed
  <2>3. CASE ~(layer[2] + 1 < LayerCount(layer[1])) /\ layer[1] # "encoder"
    BY <1>1, <2>3 DEF LeaveLayer, Pushed
  <2>4. QED
    BY <2>1, <2>2, <2>3
<1>8. QED
  BY <1>2, <1>4, <1>5, <1>7 DEF Walking

(* After its post operation a layer of the encoder is still to be saved.   *)
LEMMA AfterPostOpCpu ==
  ASSUME UNet, SixEncoderLayers, CpuInv, pc = "layer", Cpu!AfterPostOp,
         UNCHANGED <<image, original, encodeOutputs, outputImg>>,
         input' = Behind(image, layer), shape' = ShapeOf(Behind(image, layer))
  PROVE  CpuInv'
<1>1. CASE layer[1] = "encoder"
  <2>1. pc' = "save" /\ UNCHANGED <<layer, conv, skipIdx>>
    BY <1>1 DEF Cpu!AfterPostOp
  <2>2. CpuWalk'
    BY <1>1, <2>1 DEF CpuInv, CpuWalk, InLayer, Position, CpuPlaces
  <2>3. CpuKept'
    BY <2>1, KeepKept DEF CpuInv, CpuKept, Walking
  <2>4. CpuValue'
    BY <2>1 DEF CpuInv, CpuValue, CpuCurrent, Walking
  <2>5. QED
    BY <2>2, <2>3, <2>4 DEF CpuInv
<1>2. CASE layer[1] # "encoder"
  <2>1. Cpu!LeaveLayer
    BY <1>2 DEF Cpu!AfterPostOp
  <2>2. CpuWalk' /\ pc' \in Walking /\ CpuCurrent' = Behind(image, layer)
        /\ Pushed(layer') = Pushed(layer)
    BY <1>2, <2>1, LeaveLayerCpu DEF Pushed
  <2>3. CpuKept'
    BY <2>2, KeepKept DEF CpuInv, CpuKept, Walking
  <2>4. CpuValue'
    BY <2>2 DEF CpuInv, CpuValue, Walking
  <2>5. QED
    BY <2>2, <2>3, <2>4 DEF CpuInv
<1>3. QED
  BY <1>1, <1>2

LEMMA PostOpCpuInv ==
  ASSUME UNet, SixEncoderLayers, CpuInv, Cpu!MaxPool \/ Cpu!NnUpsample \/ Cpu!NoPostOp, ~Cpu!Throw
  PROVE  CpuInv'
<1> DEFINE y == LayerAt(layer)
           t == Within(image, layer, NumConvs(y))
<1>1. /\ pc = "layer" /\ conv = NumConvs(y) /\ Cpu!AfterPostOp
      /\ UNCHANGED <<image, original, encodeOutputs, outputImg>>
  BY SameWalk DEF Cpu!MaxPool, Cpu!NnUpsample, Cpu!NoPostOp, Cpu!AtPostOp
<1>2. /\ layer \in LayerNames /\ Behind(image, layer) = PostOperated(y.post, t)
      /\ y.post \in {"MAX_POOL", "NN_UPSAMPLE", "NONE"}
  BY ThroughLayer, LevelTypes DEF CpuInv, CpuWalk, InLayer
<1>3. Cpu!Input = t /\ input = t /\ shape = ShapeOf(t)
  BY <1>1, InputIs DEF CpuCurrent, Current, CpuInv, CpuValue, Walking
<1> HIDE DEF t
<1>4. input' = PostOperated(y.post, t) /\ shape' = ShapeOf(PostOperated(y.post, t))
  <2>1. CASE Cpu!MaxPool
    <3>1. /\ y.post = "MAX_POOL" /\ input' = Pooled(t)
          /\ shape' = Shape(shape.h \div 2, shape.w \div 2, shape.c)
      BY <1>3, <2>1, SameTensors, SameWalk DEF Cpu!MaxPool, Cpu!AtPostOp
    <3>2. QED
      BY <1>3, <3>1 DEF PostOperated, Pooled, ShapeOf, Shape, Tensor
  <2>2. CASE Cpu!NnUpsample
    <3>1. /\ y.post = "NN_UPSAMPLE" /\ input' = Upsampled(t)
          /\ shape' = Shape(shape.h * 2, shape.w * 2, shape.c)
      BY <1>3, <2>2, SameTensors, SameWalk DEF Cpu!NnUpsample, Cpu!AtPostOp
    <3>2. QED
      BY <1>3, <3>1 DEF PostOperated, Upsampled, ShapeOf, Shape, Tensor
  <2>3. CASE Cpu!NoPostOp
    <3>1. y.post = "NONE" /\ UNCHANGED <<input, shape>>
      BY <1>2, <2>3, SameWalk DEF Cpu!NoPostOp
    <3>2. QED
      BY <1>3, <3>1 DEF PostOperated
  <2>4. QED
    BY <2>1, <2>2, <2>3
<1>5. QED
  BY <1>1, <1>2, <1>4, AfterPostOpCpu

(* The output of layer l is element l + 1 of encode_outputs.               *)
LEMMA SaveOutputCpuInv ==
  ASSUME UNet, SixEncoderLayers, CpuInv, Cpu!SaveOutput, ~Cpu!Throw
  PROVE  CpuInv'
<1> DEFINE l == layer[2]
           t == Behind(image, layer)
<1>1. /\ pc = "save" /\ encodeOutputs' = Append(encodeOutputs, Cpu!Input) /\ Cpu!LeaveLayer
      /\ UNCHANGED <<image, shape, input, original, outputImg>>
  BY DEF Cpu!SaveOutput
<1>2. layer[1] = "encoder" /\ l \in 0 .. EncoderLayers - 1 /\ l \in Nat
  BY <1>1, LayerNamed DEF CpuInv, CpuWalk, InLayer
<1>3. Cpu!Input = t /\ input = t /\ shape = ShapeOf(t)
  BY <1>1, InputIs DEF CpuCurrent, CpuInv, CpuValue, Walking
<1>4. t = Encoded(image)[l + 1]
  BY <1>2 DEF Behind
<1>5. CpuWalk' /\ pc' \in Walking /\ CpuCurrent' = t /\ Pushed(layer') = l + 1
  BY <1>1, <1>2, LeaveLayerCpu
<1> HIDE DEF t
<1>6. CpuKept'
  <2>1. /\ encodeOutputs \in Seq(Elements(encodeOutputs)) /\ Len(encodeOutputs) = l
        /\ \A i \in 1 .. l : encodeOutputs[i] = Encoded(image)[i]
        /\ original = Encoded(image)[0]
    BY <1>1, <1>2 DEF CpuInv, CpuKept, Pushed, Walking
  <2>2. /\ encodeOutputs' \in Seq(Elements(encodeOutputs'))
        /\ Len(encodeOutputs') = l + 1 /\ encodeOutputs'[l + 1] = t
        /\ \A i \in 1 .. l : encodeOutputs'[i] = encodeOutputs[i]
    BY <1>1, <1>3, <2>1, AppendElements, AppendProperties
  <2>3. \A i \in 1 .. l + 1 : encodeOutputs'[i] = Encoded(image)[i]
    BY <1>2, <1>4, <2>1, <2>2
  <2>4. QED
    BY <1>1, <1>5, <2>1, <2>2, <2>3 DEF CpuKept
<1>7. CpuValue'
  BY <1>1, <1>3, <1>5 DEF CpuInv, CpuValue, Walking
<1>8. QED
  BY <1>5, <1>6, <1>7 DEF CpuInv


(* The saved tensor that skip_idx names has been pushed.                   *)
LEMMA SkipPushed ==
  ASSUME UNet, SixEncoderLayers, CpuInv, pc = "concat"
  PROVE  LET t == Entry(image, layer)
             s == Encoded(image)[SavedAt(skipIdx)]
         IN /\ skipIdx \in 0 .. FirstSkip /\ skipIdx = SkipAt(layer[2])
            /\ layer \in LayerNames /\ layer[1] = "decoder" /\ layer[2] \in Nat /\ conv = 0
            /\ shape = ShapeOf(t) /\ Cpu!Input = t
            /\ HasShape(s, t.h, t.w, SkipChannels(skipIdx))
            /\ Start(image, layer) = Concatenated(t, s)
            /\ IF skipIdx = 0 THEN s = original
               ELSE skipIdx + 1 \in 1 .. Len(encodeOutputs) /\ s = encodeOutputs[skipIdx + 1]
<1> DEFINE t == Entry(image, layer)
           s == Encoded(image)[SavedAt(skipIdx)]
<1>1. /\ layer \in LayerNames /\ layer[1] = "decoder" /\ skipIdx = SkipAt(layer[2]) /\ skipIdx >= 0
      /\ image \in ImageSizes /\ layer[2] \in Nat /\ skipIdx \in 0 .. FirstSkip /\ conv = 0
  BY LayerNamed, FirstSkipType DEF CpuInv, CpuWalk, InLayer, Position
<1>2. shape = ShapeOf(t) /\ Cpu!Input = t
  BY InputIs DEF CpuCurrent, Current, CpuInv, CpuValue, Walking
<1>3. HasShape(s, t.h, t.w, SkipChannels(skipIdx)) /\ Start(image, layer) = Concatenated(t, s)
  BY <1>1, SkipTensor
<1>4. IF skipIdx = 0 THEN s = original
      ELSE skipIdx + 1 \in 1 .. Len(encodeOutputs) /\ s = encodeOutputs[skipIdx + 1]
  <2>1. /\ Len(encodeOutputs) = EncoderLayers /\ original = Encoded(image)[0]
        /\ \A i \in 1 .. EncoderLayers : encodeOutputs[i] = Encoded(image)[i]
    BY <1>1 DEF CpuInv, CpuKept, Pushed, Walking
  <2>2. FirstSkip = 3 /\ EncoderLayers = 6
    BY SameFirstSkip DEF Cpu!FirstSkip, SixEncoderLayers
  <2>3. skipIdx # 0 => skipIdx + 1 \in 1 .. EncoderLayers /\ SavedAt(skipIdx) = skipIdx + 1
    BY <1>1, <2>2 DEF SavedAt
  <2>4. skipIdx = 0 => SavedAt(skipIdx) = 0
    BY DEF SavedAt
  <2>5. QED
    BY <2>1, <2>3, <2>4
<1>5. QED
  BY <1>1, <1>2, <1>3, <1>4

LEMMA ConcatCpuInv ==
  ASSUME UNet, SixEncoderLayers, CpuInv, Cpu!Concat, ~Cpu!Throw
  PROVE  CpuInv'
<1> DEFINE c2 == SkipChannels(skipIdx)
           t == Entry(image, layer)
           s == Encoded(image)[SavedAt(skipIdx)]
<1>1. /\ pc = "concat" /\ pc' = "layer" /\ skipIdx' = skipIdx - 1
      /\ input' = Concatenated(Cpu!Input,
                    View(IF skipIdx = 0 THEN original ELSE encodeOutputs[skipIdx + 1],
                         shape.h, shape.w, c2))
      /\ shape' = [shape EXCEPT !.c = @ + c2]
      /\ UNCHANGED <<image, layer, conv, original, encodeOutputs, outputImg>>
  BY SameTensors, SameWalk DEF Cpu!Concat
<1>2. /\ skipIdx \in 0 .. FirstSkip /\ skipIdx = SkipAt(layer[2])
      /\ layer \in LayerNames /\ layer[1] = "decoder" /\ layer[2] \in Nat /\ conv = 0
      /\ shape = ShapeOf(t) /\ Cpu!Input = t /\ HasShape(s, t.h, t.w, c2)
      /\ Start(image, layer) = Concatenated(t, s)
      /\ s = IF skipIdx = 0 THEN original ELSE encodeOutputs[skipIdx + 1]
  BY <1>1, SkipPushed
<1> HIDE DEF s, t, c2
<1>3. View(s, shape.h, shape.w, c2) = s
  BY <1>2 DEF View, HasShape, ShapeOf, Shape
<1>4. input' = Start(image, layer) /\ shape' = ShapeOf(Start(image, layer))
  BY <1>1, <1>2, <1>3 DEF HasShape, ShapeOf, Shape, Concatenated, Tensor
<1>5. Start(image, layer) = Within(image, layer, 0)
  BY <1>2, ThroughLayer
<1>6. CpuWalk'
  BY <1>1, <1>2, SkipAtSteps, FirstSkipType
     DEF CpuInv, CpuWalk, InLayer, LayerAt, Position, CpuPlaces
<1>7. CpuKept'
  BY <1>1, KeepKept DEF CpuInv, CpuKept, Walking
<1>8. CpuValue'
  BY <1>1, <1>2, <1>4, <1>5 DEF CpuInv, CpuValue, CpuCurrent, Current, Walking
<1>9. QED
  BY <1>6, <1>7, <1>8 DEF CpuInv

LEMMA InverseCpuInv == CpuInv /\ Cpu!InverseTransfer /\ ~Cpu!Throw => CpuInv'
<1> SUFFICES ASSUME CpuInv, Cpu!InverseTransfer, ~Cpu!Throw PROVE CpuInv'
  OBVIOUS
<1>1. /\ pc = "inverse" /\ pc' = "returned" /\ outputImg' = Inverted(Cpu!Input, image)
      /\ UNCHANGED <<image, layer, conv, shape, input, original, encodeOutputs, skipIdx>>
  BY SameTensors DEF Cpu!InverseTransfer
<1>2. Cpu!Input = Decoded(image)[DecoderLayers]
  BY <1>1, InputIs DEF CpuCurrent, Current, Walking
<1>3. outputImg' = Denoised(image)
  BY <1>1, <1>2 DEF Denoised
<1>4. CpuWalk'
  BY <1>1 DEF CpuInv, CpuWalk, InLayer, LayerAt, Position, CpuPlaces
<1>5. CpuKept'
  BY <1>1, KeepKept DEF Walking
<1>6. CpuValue'
  BY <1>1, <1>3 DEF CpuInv, CpuValue, Walking
<1>7. QED
  BY <1>4, <1>5, <1>6 DEF CpuInv

LEMMA StepCpuInv == UNet /\ SixEncoderLayers /\ CpuInv /\ [Cpu!Next]_(Cpu!vars) => CpuInv'
<1> SUFFICES ASSUME UNet, SixEncoderLayers, CpuInv, [Cpu!Next]_(Cpu!vars) PROVE CpuInv'
  OBVIOUS
<1>1. CASE Cpu!Step /\ Cpu!Throw
  <2>1. pc # "returned"
    BY <1>1 DEF Cpu!Step, Cpu!Transfer, Cpu!KeepOriginal, Cpu!Convolve, Cpu!MaxPool, Cpu!NnUpsample,
       Cpu!NoPostOp, Cpu!AtPostOp, Cpu!SaveOutput, Cpu!Concat, Cpu!InverseTransfer
  <2>2. QED
    BY <1>1, <2>1, ThrowCpuInv
<1>2. CASE Cpu!Step /\ ~Cpu!Throw
  BY <1>2, TransferCpuInv, KeepOriginalCpuInv, ConvolveCpuInv, PostOpCpuInv, SaveOutputCpuInv,
     ConcatCpuInv, InverseCpuInv DEF Cpu!Step
<1>3. CASE Cpu!Over \/ UNCHANGED Cpu!vars
  <2>1. UNCHANGED <<image, pc, layer, conv, shape, input, original, encodeOutputs, skipIdx,
                    outputImg>>
    BY <1>3 DEF Cpu!Over, Cpu!vars
  <2>2. CpuWalk'
    BY <2>1 DEF CpuInv, CpuWalk, InLayer, LayerAt, Position, SavesOutput
  <2>3. CpuKept'
    BY <2>1 DEF CpuInv, CpuKept
  <2>4. CpuValue'
    BY <2>1 DEF CpuInv, CpuValue, CpuCurrent
  <2>5. QED
    BY <2>2, <2>3, <2>4 DEF CpuInv
<1>4. QED
  BY <1>1, <1>2, <1>3 DEF Cpu!Next

LEMMA CpuInvHolds ==
  ASSUME UNet, SixEncoderLayers
  PROVE  Cpu!Spec => []CpuInv
  BY InitCpuInv, StepCpuInv, PTL DEF Cpu!Spec

(* oidn_unet reads a saved tensor only when the encoder has pushed it, and *)
(* with the height and width that it has, although it numbers the saved    *)
(* tensors otherwise than oidn_unet_cuda.                                  *)
THEOREM CpuSkipsMatch ==
  ASSUME UNet, SixEncoderLayers
  PROVE  Cpu!Spec => []Cpu!SkipsMatch
<1>1. CpuInv => Cpu!SkipsMatch
  <2> SUFFICES ASSUME CpuInv, pc = "concat", skipIdx > 0 PROVE Cpu!SkipsMatch
    BY DEF Cpu!SkipsMatch
  <2> DEFINE t == Entry(image, layer)
             s == Encoded(image)[SavedAt(skipIdx)]
  <2>1. /\ skipIdx \in 0 .. FirstSkip /\ skipIdx + 1 \in 1 .. Len(encodeOutputs)
        /\ shape = ShapeOf(t) /\ s = encodeOutputs[skipIdx + 1]
        /\ HasShape(s, t.h, t.w, SkipChannels(skipIdx))
    BY SkipPushed
  <2> HIDE DEF s, t
  <2>2. s.h = shape.h /\ s.w = shape.w
    BY <2>1 DEF HasShape, ShapeOf, Shape
  <2>3. Len(encodeOutputs) \in Nat
    BY DEF CpuInv, CpuKept
  <2>4. skipIdx < Len(encodeOutputs)
    BY <2>1, <2>3, FirstSkipType
  <2>5. QED
    BY <2>1, <2>2, <2>4 DEF Cpu!SkipsMatch
<1>2. QED
  BY <1>1, CpuInvHolds, PTL

(* Every convolution of oidn_unet gets a tensor of the width it was        *)
(* trained for, if the widths add up.                                      *)
THEOREM CpuWidthsAgree ==
  ASSUME UNet, SixEncoderLayers, WidthsAddUp
  PROVE  Cpu!Spec => []Cpu!ChannelsAgree
<1>1. CpuInv => Cpu!ChannelsAgree
  <2> SUFFICES ASSUME CpuInv, pc = "layer", conv < NumConvs(LayerAt(layer))
               PROVE  shape.c = LayerAt(layer).in[conv + 1]
    BY SameWalk DEF Cpu!ChannelsAgree, Cpu!AtConvolution
  <2>1. /\ layer \in LayerNames /\ conv \in 0 .. NumConvs(LayerAt(layer)) - 1
        /\ image \in ImageSizes
    BY LayerNamed DEF CpuInv, CpuWalk, InLayer
  <2>2. shape = ShapeOf(Within(image, layer, conv))
    BY DEF CpuInv, CpuValue, CpuCurrent, Current, Walking
  <2>3. QED
    BY <2>1, <2>2, WidthTrainedFor DEF ShapeOf, Shape
<1>2. QED
  BY <1>1, CpuInvHolds, PTL

(* oidn_unet does what Denoise promises, whichever of its allocations      *)
(* fails: so both targets hand over the same image.                        *)
THEOREM CpuImplements ==
  ASSUME UNet, SixEncoderLayers
  PROVE  Cpu!Spec => Cpu!ImplementsDenoise
<1>1. Cpu!Init => Cpu!Abstract!Init
  BY DEF Cpu!Init, Cpu!Abstract!Init, Cpu!Ended
<1>2. CpuInv /\ CpuInv' /\ [Cpu!Next]_(Cpu!vars) => [Cpu!Abstract!Next]_(Cpu!Abstract!vars)
  <2> SUFFICES ASSUME CpuInv, CpuInv', [Cpu!Next]_(Cpu!vars)
               PROVE  [Cpu!Abstract!Next]_(Cpu!Abstract!vars)
    OBVIOUS
  <2>1. CASE Cpu!Step
    <3>1. image' = image /\ pc \notin Cpu!Ended
      BY <2>1 DEF Cpu!Step, Cpu!Transfer, Cpu!KeepOriginal, Cpu!Convolve, Cpu!MaxPool,
         Cpu!NnUpsample, Cpu!NoPostOp, Cpu!AtPostOp, Cpu!SaveOutput, Cpu!Concat,
         Cpu!InverseTransfer, Cpu!Throw, Cpu!Ended
    <3>2. /\ outputImg = NoOutput
          /\ outputImg' = IF pc' = "returned" THEN Denoised(image) ELSE NoOutput
      BY <3>1 DEF CpuInv, CpuValue, Cpu!Ended
    <3>3. CASE pc' = "returned"
      BY <3>1, <3>2, <3>3, SameDenoised
         DEF Cpu!Abstract!Next, Cpu!Abstract!Return, Cpu!Ended
    <3>4. CASE pc' = "threw"
      BY <3>1, <3>2, <3>4 DEF Cpu!Abstract!Next, Cpu!Abstract!Fail, Cpu!Ended
    <3>5. CASE pc' \notin {"returned", "threw"}
      BY <3>1, <3>2, <3>5 DEF Cpu!Abstract!vars, Cpu!Ended
    <3>6. QED
      BY <3>3, <3>4, <3>5
  <2>2. CASE Cpu!Over \/ UNCHANGED Cpu!vars
    BY <2>2 DEF Cpu!Over, Cpu!vars, Cpu!Abstract!vars
  <2>3. QED
    BY <2>1, <2>2 DEF Cpu!Next
<1>3. QED
  BY <1>1, <1>2, CpuInvHolds, PTL DEF Cpu!Spec, Cpu!ImplementsDenoise, Cpu!Abstract!Spec

-----------------------------------------------------------------------------
(* conv_autotune, which walks over the network to find its convolutions.   *)

CONSTANTS XyVals, ZVals, Tiles, Times, Infinity, MaxThreads, SharedDefault, SharedOptin
VARIABLES place, specs, results, trial, measured

Tuner == INSTANCE Autotune WITH at <- place

(* Once more the network is the same one.                                  *)
LEMMA SameInTuner ==
  /\ \A half, l : Tuner!LayerAt(half, l) = LayerAt(<<half, l>>)
  /\ \A half : Tuner!LayerCount(half) = LayerCount(half)
  /\ \A y : Tuner!NumConvs(y) = NumConvs(y)
  /\ \A y, i : Tuner!OutChannels(y, i) = OutChannels(y, i)
  /\ \A idx : Tuner!SkipChannels(idx) = SkipChannels(idx)
  /\ \A h, w, c : Tuner!Shape(h, w, c) = Shape(h, w, c)
  /\ \A n : Tuner!Padded(n) = Padded(n)
  /\ Tuner!EncoderLayers = EncoderLayers /\ Tuner!DecoderLayers = DecoderLayers
  /\ Tuner!FirstSkip = FirstSkip
<1>1. Tuner!EncoderLayers = EncoderLayers /\ Tuner!DecoderLayers = DecoderLayers
  BY DEF Tuner!EncoderLayers, EncoderLayers, Tuner!DecoderLayers, DecoderLayers,
     Tuner!Cardinality, Cardinality
<1>2. /\ \A half, l : Tuner!LayerAt(half, l) = LayerAt(<<half, l>>)
      /\ \A half : Tuner!LayerCount(half) = LayerCount(half)
  BY <1>1 DEF Tuner!LayerAt, LayerAt, Tuner!LayerCount, LayerCount
<1>3. /\ \A y : Tuner!NumConvs(y) = NumConvs(y)
      /\ \A y, i : Tuner!OutChannels(y, i) = OutChannels(y, i)
      /\ \A idx : Tuner!SkipChannels(idx) = SkipChannels(idx)
  BY DEF Tuner!NumConvs, NumConvs, Tuner!OutChannels, OutChannels,
     Tuner!SkipChannels, SkipChannels
<1>4. /\ \A h, w, c : Tuner!Shape(h, w, c) = Shape(h, w, c)
      /\ \A n : Tuner!Padded(n) = Padded(n)
  BY DEF Tuner!Shape, Shape, Tuner!Padded, Padded, Tuner!Alignment, Alignment
<1>5. Tuner!FirstSkip = FirstSkip
  BY <1>1, LayerFacts, FirstSkipIs DEF Tuner!FirstSkip
<1>6. QED
  BY <1>1, <1>2, <1>3, <1>4, <1>5

LEMMA SameTensorsInTuner ==
  /\ \A size : Tuner!Transferred(Tuner!Raw(size)) = Transferred(Raw(size))
  /\ \A half, l, y, t : Tuner!Convolutions(half, l, y, t) = Convolutions(half, l, y, t)
  /\ \A half, l, y, t : Tuner!LayerOutput(half, l, y, t) = LayerOutput(half, l, y, t)
  /\ \A y, e, t : Tuner!Joined(y, e, t) = Joined(y, e, t)
<1> USE DEF Tuner!Tensor, Tensor
<1>1. \A size : Tuner!Transferred(Tuner!Raw(size)) = Transferred(Raw(size))
  BY SameInTuner DEF Tuner!Transferred, Transferred, Tuner!Raw, Raw
<1>2. \A half, l, y, t : Tuner!Convolutions(half, l, y, t) = Convolutions(half, l, y, t)
  BY DEF Tuner!Convolutions, Convolutions, Tuner!Convolved, Convolved, Tuner!NumConvs, NumConvs
<1>3. \A half, l, y, t : Tuner!LayerOutput(half, l, y, t) = LayerOutput(half, l, y, t)
  BY DEF Tuner!LayerOutput, LayerOutput, Tuner!Convolutions, Convolutions,
     Tuner!Convolved, Convolved, Tuner!PostOperated, PostOperated, Tuner!Pooled, Pooled,
     Tuner!Averaged, Averaged, Tuner!Upsampled, Upsampled, Tuner!NumConvs, NumConvs
<1>4. \A y, e, t : Tuner!Joined(y, e, t) = Joined(y, e, t)
  BY DEF Tuner!Joined, Joined, Tuner!Saved, Saved, Tuner!SavedAt, SavedAt,
     Tuner!Concatenated, Concatenated
<1>5. QED
  BY <1>1, <1>2, <1>3, <1>4

LEMMA SameBetween ==
  \A size, half, l :
    Tuner!Between(size, half, l)
      = Convolutions(half, l, LayerAt(<<half, l>>), Start(size, <<half, l>>))
<1> TAKE size, half, l
<1> DEFINE encoder(f) == [k \in 0 .. EncoderLayers |->
                            IF k = 0 THEN Transferred(Raw(size))
                            ELSE LayerOutput("encoder", k - 1, Encoder[k - 1], f[k - 1])]
           decoder(f) == [k \in 0 .. DecoderLayers |->
                            IF k = 0 THEN Encoded(size)[EncoderLayers]
                            ELSE LayerOutput("decoder", k - 1, Decoder[k - 1],
                                             Joined(Decoder[k - 1], Encoded(size), f[k - 1]))]
<1>1. Encoded(size) = CHOOSE f : f = encoder(f)
  BY DEF Encoded
<1>2. Decoded(size) = CHOOSE f : f = decoder(f)
  BY DEF Decoded
<1>3. Tuner!Encoded(size) = Encoded(size)
  <2> DEFINE other(f) == [k \in 0 .. Tuner!EncoderLayers |->
                            IF k = 0 THEN Tuner!Transferred(Tuner!Raw(size))
                            ELSE Tuner!LayerOutput("encoder", k - 1, Encoder[k - 1], f[k - 1])]
  <2>1. Tuner!Encoded(size) = CHOOSE f : f = other(f)
    BY DEF Tuner!Encoded
  <2>2. \A f : other(f) = encoder(f)
    BY SameTensorsInTuner, SameInTuner
  <2> HIDE DEF other, encoder
  <2>3. QED
    BY <1>1, <2>1, <2>2
<1>4. Tuner!Decoded(size) = Decoded(size)
  <2> DEFINE other(f) ==
        [k \in 0 .. Tuner!DecoderLayers |->
           IF k = 0 THEN Tuner!Encoded(size)[Tuner!EncoderLayers]
           ELSE Tuner!LayerOutput("decoder", k - 1, Decoder[k - 1],
                                  Tuner!Joined(Decoder[k - 1], Tuner!Encoded(size), f[k - 1]))]
  <2>1. Tuner!Decoded(size) = CHOOSE f : f = other(f)
    BY DEF Tuner!Decoded
  <2>2. \A f : other(f) = decoder(f)
    BY <1>3, SameTensorsInTuner, SameInTuner
  <2> HIDE DEF other, decoder
  <2>3. QED
    BY <1>2, <2>1, <2>2
<1>5. QED
  BY <1>3, <1>4, SameTensorsInTuner, SameInTuner DEF Tuner!Between, Start

-----------------------------------------------------------------------------
(* Its recursive functions exist.                                          *)

IsSums(e, n, b, s) == e = [l \in 0 .. n |-> IF l = 0 THEN b ELSE e[l - 1] + s[l]]

LEMMA SumsExist ==
  ASSUME NEW n \in Nat, NEW b \in Nat, NEW s, \A i \in 1 .. n : s[i] \in Nat
  PROVE  \E e : IsSums(e, n, b, s)
<1> DEFINE op == [i \in 1 .. n |-> [u \in Nat |-> u + s[i]]]
<1>1. \A i \in 1 .. n : \A u \in Nat : op[i][u] = u + s[i] /\ op[i][u] \in Nat
  OBVIOUS
<1> HIDE DEF op
<1>2. HasSteps(n, Nat, b, op)
  BY <1>1, StepsExist
<1>3. PICK e : /\ e \in [0 .. n -> Nat] /\ e[0] = b
               /\ \A i \in 1 .. n : e[i] = op[i][e[i - 1]]
  BY <1>2 DEF HasSteps
<1>4. \A l \in 0 .. n : e[l] = IF l = 0 THEN b ELSE e[l - 1] + s[l]
  <2> TAKE l \in 0 .. n
  <2>1. CASE l = 0
    BY <1>3, <2>1
  <2>2. CASE l # 0
    <3>1. l \in 1 .. n /\ l - 1 \in 0 .. n
      BY <2>2
    <3>2. e[l - 1] \in Nat /\ e[l] = op[l][e[l - 1]]
      BY <1>3, <3>1
    <3>3. QED
      BY <1>1, <2>2, <3>1, <3>2
  <2>3. QED
    BY <2>1, <2>2
<1>5. e = [l \in 0 .. n |-> IF l = 0 THEN b ELSE e[l - 1] + s[l]]
  BY <1>3, <1>4
<1>6. QED
  BY <1>5 DEF IsSums

(* A function with such an equation is a sum.                              *)
LEMMA SumsAreNumbers ==
  ASSUME NEW n \in Nat, NEW b \in Nat, NEW s, \A i \in 1 .. n : s[i] \in Nat,
         NEW f, IsSums(f, n, b, s)
  PROVE  /\ f[0] = b
         /\ \A l \in 0 .. n - 1 : f[l + 1] = f[l] + s[l + 1]
         /\ \A l \in 0 .. n : f[l] \in Nat
<1>0. f = [l \in 0 .. n |-> IF l = 0 THEN b ELSE f[l - 1] + s[l]]
  BY DEF IsSums
<1>1. f[0] = b
  BY <1>0
<1>2. \A l \in 0 .. n - 1 : f[l + 1] = f[l] + s[l + 1]
  <2> TAKE l \in 0 .. n - 1
  <2>1. l + 1 \in 0 .. n /\ l + 1 # 0 /\ (l + 1) - 1 = l
    OBVIOUS
  <2>2. \A k \in 0 .. n : f[k] = IF k = 0 THEN b ELSE f[k - 1] + s[k]
    BY <1>0
  <2>3. f[l + 1] = f[(l + 1) - 1] + s[l + 1]
    BY <2>1, <2>2
  <2>4. QED
    BY <2>1, <2>3
<1> DEFINE S == {l \in 0 .. n : f[l] \in Nat}
<1>3. 0 \in S
  BY <1>1
<1>4. \A l \in 0 .. n - 1 : l \in S => l + 1 \in S
  BY <1>2
<1>5. 0 .. n \subseteq S
  <2> HIDE DEF S
  <2>1. QED
    BY <1>3, <1>4, InductionUpTo
<1>6. QED
  BY <1>1, <1>2, <1>5

LEMMA ConvsBeforeIs ==
  /\ Tuner!ConvsBefore("encoder", 0) = 0
  /\ Tuner!ConvsBefore("decoder", 0) = Tuner!ConvsBefore("encoder", EncoderLayers)
  /\ \A at \in LayerNames :
       /\ Tuner!ConvsBefore(at[1], at[2]) \in Nat
       /\ Tuner!ConvsBefore(at[1], at[2] + 1)
            = Tuner!ConvsBefore(at[1], at[2]) + NumConvs(LayerAt(at))
<1> DEFINE E == EncoderLayers
           D == DecoderLayers
           f == Tuner!EncoderConvs
           g == Tuner!DecoderConvs
           s == [l \in 1 .. E |-> NumConvs(Encoder[l - 1])]
           t == [l \in 1 .. D |-> NumConvs(Decoder[l - 1])]
<1>1. /\ E \in Nat /\ D \in Nat /\ Tuner!EncoderLayers = E /\ Tuner!DecoderLayers = D
      /\ \A y : Tuner!NumConvs(y) = NumConvs(y)
  BY LayerFacts, SameInTuner
<1>2. \A l \in 1 .. E : s[l] = NumConvs(Encoder[l - 1]) /\ s[l] \in Nat
  BY NetworkShape, LayerFactsOf
<1>3. \A l \in 1 .. D : t[l] = NumConvs(Decoder[l - 1]) /\ t[l] \in Nat
  BY NetworkShape, LayerFactsOf
<1> HIDE DEF s, t, E, D
<1>4. IsSums(f, E, 0, s)
  <2> DEFINE of(e) == [l \in 0 .. E |-> IF l = 0 THEN 0 ELSE e[l - 1] + NumConvs(Encoder[l - 1])]
  <2>1. \E e : IsSums(e, E, 0, s)
    BY <1>1, <1>2, SumsExist
  <2>2. \A e : IsSums(e, E, 0, s) <=> e = of(e)
    BY <1>1, <1>2 DEF IsSums
  <2>3. f = CHOOSE e : e = of(e)
    BY <1>1 DEF Tuner!EncoderConvs
  <2> HIDE DEF f, of
  <2>4. QED
    BY <2>1, <2>2, <2>3
<1> HIDE DEF f
<1>5. /\ f[0] = 0
      /\ \A l \in 0 .. E - 1 : f[l + 1] = f[l] + s[l + 1]
      /\ \A l \in 0 .. E : f[l] \in Nat
  BY <1>1, <1>2, <1>4, SumsAreNumbers
<1>6. IsSums(g, D, f[E], t)
  <2> DEFINE of(e) == [l \in 0 .. D |-> IF l = 0 THEN f[E]
                                        ELSE e[l - 1] + NumConvs(Decoder[l - 1])]
  <2>0. f[E] \in Nat
    BY <1>1, <1>5
  <2>1. \E e : IsSums(e, D, f[E], t)
    BY <1>1, <1>3, <2>0, SumsExist
  <2>2. \A e : IsSums(e, D, f[E], t) <=> e = of(e)
    BY <1>1, <1>3 DEF IsSums
  <2>3. g = CHOOSE e : e = of(e)
    BY <1>1 DEF Tuner!DecoderConvs, f
  <2> HIDE DEF g, of
  <2>4. QED
    BY <2>1, <2>2, <2>3
<1> HIDE DEF g
<1>7. /\ g[0] = f[E]
      /\ \A l \in 0 .. D - 1 : g[l + 1] = g[l] + t[l + 1]
      /\ \A l \in 0 .. D : g[l] \in Nat
  <2>1. f[E] \in Nat
    BY <1>1, <1>5
  <2>2. QED
    BY <1>1, <1>3, <1>6, <2>1, SumsAreNumbers
<1>8. /\ \A l : Tuner!ConvsBefore("encoder", l) = f[l]
      /\ \A half, l : half # "encoder" => Tuner!ConvsBefore(half, l) = g[l]
  BY DEF Tuner!ConvsBefore, f, g
<1>9. ASSUME NEW at \in LayerNames
      PROVE  /\ Tuner!ConvsBefore(at[1], at[2]) \in Nat
             /\ Tuner!ConvsBefore(at[1], at[2] + 1)
                  = Tuner!ConvsBefore(at[1], at[2]) + NumConvs(LayerAt(at))
  <2>1. CASE at[1] = "encoder"
    <3>1. /\ at[2] \in 0 .. E - 1 /\ at[2] \in 0 .. E /\ LayerAt(at) = Encoder[at[2]]
          /\ at[2] + 1 \in 1 .. E /\ (at[2] + 1) - 1 = at[2]
      BY <1>1, <2>1, LayerNamed DEF E
    <3>2. s[at[2] + 1] = NumConvs(LayerAt(at))
      BY <1>2, <3>1
    <3>3. QED
      BY <1>5, <1>8, <2>1, <3>1, <3>2
  <2>2. CASE at[1] # "encoder"
    <3>1. /\ at[2] \in 0 .. D - 1 /\ at[2] \in 0 .. D /\ LayerAt(at) = Decoder[at[2]]
          /\ at[2] + 1 \in 1 .. D /\ (at[2] + 1) - 1 = at[2]
      BY <1>1, <2>2, LayerNamed DEF D
    <3>2. t[at[2] + 1] = NumConvs(LayerAt(at))
      BY <1>3, <3>1
    <3>3. QED
      BY <1>7, <1>8, <2>2, <3>1, <3>2
  <2>3. QED
    BY <2>1, <2>2
<1>10. QED
  BY <1>5, <1>7, <1>8, <1>9 DEF E

-----------------------------------------------------------------------------
(* The walk.  Each convolution of the network that the walk has reached is *)
(* in specs, at the number that it has in the network, and nothing else is.*)

Convs(at) == 0 .. NumConvs(LayerAt(at)) - 1
Number(at, c) == Tuner!ConvsBefore(at[1], at[2]) + c + 1
Here == <<place[1], place[2]>>

TunerWalk ==
  /\ image \in ImageSizes
  /\ pc \in {"collect", "allocate", "tune", "done", "exited"}
  /\ Here \in LayerNames /\ place[3] \in 0 .. NumConvs(LayerAt(Here))
  /\ place = <<place[1], place[2], place[3]>>
  /\ specs \in Seq(Elements(specs))
  /\ pc # "collect" =>
       Here = <<"decoder", DecoderLayers - 1>> /\ place[3] = NumConvs(LayerAt(Here))

Reached(at, c) == Precedes(at, Here) \/ (at = Here /\ c < place[3])

FoundInv ==
  /\ Len(specs) = Tuner!ConvsBefore(place[1], place[2]) + place[3]
  /\ \A at \in LayerNames : \A c \in Convs(at) : Reached(at, c) =>
       Number(at, c) \in 1 .. Len(specs) /\ specs[Number(at, c)].id = <<at[1], at[2], c>>
  /\ \A n \in 1 .. Len(specs) : \E at \in LayerNames : \E c \in Convs(at) :
       n = Number(at, c) /\ specs[n].id = <<at[1], at[2], c>>

(* From one layer to the next.                                             *)
Follows(next, at) ==
  \/ next = <<at[1], at[2] + 1>>
  \/ at = <<"encoder", EncoderLayers - 1>> /\ next = <<"decoder", 0>>

LEMMA FollowsIs ==
  ASSUME NEW at \in LayerNames, NEW next \in LayerNames, Follows(next, at)
  PROVE  /\ \A b \in LayerNames : Precedes(b, next) => Precedes(b, at) \/ b = at
         /\ Tuner!ConvsBefore(next[1], next[2])
              = Tuner!ConvsBefore(at[1], at[2]) + NumConvs(LayerAt(at))
         /\ \A size : Behind(size, at) = Entry(size, next)
<1>1. /\ at = <<at[1], at[2]>> /\ at[2] \in Nat
      /\ \/ at[1] = "encoder" /\ at[2] \in 0 .. EncoderLayers - 1
         \/ at[1] = "decoder" /\ at[2] \in 0 .. DecoderLayers - 1
  BY LayerNamed
<1>2. Tuner!ConvsBefore(at[1], at[2] + 1)
        = Tuner!ConvsBefore(at[1], at[2]) + NumConvs(LayerAt(at))
  BY ConvsBeforeIs
<1>3. \A size : Behind(size, at) = Entry(size, <<at[1], at[2] + 1>>)
  BY BetweenLayers
<1>4. \A b \in LayerNames : Precedes(b, next) => Precedes(b, at) \/ b = at
  <2> SUFFICES ASSUME NEW b \in LayerNames, Precedes(b, next), b # at PROVE Precedes(b, at)
    OBVIOUS
  <2>1. /\ b = <<b[1], b[2]>> /\ b[2] \in Nat
        /\ \/ b[1] = "encoder" /\ b[2] \in 0 .. EncoderLayers - 1
           \/ b[1] = "decoder" /\ b[2] \in 0 .. DecoderLayers - 1
    BY LayerNamed
  <2>2. CASE next = <<at[1], at[2] + 1>>
    BY <1>1, <2>1, <2>2 DEF Precedes
  <2>3. CASE at = <<"encoder", EncoderLayers - 1>> /\ next = <<"decoder", 0>>
    BY <1>1, <2>1, <2>3, LayerFacts DEF Precedes
  <2>4. QED
    BY <2>2, <2>3 DEF Follows
<1>5. CASE next = <<at[1], at[2] + 1>>
  BY <1>2, <1>3, <1>4, <1>5
<1>6. CASE at = <<"encoder", EncoderLayers - 1>> /\ next = <<"decoder", 0>>
  <2>1. at[1] = "encoder" /\ at[2] + 1 = EncoderLayers /\ next[1] = "decoder" /\ next[2] = 0
    BY <1>6, LayerFacts
  <2>2. Tuner!ConvsBefore(next[1], next[2]) = Tuner!ConvsBefore(at[1], at[2] + 1)
    BY <2>1, ConvsBeforeIs
  <2>3. \A size : Entry(size, next) = Entry(size, <<at[1], at[2] + 1>>)
    BY <1>6, <2>1, BetweenLayers
  <2>4. QED
    BY <1>2, <1>3, <1>4, <2>2, <2>3
<1>7. QED
  BY <1>5, <1>6 DEF Follows

(* What a turn of the loops does: a convolution, the way to the next       *)
(* layer, or the end.                                                      *)
Found ==
  LET y == LayerAt(Here)
  IN /\ place[3] \in Convs(Here)
     /\ specs' = Append(specs, [id |-> place, h |-> shape.h, w |-> shape.w, inC |-> shape.c,
                                outC |-> y.out[place[3] + 1]])
     /\ shape' = [shape EXCEPT !.c = y.out[place[3] + 1]]
     /\ place' = <<place[1], place[2], place[3] + 1>> /\ UNCHANGED <<pc, skipIdx>>
NextLayer(next) ==
  /\ place[3] = NumConvs(LayerAt(Here)) /\ Follows(next, Here)
  /\ UNCHANGED <<pc, specs>> /\ place' = <<next[1], next[2], 0>>
  /\ Tuner!EnterLayer(next[1], next[2], Tuner!AfterPostOp(LayerAt(Here).post, shape),
                      IF place[1] = next[1] THEN skipIdx ELSE FirstSkip)
WalkEnds ==
  /\ Here = <<"decoder", DecoderLayers - 1>> /\ place[3] = NumConvs(LayerAt(Here))
  /\ pc' = "allocate" /\ UNCHANGED <<specs, place, shape, skipIdx>>

LEMMA CollectIs ==
  ASSUME TunerWalk, Tuner!Collect
  PROVE  /\ pc = "collect" /\ UNCHANGED <<image, gpuFails, results, trial, measured>>
         /\ Found \/ (\E next \in LayerNames : NextLayer(next)) \/ WalkEnds
<1> DEFINE y == LayerAt(Here)
           after == Tuner!AfterPostOp(y.post, shape)
<1>1. /\ Tuner!LayerAt(place[1], place[2]) = y /\ Tuner!NumConvs(y) = NumConvs(y)
      /\ Tuner!OutChannels(y, place[3]) = y.out[place[3] + 1]
      /\ Tuner!LayerCount(place[1]) = LayerCount(place[1]) /\ Tuner!FirstSkip = FirstSkip
  BY SameInTuner DEF OutChannels, Here
<1>2. /\ Here \in LayerNames /\ Here[1] = place[1] /\ Here[2] = place[2]
      /\ place[3] \in 0 .. NumConvs(y) /\ NumConvs(y) \in Nat \ {0}
      /\ place = <<place[1], place[2], place[3]>>
      /\ \/ place[1] = "encoder" /\ place[2] \in 0 .. EncoderLayers - 1
         \/ place[1] = "decoder" /\ place[2] \in 0 .. DecoderLayers - 1
  BY LayerNamed DEF TunerWalk, Here
<1> HIDE DEF y, after
<1>3. pc = "collect" /\ UNCHANGED <<image, gpuFails, results, trial, measured>>
  BY DEF Tuner!Collect, Tuner!given
<1>4. CASE place[3] < NumConvs(y)
  <2>1. /\ specs' = Append(specs, [id |-> place, h |-> shape.h, w |-> shape.w,
                                   inC |-> shape.c, outC |-> y.out[place[3] + 1]])
        /\ shape' = [shape EXCEPT !.c = y.out[place[3] + 1]]
        /\ place' = [place EXCEPT ![3] = @ + 1] /\ UNCHANGED <<pc, skipIdx>>
    BY <1>1, <1>4 DEF Tuner!Collect
  <2>2. [place EXCEPT ![3] = @ + 1] = <<place[1], place[2], place[3] + 1>>
    BY <1>2
  <2>3. place[3] \in Convs(Here)
    BY <1>2, <1>4 DEF Convs, y
  <2>4. Found
    BY <2>1, <2>2, <2>3 DEF Found, y
  <2>5. QED
    BY <1>3, <2>4
<1>5. CASE ~(place[3] < NumConvs(y)) /\ place[2] + 1 < LayerCount(place[1])
  <2> DEFINE next == <<place[1], place[2] + 1>>
  <2>1. UNCHANGED <<pc, specs>> /\ Tuner!EnterLayer(next[1], next[2], after, skipIdx)
    BY <1>1, <1>5 DEF Tuner!Collect, after, y
  <2>2. next \in LayerNames
    BY <1>2, <1>5, LayerFacts DEF LayerNames, LayerCount
  <2>3. place' = <<next[1], next[2], 0>> /\ place[3] = NumConvs(y) /\ Follows(next, Here)
    BY <1>2, <1>5, <2>1 DEF Tuner!EnterLayer, Follows
  <2>4. place[1] = next[1]
    OBVIOUS
  <2> HIDE DEF next
  <2>5. NextLayer(next)
    BY <2>1, <2>3, <2>4 DEF NextLayer, y, after
  <2>6. QED
    BY <1>3, <2>2, <2>5
<1>6. CASE /\ ~(place[3] < NumConvs(y)) /\ ~(place[2] + 1 < LayerCount(place[1]))
           /\ place[1] = "encoder"
  <2> DEFINE next == <<"decoder", 0>>
  <2>1. UNCHANGED <<pc, specs>> /\ Tuner!EnterLayer(next[1], next[2], after, FirstSkip)
    BY <1>1, <1>6 DEF Tuner!Collect, after, y
  <2>2. next \in LayerNames
    BY LayerFacts DEF LayerNames
  <2>3. place' = <<next[1], next[2], 0>> /\ place[3] = NumConvs(y)
    BY <1>2, <1>6, <2>1 DEF Tuner!EnterLayer
  <2>4. place[2] = EncoderLayers - 1
    BY <1>2, <1>6, LayerFacts DEF LayerCount
  <2>5. Follows(next, Here) /\ place[1] # next[1]
    BY <1>6, <2>4 DEF Follows, Here
  <2> HIDE DEF next
  <2>6. NextLayer(next)
    BY <2>1, <2>3, <2>5 DEF NextLayer, y, after
  <2>7. QED
    BY <1>3, <2>2, <2>6
<1>7. CASE /\ ~(place[3] < NumConvs(y)) /\ ~(place[2] + 1 < LayerCount(place[1]))
           /\ place[1] # "encoder"
  <2>1. pc' = "allocate" /\ UNCHANGED <<specs, place, shape, skipIdx>>
    BY <1>1, <1>7 DEF Tuner!Collect
  <2>2. Here = <<"decoder", DecoderLayers - 1>> /\ place[3] = NumConvs(y)
    BY <1>2, <1>7, LayerFacts DEF LayerCount, Here
  <2>3. QED
    BY <1>3, <2>1, <2>2 DEF WalkEnds, y
<1>8. QED
  BY <1>4, <1>5, <1>6, <1>7

(* The steps after the walk leave what it found.                           *)
LEMMA AfterWalk ==
  ASSUME Tuner!Allocate \/ Tuner!Measure \/ Tuner!Choose \/ Tuner!Finish
  PROVE  /\ UNCHANGED <<image, place, shape, skipIdx, specs>>
         /\ pc \in {"allocate", "tune"} /\ pc' \in {"tune", "done", "exited"}
  BY DEF Tuner!Allocate, Tuner!Measure, Tuner!Choose, Tuner!Finish, Tuner!Exit,
     Tuner!given, Tuner!walk

LEMMA InitTunerWalk == Tuner!Init => TunerWalk /\ FoundInv
<1> SUFFICES ASSUME Tuner!Init PROVE TunerWalk /\ FoundInv
  OBVIOUS
<1>1. /\ image \in ImageSizes /\ pc = "collect" /\ place = <<"encoder", 0, 0>> /\ specs = <<>>
      /\ Here = <<"encoder", 0>>
  BY DEF Tuner!Init, Here
<1>2. Here \in LayerNames /\ 0 \in 0 .. NumConvs(LayerAt(Here))
  BY <1>1, LayerFacts DEF LayerNames
<1>3. TunerWalk
  BY <1>1, <1>2 DEF TunerWalk, Elements
<1>4. \A at \in LayerNames : \A c \in Convs(at) : ~Reached(at, c)
  BY <1>1, LayerNamed DEF Reached, Precedes, Convs
<1>5. FoundInv
  BY <1>1, <1>4, ConvsBeforeIs DEF FoundInv
<1>6. QED
  BY <1>3, <1>5

LEMMA StepTunerWalk == TunerWalk /\ [Tuner!Next]_(Tuner!vars) => TunerWalk'
<1> SUFFICES ASSUME TunerWalk, [Tuner!Next]_(Tuner!vars) PROVE TunerWalk'
  OBVIOUS
<1>1. CASE Tuner!Collect
  <2>1. pc = "collect" /\ image' = image
    BY <1>1, CollectIs
  <2>2. CASE Found
    <3>1. /\ place' = <<place[1], place[2], place[3] + 1>> /\ place'[3] = place[3] + 1
          /\ Here' = Here /\ place[3] \in Convs(Here) /\ pc' = pc
      BY <2>2 DEF Found, Here
    <3>2. specs' \in Seq(Elements(specs'))
      BY <2>2, AppendElements DEF Found, TunerWalk
    <3>3. /\ LayerAt(Here)' = LayerAt(Here) /\ NumConvs(LayerAt(Here)) \in Nat
          /\ place[3] + 1 \in 0 .. NumConvs(LayerAt(Here))
      BY <3>1, LayerNamed DEF LayerAt, TunerWalk, Convs
    <3>4. QED
      BY <2>1, <3>1, <3>2, <3>3 DEF TunerWalk
  <2>3. ASSUME NEW next \in LayerNames, NextLayer(next) PROVE TunerWalk'
    <3>1. /\ place' = <<next[1], next[2], 0>> /\ Here' = <<next[1], next[2]>>
          /\ UNCHANGED <<pc, specs>>
      BY <2>3 DEF NextLayer, Here
    <3>2. next = <<next[1], next[2]>> /\ NumConvs(LayerAt(next)) \in Nat
      BY LayerNamed
    <3>3. 0 \in 0 .. NumConvs(LayerAt(next))
      BY <3>2
    <3>4. LayerAt(Here)' = LayerAt(next)
      BY <3>1, <3>2 DEF LayerAt
    <3>5. QED
      BY <2>1, <3>1, <3>2, <3>3, <3>4 DEF TunerWalk
  <2>4. CASE WalkEnds
    BY <2>1, <2>4 DEF WalkEnds, TunerWalk, Here, LayerAt
  <2>5. QED
    BY <1>1, <2>2, <2>3, <2>4, CollectIs
<1>2. CASE Tuner!Allocate \/ Tuner!Measure \/ Tuner!Choose \/ Tuner!Finish
  BY <1>2, AfterWalk DEF TunerWalk, Here, LayerAt
<1>3. CASE Tuner!Over \/ UNCHANGED Tuner!vars
  BY <1>3 DEF Tuner!Over, Tuner!vars, Tuner!given, Tuner!walk, TunerWalk, Here, LayerAt
<1>4. QED
  BY <1>1, <1>2, <1>3 DEF Tuner!Next

(* What is reached after a step was reached before it, or just found.      *)
LEMMA ReachedBefore ==
  ASSUME TunerWalk, FoundInv, Tuner!Collect,
         NEW at \in LayerNames, NEW c \in Convs(at), Reached(at, c)'
  PROVE  \/ Reached(at, c) /\ Number(at, c) \in 1 .. Len(specs)
            /\ Number(at, c) \in 1 .. Len(specs')
            /\ specs'[Number(at, c)] = specs[Number(at, c)]
         \/ at = Here /\ c = place[3] /\ Found /\ Number(at, c) = Len(specs) + 1
            /\ Number(at, c) \in 1 .. Len(specs')
            /\ specs'[Number(at, c)]
                 = [id |-> place, h |-> shape.h, w |-> shape.w, inC |-> shape.c,
                    outC |-> LayerAt(Here).out[place[3] + 1]]
<1>0. /\ Len(specs) \in Nat /\ Here \in LayerNames /\ c \in Int /\ place[3] \in Nat
      /\ Here[1] = place[1] /\ Here[2] = place[2]
  BY LayerNamed DEF TunerWalk, Convs, Here
<1>1. CASE Found
  <2>1. place' = <<place[1], place[2], place[3] + 1>> /\ Here' = Here /\ place'[3] = place[3] + 1
    BY <1>1 DEF Found, Here
  <2>2. Reached(at, c) \/ (at = Here /\ c = place[3])
    BY <1>0, <2>1 DEF Reached, Precedes
  <2> DEFINE x == [id |-> place, h |-> shape.h, w |-> shape.w, inC |-> shape.c,
                   outC |-> LayerAt(Here).out[place[3] + 1]]
  <2>3. specs' = Append(specs, x) /\ specs \in Seq(Elements(specs))
    BY <1>1 DEF Found, TunerWalk
  <2> HIDE DEF x
  <2>4. /\ Len(specs') = Len(specs) + 1 /\ specs'[Len(specs) + 1] = x
        /\ \A n \in 1 .. Len(specs) : specs'[n] = specs[n]
    BY <2>3
  <2>5. CASE Reached(at, c)
    BY <1>0, <2>4, <2>5 DEF FoundInv
  <2>6. CASE at = Here /\ c = place[3]
    <3>1. Number(at, c) = Len(specs) + 1
      BY <1>0, <2>6 DEF FoundInv, Number
    <3>2. QED
      BY <1>0, <1>1, <2>4, <2>6, <3>1 DEF x
  <2>7. QED
    BY <2>2, <2>5, <2>6
<1>2. CASE ~Found
  <2>1. UNCHANGED specs
    BY <1>2, CollectIs DEF NextLayer, WalkEnds
  <2>2. Reached(at, c)
    <3>1. ASSUME NEW next \in LayerNames, NextLayer(next) PROVE Reached(at, c)
      <4>1. /\ place' = <<next[1], next[2], 0>> /\ Here' = next /\ place'[3] = 0
            /\ Follows(next, Here) /\ place[3] = NumConvs(LayerAt(Here))
        BY <3>1, LayerNamed DEF NextLayer, Here
      <4>2. Precedes(at, next)
        BY <1>0, <4>1 DEF Reached, Convs, Precedes
      <4>3. Precedes(at, Here) \/ at = Here
        BY <1>0, <4>1, <4>2, FollowsIs
      <4>4. at = Here => c < place[3]
        BY <1>0, <4>1, LayerNamed DEF Convs
      <4>5. QED
        BY <4>3, <4>4 DEF Reached
    <3>2. CASE WalkEnds
      BY <3>2 DEF WalkEnds, Reached, Here, Precedes
    <3>3. QED
      BY <1>2, <3>1, <3>2, CollectIs
  <2>3. QED
    BY <1>0, <2>1, <2>2 DEF FoundInv
<1>3. QED
  BY <1>1, <1>2

LEMMA StepFoundInv == TunerWalk /\ FoundInv /\ [Tuner!Next]_(Tuner!vars) => FoundInv'
<1> SUFFICES ASSUME TunerWalk, FoundInv, [Tuner!Next]_(Tuner!vars) PROVE FoundInv'
  OBVIOUS
<1>1. CASE Tuner!Collect
  <2>0. /\ Len(specs) \in Nat /\ Here \in LayerNames /\ place[3] \in Nat
        /\ Here[1] = place[1] /\ Here[2] = place[2] /\ specs \in Seq(Elements(specs))
        /\ place = <<place[1], place[2], place[3]>>
    BY LayerNamed DEF TunerWalk, Here
  <2>1. Len(specs') = Tuner!ConvsBefore(place'[1], place'[2]) + place'[3]
    <3>1. CASE Found
      <4>1. Len(specs') = Len(specs) + 1
        BY <2>0, <3>1 DEF Found
      <4>2. place'[1] = place[1] /\ place'[2] = place[2] /\ place'[3] = place[3] + 1
        BY <3>1 DEF Found
      <4>3. Tuner!ConvsBefore(place[1], place[2]) \in Nat
        BY <2>0, ConvsBeforeIs
      <4>4. QED
        BY <2>0, <4>1, <4>2, <4>3 DEF FoundInv
    <3>2. ASSUME NEW next \in LayerNames, NextLayer(next)
          PROVE  Len(specs') = Tuner!ConvsBefore(place'[1], place'[2]) + place'[3]
      <4>1. /\ UNCHANGED specs /\ place' = <<next[1], next[2], 0>>
            /\ place[3] = NumConvs(LayerAt(Here)) /\ Follows(next, Here)
        BY <3>2 DEF NextLayer
      <4>2. Tuner!ConvsBefore(next[1], next[2])
              = Tuner!ConvsBefore(place[1], place[2]) + place[3]
        BY <2>0, <4>1, FollowsIs
      <4>3. Tuner!ConvsBefore(place[1], place[2]) \in Nat
        BY <2>0, ConvsBeforeIs
      <4>4. QED
        BY <2>0, <4>1, <4>2, <4>3 DEF FoundInv
    <3>3. CASE WalkEnds
      BY <3>3 DEF WalkEnds, FoundInv
    <3>4. QED
      BY <1>1, <3>1, <3>2, <3>3, CollectIs
  <2>2. ASSUME NEW at \in LayerNames, NEW c \in Convs(at), Reached(at, c)'
        PROVE  /\ Number(at, c) \in 1 .. Len(specs')
               /\ specs'[Number(at, c)].id = <<at[1], at[2], c>>
    <3>1. CASE Reached(at, c)
      BY <1>1, <2>2, <3>1, ReachedBefore DEF FoundInv, Reached
    <3>2. CASE ~Reached(at, c)
      <4>1. /\ at = Here /\ c = place[3] /\ Number(at, c) \in 1 .. Len(specs')
            /\ specs'[Number(at, c)].id = place
        BY <1>1, <2>2, <3>2, ReachedBefore
      <4>2. QED
        BY <2>0, <4>1
    <3>3. QED
      BY <3>1, <3>2
  <2>3. ASSUME NEW n \in 1 .. Len(specs')
        PROVE  \E at \in LayerNames : \E c \in Convs(at) :
                 n = Number(at, c) /\ specs'[n].id = <<at[1], at[2], c>>
    <3>1. CASE Found
      <4>1. /\ Len(specs') = Len(specs) + 1 /\ specs'[Len(specs) + 1].id = place
            /\ \A k \in 1 .. Len(specs) : specs'[k] = specs[k]
            /\ place[3] \in Convs(Here)
        BY <2>0, <3>1 DEF Found
      <4>2. CASE n \in 1 .. Len(specs)
        BY <4>1, <4>2 DEF FoundInv
      <4>3. CASE n = Len(specs) + 1
        <5>1. n = Number(Here, place[3])
          BY <2>0, <4>3 DEF FoundInv, Number
        <5>2. specs'[n].id = <<Here[1], Here[2], place[3]>>
          BY <2>0, <4>1, <4>3
        <5>3. QED
          BY <2>0, <4>1, <5>1, <5>2
      <4>4. QED
        BY <2>0, <4>1, <4>2, <4>3
    <3>2. CASE ~Found
      BY <1>1, <2>3, <3>2, CollectIs DEF NextLayer, WalkEnds, FoundInv
    <3>3. QED
      BY <3>1, <3>2
  <2>4. QED
    BY <2>1, <2>2, <2>3 DEF FoundInv
<1>2. CASE Tuner!Allocate \/ Tuner!Measure \/ Tuner!Choose \/ Tuner!Finish
  BY <1>2, AfterWalk DEF FoundInv, Reached, Here
<1>3. CASE Tuner!Over \/ UNCHANGED Tuner!vars
  BY <1>3 DEF Tuner!Over, Tuner!vars, Tuner!given, Tuner!walk, FoundInv, Reached, Here
<1>4. QED
  BY <1>1, <1>2, <1>3 DEF Tuner!Next

-----------------------------------------------------------------------------
(* What it found has the shapes of the network, if that fits together.     *)

SpecOf(size, at, c) ==
  [id |-> <<at[1], at[2], c>>, h |-> Within(size, at, c + 1).h, w |-> Within(size, at, c + 1).w,
   inC |-> Within(size, at, c).c, outC |-> Within(size, at, c + 1).c]

ShapesInv ==
  /\ pc = "collect" => /\ shape = ShapeOf(Within(image, Here, place[3]))
                       /\ place[1] = "decoder" => skipIdx = SkipAt(place[2] + 1)
  /\ \A at \in LayerNames : \A c \in Convs(at) :
       Reached(at, c) => specs[Number(at, c)] = SpecOf(image, at, c)

LEMMA InitShapesInv == Tuner!Init => ShapesInv
<1> SUFFICES ASSUME Tuner!Init PROVE ShapesInv
  OBVIOUS
<1>1. /\ pc = "collect" /\ place = <<"encoder", 0, 0>> /\ Here = <<"encoder", 0>>
      /\ shape = Shape(Padded(image[1]), Padded(image[2]), ImageChannels)
  BY SameInTuner DEF Tuner!Init, Here
<1>2. Here \in LayerNames
  BY <1>1, LayerFacts DEF LayerNames
<1>3. Within(image, Here, 0) = Transferred(Raw(image))
  BY <1>1, <1>2, ThroughLayer, EncodedIs DEF Start
<1>4. shape = ShapeOf(Within(image, Here, 0))
  BY <1>1, <1>3 DEF ShapeOf, Transferred, Raw, Tensor
<1>5. \A at \in LayerNames : \A c \in Convs(at) : ~Reached(at, c)
  BY <1>1, LayerNamed DEF Reached, Precedes, Convs
<1>6. QED
  BY <1>1, <1>4, <1>5 DEF ShapesInv

(* Without a skip connection a layer starts from what it is given.         *)
LEMMA StartIsEntry ==
  ASSUME UNet, NEW size, NEW at \in LayerNames, at[1] = "encoder" \/ ~(SkipAt(at[2]) >= 0)
  PROVE  Start(size, at) = Entry(size, at)
<1>1. CASE at[1] = "encoder"
  BY <1>1 DEF Start, Entry
<1>2. CASE at[1] # "encoder"
  <2>1. at[2] \in DOMAIN Decoder /\ at[2] \in Nat
    BY <1>2, LayerNamed, NetworkShape
  <2>2. Decoder[at[2]].skip = SkipAt(at[2]) /\ SkipAt(at[2]) \in Int
    BY <2>1, SkipAtSteps, FirstSkipType
  <2>3. Decoder[at[2]].skip < 0
    BY <1>2, <2>2
  <2>4. QED
    BY <1>2, <2>3 DEF Start, Entry, Joined
<1>3. QED
  BY <1>1, <1>2

(* The walk comes to a layer with the shape its convolutions start from.   *)
LEMMA NextLayerShape ==
  ASSUME UNet, TunerWalk, ShapesInv, pc = "collect", NEW next \in LayerNames, NextLayer(next)
  PROVE  /\ shape' = ShapeOf(Start(image, next))
         /\ next[1] = "decoder" => skipIdx' = SkipAt(next[2] + 1)
<1> DEFINE y == LayerAt(Here)
           t == Within(image, Here, NumConvs(y))
           e == Entry(image, next)
           after == Tuner!AfterPostOp(y.post, shape)
           skip == IF place[1] = next[1] THEN skipIdx ELSE FirstSkip
<1>1. /\ Here \in LayerNames /\ Here[1] = place[1] /\ Here[2] = place[2] /\ Follows(next, Here)
      /\ place[3] = NumConvs(y) /\ image \in ImageSizes
      /\ Tuner!EnterLayer(next[1], next[2], after, skip)
  BY DEF TunerWalk, NextLayer, Here
<1>2. e = PostOperated(y.post, t) /\ y.post \in {"MAX_POOL", "NN_UPSAMPLE", "NONE"}
  BY <1>1, FollowsIs, ThroughLayer, LevelTypes
<1>3. shape = ShapeOf(t)
  BY <1>1 DEF ShapesInv
<1> HIDE DEF t
<1>4. after = ShapeOf(e)
  BY <1>2, <1>3, SameInTuner
     DEF Tuner!AfterPostOp, PostOperated, Pooled, Upsampled, Tensor, ShapeOf, Shape
<1> HIDE DEF e, after
<1>5. /\ next[2] \in Nat /\ (next[1] = "encoder" \/ next[1] = "decoder")
      /\ place[1] = "encoder" \/ place[1] = "decoder"
  BY <1>1, LayerNamed
<1>6. next[1] = "decoder" => skip = SkipAt(next[2])
  <2> SUFFICES ASSUME next[1] = "decoder" PROVE skip = SkipAt(next[2])
    OBVIOUS
  <2>1. CASE place[1] = next[1]
    <3>1. next[2] = place[2] + 1
      BY <1>1, <2>1 DEF Follows
    <3>2. QED
      BY <2>1, <3>1 DEF ShapesInv
  <2>2. CASE place[1] # next[1]
    <3>1. next[2] = 0
      BY <1>1, <2>2 DEF Follows
    <3>2. QED
      BY <2>2, <3>1, SkipAtSteps
  <2>3. QED
    BY <2>1, <2>2
<1> HIDE DEF skip
<1>7. CASE next[1] = "decoder" /\ skip >= 0
  <2> DEFINE s == Encoded(image)[SavedAt(SkipAt(next[2]))]
  <2>1. /\ shape' = [after EXCEPT !.c = @ + SkipChannels(skip)] /\ skipIdx' = skip - 1
    BY <1>1, <1>7, SameInTuner DEF Tuner!EnterLayer
  <2>2. HasShape(s, e.h, e.w, SkipChannels(skip)) /\ Start(image, next) = Concatenated(e, s)
    BY <1>1, <1>6, <1>7, SkipTensor DEF e
  <2> HIDE DEF s
  <2>3. shape' = ShapeOf(Start(image, next))
    BY <1>4, <2>1, <2>2 DEF ShapeOf, Shape, Concatenated, Tensor, HasShape
  <2>4. skipIdx' = SkipAt(next[2] + 1)
    BY <1>5, <1>6, <1>7, <2>1, SkipAtSteps
  <2>5. QED
    BY <2>3, <2>4
<1>8. CASE ~(next[1] = "decoder" /\ skip >= 0)
  <2>1. shape' = after /\ skipIdx' = skip
    BY <1>1, <1>8 DEF Tuner!EnterLayer
  <2>2. Start(image, next) = e
    BY <1>5, <1>6, <1>8, StartIsEntry DEF e
  <2>3. next[1] = "decoder" => skipIdx' = SkipAt(next[2] + 1)
    BY <1>5, <1>6, <1>8, <2>1, SkipAtSteps
  <2>4. QED
    BY <1>4, <2>1, <2>2, <2>3
<1>9. QED
  BY <1>7, <1>8

LEMMA StepShapesInv ==
  UNet /\ TunerWalk /\ FoundInv /\ ShapesInv /\ [Tuner!Next]_(Tuner!vars) => ShapesInv'
<1> SUFFICES ASSUME UNet, TunerWalk, FoundInv, ShapesInv, [Tuner!Next]_(Tuner!vars)
             PROVE  ShapesInv'
  OBVIOUS
<1>1. CASE Tuner!Collect
  <2>1. pc = "collect" /\ image' = image
    BY <1>1, CollectIs
  <2> DEFINE y == LayerAt(Here)
             t == Within(image, Here, place[3])
             u == Within(image, Here, place[3] + 1)
  <2>2. shape = ShapeOf(t) /\ (place[1] = "decoder" => skipIdx = SkipAt(place[2] + 1))
    BY <2>1 DEF ShapesInv
  <2>3. Found => u = Convolved(<<place[1], place[2], place[3]>>, y.out[place[3] + 1], t)
    BY ThroughLayer DEF Found, Convs, TunerWalk, Here
  <2>4. pc' = "collect" => /\ shape' = ShapeOf(Within(image, Here', place'[3]))
                           /\ place'[1] = "decoder" => skipIdx' = SkipAt(place'[2] + 1)
    <3>1. CASE Found
      <4>1. /\ Here' = Here /\ place'[1] = place[1] /\ place'[2] = place[2]
            /\ place'[3] = place[3] + 1 /\ skipIdx' = skipIdx
            /\ shape' = [shape EXCEPT !.c = y.out[place[3] + 1]]
        BY <3>1 DEF Found, Here
      <4> HIDE DEF t
      <4>2. shape' = ShapeOf(u)
        BY <2>2, <2>3, <3>1, <4>1 DEF ShapeOf, Shape, Convolved, Tensor
      <4>3. QED
        BY <2>2, <4>1, <4>2
    <3>2. ASSUME NEW next \in LayerNames, NextLayer(next)
          PROVE  /\ shape' = ShapeOf(Within(image, Here', place'[3]))
                 /\ place'[1] = "decoder" => skipIdx' = SkipAt(place'[2] + 1)
      <4>1. Here' = next /\ place'[1] = next[1] /\ place'[2] = next[2] /\ place'[3] = 0
        BY <3>2, LayerNamed DEF NextLayer, Here
      <4>2. Within(image, next, 0) = Start(image, next)
        BY ThroughLayer
      <4>3. QED
        BY <2>1, <3>2, <4>1, <4>2, NextLayerShape
    <3>3. CASE WalkEnds
      BY <3>3 DEF WalkEnds
    <3>4. QED
      BY <1>1, <3>1, <3>2, <3>3, CollectIs
  <2>5. ASSUME NEW at \in LayerNames, NEW c \in Convs(at), Reached(at, c)'
        PROVE  specs'[Number(at, c)] = SpecOf(image, at, c)
    <3>1. CASE Reached(at, c) /\ specs'[Number(at, c)] = specs[Number(at, c)]
      BY <3>1 DEF ShapesInv
    <3>2. CASE ~(Reached(at, c) /\ specs'[Number(at, c)] = specs[Number(at, c)])
      <4>1. /\ at = Here /\ c = place[3] /\ Found
            /\ specs'[Number(at, c)]
                 = [id |-> place, h |-> shape.h, w |-> shape.w, inC |-> shape.c,
                    outC |-> y.out[place[3] + 1]]
        BY <1>1, <2>5, <3>2, ReachedBefore
      <4>2. place = <<at[1], at[2], c>>
        BY <4>1 DEF TunerWalk, Here
      <4> HIDE DEF t
      <4>3. /\ u.h = shape.h /\ u.w = shape.w /\ u.c = y.out[place[3] + 1] /\ t.c = shape.c
        BY <2>2, <2>3, <4>1 DEF ShapeOf, Shape, Convolved, Tensor
      <4>4. QED
        BY <4>1, <4>2, <4>3 DEF SpecOf, t
    <3>3. QED
      BY <3>1, <3>2
  <2>6. QED
    BY <2>1, <2>4, <2>5 DEF ShapesInv
<1>2. CASE Tuner!Allocate \/ Tuner!Measure \/ Tuner!Choose \/ Tuner!Finish
  BY <1>2, AfterWalk DEF ShapesInv, Reached, Here
<1>3. CASE Tuner!Over \/ UNCHANGED Tuner!vars
  BY <1>3 DEF Tuner!Over, Tuner!vars, Tuner!given, Tuner!walk, ShapesInv, Reached, Here
<1>4. QED
  BY <1>1, <1>2, <1>3 DEF Tuner!Next

(* When the walk is over, all of the network is reached.                   *)
LEMMA AllReached ==
  ASSUME TunerWalk, pc # "collect", NEW at \in LayerNames, NEW c \in Convs(at)
  PROVE  Reached(at, c)
<1>1. Here = <<"decoder", DecoderLayers - 1>> /\ place[3] = NumConvs(LayerAt(Here))
  BY DEF TunerWalk
<1>2. /\ at = <<at[1], at[2]>> /\ at[2] \in Nat
      /\ \/ at[1] = "encoder" /\ at[2] \in 0 .. EncoderLayers - 1
         \/ at[1] = "decoder" /\ at[2] \in 0 .. DecoderLayers - 1
      /\ NumConvs(LayerAt(at)) \in Nat
  BY LayerNamed
<1>3. at = Here => c < place[3]
  BY <1>1, <1>2 DEF Convs
<1>4. CASE at[1] = "encoder" \/ at[2] < DecoderLayers - 1
  BY <1>1, <1>4 DEF Reached, Precedes
<1>5. CASE at = <<"decoder", DecoderLayers - 1>>
  BY <1>1, <1>3, <1>5 DEF Reached
<1>6. QED
  BY <1>2, <1>4, <1>5, LayerFacts

(* The tuner's walk finds the convolutions of the network, all of them in  *)
(* their order, with the shapes that they have when the network denoises   *)
(* the image.                                                              *)
THEOREM TunerTimesTheNetwork ==
  ASSUME UNet
  PROVE  Tuner!Spec => []Tuner!TimesTheNetwork
<1>1. TunerWalk /\ FoundInv /\ ShapesInv => Tuner!TimesTheNetwork
  <2> SUFFICES ASSUME TunerWalk, FoundInv, ShapesInv, pc # "collect"
               PROVE  Tuner!TimesTheNetwork
    BY DEF Tuner!TimesTheNetwork
  <2>1. Len(specs) = Tuner!ConvsBefore("decoder", Tuner!DecoderLayers)
    <3> DEFINE last == <<"decoder", DecoderLayers - 1>>
    <3>1. place[1] = last[1] /\ place[2] = last[2] /\ place[3] = NumConvs(LayerAt(last))
      BY DEF TunerWalk, Here
    <3>2. last \in LayerNames /\ last[2] + 1 = DecoderLayers
      BY LayerFacts DEF LayerNames
    <3>3. Tuner!ConvsBefore(last[1], last[2] + 1)
            = Tuner!ConvsBefore(last[1], last[2]) + NumConvs(LayerAt(last))
      BY <3>2, ConvsBeforeIs
    <3>4. QED
      BY <3>1, <3>2, <3>3, SameInTuner DEF FoundInv
  <2>2. ASSUME NEW half \in {"encoder", "decoder"}, NEW l \in 0 .. Tuner!LayerCount(half) - 1,
               NEW i \in 1 .. Tuner!NumConvs(Tuner!LayerAt(half, l))
        PROVE  specs[Tuner!ConvsBefore(half, l) + i]
                 = [id |-> <<half, l, i - 1>>,
                    h |-> Tuner!Between(image, half, l)[i].h,
                    w |-> Tuner!Between(image, half, l)[i].w,
                    inC |-> Tuner!Between(image, half, l)[i - 1].c,
                    outC |-> Tuner!Between(image, half, l)[i].c]
    <3> DEFINE at == <<half, l>>
    <3>1. at \in LayerNames /\ at[1] = half /\ at[2] = l
      BY SameInTuner, LayerFacts DEF LayerNames, LayerCount
    <3>2. i - 1 \in Convs(at) /\ (i - 1) + 1 = i
      BY <3>1, SameInTuner, LayerNamed DEF Convs
    <3>3. Number(at, i - 1) = Tuner!ConvsBefore(half, l) + i
      BY <3>1, <3>2, ConvsBeforeIs DEF Number
    <3>4. specs[Number(at, i - 1)] = SpecOf(image, at, i - 1)
      BY <3>1, <3>2, AllReached DEF ShapesInv
    <3>5. \A k : Tuner!Between(image, half, l)[k] = Within(image, at, k)
      BY <3>1, SameBetween DEF Within
    <3> HIDE DEF at
    <3>6. QED
      BY <3>1, <3>2, <3>3, <3>4, <3>5 DEF SpecOf
  <2>3. QED
    BY <2>1, <2>2 DEF Tuner!TimesTheNetwork
<1>2. QED
  BY <1>1, InitTunerWalk, StepTunerWalk, StepFoundInv, InitShapesInv, StepShapesInv, PTL
     DEF Tuner!Spec

-----------------------------------------------------------------------------
(* The best of the trials.                                                 *)

ResultsInv ==
  /\ results \in Seq(Elements(results)) /\ Len(results) <= Len(specs)
  /\ pc \in {"collect", "allocate"} => results = <<>>
  /\ pc = "done" => Len(results) = Len(specs)

LEMMA InitResultsInv == Tuner!Init => ResultsInv
  BY DEF Tuner!Init, ResultsInv, Elements

LEMMA StepResultsInv == TunerWalk /\ ResultsInv /\ [Tuner!Next]_(Tuner!vars) => ResultsInv'
<1> SUFFICES ASSUME TunerWalk, ResultsInv, [Tuner!Next]_(Tuner!vars) PROVE ResultsInv'
  OBVIOUS
<1>1. CASE Tuner!Collect
  <2>1. results = <<>> /\ results' = <<>> /\ pc' # "done"
    BY <1>1, CollectIs DEF ResultsInv, Found, NextLayer, WalkEnds
  <2>2. specs' \in Seq(Elements(specs'))
    BY <1>1, StepTunerWalk DEF TunerWalk
  <2>3. Len(specs') \in Nat /\ results' \in Seq(Elements(results'))
    BY <2>1, <2>2
  <2>4. QED
    BY <2>1, <2>3 DEF ResultsInv
<1>2. CASE Tuner!Choose
  <2>1. /\ \E r : results' = Append(results, r)
        /\ Len(results) < Len(specs) /\ pc = "tune" /\ pc' = pc /\ specs' = specs
    BY <1>2 DEF Tuner!Choose, Tuner!walk
  <2>2. Len(results') = Len(results) + 1 /\ results' \in Seq(Elements(results'))
    BY <2>1, AppendElements DEF ResultsInv
  <2>3. Len(specs) \in Nat /\ Len(results) \in Nat
    BY DEF TunerWalk, ResultsInv
  <2>4. QED
    BY <2>1, <2>2, <2>3 DEF ResultsInv
<1>3. CASE Tuner!Allocate \/ Tuner!Measure \/ Tuner!Finish
  BY <1>3 DEF Tuner!Allocate, Tuner!Measure, Tuner!Finish, Tuner!Exit, Tuner!walk, ResultsInv
<1>4. CASE Tuner!Over \/ UNCHANGED Tuner!vars
  BY <1>4 DEF Tuner!Over, Tuner!vars, Tuner!walk, ResultsInv
<1>5. QED
  BY <1>1, <1>2, <1>3, <1>4 DEF Tuner!Next

IsTrials(m) == m \in Seq(Elements(m)) /\ \A t \in Elements(m) : t[3] \in 0 .. Infinity

BestInv ==
  /\ IsTrials(measured)
  /\ \A r \in Elements(results) : IsTrials(r.trials) /\ r.best = Tuner!Best(r.trials)

LEMMA AppendTrial ==
  ASSUME NEW m, IsTrials(m), NEW t, t[3] \in 0 .. Infinity
  PROVE  IsTrials(Append(m, t))
  BY AppendElements DEF IsTrials

LEMMA InitBestInv == Tuner!Init => BestInv
  BY DEF Tuner!Init, BestInv, IsTrials, Elements

LEMMA StepBestInv ==
  Tuner!TimesFinite /\ ResultsInv /\ BestInv /\ [Tuner!Next]_(Tuner!vars) => BestInv'
<1> SUFFICES ASSUME Tuner!TimesFinite, ResultsInv, BestInv, [Tuner!Next]_(Tuner!vars)
             PROVE  BestInv'
  OBVIOUS
<1>1. CASE Tuner!Measure
  <2>1. results' = results
    BY <1>1 DEF Tuner!Measure, Tuner!Exit
  <2>2. CASE \E b, tile : \E time \in Times \cup {Infinity} :
               measured' = Append(measured, <<b, tile, time>>)
    <3>1. PICK b, tile : \E time \in Times \cup {Infinity} :
                            measured' = Append(measured, <<b, tile, time>>)
      BY <2>2
    <3>2. PICK time \in Times \cup {Infinity} : measured' = Append(measured, <<b, tile, time>>)
      BY <3>1
    <3>3. time \in 0 .. Infinity
      BY DEF Tuner!TimesFinite
    <3>4. <<b, tile, time>>[3] \in 0 .. Infinity
      BY <3>3
    <3>5. IsTrials(measured')
      BY <3>2, <3>4, AppendTrial DEF BestInv
    <3>6. QED
      BY <2>1, <3>5 DEF BestInv
  <2>3. CASE measured' = measured
    BY <2>1, <2>3 DEF BestInv
  <2>4. QED
    BY <1>1, <2>2, <2>3 DEF Tuner!Measure, Tuner!Exit
<1>2. CASE Tuner!Choose
  <2> DEFINE r == [best |-> Tuner!Best(measured), trials |-> measured]
  <2>1. results' = Append(results, r) /\ measured' = <<>>
    BY <1>2 DEF Tuner!Choose
  <2>2. Elements(results') = Elements(results) \cup {r}
    BY <2>1, AppendElements DEF ResultsInv
  <2>3. r.trials = measured /\ r.best = Tuner!Best(measured)
    OBVIOUS
  <2> HIDE DEF r
  <2>4. IsTrials(measured')
    BY <2>1 DEF IsTrials, Elements
  <2>5. QED
    BY <2>2, <2>3, <2>4 DEF BestInv
<1>3. CASE Tuner!Collect \/ Tuner!Allocate \/ Tuner!Finish
  BY <1>3 DEF Tuner!Collect, Tuner!Allocate, Tuner!Finish, Tuner!Exit, BestInv
<1>4. CASE Tuner!Over \/ UNCHANGED Tuner!vars
  BY <1>4 DEF Tuner!Over, Tuner!vars, BestInv
<1>5. QED
  BY <1>1, <1>2, <1>3, <1>4 DEF Tuner!Next

NoTrial == <<<<1, 1, 1>>, 0, Infinity>>

(* The best of the trials so far, trial by trial.                          *)
IsBest(f, m) ==
  /\ f[0] = NoTrial /\ f[Len(m)] = Tuner!Best(m)
  /\ \A i \in 0 .. Len(m) - 1 :
       f[i + 1] = IF m[i + 1][3] < f[i][3] THEN m[i + 1] ELSE f[i]

LEMMA BestIs ==
  ASSUME NEW m, m \in Seq(Elements(m))
  PROVE  \E f : IsBest(f, m)
<1> DEFINE n == Len(m)
           S == Elements(m) \cup {NoTrial}
           op == [i \in 1 .. n |-> [u \in S |-> IF m[i][3] < u[3] THEN m[i] ELSE u]]
           of(e) == [i \in 0 .. n |->
                      IF i = 0 THEN NoTrial
                      ELSE IF m[i][3] < e[i - 1][3] THEN m[i] ELSE e[i - 1]]
           f == CHOOSE e : e = of(e)
<1>1. n \in Nat /\ \A i \in 1 .. n : m[i] \in S
  BY DEF Elements
<1> HIDE DEF n, S
<1>2. \A i \in 1 .. n : \A u \in S : /\ op[i][u] = IF m[i][3] < u[3] THEN m[i] ELSE u
                                    /\ op[i][u] \in S
  BY <1>1
<1>3. NoTrial \in S
  BY DEF S
<1> HIDE DEF op
<1>4. HasSteps(n, S, NoTrial, op)
  BY <1>1, <1>2, <1>3, StepsExist
<1>5. PICK e : /\ e \in [0 .. n -> S] /\ e[0] = NoTrial
               /\ \A i \in 1 .. n : e[i] = op[i][e[i - 1]]
  BY <1>4 DEF HasSteps
<1>6. \A i \in 0 .. n : e[i] = IF i = 0 THEN NoTrial
                               ELSE IF m[i][3] < e[i - 1][3] THEN m[i] ELSE e[i - 1]
  <2> TAKE i \in 0 .. n
  <2>1. CASE i = 0
    BY <1>5, <2>1
  <2>2. CASE i # 0
    <3>1. i \in 1 .. n /\ i - 1 \in 0 .. n
      BY <1>1, <2>2
    <3>2. e[i - 1] \in S /\ e[i] = op[i][e[i - 1]]
      BY <1>5, <3>1
    <3>3. QED
      BY <1>2, <2>2, <3>1, <3>2
  <2>3. QED
    BY <2>1, <2>2
<1>7. e = of(e)
  BY <1>5, <1>6
<1>8. f = of(f)
  <2> HIDE DEF of
  <2>1. QED
    BY <1>7
<1>9. Tuner!Best(m) = f[n]
  BY DEF Tuner!Best, NoTrial, n
<1> HIDE DEF f
<1>10. /\ f[0] = NoTrial
       /\ \A i \in 0 .. n - 1 : i + 1 \in 0 .. n /\ i + 1 # 0 /\ (i + 1) - 1 = i
       /\ \A i \in 0 .. n : i # 0 =>
            f[i] = IF m[i][3] < f[i - 1][3] THEN m[i] ELSE f[i - 1]
  BY <1>1, <1>8
<1>11. \A i \in 0 .. n - 1 : f[i + 1] = IF m[i + 1][3] < f[i][3] THEN m[i + 1] ELSE f[i]
  <2> HIDE DEF of
  <2> TAKE i \in 0 .. n - 1
  <2>1. i + 1 \in 0 .. n /\ i + 1 # 0 /\ (i + 1) - 1 = i
    BY <1>10
  <2>2. f[i + 1] = IF m[i + 1][3] < f[(i + 1) - 1][3] THEN m[i + 1] ELSE f[(i + 1) - 1]
    BY <1>10, <2>1
  <2>3. QED
    BY <2>1, <2>2
<1>12. QED
  BY <1>9, <1>10, <1>11 DEF IsBest, n

(* It is one of them, if any took less than forever, and none is faster.   *)
LEMMA BestIsBest ==
  ASSUME Tuner!TimesFinite, NEW m, IsTrials(m)
  PROVE  LET best == Tuner!Best(m)
         IN /\ \A t \in DOMAIN m : best[3] <= m[t][3]
            /\ best[3] < Infinity => \E t \in DOMAIN m : best = m[t]
<1> DEFINE n == Len(m)
<1>1. n \in Nat /\ DOMAIN m = 1 .. n /\ \A i \in 1 .. n : m[i][3] \in 0 .. Infinity
  BY DEF IsTrials, Elements
<1>2. Infinity \in Nat
  BY DEF Tuner!TimesFinite
<1>3. PICK f : IsBest(f, m)
  BY BestIs DEF IsTrials
<1> DEFINE T == {i \in 0 .. n : /\ f[i][3] \in 0 .. Infinity
                                /\ \A j \in 1 .. i : f[i][3] <= m[j][3]
                                /\ f[i][3] < Infinity => \E j \in 1 .. i : f[i] = m[j]}
<1>4. 0 \in T
  BY <1>1, <1>2, <1>3 DEF IsBest, NoTrial
<1>5. \A i \in 0 .. n - 1 : i \in T => i + 1 \in T
  <2> TAKE i \in 0 .. n - 1
  <2> HAVE i \in T
  <2>1. /\ f[i][3] \in 0 .. Infinity
        /\ \A j \in 1 .. i : f[i][3] <= m[j][3]
        /\ f[i][3] < Infinity => \E j \in 1 .. i : f[i] = m[j]
    OBVIOUS
  <2>2. /\ f[i + 1] = IF m[i + 1][3] < f[i][3] THEN m[i + 1] ELSE f[i]
        /\ i + 1 \in 1 .. n /\ i + 1 \in 0 .. n /\ m[i + 1][3] \in 0 .. Infinity
        /\ \A j \in 1 .. i + 1 : j \in 1 .. i \/ j = i + 1
        /\ \A j \in 1 .. i : j \in 1 .. i + 1 /\ m[j][3] \in 0 .. Infinity
        /\ i + 1 \in 1 .. i + 1
    BY <1>1, <1>3 DEF IsBest
  <2>3. CASE m[i + 1][3] < f[i][3]
    <3>1. f[i + 1] = m[i + 1]
      BY <2>2, <2>3
    <3>2. \A j \in 1 .. i + 1 : f[i + 1][3] <= m[j][3]
      <4> TAKE j \in 1 .. i + 1
      <4>1. CASE j \in 1 .. i
        <5>1. f[i][3] <= m[j][3] /\ m[j][3] \in 0 .. Infinity
          BY <2>1, <2>2, <4>1
        <5>2. QED
          BY <1>2, <2>1, <2>2, <2>3, <3>1, <5>1
      <4>2. CASE j = i + 1
        BY <1>2, <2>2, <3>1, <4>2
      <4>3. QED
        BY <2>2, <4>1, <4>2
    <3>3. QED
      BY <2>2, <3>1, <3>2
  <2>4. CASE ~(m[i + 1][3] < f[i][3])
    <3>1. f[i + 1] = f[i] /\ f[i][3] <= m[i + 1][3]
      BY <1>2, <2>1, <2>2, <2>4
    <3>2. \A j \in 1 .. i + 1 : f[i + 1][3] <= m[j][3]
      BY <2>1, <2>2, <3>1
    <3>3. QED
      BY <2>1, <2>2, <3>1, <3>2
  <2>5. QED
    BY <2>3, <2>4
<1>6. n \in T
  <2> HIDE DEF T, n
  <2>1. 0 .. n \subseteq T
    BY <1>1, <1>4, <1>5, InductionUpTo
  <2>2. QED
    BY <1>1, <2>1
<1>7. QED
  BY <1>1, <1>3, <1>6 DEF IsBest

(* The tuner's result for a convolution is one of the trials, block and    *)
(* tile together, and none of the others was faster.                       *)
THEOREM TunerFindsBest ==
  ASSUME Tuner!TimesFinite
  PROVE  Tuner!Spec => []Tuner!BestOfTrials
<1>1. ResultsInv /\ BestInv => Tuner!BestOfTrials
  BY BestIsBest DEF ResultsInv, BestInv, Tuner!BestOfTrials, Elements
<1>2. QED
  BY <1>1, InitTunerWalk, StepTunerWalk, InitResultsInv, StepResultsInv, InitBestInv, StepBestInv,
     PTL DEF Tuner!Spec

-----------------------------------------------------------------------------
(* What is printed.                                                        *)

(* Appending the values at the numbers from + 1 .. from + k.               *)
AppendsFrom(f, g, n, from, k) ==
  /\ f[0] = <<>>
  /\ \A i \in 0 .. n - 1 :
       f[i + 1] = IF from < i + 1 /\ i + 1 <= from + k THEN Append(f[i], g[i + 1]) ELSE f[i]

LEMMA AppendsStretch ==
  ASSUME NEW n \in Nat, NEW from \in Nat, NEW k \in Nat, from + k <= n,
         NEW f, NEW g, AppendsFrom(f, g, n, from, k)
  PROVE  Len(f[n]) = k /\ \A j \in 1 .. k : f[n][j] = g[from + j]
<1> DEFINE B == {g[i] : i \in 1 .. n}
           count(i) == IF i <= from THEN 0 ELSE IF i <= from + k THEN i - from ELSE k
           T == {i \in 0 .. n : /\ f[i] \in Seq(B) /\ Len(f[i]) = count(i)
                                /\ \A j \in 1 .. count(i) : f[i][j] = g[from + j]}
<1>0. /\ \A i \in 1 .. n : g[i] \in B
      /\ f[0] = <<>>
      /\ \A i \in 0 .. n - 1 :
           f[i + 1] = IF from < i + 1 /\ i + 1 <= from + k THEN Append(f[i], g[i + 1]) ELSE f[i]
  BY DEF AppendsFrom
<1> HIDE DEF B
<1>1. 0 \in T
  <2>1. count(0) = 0
    OBVIOUS
  <2> HIDE DEF count
  <2>2. f[0] \in Seq(B) /\ Len(f[0]) = count(0)
    BY <1>0, <2>1
  <2>3. 0 \in 0 .. n /\ \A j : j \notin 1 .. count(0)
    BY <2>1
  <2>4. QED
    BY <2>2, <2>3
<1>2. \A i \in 0 .. n - 1 : i \in T => i + 1 \in T
  <2> TAKE i \in 0 .. n - 1
  <2> HAVE i \in T
  <2>1. /\ f[i] \in Seq(B) /\ Len(f[i]) = count(i)
        /\ \A j \in 1 .. count(i) : f[i][j] = g[from + j]
    OBVIOUS
  <2>2. i + 1 \in 0 .. n /\ i + 1 \in 1 .. n /\ g[i + 1] \in B
    BY <1>0
  <2>3. CASE from < i + 1 /\ i + 1 <= from + k
    <3>1. f[i + 1] = Append(f[i], g[i + 1])
      BY <1>0, <2>3
    <3>2. count(i) = i - from /\ count(i + 1) = count(i) + 1 /\ from + count(i + 1) = i + 1
          /\ count(i) \in Nat
      BY <2>3
    <3> HIDE DEF count, T
    <3> DEFINE t == f[i]
               x == g[i + 1]
               c == count(i)
    <3>3. /\ f[i + 1] \in Seq(B) /\ Len(f[i + 1]) = count(i + 1)
          /\ \A j \in 1 .. count(i) : f[i + 1][j] = f[i][j]
          /\ f[i + 1][count(i + 1)] = g[i + 1]
      <4>1. t \in Seq(B) /\ Len(t) = c /\ x \in B /\ c \in Nat
        BY <2>1, <2>2, <3>2
      <4> HIDE DEF t, x, c
      <4>2. /\ Append(t, x) \in Seq(B) /\ Len(Append(t, x)) = c + 1
            /\ \A j \in 1 .. c : Append(t, x)[j] = t[j]
            /\ Append(t, x)[c + 1] = x
        BY <4>1
      <4>3. QED
        BY <3>1, <3>2, <4>2 DEF t, x, c
    <3>4. \A j \in 1 .. count(i + 1) : f[i + 1][j] = g[from + j]
      <4> TAKE j \in 1 .. count(i + 1)
      <4>1. CASE j = count(i + 1)
        BY <3>2, <3>3, <4>1
      <4>2. CASE j # count(i + 1)
        <5>1. j \in 1 .. count(i)
          BY <3>2, <4>2
        <5>2. QED
          BY <2>1, <3>3, <5>1
      <4>3. QED
        BY <4>1, <4>2
    <3>5. QED
      BY <2>2, <3>3, <3>4 DEF T
  <2>4. CASE ~(from < i + 1 /\ i + 1 <= from + k)
    <3>1. f[i + 1] = f[i] /\ count(i + 1) = count(i)
      BY <1>0, <2>4
    <3> HIDE DEF count
    <3>2. QED
      BY <2>1, <2>2, <3>1
  <2>5. QED
    BY <2>3, <2>4
<1>3. n \in T
  <2> HIDE DEF T
  <2>1. 0 .. n \subseteq T
    BY <1>1, <1>2, InductionUpTo
  <2>2. QED
    BY <2>1
<1>4. count(n) = k
  OBVIOUS
<1> HIDE DEF count
<1>5. QED
  BY <1>3, <1>4

OfLayer(n, half, l) == specs[n].id[1] = half /\ specs[n].id[2] = l

(* What is printed for a layer, result by result.                          *)
IsPrinted(f, half, l) ==
  /\ f[0] = <<>> /\ f[Len(results)] = Tuner!Printed(half, l)
  /\ \A n \in 0 .. Len(results) - 1 :
       f[n + 1] = IF OfLayer(n + 1, half, l) THEN Append(f[n], results[n + 1].best[1]) ELSE f[n]

LEMMA PrintedIs ==
  ASSUME NEW half, NEW l, results \in Seq(Elements(results))
  PROVE  \E f : IsPrinted(f, half, l)
<1> DEFINE n == Len(results)
           B == {results[i].best[1] : i \in 1 .. n}
           S == Seq(B)
           step(i, u) == IF specs[i].id[1] = half /\ specs[i].id[2] = l
                         THEN Append(u, results[i].best[1]) ELSE u
           op == [i \in 1 .. n |-> [u \in S |-> step(i, u)]]
           of(e) == [i \in 0 .. n |->
                      IF i = 0 THEN <<>> ELSE step(i, e[i - 1])]
           f == CHOOSE e : e = of(e)
<1>1. n \in Nat /\ \A i \in 1 .. n : results[i].best[1] \in B
  OBVIOUS
<1>2. <<>> \in S
  OBVIOUS
<1> HIDE DEF n, B
<1>3. \A i \in 1 .. n : \A u \in S : step(i, u) \in S
  BY <1>1
<1> HIDE DEF S, step
<1>4. \A i \in 1 .. n : \A u \in S : op[i][u] = step(i, u) /\ op[i][u] \in S
  BY <1>3
<1> HIDE DEF op
<1>5. HasSteps(n, S, <<>>, op)
  BY <1>1, <1>2, <1>4, StepsExist
<1>6. PICK e : /\ e \in [0 .. n -> S] /\ e[0] = <<>>
               /\ \A i \in 1 .. n : e[i] = op[i][e[i - 1]]
  BY <1>5 DEF HasSteps
<1>7. \A i \in 0 .. n : e[i] = IF i = 0 THEN <<>> ELSE step(i, e[i - 1])
  <2> TAKE i \in 0 .. n
  <2>1. CASE i = 0
    BY <1>6, <2>1
  <2>2. CASE i # 0
    <3>1. i \in 1 .. n /\ i - 1 \in 0 .. n
      BY <1>1, <2>2
    <3>2. e[i - 1] \in S /\ e[i] = op[i][e[i - 1]]
      BY <1>6, <3>1
    <3>3. QED
      BY <1>4, <2>2, <3>1, <3>2
  <2>3. QED
    BY <2>1, <2>2
<1>8. e = of(e)
  BY <1>6, <1>7
<1>9. f = of(f)
  <2> HIDE DEF of
  <2>1. QED
    BY <1>8
<1>10. Tuner!Printed(half, l) = f[n]
  BY DEF Tuner!Printed, n, step
<1> HIDE DEF f
<1>11. f[0] = <<>> /\ \A i \in 0 .. n : i # 0 => f[i] = step(i, f[i - 1])
  BY <1>1, <1>9
<1>12. \A i \in 0 .. n - 1 : f[i + 1] = step(i + 1, f[i])
  <2> HIDE DEF of
  <2> TAKE i \in 0 .. n - 1
  <2>1. i + 1 \in 0 .. n /\ i + 1 # 0 /\ (i + 1) - 1 = i
    BY <1>1
  <2>2. f[i + 1] = step(i + 1, f[(i + 1) - 1])
    BY <1>11, <2>1
  <2>3. QED
    BY <2>1, <2>2
<1>13. QED
  BY <1>10, <1>11, <1>12 DEF IsPrinted, OfLayer, n, step

(* The results of a layer are those at the numbers of its convolutions.    *)
LEMMA LayerNumbers ==
  ASSUME TunerWalk, FoundInv, pc # "collect", NEW at \in LayerNames
  PROVE  LET from == Tuner!ConvsBefore(at[1], at[2])
             k == NumConvs(LayerAt(at))
         IN /\ from + k <= Len(specs)
            /\ \A n \in 1 .. Len(specs) :
                 /\ OfLayer(n, at[1], at[2]) <=> from < n /\ n <= from + k
                 /\ OfLayer(n, at[1], at[2]) => specs[n].id[3] + 1 = n - from
<1> DEFINE from == Tuner!ConvsBefore(at[1], at[2])
           k == NumConvs(LayerAt(at))
<1>1. /\ from \in Nat /\ k \in Nat \ {0} /\ Len(specs) \in Nat
      /\ \A c \in 0 .. k - 1 : /\ from + c + 1 \in 1 .. Len(specs)
                               /\ specs[from + c + 1].id = <<at[1], at[2], c>>
  <2>1. \A c \in Convs(at) : /\ Number(at, c) \in 1 .. Len(specs)
                             /\ specs[Number(at, c)].id = <<at[1], at[2], c>>
    BY AllReached DEF FoundInv
  <2>2. \A c \in 0 .. k - 1 : /\ from + c + 1 \in 1 .. Len(specs)
                             /\ specs[from + c + 1].id = <<at[1], at[2], c>>
    BY <2>1 DEF Convs, Number
  <2>3. from \in Nat /\ k \in Nat \ {0} /\ Len(specs) \in Nat
    BY ConvsBeforeIs, LayerNamed DEF TunerWalk
  <2>4. QED
    BY <2>2, <2>3
<1>2. \A n \in 1 .. Len(specs) : OfLayer(n, at[1], at[2]) =>
        \E c \in 0 .. k - 1 : n = from + c + 1 /\ specs[n].id = <<at[1], at[2], c>>
  <2> TAKE n \in 1 .. Len(specs)
  <2> HAVE OfLayer(n, at[1], at[2])
  <2>1. PICK b \in LayerNames : \E c \in Convs(b) :
               n = Number(b, c) /\ specs[n].id = <<b[1], b[2], c>>
    BY DEF FoundInv
  <2>2. PICK c \in Convs(b) : n = Number(b, c) /\ specs[n].id = <<b[1], b[2], c>>
    BY <2>1
  <2>3. b = at
    BY <2>2, LayerNamed DEF OfLayer
  <2>4. QED
    BY <2>2, <2>3 DEF Convs, Number
<1> HIDE DEF from, k
<1>3. from + k <= Len(specs)
  <2>1. k - 1 \in 0 .. k - 1
    BY <1>1
  <2>2. from + (k - 1) + 1 \in 1 .. Len(specs)
    BY <1>1, <2>1
  <2>3. QED
    BY <1>1, <2>2
<1>4. ASSUME NEW n \in 1 .. Len(specs)
      PROVE  /\ OfLayer(n, at[1], at[2]) <=> from < n /\ n <= from + k
             /\ OfLayer(n, at[1], at[2]) => specs[n].id[3] + 1 = n - from
  <2>1. ASSUME OfLayer(n, at[1], at[2])
        PROVE  from < n /\ n <= from + k /\ specs[n].id[3] + 1 = n - from
    BY <1>1, <1>2, <2>1
  <2>2. ASSUME from < n, n <= from + k PROVE OfLayer(n, at[1], at[2])
    <3> DEFINE c == n - from - 1
    <3>1. c \in 0 .. k - 1 /\ from + c + 1 = n
      BY <1>1, <2>2
    <3> HIDE DEF c
    <3>2. specs[n].id = <<at[1], at[2], c>>
      BY <1>1, <3>1
    <3>3. QED
      BY <3>2 DEF OfLayer
  <2>3. QED
    BY <2>1, <2>2
<1>5. QED
  BY <1>3, <1>4 DEF from, k

(* What is printed has, for every layer of both halves, the block found    *)
(* for each of its convolutions, in their order.                           *)
THEOREM TunerPrintsAll == Tuner!Spec => []Tuner!PrintsEveryConvolution
<1>1. TunerWalk /\ FoundInv /\ ResultsInv => Tuner!PrintsEveryConvolution
  <2> SUFFICES ASSUME TunerWalk, FoundInv, ResultsInv, pc = "done",
                      NEW half \in {"encoder", "decoder"},
                      NEW l \in 0 .. Tuner!LayerCount(half) - 1
               PROVE  /\ Len(Tuner!Printed(half, l)) = Tuner!NumConvs(Tuner!LayerAt(half, l))
                      /\ \A i \in DOMAIN specs :
                           specs[i].id[1] = half /\ specs[i].id[2] = l =>
                             Tuner!Printed(half, l)[specs[i].id[3] + 1] = results[i].best[1]
    BY DEF Tuner!PrintsEveryConvolution
  <2> DEFINE at == <<half, l>>
             from == Tuner!ConvsBefore(half, l)
             k == NumConvs(LayerAt(at))
             n == Len(results)
             g == [i \in 1 .. n |-> results[i].best[1]]
  <2>1. at \in LayerNames /\ at[1] = half /\ at[2] = l
    BY SameInTuner, LayerFacts DEF LayerNames, LayerCount
  <2>2. /\ n = Len(specs) /\ n \in Nat /\ DOMAIN specs = 1 .. n
        /\ results \in Seq(Elements(results))
    BY DEF ResultsInv, TunerWalk
  <2>3. Tuner!NumConvs(Tuner!LayerAt(half, l)) = k /\ from \in Nat /\ k \in Nat
    BY <2>1, SameInTuner, ConvsBeforeIs, LayerNamed
  <2>4. /\ from + k <= n
        /\ \A i \in 1 .. n : /\ OfLayer(i, half, l) <=> from < i /\ i <= from + k
                             /\ OfLayer(i, half, l) => specs[i].id[3] + 1 = i - from
    BY <2>1, <2>2, LayerNumbers
  <2>5. PICK f : IsPrinted(f, half, l)
    BY <2>2, PrintedIs
  <2>6. \A i \in 1 .. n : g[i] = results[i].best[1]
    OBVIOUS
  <2> HIDE DEF at, from, k, g
  <2>7. AppendsFrom(f, g, n, from, k)
    BY <2>2, <2>4, <2>5, <2>6 DEF IsPrinted, AppendsFrom
  <2>8. f[n] = Tuner!Printed(half, l)
    BY <2>5 DEF IsPrinted
  <2> HIDE DEF n
  <2>9. Len(f[n]) = k /\ \A j \in 1 .. k : f[n][j] = g[from + j]
    BY <2>2, <2>3, <2>4, <2>7, AppendsStretch
  <2>10. ASSUME NEW i \in DOMAIN specs, specs[i].id[1] = half, specs[i].id[2] = l
         PROVE  Tuner!Printed(half, l)[specs[i].id[3] + 1] = results[i].best[1]
    <3>1. /\ i \in 1 .. n /\ from < i /\ i <= from + k /\ specs[i].id[3] + 1 = i - from
      BY <2>2, <2>4, <2>10 DEF OfLayer
    <3>2. i - from \in 1 .. k /\ from + (i - from) = i
      BY <2>2, <2>3, <3>1
    <3>3. f[n][i - from] = g[i]
      BY <2>9, <3>2
    <3>4. QED
      BY <2>6, <2>8, <3>1, <3>3
  <2>11. QED
    BY <2>3, <2>8, <2>9, <2>10
<1>2. QED
  BY <1>1, InitTunerWalk, StepTunerWalk, StepFoundInv, InitResultsInv, StepResultsInv, PTL
     DEF Tuner!Spec

-----------------------------------------------------------------------------
(* How much is left to do.                                                 *)

(* No layer has more than K convolutions.                                  *)
LayersWithin(K) == \A at \in LayerNames : NumConvs(LayerAt(at)) <= K

(* The layers after a layer, with at most K + 3 steps in each: besides the *)
(* convolutions what precedes them, what follows and what saves.           *)
LayersAfter(at) ==
  IF at[1] = "encoder" THEN EncoderLayers - 1 - at[2] + DecoderLayers
  ELSE DecoderLayers - 1 - at[2]
After(K, at) == LayersAfter(at) * (K + 3)
Whole(K) == (EncoderLayers + DecoderLayers) * (K + 3)

LEMMA AfterIs ==
  ASSUME NEW K \in Nat
  PROVE  /\ \A at \in LayerNames : LayersAfter(at) \in Nat /\ After(K, at) \in Nat
         /\ \A at \in LayerNames, next \in LayerNames :
              Follows(next, at) => /\ LayersAfter(at) = LayersAfter(next) + 1
                                   /\ After(K, at) = After(K, next) + K + 3
         /\ Whole(K) \in Nat
         /\ After(K, <<"encoder", 0>>) + K + 3 = Whole(K)
<1> DEFINE M == K + 3
<1>1. \A n \in Nat : n * M \in Nat /\ (n + 1) * M = n * M + M
  BY DEF M
<1>2. /\ EncoderLayers \in Nat \ {0} /\ DecoderLayers \in Nat \ {0}
      /\ \A at \in LayerNames : /\ at = <<at[1], at[2]>> /\ at[2] \in Nat
                                /\ \/ at[1] = "encoder" /\ at[2] \in 0 .. EncoderLayers - 1
                                   \/ at[1] = "decoder" /\ at[2] \in 0 .. DecoderLayers - 1
  BY LayerFacts, LayerNamed
<1>3. \A at \in LayerNames : LayersAfter(at) \in Nat
  BY <1>2 DEF LayersAfter
<1>4. ASSUME NEW at \in LayerNames, NEW next \in LayerNames, Follows(next, at)
      PROVE  LayersAfter(at) = LayersAfter(next) + 1
  <2>1. CASE next = <<at[1], at[2] + 1>>
    <3>1. next[1] = at[1] /\ next[2] = at[2] + 1
      BY <2>1
    <3>2. QED
      BY <1>2, <3>1 DEF LayersAfter
  <2>2. CASE at = <<"encoder", EncoderLayers - 1>> /\ next = <<"decoder", 0>>
    BY <1>2, <2>2 DEF LayersAfter
  <2>3. QED
    BY <1>4, <2>1, <2>2 DEF Follows
<1>5. LayersAfter(<<"encoder", 0>>) + 1 = EncoderLayers + DecoderLayers
  BY <1>2 DEF LayersAfter
<1>6. <<"encoder", 0>> \in LayerNames
  BY <1>2, LayerFacts DEF LayerNames
<1> DEFINE L(at) == LayersAfter(at)
<1>7. \A at : After(K, at) = L(at) * M
  BY DEF After
<1>8. Whole(K) = (L(<<"encoder", 0>>) + 1) * M
  BY <1>5 DEF Whole
<1>9. \A at \in LayerNames : L(at) \in Nat
  BY <1>3
<1>10. M = K + 3 /\ M \in Nat
  OBVIOUS
<1> HIDE DEF L, M
<1>11. Whole(K) \in Nat /\ After(K, <<"encoder", 0>>) + K + 3 = Whole(K)
  BY <1>1, <1>6, <1>7, <1>8, <1>9, <1>10
<1>12. ASSUME NEW at \in LayerNames, NEW next \in LayerNames, Follows(next, at)
       PROVE  After(K, at) = After(K, next) + K + 3
  <2>1. L(at) = L(next) + 1
    BY <1>4, <1>12 DEF L
  <2>2. QED
    BY <1>1, <1>7, <1>9, <1>10, <2>1
<1>13. QED
  BY <1>1, <1>3, <1>4, <1>7, <1>9, <1>11, <1>12

(* What a pipeline has left from a place in the network on, rest being     *)
(* what comes after the network.                                           *)
InLayerLeft(K, rest, where, at, c) ==
  rest + After(K, at) + (CASE where = "concat" -> K + 3
                           [] where = "layer"  -> K + 2 - c
                           [] OTHER            -> 1)

LEMMA InLayerLeftIs ==
  ASSUME NEW K \in Nat, LayersWithin(K), NEW rest \in Nat, NEW at \in LayerNames,
         NEW c \in 0 .. NumConvs(LayerAt(at))
  PROVE  /\ rest + After(K, at) \in Nat
         /\ InLayerLeft(K, rest, "concat", at, c) = (rest + After(K, at)) + K + 3
         /\ InLayerLeft(K, rest, "layer", at, c) = (rest + After(K, at)) + K + 2 - c
         /\ c <= K /\ c \in Nat
         /\ \A where : where \notin {"concat", "layer"} =>
              InLayerLeft(K, rest, where, at, c) = (rest + After(K, at)) + 1
<1>1. NumConvs(LayerAt(at)) \in Nat /\ NumConvs(LayerAt(at)) <= K
  BY LayerFacts DEF LayersWithin
<1>2. After(K, at) \in Nat
  BY AfterIs
<1> HIDE DEF After
<1>3. QED
  BY <1>1, <1>2 DEF InLayerLeft

(* The way from a layer to the next, or out of the network.                *)
Leaves ==
  \/ pc' = "inverse" /\ UNCHANGED <<layer, conv>>
  \/ \E next \in LayerNames :
       Follows(next, layer) /\ layer' = next /\ conv' = 0 /\ pc' \in {"concat", "layer"}

LEMMA LayerFollows ==
  ASSUME layer \in LayerNames
  PROVE  /\ layer[2] + 1 < LayerCount(layer[1]) =>
              /\ <<layer[1], layer[2] + 1>> \in LayerNames
              /\ Follows(<<layer[1], layer[2] + 1>>, layer)
         /\ ~(layer[2] + 1 < LayerCount(layer[1])) /\ layer[1] = "encoder" =>
              /\ <<"decoder", 0>> \in LayerNames
              /\ Follows(<<"decoder", 0>>, layer)
<1>1. layer = <<layer[1], layer[2]>>
  BY LayerNamed
<1>2. ASSUME layer[2] + 1 < LayerCount(layer[1])
      PROVE  <<layer[1], layer[2] + 1>> \in LayerNames
  BY <1>1, <1>2, LayerNamed, LayerFacts DEF LayerNames, LayerCount
<1>3. ASSUME ~(layer[2] + 1 < LayerCount(layer[1])), layer[1] = "encoder"
      PROVE  /\ <<"decoder", 0>> \in LayerNames
             /\ Follows(<<"decoder", 0>>, layer)
  <2>1. <<"decoder", 0>> \in LayerNames
    BY LayerFacts DEF LayerNames
  <2>2. layer[2] \in 0 .. EncoderLayers - 1 /\ ~(layer[2] + 1 < EncoderLayers)
    BY <1>1, <1>3, LayerNamed DEF LayerCount
  <2>3. layer = <<"encoder", EncoderLayers - 1>>
    BY <1>1, <1>3, <2>2, LayerFacts
  <2>4. QED
    BY <2>1, <2>3 DEF Follows
<1>4. QED
  BY <1>2, <1>3 DEF Follows

LEMMA LeaveLayerLeaves == layer \in LayerNames /\ LeaveLayer => Leaves
<1> SUFFICES ASSUME layer \in LayerNames, LeaveLayer PROVE Leaves
  OBVIOUS
<1>1. \A next, skip : EnterLayer(next, skip) =>
        layer' = next /\ conv' = 0 /\ pc' \in {"concat", "layer"}
  BY DEF EnterLayer
<1>2. QED
  BY <1>1, LayerFollows DEF LeaveLayer, Leaves

(* Leaving a layer takes a step off what the end of the layer leaves.      *)
LEMMA LeavesLeft ==
  ASSUME NEW K \in Nat, LayersWithin(K), NEW rest \in Nat, layer \in LayerNames, Leaves
  PROVE  \/ pc' = "inverse"
         \/ /\ pc' \in {"concat", "layer"}
            /\ InLayerLeft(K, rest, pc', layer', conv') < (rest + After(K, layer)) + 1
            /\ InLayerLeft(K, rest, pc', layer', conv') \in Nat
<1>1. ASSUME NEW next \in LayerNames, Follows(next, layer), layer' = next, conv' = 0,
             pc' \in {"concat", "layer"}
      PROVE  /\ InLayerLeft(K, rest, pc', layer', conv') < (rest + After(K, layer)) + 1
             /\ InLayerLeft(K, rest, pc', layer', conv') \in Nat
  <2>1. 0 \in 0 .. NumConvs(LayerAt(next))
    BY LayerFacts
  <2>2. /\ rest + After(K, next) \in Nat
        /\ InLayerLeft(K, rest, "concat", next, 0) = (rest + After(K, next)) + K + 3
        /\ InLayerLeft(K, rest, "layer", next, 0) = (rest + After(K, next)) + K + 2 - 0
    BY <2>1, InLayerLeftIs
  <2>3. After(K, layer) = After(K, next) + K + 3 /\ After(K, next) \in Nat
    BY <1>1, AfterIs
  <2>4. rest + After(K, layer) = (rest + After(K, next)) + K + 3
    BY <2>3
  <2>5. QED
    BY <1>1, <2>2, <2>4
<1>2. QED
  BY <1>1 DEF Leaves


(* What the host has left to do in oidn_unet_cuda, at most.                *)
HostLeft(K) ==
  CASE pc \in {"sizeEncoder", "sizeDecoder"} -> 10 + Whole(K) + LayersAfter(layer)
    [] pc = "malloc" ->
         7 + Whole(K) + (IF "encode" \notin allocated THEN 2
                         ELSE IF "buf0" \notin allocated THEN 1 ELSE 0)
    [] pc = "upload"    -> 6 + Whole(K)
    [] pc = "transfer"  -> 5 + Whole(K)
    [] pc = "saveImage" -> 4 + Whole(K)
    [] pc \in {"concat", "layer", "saveOutput"} -> InLayerLeft(K, 3, pc, layer, conv)
    [] pc = "inverse"  -> 3
    [] pc = "download" -> 2
    [] pc = "release"  -> 1
    [] OTHER           -> 0

(* A step of the host issues one operation at most, and the device can     *)
(* fault once.                                                             *)
StepsLeft(K) == 2 * HostLeft(K) + Len(queue) + (IF fault THEN 0 ELSE 1)

Halves ==
  /\ pc = "sizeEncoder" => layer[1] = "encoder"
  /\ pc = "sizeDecoder" => layer[1] = "decoder"
  /\ fault \in BOOLEAN

LEMMA StepHalves == Halves /\ [Next]_vars => Halves'
<1> SUFFICES ASSUME Halves, [Next]_vars PROVE Halves'
  OBVIOUS
<1>1. CASE SizeEncoder
  BY <1>1 DEF SizeEncoder, Halves, deviceVars
<1>2. CASE SizeDecoder
  BY <1>2 DEF SizeDecoder, Halves, deviceVars
<1>3. CASE \/ Malloc \/ Upload \/ Transfer \/ SaveImage \/ Convolve \/ PostOp
           \/ SaveOutput \/ Concat \/ InverseTransfer \/ Download \/ Release
  <2>1. LeaveLayer => pc' \in {"concat", "layer", "inverse"}
    BY DEF LeaveLayer, EnterLayer
  <2>2. pc' \notin {"sizeEncoder", "sizeDecoder"} /\ fault' = fault
    BY <1>3, <2>1 DEF Malloc, Upload, Transfer, SaveImage, Convolve, PostOp, SaveOutput, Concat,
       InverseTransfer, Download, Release, Exit, EnterLayer, deviceVars
  <2>3. QED
    BY <2>2 DEF Halves
<1>4. CASE Execute \/ Fault \/ Over \/ UNCHANGED vars
  BY <1>4 DEF Execute, Fault, Over, vars, hostVars, deviceVars, Halves
<1>5. QED
  BY <1>1, <1>2, <1>3, <1>4 DEF Next, HostStep

LEMMA HostLeftType ==
  ASSUME NEW K \in Nat, LayersWithin(K), IInv
  PROVE  /\ HostLeft(K) \in Nat
         /\ pc \notin Ended => HostLeft(K) >= 1
<1>1. layer \in LayerNames /\ conv \in 0 .. NumConvs(LayerAt(layer))
  BY DEF IInv, Walk, InLayer
<1>2. Whole(K) \in Nat /\ LayersAfter(layer) \in Nat
  BY <1>1, AfterIs
<1>3. pc \in {"concat", "layer", "saveOutput"} =>
        InLayerLeft(K, 3, pc, layer, conv) \in Nat /\ InLayerLeft(K, 3, pc, layer, conv) >= 1
  BY <1>1, InLayerLeftIs
<1>4. pc \in Before \cup {"upload"} \cup Issuing \cup {"release"} \cup Ended
  BY DEF IInv, Walk
<1> DEFINE W == Whole(K)
           A == LayersAfter(layer)
           I == InLayerLeft(K, 3, pc, layer, conv)
<1> HIDE DEF W, A, I
<1>5. HostLeft(K) \in Nat
  BY <1>2, <1>3 DEF HostLeft, W, A, I
<1>6. pc \notin Ended => HostLeft(K) >= 1
  BY <1>2, <1>3, <1>4 DEF HostLeft, Before, Issuing, Ended
<1>7. QED
  BY <1>5, <1>6

(* Every step of the host is one less to do, and issues one operation at   *)
(* most.                                                                   *)
LEMMA HostLeftFalls ==
  ASSUME NEW K \in Nat, LayersWithin(K), IInv, Halves, HostStep
  PROVE  HostLeft(K)' < HostLeft(K)
<1> DEFINE W == Whole(K)
<1>1. layer \in LayerNames /\ conv \in 0 .. NumConvs(LayerAt(layer)) /\ InLayer
  BY DEF IInv, Walk, InLayer
<1>2. /\ W \in Nat /\ LayersAfter(layer) \in Nat /\ After(K, <<"encoder", 0>>) + K + 3 = W
      /\ After(K, layer) \in Nat
  BY <1>1, AfterIs
<1>3. /\ InLayerLeft(K, 3, "concat", layer, conv) = (3 + After(K, layer)) + K + 3
      /\ InLayerLeft(K, 3, "layer", layer, conv) = (3 + After(K, layer)) + K + 2 - conv
      /\ InLayerLeft(K, 3, "saveOutput", layer, conv) = (3 + After(K, layer)) + 1
      /\ conv <= K /\ conv \in Nat
  BY <1>1, InLayerLeftIs
<1> HIDE DEF W
<1>4. CASE pc' \in {"exited", "threw"}
  <2>1. pc \notin Ended
    BY DEF HostStep, SizeEncoder, SizeDecoder, Malloc, Upload, Transfer, SaveImage, Convolve, PostOp,
       SaveOutput, Concat, InverseTransfer, Download, Release, Ended
  <2>2. HostLeft(K)' = 0
    BY <1>4 DEF HostLeft
  <2>3. QED
    BY <2>1, <2>2, HostLeftType
<1>5. CASE pc' \notin {"exited", "threw"}
  <2>1. CASE SizeEncoder
    <3> DEFINE next == IF layer[2] + 1 < EncoderLayers THEN <<"encoder", layer[2] + 1>>
                       ELSE <<"decoder", 0>>
    <3>1. /\ layer' = next /\ pc = "sizeEncoder" /\ pc' \in {"sizeEncoder", "sizeDecoder"}
      BY <2>1 DEF SizeEncoder
    <3>2. layer = <<"encoder", layer[2]>> /\ layer[2] \in 0 .. EncoderLayers - 1
      BY <1>1, <3>1, LayerNamed DEF Halves
    <3>3. next \in LayerNames /\ Follows(next, layer)
      BY <3>2, LayerFacts DEF LayerNames, Follows
    <3> HIDE DEF next
    <3>4. LayersAfter(layer) = LayersAfter(next) + 1 /\ LayersAfter(next) \in Nat
      BY <1>1, <3>3, AfterIs
    <3>5. /\ HostLeft(K) = 10 + W + LayersAfter(layer)
          /\ HostLeft(K)' = 10 + W + LayersAfter(next)
      BY <3>1 DEF HostLeft, W, Whole
    <3>6. QED
      BY <1>2, <3>4, <3>5
  <2>2. CASE SizeDecoder
    <3> DEFINE next == <<"decoder", layer[2] + 1>>
    <3>1. /\ pc = "sizeDecoder"
          /\ IF layer[2] + 1 < DecoderLayers THEN layer' = next /\ pc' = "sizeDecoder"
             ELSE pc' = "malloc"
      BY <2>2 DEF SizeDecoder
    <3>2. HostLeft(K) = 10 + W + LayersAfter(layer)
      BY <3>1 DEF HostLeft, W
    <3>3. CASE layer[2] + 1 < DecoderLayers
      <4>1. layer = <<"decoder", layer[2]>> /\ layer[2] \in 0 .. DecoderLayers - 1
        BY <1>1, <3>1, LayerNamed DEF Halves
      <4>2. next \in LayerNames /\ Follows(next, layer)
        BY <3>3, <4>1, LayerFacts DEF LayerNames, Follows
      <4> HIDE DEF next
      <4>3. LayersAfter(layer) = LayersAfter(next) + 1 /\ LayersAfter(next) \in Nat
        BY <1>1, <4>2, AfterIs
      <4>4. HostLeft(K)' = 10 + W + LayersAfter(next)
        BY <3>1, <3>3 DEF HostLeft, W, Whole
      <4>5. QED
        BY <1>2, <3>2, <4>3, <4>4
    <3>4. CASE ~(layer[2] + 1 < DecoderLayers)
      <4>1. HostLeft(K)' \in {7 + W, 7 + W + 1, 7 + W + 2}
        BY <1>2, <3>1, <3>4 DEF HostLeft, W, Whole
      <4>2. QED
        BY <1>2, <3>2, <4>1
    <3>5. QED
      BY <3>3, <3>4
  <2>3. CASE Malloc
    <3> DEFINE b == IF "encode" \notin allocated THEN "encode"
                    ELSE IF "buf0" \notin allocated THEN "buf0" ELSE "buf1"
               missing == IF "encode" \notin allocated THEN 2
                          ELSE IF "buf0" \notin allocated THEN 1 ELSE 0
    <3>1. /\ pc = "malloc" /\ allocated' = allocated \cup {b}
          /\ pc' = IF b = "buf1" THEN "upload" ELSE "malloc"
      BY <1>5, <2>3 DEF Malloc, Exit
    <3>2. allocated \in {{"weights"}, {"weights", "encode"}, {"weights", "encode", "buf0"}}
      BY <3>1 DEF IInv, Memory
    <3>3. HostLeft(K) = 7 + W + missing
      BY <3>1 DEF HostLeft, W
    <3>4. \/ missing = 2 /\ HostLeft(K)' = 7 + W + 1
          \/ missing = 1 /\ HostLeft(K)' = 7 + W + 0
          \/ missing = 0 /\ HostLeft(K)' = 6 + W
      BY <3>1, <3>2 DEF HostLeft, W, Whole
    <3>5. QED
      BY <1>2, <3>3, <3>4
  <2>4. CASE Upload
    <3>1. pc = "upload" /\ pc' = "transfer"
      BY <1>5, <2>4 DEF Upload, Exit
    <3>2. HostLeft(K) = 6 + W /\ HostLeft(K)' = 5 + W
      BY <3>1 DEF HostLeft, W, Whole
    <3>3. QED
      BY <1>2, <3>2
  <2>5. CASE Transfer
    <3>1. pc = "transfer" /\ pc' = "saveImage"
      BY <1>5, <2>5 DEF Transfer, Exit
    <3>2. HostLeft(K) = 5 + W /\ HostLeft(K)' = 4 + W
      BY <3>1 DEF HostLeft, W, Whole
    <3>3. QED
      BY <1>2, <3>2
  <2>6. CASE SaveImage
    <3>1. pc = "saveImage" /\ pc' = "layer" /\ layer' = <<"encoder", 0>> /\ conv' = 0
      BY <1>5, <2>6 DEF SaveImage, Exit, EnterLayer
    <3>2. <<"encoder", 0>> \in LayerNames /\ 0 \in 0 .. NumConvs(LayerAt(<<"encoder", 0>>))
      BY LayerFacts DEF LayerNames
    <3>3. /\ InLayerLeft(K, 3, "layer", <<"encoder", 0>>, 0)
               = (3 + After(K, <<"encoder", 0>>)) + K + 2 - 0
          /\ After(K, <<"encoder", 0>>) \in Nat
      BY <3>2, InLayerLeftIs, AfterIs
    <3>4. HostLeft(K) = 4 + W
      BY <3>1 DEF HostLeft, W
    <3>5. HostLeft(K)' = InLayerLeft(K, 3, "layer", <<"encoder", 0>>, 0)
      BY <3>1 DEF HostLeft, InLayerLeft, After, LayersAfter
    <3>6. QED
      BY <1>2, <3>3, <3>4, <3>5
  <2>7. CASE Convolve
    <3>1. pc = "layer" /\ pc' = "layer" /\ layer' = layer /\ conv' = conv + 1
          /\ conv < NumConvs(LayerAt(layer))
      BY <1>5, <2>7 DEF Convolve
    <3>2. conv + 1 \in 0 .. NumConvs(LayerAt(layer))
      BY <1>1, <3>1, LayerFacts
    <3>3. InLayerLeft(K, 3, "layer", layer, conv + 1) = (3 + After(K, layer)) + K + 2 - (conv + 1)
      BY <1>1, <3>2, InLayerLeftIs
    <3>4. /\ HostLeft(K) = InLayerLeft(K, 3, "layer", layer, conv)
          /\ HostLeft(K)' = InLayerLeft(K, 3, "layer", layer, conv + 1)
      BY <3>1 DEF HostLeft, InLayerLeft, After, LayersAfter
    <3>5. QED
      BY <1>2, <1>3, <3>3, <3>4
  <2>8. CASE PostOp \/ SaveOutput
    <3>1. /\ pc \in {"layer", "saveOutput"}
          /\ \/ pc = "layer" /\ pc' = "saveOutput" /\ layer' = layer /\ conv' = conv
             \/ LeaveLayer
      BY <1>5, <2>8 DEF PostOp, SaveOutput, Exit
    <3>2. HostLeft(K) = InLayerLeft(K, 3, pc, layer, conv)
      BY <3>1 DEF HostLeft
    <3>3. /\ HostLeft(K) >= (3 + After(K, layer)) + 1
          /\ pc = "layer" => HostLeft(K) >= (3 + After(K, layer)) + 2
      BY <1>2, <1>3, <3>1, <3>2
    <3>4. CASE pc = "layer" /\ pc' = "saveOutput" /\ layer' = layer /\ conv' = conv
      <4>1. HostLeft(K)' = InLayerLeft(K, 3, "saveOutput", layer, conv)
        BY <3>4 DEF HostLeft, InLayerLeft, After, LayersAfter
      <4>2. HostLeft(K) \in Nat
        BY HostLeftType
      <4>3. QED
        BY <1>2, <1>3, <3>3, <3>4, <4>1, <4>2
    <3>5. CASE LeaveLayer
      <4> DEFINE left == InLayerLeft(K, 3, pc', layer', conv')
      <4>1. \/ pc' = "inverse"
            \/ pc' \in {"concat", "layer"} /\ left < (3 + After(K, layer)) + 1 /\ left \in Nat
        BY <1>1, <3>5, LeaveLayerLeaves, LeavesLeft
      <4>2. HostLeft(K)' = IF pc' = "inverse" THEN 3 ELSE left
        BY <4>1 DEF HostLeft, InLayerLeft, After, LayersAfter
      <4>3. HostLeft(K) \in Nat
        BY HostLeftType
      <4> HIDE DEF left
      <4>4. QED
        BY <1>2, <3>3, <4>1, <4>2, <4>3
    <3>6. QED
      BY <3>1, <3>4, <3>5
  <2>9. CASE Concat
    <3>1. pc = "concat" /\ pc' = "layer" /\ layer' = layer /\ conv' = conv
      BY <1>5, <2>9 DEF Concat, Exit
    <3>2. /\ HostLeft(K) = InLayerLeft(K, 3, "concat", layer, conv)
          /\ HostLeft(K)' = InLayerLeft(K, 3, "layer", layer, conv)
      BY <3>1 DEF HostLeft, InLayerLeft, After, LayersAfter
    <3>3. QED
      BY <1>2, <1>3, <3>2
  <2>10. CASE InverseTransfer \/ Download \/ Release
    <3>1. \/ pc = "inverse" /\ pc' = "download"
          \/ pc = "download" /\ pc' = "release"
          \/ pc = "release" /\ pc' = "returned"
      BY <1>5, <2>10 DEF InverseTransfer, Download, Release, Exit
    <3>2. QED
      BY <3>1 DEF HostLeft
  <2>11. QED
    BY <2>1, <2>2, <2>3, <2>4, <2>5, <2>6, <2>7, <2>8, <2>9, <2>10 DEF HostStep
<1>6. QED
  BY <1>4, <1>5


(* What the host adds to the stream in a step.                             *)
LEMMA IssuesOne ==
  ASSUME IInv, HostStep
  PROVE  /\ Len(queue) \in Nat /\ Len(queue') \in Nat
         /\ Len(queue') <= Len(queue) + 1
         /\ fault' = fault
<1>1. queue \in Seq(Elements(queue))
  BY DEF IInv, Stream
<1>2. \/ queue' = queue \/ queue' = <<>> \/ \E op : queue' = Append(queue, op)
  BY DEF HostStep, SizeEncoder, SizeDecoder, Malloc, Upload, Transfer, SaveImage, Convolve, PostOp,
     SaveOutput, Concat, InverseTransfer, Download, Release, Exit, Launch, CheckedLaunch, deviceVars
<1>3. ASSUME NEW op, queue' = Append(queue, op)
      PROVE  Len(queue') \in Nat /\ Len(queue') = Len(queue) + 1
  <2>1. queue \in Seq(Elements(queue) \cup {op})
    BY <1>1
  <2>2. QED
    BY <1>3, <2>1
<1>4. fault' = fault
  BY DEF HostStep, SizeEncoder, SizeDecoder, Malloc, Upload, Transfer, SaveImage, Convolve, PostOp,
     SaveOutput, Concat, InverseTransfer, Download, Release, Exit, deviceVars
<1>5. Len(queue) \in Nat
  BY <1>1
<1>6. QED
  BY <1>2, <1>3, <1>4, <1>5

LEMMA OneIssued ==
  ASSUME NEW h \in Nat, NEW h2 \in Nat, NEW q \in Nat, NEW q2 \in Nat, NEW f \in Nat,
         h2 < h, q2 <= q + 1
  PROVE  2 * h2 + q2 + f < 2 * h + q + f
  OBVIOUS

LEMMA StepsLeftFall ==
  ASSUME NEW K \in Nat, LayersWithin(K), IInv, Halves, HostLeft(K)' \in Nat, [Next]_vars
  PROVE  StepsLeft(K)' < StepsLeft(K) \/ UNCHANGED vars
<1> DEFINE h == HostLeft(K)
           f == IF fault THEN 0 ELSE 1
           q == Len(queue)
<1>1. queue \in Seq(Elements(queue)) /\ q \in Nat
  BY DEF IInv, Stream
<1>2. h \in Nat /\ f \in Nat
  BY HostLeftType
<1>3. StepsLeft(K) = 2 * h + q + f /\ StepsLeft(K)' = 2 * h' + q' + f'
  BY DEF StepsLeft
<1>4. h' \in Nat
  OBVIOUS
<1>5. CASE HostStep
  <2>1. h' < h
    BY <1>5, HostLeftFalls
  <2>2. q' \in Nat /\ q' <= q + 1 /\ f' = f
    BY <1>5, IssuesOne
  <2> HIDE DEF h, f, q
  <2>3. StepsLeft(K)' = 2 * h' + q' + f
    BY <1>3, <2>2
  <2>4. 2 * h' + q' + f < 2 * h + q + f
    BY <1>1, <1>2, <1>4, <2>1, <2>2, OneIssued
  <2>5. QED
    BY <1>3, <2>3, <2>4
<1>6. CASE Execute
  <2>1. h' = h /\ f' = f
    BY <1>6 DEF Execute, hostVars, HostLeft, InLayerLeft, After, LayersAfter, Whole
  <2>2. queue # <<>> /\ queue' = Tail(queue)
    BY <1>6 DEF Execute
  <2>3. q' = q - 1
    BY <1>1, <2>2
  <2> HIDE DEF h, f, q
  <2>4. StepsLeft(K)' = 2 * h + (q - 1) + f
    BY <1>3, <2>1, <2>3
  <2>5. QED
    BY <1>1, <1>2, <1>3, <2>4
<1>7. CASE Fault
  <2>1. h' = h /\ q' = q
    BY <1>7 DEF Fault, hostVars, HostLeft, InLayerLeft, After, LayersAfter, Whole
  <2>2. f = 1 /\ f' = 0
    BY <1>7 DEF Fault
  <2> HIDE DEF h, f, q
  <2>3. QED
    BY <1>1, <1>2, <1>3, <2>1, <2>2
<1>8. CASE Over \/ UNCHANGED vars
  <2>1. UNCHANGED vars
    BY <1>8 DEF Over
  <2> HIDE DEF h, f, q
  <2>2. QED
    BY <1>1, <1>2, <1>3, <2>1
<1>9. QED
  BY <1>5, <1>6, <1>7, <1>8 DEF Next

(* oidn_unet_cuda cannot go on for ever: for every network, every image    *)
(* and whatever the GPU does, each step of the host or of the device is    *)
(* one of finitely many left.                                              *)
THEOREM CudaWorkEnds ==
  ASSUME NEW K \in Nat, LayersWithin(K)
  PROVE  Spec => [](StepsLeft(K) \in Nat) /\ [][StepsLeft(K)' < StepsLeft(K)]_vars
<1>1. Init => Halves
  <2>1. Init => fault \in BOOLEAN
    BY DEF Init
  <2>2. QED
    BY <2>1 DEF Init, Halves
<1>2. IInv => HostLeft(K) \in Nat /\ StepsLeft(K) \in Nat
  <2> SUFFICES ASSUME IInv PROVE HostLeft(K) \in Nat /\ StepsLeft(K) \in Nat
    OBVIOUS
  <2>1. queue \in Seq(Elements(queue)) /\ Len(queue) \in Nat
    BY DEF IInv, Stream
  <2> HIDE DEF HostLeft
  <2>2. QED
    BY <2>1, HostLeftType DEF StepsLeft
<1>3. IInv /\ Halves /\ (HostLeft(K) \in Nat)' /\ [Next]_vars => [StepsLeft(K)' < StepsLeft(K)]_vars
  BY StepsLeftFall
<1>4. QED
  BY <1>1, <1>2, <1>3, InitIInv, StepIInv, StepHalves, PTL DEF Spec

(* Such a bound there is.                                                  *)
LEMMA Bounds ==
  ASSUME NEW n \in Nat, NEW f, \A l \in 0 .. n - 1 : f[l] \in Nat
  PROVE  \E K \in Nat : \A l \in 0 .. n - 1 : f[l] <= K
<1> DEFINE S == {m \in 0 .. n : \E K \in Nat : \A l \in 0 .. m - 1 : f[l] <= K}
<1>1. 0 \in S
  OBVIOUS
<1>2. ASSUME NEW m \in 0 .. n - 1, m \in S PROVE m + 1 \in S
  <2>1. PICK K \in Nat : \A l \in 0 .. m - 1 : f[l] <= K
    BY <1>2
  <2>2. f[m] \in Nat
    OBVIOUS
  <2>3. CASE f[m] <= K
    BY <2>1, <2>3
  <2>4. CASE ~(f[m] <= K)
    <3>1. \A l \in 0 .. m - 1 : f[l] \in Nat
      OBVIOUS
    <3>2. \A l \in 0 .. m : f[l] <= f[m]
      BY <2>1, <2>2, <2>4, <3>1
    <3>3. QED
      BY <2>2, <3>2
  <2>5. QED
    BY <2>3, <2>4
<1> HIDE DEF S
<1>3. 0 .. n \subseteq S
  BY <1>1, <1>2, InductionUpTo
<1>4. n \in S
  BY <1>3
<1>5. QED
  BY <1>4 DEF S

LEMMA MostConvolutions == \E K \in Nat : LayersWithin(K)
<1> DEFINE e == [l \in 0 .. EncoderLayers - 1 |-> NumConvs(Encoder[l])]
           d == [l \in 0 .. DecoderLayers - 1 |-> NumConvs(Decoder[l])]
<1>1. /\ EncoderLayers \in Nat /\ DecoderLayers \in Nat
      /\ \A l \in 0 .. EncoderLayers - 1 : NumConvs(Encoder[l]) \in Nat
      /\ \A l \in 0 .. DecoderLayers - 1 : NumConvs(Decoder[l]) \in Nat
  BY NetworkShape, LayerFactsOf
<1> HIDE DEF NumConvs
<1>2. /\ \A l \in 0 .. EncoderLayers - 1 : e[l] = NumConvs(Encoder[l])
      /\ \A l \in 0 .. DecoderLayers - 1 : d[l] = NumConvs(Decoder[l])
  OBVIOUS
<1> HIDE DEF e, d
<1>3. PICK K1 \in Nat : \A l \in 0 .. EncoderLayers - 1 : e[l] <= K1
  BY <1>1, <1>2, Bounds
<1>4. PICK K2 \in Nat : \A l \in 0 .. DecoderLayers - 1 : d[l] <= K2
  BY <1>1, <1>2, Bounds
<1>5. /\ \A l \in 0 .. EncoderLayers - 1 : NumConvs(Encoder[l]) <= K1 + K2
      /\ \A l \in 0 .. DecoderLayers - 1 : NumConvs(Decoder[l]) <= K1 + K2
  BY <1>1, <1>2, <1>3, <1>4
<1>6. \A at \in LayerNames : NumConvs(LayerAt(at)) <= K1 + K2
  BY <1>5, LayerNamed DEF LayerAt
<1>7. QED
  BY <1>6 DEF LayersWithin


-----------------------------------------------------------------------------
(* What cannot stop the host.                                              *)

(* gpu_conv does not throw, and without a failure of the GPU the process   *)
(* does not end early and no check of the host has anything to find.       *)
Unhindered ==
  /\ pc # "threw"
  /\ gpuFails \/ (pc # "exited" /\ ~lastError /\ ~fault)

LEMMA WidthIsSupported ==
  ASSUME UNet, WidthsAddUp, WidthsSupported, NEW size \in ImageSizes, NEW at \in LayerNames,
         NEW i \in 0 .. NumConvs(LayerAt(at)) - 1
  PROVE  Within(size, at, i).c \in SupportedInC
<1>1. Within(size, at, i).c = LayerAt(at).in[i + 1]
  BY WidthTrainedFor
<1>2. /\ \/ \E l \in DOMAIN Encoder : LayerAt(at) = Encoder[l]
         \/ \E l \in DOMAIN Decoder : LayerAt(at) = Decoder[l]
      /\ IsLayer(LayerAt(at))
  BY NetworkShape DEF LayerNames, LayerAt
<1>3. i + 1 \in DOMAIN LayerAt(at).in
  <2> DEFINE y == LayerAt(at)
  <2>1. y.in \in Seq(Nat \ {0}) /\ y.out \in Seq(Nat \ {0}) /\ Len(y.in) = Len(y.out)
    BY <1>2 DEF IsLayer
  <2>2. i \in 0 .. Len(y.out) - 1 /\ Len(y.out) \in Nat
    BY <2>1 DEF NumConvs
  <2> HIDE DEF y
  <2>3. i + 1 \in 1 .. Len(y.in)
    BY <2>1, <2>2
  <2>4. QED
    BY <2>1, <2>3 DEF y
<1>4. QED
  BY <1>1, <1>2, <1>3 DEF WidthsSupported

LEMMA StepUnhindered ==
  ASSUME UNet, WidthsAddUp, WidthsSupported, IInv, HostInv, Unhindered, [Next]_vars
  PROVE  Unhindered'
<1>1. CASE Convolve
  <2>1. pc = "layer" /\ conv < NumConvs(LayerAt(layer))
    BY <1>1 DEF Convolve
  <2>2. /\ layer \in LayerNames /\ conv \in 0 .. NumConvs(LayerAt(layer))
        /\ image \in ImageSizes /\ NumConvs(LayerAt(layer)) \in Nat
    BY LayerFacts DEF IInv, Walk, InLayer
  <2>3. shape = ShapeOf(Within(image, layer, conv))
    BY <2>1 DEF HostInv, InNetwork, Current
  <2>4. shape.c = Within(image, layer, conv).c
    BY <2>3 DEF ShapeOf, Shape
  <2>5. conv \in 0 .. NumConvs(LayerAt(layer)) - 1
    BY <2>1, <2>2
  <2>6. shape.c \in SupportedInC
    BY <2>2, <2>4, <2>5, WidthIsSupported
  <2>7. /\ pc' = pc /\ UNCHANGED <<gpuFails, fault>>
        /\ lastError' = lastError \/ gpuFails
    BY <1>1, <2>6 DEF Convolve, Launch, given
  <2>8. QED
    BY <2>1, <2>7 DEF Unhindered
<1>2. CASE Exit
  <2>1. gpuFails /\ gpuFails' = gpuFails /\ pc' = "exited"
    BY <1>2 DEF Exit, given
  <2>2. QED
    BY <2>1 DEF Unhindered
<1>3. CASE HostStep /\ ~Convolve /\ ~Exit
  <2>1. LeaveLayer => pc' \in {"concat", "layer", "inverse"}
    BY DEF LeaveLayer, EnterLayer
  <2>2. pc' \notin {"threw", "exited"}
    BY <1>3, <2>1 DEF HostStep, SizeEncoder, SizeDecoder, Malloc, Upload, Transfer, SaveImage, PostOp,
       SaveOutput, Concat, InverseTransfer, Download, Release, EnterLayer
  <2>3. UNCHANGED <<gpuFails, fault, lastError>>
    BY <1>3 DEF HostStep, SizeEncoder, SizeDecoder, Malloc, Upload, Transfer, SaveImage, PostOp,
       SaveOutput, Concat, InverseTransfer, Download, Release, CheckedLaunch, given, deviceVars
  <2>4. QED
    BY <2>2, <2>3 DEF Unhindered
<1>4. CASE Fault
  BY <1>4 DEF Fault, hostVars, given, Unhindered
<1>5. CASE Execute \/ Over \/ UNCHANGED vars
  BY <1>5 DEF Execute, Over, vars, hostVars, deviceVars, given, Unhindered
<1>6. QED
  BY <1>1, <1>2, <1>3, <1>4, <1>5 DEF Next

(* For a network whose widths add up and all have an instantiation of the  *)
(* kernel, oidn_unet_cuda never meets gpu_conv's throw, and on a GPU that  *)
(* works nothing stops the host: with CudaWorkEnds, which leaves it        *)
(* finitely many steps, it can only stop where it returns.                 *)
THEOREM CudaUnhindered ==
  ASSUME UNet, WidthsAddUp, WidthsSupported
  PROVE  Spec => []Unhindered
<1>1. Init => Unhindered
  BY DEF Init, Unhindered
<1>2. IInv /\ HostInv /\ Unhindered /\ [Next]_vars => Unhindered'
  BY StepUnhindered
<1>3. QED
  BY <1>1, <1>2, NetworkInvHolds, PTL DEF Spec


(* oidn_unet, in which every step may throw and ends it then.              *)
CpuPlace ==
  /\ layer \in LayerNames /\ conv \in 0 .. NumConvs(LayerAt(layer))
  /\ pc \in CpuPlaces
  /\ pc \in {"transfer", "keepOriginal"} => layer = <<"encoder", 0>> /\ conv = 0

CpuLeft(K) ==
  CASE pc = "transfer"     -> 2 + Whole(K)
    [] pc = "keepOriginal" -> 1 + Whole(K)
    [] pc \in {"concat", "layer", "save"} -> InLayerLeft(K, 1, pc, layer, conv)
    [] pc = "inverse"      -> 1
    [] OTHER               -> 0

LEMMA CpuLeaveLayerLeaves == layer \in LayerNames /\ Cpu!LeaveLayer => Leaves
<1> SUFFICES ASSUME layer \in LayerNames, Cpu!LeaveLayer PROVE Leaves
  OBVIOUS
<1>1. \A next, skip : Cpu!EnterLayer(next, skip) =>
        layer' = next /\ conv' = 0 /\ pc' \in {"concat", "layer"}
  BY DEF Cpu!EnterLayer
<1>2. \A half : Cpu!LayerCount(half) = LayerCount(half)
  BY SameWalk
<1>3. QED
  BY <1>1, <1>2, LayerFollows DEF Cpu!LeaveLayer, Leaves

(* What a step of oidn_unet does to its place.                             *)
CpuMoves ==
  \/ pc \notin {"returned", "threw"} /\ pc' = "threw" /\ UNCHANGED <<layer, conv>>
  \/ pc = "transfer" /\ pc' = "keepOriginal" /\ UNCHANGED <<layer, conv>>
  \/ pc = "keepOriginal" /\ pc' = "layer" /\ UNCHANGED <<layer, conv>>
  \/ /\ pc = "layer" /\ pc' = "layer" /\ layer' = layer
     /\ conv < NumConvs(LayerAt(layer)) /\ conv' = conv + 1
  \/ pc = "layer" /\ pc' = "save" /\ UNCHANGED <<layer, conv>>
  \/ pc \in {"layer", "save"} /\ Leaves
  \/ pc = "concat" /\ pc' = "layer" /\ UNCHANGED <<layer, conv>>
  \/ pc = "inverse" /\ pc' = "returned" /\ UNCHANGED <<layer, conv>>

LEMMA CpuStepMoves == CpuPlace /\ Cpu!Step => CpuMoves
<1> SUFFICES ASSUME CpuPlace, Cpu!Step PROVE CpuMoves
  OBVIOUS
<1>1. Cpu!LeaveLayer => Leaves
  BY CpuLeaveLayerLeaves DEF CpuPlace
<1>2. CASE Cpu!Throw
  <2>1. pc \notin {"returned", "threw"}
    BY DEF Cpu!Step, Cpu!Transfer, Cpu!KeepOriginal, Cpu!Convolve, Cpu!MaxPool, Cpu!NnUpsample,
       Cpu!NoPostOp, Cpu!AtPostOp, Cpu!SaveOutput, Cpu!Concat, Cpu!InverseTransfer
  <2>2. QED
    BY <1>2, <2>1 DEF Cpu!Throw, CpuMoves
<1>3. CASE ~Cpu!Throw /\ (Cpu!MaxPool \/ Cpu!NnUpsample \/ Cpu!NoPostOp)
  <2>1. pc = "layer" /\ Cpu!AfterPostOp
    BY <1>3 DEF Cpu!MaxPool, Cpu!NnUpsample, Cpu!NoPostOp, Cpu!AtPostOp
  <2>2. QED
    BY <1>1, <2>1 DEF Cpu!AfterPostOp, CpuMoves
<1>4. CASE ~Cpu!Throw /\ Cpu!SaveOutput
  BY <1>1, <1>4 DEF Cpu!SaveOutput, CpuMoves
<1>5. CASE ~Cpu!Throw /\ Cpu!Convolve
  BY <1>5, SameWalk DEF Cpu!Convolve, CpuMoves
<1>6. CASE /\ ~Cpu!Throw
           /\ Cpu!Transfer \/ Cpu!KeepOriginal \/ Cpu!Concat \/ Cpu!InverseTransfer
  BY <1>6 DEF Cpu!Transfer, Cpu!KeepOriginal, Cpu!Concat, Cpu!InverseTransfer, CpuMoves
<1>7. QED
  BY <1>2, <1>3, <1>4, <1>5, <1>6 DEF Cpu!Step

LEMMA CpuMovesPlace == CpuPlace /\ CpuMoves => CpuPlace'
<1> SUFFICES ASSUME CpuPlace, CpuMoves PROVE CpuPlace'
  OBVIOUS
<1>1. CASE Leaves /\ pc \in {"layer", "save"}
  <2>1. CASE pc' = "inverse" /\ UNCHANGED <<layer, conv>>
    BY <2>1 DEF CpuPlace, CpuPlaces
  <2>2. CASE ~(pc' = "inverse" /\ UNCHANGED <<layer, conv>>)
    <3>1. layer' \in LayerNames /\ conv' = 0 /\ pc' \in {"concat", "layer"}
      BY <1>1, <2>2 DEF Leaves
    <3>2. 0 \in 0 .. NumConvs(LayerAt(layer'))
      BY <3>1, LayerFacts
    <3>3. NumConvs(LayerAt(layer))' = NumConvs(LayerAt(layer'))
      BY DEF LayerAt, NumConvs
    <3>4. QED
      BY <3>1, <3>2, <3>3 DEF CpuPlace, CpuPlaces
  <2>3. QED
    BY <2>1, <2>2
<1>2. CASE /\ pc = "layer" /\ pc' = "layer" /\ layer' = layer
           /\ conv < NumConvs(LayerAt(layer)) /\ conv' = conv + 1
  <2>1. NumConvs(LayerAt(layer)) \in Nat /\ conv \in 0 .. NumConvs(LayerAt(layer))
    BY LayerFacts DEF CpuPlace
  <2>2. conv' \in 0 .. NumConvs(LayerAt(layer))
    BY <1>2, <2>1
  <2>3. NumConvs(LayerAt(layer))' = NumConvs(LayerAt(layer))
    BY <1>2 DEF LayerAt, NumConvs
  <2>4. QED
    BY <1>2, <2>2, <2>3 DEF CpuPlace, CpuPlaces
<1>3. CASE /\ UNCHANGED <<layer, conv>> /\ pc' # "transfer" /\ pc' \in CpuPlaces
           /\ pc = "transfer" \/ pc' # "keepOriginal"
  <2>1. NumConvs(LayerAt(layer))' = NumConvs(LayerAt(layer))
    BY <1>3 DEF LayerAt, NumConvs
  <2>2. QED
    BY <1>3, <2>1 DEF CpuPlace, CpuPlaces
<1>4. QED
  BY <1>1, <1>2, <1>3 DEF CpuMoves, CpuPlaces

LEMMA CpuLeftType ==
  ASSUME NEW K \in Nat, LayersWithin(K), CpuPlace
  PROVE  CpuLeft(K) \in Nat /\ (pc \notin {"returned", "threw"} => CpuLeft(K) >= 1)
<1>1. Whole(K) \in Nat
  BY AfterIs
<1>2. pc \in {"concat", "layer", "save"} =>
        InLayerLeft(K, 1, pc, layer, conv) \in Nat /\ InLayerLeft(K, 1, pc, layer, conv) >= 1
  BY InLayerLeftIs DEF CpuPlace
<1> DEFINE W == Whole(K)
           I == InLayerLeft(K, 1, pc, layer, conv)
<1> HIDE DEF W, I
<1>3. QED
  BY <1>1, <1>2 DEF CpuLeft, W, I, CpuPlace, CpuPlaces

LEMMA CpuLeftFalls ==
  ASSUME NEW K \in Nat, LayersWithin(K), CpuPlace, CpuMoves
  PROVE  CpuLeft(K)' < CpuLeft(K)
<1> DEFINE W == Whole(K)
           I(where, c) == InLayerLeft(K, 1, where, layer, c)
<1>1. /\ layer \in LayerNames /\ conv \in 0 .. NumConvs(LayerAt(layer))
      /\ NumConvs(LayerAt(layer)) \in Nat
  BY LayerFacts DEF CpuPlace
<1>2. /\ W \in Nat /\ After(K, <<"encoder", 0>>) + K + 3 = W
      /\ After(K, layer) \in Nat
  BY <1>1, AfterIs
<1>3. /\ I("concat", conv) = (1 + After(K, layer)) + K + 3
      /\ I("layer", conv) = (1 + After(K, layer)) + K + 2 - conv
      /\ I("save", conv) = (1 + After(K, layer)) + 1
      /\ conv <= K /\ conv \in Nat
  BY <1>1, InLayerLeftIs
<1>4. /\ UNCHANGED <<layer, conv>> /\ pc' \in {"concat", "layer", "save"} =>
           CpuLeft(K)' = I(pc', conv)
      /\ pc \in {"concat", "layer", "save"} => CpuLeft(K) = I(pc, conv)
  BY DEF CpuLeft, InLayerLeft, After, LayersAfter
<1> HIDE DEF W, I
<1>5. CASE pc \notin {"returned", "threw"} /\ pc' = "threw"
  BY <1>5, CpuLeftType DEF CpuLeft
<1>6. CASE pc = "transfer" /\ pc' = "keepOriginal"
  <2>1. CpuLeft(K) = 2 + W /\ CpuLeft(K)' = 1 + W
    BY <1>6 DEF CpuLeft, W, Whole
  <2>2. QED
    BY <1>2, <2>1
<1>7. CASE pc = "keepOriginal" /\ pc' = "layer" /\ UNCHANGED <<layer, conv>>
  <2>1. CpuLeft(K) = 1 + W
    BY <1>7 DEF CpuLeft, W
  <2>2. layer = <<"encoder", 0>> /\ conv = 0
    BY <1>7 DEF CpuPlace
  <2>3. CpuLeft(K)' = (1 + After(K, layer)) + K + 2 - 0
    BY <1>3, <1>4, <1>7, <2>2
  <2>4. QED
    BY <1>2, <2>1, <2>2, <2>3
<1>8. CASE /\ pc = "layer" /\ pc' = "layer" /\ layer' = layer
           /\ conv < NumConvs(LayerAt(layer)) /\ conv' = conv + 1
  <2>1. conv + 1 \in 0 .. NumConvs(LayerAt(layer))
    BY <1>1, <1>8
  <2>2. InLayerLeft(K, 1, "layer", layer, conv + 1) = (1 + After(K, layer)) + K + 2 - (conv + 1)
    BY <1>1, <2>1, InLayerLeftIs
  <2>3. CpuLeft(K)' = InLayerLeft(K, 1, "layer", layer, conv + 1)
    BY <1>8 DEF CpuLeft, InLayerLeft, After, LayersAfter
  <2>4. QED
    BY <1>2, <1>3, <1>4, <1>8, <2>2, <2>3
<1>9. CASE /\ pc = "layer" /\ pc' = "save" /\ UNCHANGED <<layer, conv>>
  BY <1>2, <1>3, <1>4, <1>9
<1>10. CASE pc \in {"layer", "save"} /\ Leaves
  <2> DEFINE left == InLayerLeft(K, 1, pc', layer', conv')
  <2>1. \/ pc' = "inverse"
        \/ pc' \in {"concat", "layer"} /\ left < (1 + After(K, layer)) + 1 /\ left \in Nat
    BY <1>1, <1>10, LeavesLeft
  <2>2. CpuLeft(K)' = IF pc' = "inverse" THEN 1 ELSE left
    BY <2>1 DEF CpuLeft, InLayerLeft, After, LayersAfter
  <2>3. CpuLeft(K) >= (1 + After(K, layer)) + 1 /\ CpuLeft(K) \in Nat
    BY <1>2, <1>3, <1>4, <1>10, CpuLeftType
  <2> HIDE DEF left
  <2>4. QED
    BY <1>2, <2>1, <2>2, <2>3
<1>11. CASE pc = "concat" /\ pc' = "layer" /\ UNCHANGED <<layer, conv>>
  BY <1>2, <1>3, <1>4, <1>11
<1>12. CASE pc = "inverse" /\ pc' = "returned"
  BY <1>12 DEF CpuLeft
<1>13. QED
  BY <1>5, <1>6, <1>7, <1>8, <1>9, <1>10, <1>11, <1>12 DEF CpuMoves

(* oidn_unet cannot go on for ever either: for every network and every     *)
(* image each of its steps is one of finitely many left.                   *)
THEOREM CpuWorkEnds ==
  ASSUME NEW K \in Nat, LayersWithin(K)
  PROVE  Cpu!Spec => [](CpuLeft(K) \in Nat) /\ [][CpuLeft(K)' < CpuLeft(K)]_(Cpu!vars)
<1>1. Cpu!Init => CpuPlace
  BY LayerFacts DEF Cpu!Init, CpuPlace, CpuPlaces, LayerNames
<1>2. CpuPlace /\ [Cpu!Next]_(Cpu!vars) => CpuPlace'
  <2> SUFFICES ASSUME CpuPlace, [Cpu!Next]_(Cpu!vars) PROVE CpuPlace'
    OBVIOUS
  <2>1. CASE Cpu!Step
    BY <2>1, CpuStepMoves, CpuMovesPlace
  <2>2. CASE Cpu!Over \/ UNCHANGED Cpu!vars
    BY <2>2 DEF Cpu!Over, Cpu!vars, CpuPlace, LayerAt
  <2>3. QED
    BY <2>1, <2>2 DEF Cpu!Next
<1>3. CpuPlace => CpuLeft(K) \in Nat
  BY CpuLeftType
<1>4. CpuPlace /\ [Cpu!Next]_(Cpu!vars) => [CpuLeft(K)' < CpuLeft(K)]_(Cpu!vars)
  BY CpuStepMoves, CpuLeftFalls DEF Cpu!Next, Cpu!Over
<1>5. QED
  BY <1>1, <1>2, <1>3, <1>4, PTL DEF Cpu!Spec

-----------------------------------------------------------------------------
(* What the tuner tries.                                                   *)

SmallBlocks == {b \in Nat \X Nat \X Nat : Tuner!Threads(b) <= 1024}

LEMMA RowOf ==
  ASSUME NEW n \in Nat, NEW m \in Nat, NEW x \in 0 .. n * m - 1
  PROVE  n # 0 /\ m # 0 /\ x \div m \in 0 .. n - 1 /\ x % m \in 0 .. m - 1
<1>1. n \in Nat \ {0} /\ m \in Nat \ {0}
  BY SMT
<1>2. PICK a \in 0 .. n - 1, r \in 0 .. m - 1 : x = a * m + r
  BY <1>1, RadixSurjective
<1>3. x \div m = a /\ x % m = r
  BY <1>1, <1>2, RadixDivMod
<1>4. QED
  BY <1>1, <1>2, <1>3

(* Three loops, one inside the other.                                      *)
LEMMA CubeOf ==
  ASSUME NEW n \in Nat, NEW m \in Nat, NEW x \in 0 .. n * n * m - 1
  PROVE  /\ (x \div (n * m)) + 1 \in 1 .. n
         /\ ((x \div m) % n) + 1 \in 1 .. n
         /\ (x % m) + 1 \in 1 .. m
<1>1. n * n \in Nat /\ n * m \in Nat /\ n * n * m = (n * n) * m /\ n * n * m = n * (n * m)
  BY SMT
<1>2. x \div m \in 0 .. n * n - 1 /\ x % m \in 0 .. m - 1
  BY <1>1, RowOf
<1>3. (x \div m) % n \in 0 .. n - 1
  BY <1>2, RowOf
<1>4. x \div (n * m) \in 0 .. n - 1
  BY <1>1, RowOf
<1> DEFINE i == x \div m
           j == i % n
           k == x \div (n * m)
           l == x % m
<1> HIDE DEF i, j, k, l
<1>5. QED
  BY <1>2, <1>3, <1>4 DEF i, j, k, l

LEMMA CombinationsAre ==
  ASSUME Tuner!CandidatesAreNumbers
  PROVE  /\ Tuner!Combinations \in Nat
         /\ \A i \in 1 .. Tuner!Combinations : Tuner!Combination(i) \in Nat \X Nat \X Nat
<1> DEFINE n == Len(XyVals)
           m == Len(ZVals)
<1>1. /\ n \in Nat /\ m \in Nat /\ Tuner!Combinations = n * n * m
      /\ \A i \in 1 .. n : XyVals[i] \in Nat
      /\ \A i \in 1 .. m : ZVals[i] \in Nat
  BY DEF Tuner!CandidatesAreNumbers, Tuner!Combinations
<1> HIDE DEF n, m
<1>2. n * n * m \in Nat
  BY <1>1, SMT
<1>3. ASSUME NEW i \in 1 .. n * n * m PROVE Tuner!Combination(i) \in Nat \X Nat \X Nat
  <2> DEFINE x == i - 1
  <2>1. x \in 0 .. n * n * m - 1
    BY <1>2
  <2> HIDE DEF x
  <2>2. /\ (x \div (n * m)) + 1 \in 1 .. n
        /\ ((x \div m) % n) + 1 \in 1 .. n
        /\ (x % m) + 1 \in 1 .. m
    BY <1>1, <2>1, CubeOf
  <2>3. Tuner!Combination(i)
          = <<XyVals[(x \div (n * m)) + 1], XyVals[((x \div m) % n) + 1], ZVals[(x % m) + 1]>>
    BY DEF Tuner!Combination, n, m, x
  <2>4. /\ XyVals[(x \div (n * m)) + 1] \in Nat
        /\ XyVals[((x \div m) % n) + 1] \in Nat
        /\ ZVals[(x % m) + 1] \in Nat
    BY <1>1, <2>2
  <2>5. QED
    BY <2>3, <2>4
<1>4. QED
  BY <1>1, <1>2, <1>3

LEMMA BlocksAre ==
  ASSUME Tuner!CandidatesAreNumbers
  PROVE  Tuner!Blocks \in Seq(SmallBlocks)
<1> DEFINE n == Tuner!Combinations
           small(i) == Tuner!Threads(Tuner!Combination(i)) <= 1024
           S == Seq(SmallBlocks)
           op == [i \in 1 .. n |-> [u \in S |->
                    IF small(i) THEN Append(u, Tuner!Combination(i)) ELSE u]]
           of(e) == [i \in 0 .. n |->
                      IF i = 0 THEN <<>>
                      ELSE IF Tuner!Threads(Tuner!Combination(i)) <= 1024
                           THEN Append(e[i - 1], Tuner!Combination(i))
                      ELSE e[i - 1]]
           f == CHOOSE e : e = of(e)
<1>1. n \in Nat /\ \A i \in 1 .. n : small(i) => Tuner!Combination(i) \in SmallBlocks
  BY CombinationsAre DEF SmallBlocks
<1> HIDE DEF n, small
<1>2. \A i \in 1 .. n : \A u \in S :
        /\ op[i][u] = IF small(i) THEN Append(u, Tuner!Combination(i)) ELSE u
        /\ op[i][u] \in S
  BY <1>1
<1>3. <<>> \in S
  OBVIOUS
<1> HIDE DEF op, S
<1>4. HasSteps(n, S, <<>>, op)
  BY <1>1, <1>2, <1>3, StepsExist
<1>5. PICK e : /\ e \in [0 .. n -> S] /\ e[0] = <<>>
               /\ \A i \in 1 .. n : e[i] = op[i][e[i - 1]]
  BY <1>4 DEF HasSteps
<1>6. \A i \in 0 .. n : e[i] = IF i = 0 THEN <<>>
                               ELSE IF small(i) THEN Append(e[i - 1], Tuner!Combination(i))
                               ELSE e[i - 1]
  <2> TAKE i \in 0 .. n
  <2>1. CASE i = 0
    BY <1>5, <2>1
  <2>2. CASE i # 0
    <3>1. i \in 1 .. n /\ i - 1 \in 0 .. n
      BY <1>1, <2>2
    <3>2. e[i - 1] \in S /\ e[i] = op[i][e[i - 1]]
      BY <1>5, <3>1
    <3>3. QED
      BY <1>2, <2>2, <3>1, <3>2
  <2>3. QED
    BY <2>1, <2>2
<1>7. e = of(e)
  BY <1>5, <1>6 DEF small
<1>8. f = of(f)
  <2> HIDE DEF of
  <2>1. QED
    BY <1>7
<1>9. Tuner!Blocks = f[n]
  BY DEF Tuner!Blocks, n
<1> HIDE DEF f
<1>10. /\ f[0] = <<>>
       /\ \A i \in 0 .. n : i # 0 =>
            f[i] = IF small(i) THEN Append(f[i - 1], Tuner!Combination(i)) ELSE f[i - 1]
  <2>1. f = [i \in 0 .. n |-> IF i = 0 THEN <<>>
                              ELSE IF small(i) THEN Append(f[i - 1], Tuner!Combination(i))
                              ELSE f[i - 1]]
    BY <1>8 DEF small
  <2> HIDE DEF of
  <2>2. \A i \in 0 .. n : f[i] = IF i = 0 THEN <<>>
                                 ELSE IF small(i) THEN Append(f[i - 1], Tuner!Combination(i))
                                 ELSE f[i - 1]
    BY <2>1
  <2>3. 0 \in 0 .. n
    BY <1>1
  <2>4. QED
    BY <2>2, <2>3
<1> HIDE DEF of
<1> DEFINE T == {i \in 0 .. n : f[i] \in S}
<1>11. 0 \in T
  BY <1>1, <1>3, <1>10
<1>12. \A i \in 0 .. n - 1 : i \in T => i + 1 \in T
  <2> TAKE i \in 0 .. n - 1
  <2> HAVE i \in T
  <2>1. i + 1 \in 1 .. n /\ i + 1 \in 0 .. n /\ i + 1 # 0 /\ (i + 1) - 1 = i
    BY <1>1
  <2>2. f[i + 1] = IF small(i + 1) THEN Append(f[i], Tuner!Combination(i + 1)) ELSE f[i]
    BY <1>10, <2>1
  <2>3. f[i] \in S
    OBVIOUS
  <2>4. f[i + 1] \in S
    BY <1>1, <2>1, <2>2, <2>3 DEF S
  <2>5. QED
    BY <2>1, <2>4
<1> HIDE DEF T
<1>13. 0 .. n \subseteq T
  BY <1>1, <1>11, <1>12, InductionUpTo
<1>14. n \in T
  BY <1>1, <1>13
<1>15. QED
  BY <1>9, <1>14 DEF T, S

LEMMA TrialsAre ==
  ASSUME Tuner!CandidatesAreNumbers
  PROVE  /\ Tuner!NumTrials \in Nat
         /\ \A i \in 1 .. Tuner!NumTrials :
              Tuner!BlockOf(i) \in SmallBlocks /\ Tuner!TileOf(i) \in Tuner!OptedIn
<1> DEFINE n == Len(Tuner!Blocks)
           m == Len(Tiles)
<1>1. /\ n \in Nat /\ m \in Nat /\ Tuner!NumTrials = n * m
      /\ \A i \in 1 .. n : Tuner!Blocks[i] \in SmallBlocks
      /\ \A i \in 1 .. m : Tiles[i] \in Tuner!OptedIn
  BY BlocksAre DEF Tuner!CandidatesAreNumbers, Tuner!NumTrials, Tuner!OptedIn
<1> HIDE DEF n, m
<1>2. n * m \in Nat
  BY <1>1, SMT
<1>3. ASSUME NEW i \in 1 .. n * m
      PROVE  Tuner!BlockOf(i) \in SmallBlocks /\ Tuner!TileOf(i) \in Tuner!OptedIn
  <2> DEFINE x == i - 1
             r == x \div m
             s == x % m
  <2>1. x \in 0 .. n * m - 1
    BY <1>2
  <2> HIDE DEF x
  <2>2. r \in 0 .. n - 1 /\ s \in 0 .. m - 1
    BY <1>1, <2>1, RowOf
  <2>3. Tuner!BlockOf(i) = Tuner!Blocks[r + 1] /\ Tuner!TileOf(i) = Tiles[s + 1]
    BY DEF Tuner!BlockOf, Tuner!TileOf, m, x
  <2> HIDE DEF r, s
  <2>4. r + 1 \in 1 .. n /\ s + 1 \in 1 .. m
    BY <1>1, <2>2
  <2>5. QED
    BY <1>1, <2>3, <2>4
<1>4. QED
  BY <1>1, <1>2, <1>3

(* A candidate found valid is one the device runs.                         *)
LEMMA ValidRuns ==
  ASSUME Tuner!CandidatesAreNumbers, Tuner!DeviceFits, NEW i \in 1 .. Tuner!NumTrials,
         Tuner!IsCandidateValid(Tuner!BlockOf(i), Tuner!TileOf(i))
  PROVE  Tuner!DeviceRuns(Tuner!BlockOf(i), Tuner!TileOf(i))
<1> DEFINE b == Tuner!BlockOf(i)
           tile == Tuner!TileOf(i)
           need == Tuner!SharedMem(b, tile)
<1>1. tile \in Tuner!OptedIn /\ b \in SmallBlocks
  BY TrialsAre
<1>2. Tuner!MaxSharedMem = SharedOptin
  BY DEF Tuner!MaxSharedMem, Tuner!DeviceFits
<1>3. Tuner!Threads(b) <= 1024 /\ need <= SharedOptin
  BY <1>2 DEF Tuner!IsCandidateValid
<1>4. Tuner!Threads(b) \in Nat
  <2>1. PICK x \in Nat, y \in Nat, z \in Nat : b = <<x, y, z>>
    BY <1>1 DEF SmallBlocks
  <2>2. Tuner!Threads(b) = x * y * z
    BY <2>1 DEF Tuner!Threads
  <2>3. x * y \in Nat
    BY SMT
  <2>4. x * y * z \in Nat
    BY <2>3, SMT
  <2>5. QED
    BY <2>2, <2>4
<1> HIDE DEF b, tile, need
<1>5. Tuner!Threads(b) <= MaxThreads
  BY <1>3, <1>4 DEF Tuner!DeviceFits
<1>6. QED
  BY <1>1, <1>3, <1>5 DEF Tuner!DeviceRuns, b, tile, need

(* The candidate that is tried next.                                       *)
TrialInv ==
  /\ trial \in 1 .. Tuner!NumTrials + 1
  /\ pc \in {"collect", "allocate"} \/ Len(results) = Len(specs) => trial = 1
  /\ pc # "collect" => Len(specs) = Tuner!ConvsBefore("decoder", DecoderLayers)

LEMMA WalkFoundAll ==
  ASSUME FoundInv, Here = <<"decoder", DecoderLayers - 1>>, place[3] = NumConvs(LayerAt(Here))
  PROVE  Len(specs) = Tuner!ConvsBefore("decoder", DecoderLayers)
<1> DEFINE last == <<"decoder", DecoderLayers - 1>>
<1>1. place[1] = last[1] /\ place[2] = last[2] /\ place[3] = NumConvs(LayerAt(last))
  BY DEF Here
<1>2. last \in LayerNames /\ last[2] + 1 = DecoderLayers
  BY LayerFacts DEF LayerNames
<1>3. Tuner!ConvsBefore(last[1], last[2] + 1)
        = Tuner!ConvsBefore(last[1], last[2]) + NumConvs(LayerAt(last))
  BY <1>2, ConvsBeforeIs
<1>4. QED
  BY <1>1, <1>2, <1>3 DEF FoundInv

LEMMA InitTrialInv == Tuner!CandidatesAreNumbers /\ Tuner!Init => TrialInv
<1> SUFFICES ASSUME Tuner!CandidatesAreNumbers, Tuner!Init PROVE TrialInv
  OBVIOUS
<1>1. Tuner!NumTrials \in Nat
  BY TrialsAre
<1>2. pc = "collect" /\ trial = 1
  BY DEF Tuner!Init
<1>3. QED
  BY <1>1, <1>2 DEF TrialInv

LEMMA StepTrialInv ==
  ASSUME Tuner!CandidatesAreNumbers, TunerWalk, FoundInv, ResultsInv, TrialInv,
         [Tuner!Next]_(Tuner!vars)
  PROVE  TrialInv'
<1>1. Tuner!NumTrials \in Nat /\ Len(results) \in Nat
  BY TrialsAre DEF ResultsInv
<1>2. /\ trial \in 1 .. Tuner!NumTrials + 1
      /\ pc \in {"collect", "allocate"} => trial = 1
      /\ Len(results) = Len(specs) => trial = 1
      /\ pc # "collect" => Len(specs) = Tuner!ConvsBefore("decoder", DecoderLayers)
  BY DEF TrialInv
<1> DEFINE T == Tuner!NumTrials
<1> HIDE DEF T
<1>3. CASE Tuner!Collect
  <2>1. pc = "collect" /\ trial' = trial
    BY <1>3, CollectIs
  <2>3. (pc # "collect")' => (Len(specs) = Tuner!ConvsBefore("decoder", DecoderLayers))'
    <3>1. CASE Found \/ (\E next \in LayerNames : NextLayer(next))
      BY <2>1, <3>1 DEF Found, NextLayer
    <3>2. CASE WalkEnds
      BY <3>2, WalkFoundAll DEF WalkEnds
    <3>3. QED
      BY <1>3, <3>1, <3>2, CollectIs
  <2>4. trial = 1
    BY <1>2, <2>1
  <2>5. trial' \in 1 .. Tuner!NumTrials + 1
    BY <1>2, <2>1
  <2>6. QED
    BY <2>1, <2>3, <2>4, <2>5 DEF TrialInv
<1>4. CASE Tuner!Measure
  <2>1. /\ pc = "tune" /\ Len(results) < Len(specs) /\ trial <= Tuner!NumTrials
        /\ UNCHANGED <<specs, results>> /\ pc' \in {"tune", "exited"}
        /\ trial' = trial \/ trial' = trial + 1
    BY <1>4 DEF Tuner!Measure, Tuner!Exit, Tuner!walk
  <2>2. trial' \in 1 .. Tuner!NumTrials + 1
    BY <1>1, <1>2, <2>1
  <2>3. Len(results') # Len(specs')
    BY <1>1, <1>2, <2>1 DEF TunerWalk
  <2>4. QED
    BY <1>2, <2>1, <2>2, <2>3 DEF TrialInv
<1>5. CASE Tuner!Choose
  <2>1. pc = "tune" /\ pc' = pc /\ specs' = specs /\ trial' = 1
    BY <1>5 DEF Tuner!Choose, Tuner!walk
  <2>2. trial' \in 1 .. Tuner!NumTrials + 1
    BY <1>1, <2>1
  <2>3. QED
    BY <1>2, <2>1, <2>2 DEF TrialInv
<1>6. CASE Tuner!Allocate \/ Tuner!Finish
  <2>1. /\ pc # "collect" /\ pc' \notin {"collect", "allocate"}
        /\ UNCHANGED <<specs, results, trial>>
    BY <1>6 DEF Tuner!Allocate, Tuner!Finish, Tuner!Exit, Tuner!walk
  <2>2. QED
    BY <1>2, <2>1 DEF TrialInv
<1>7. CASE Tuner!Over \/ UNCHANGED Tuner!vars
  BY <1>7 DEF Tuner!Over, Tuner!vars, Tuner!walk, TrialInv
<1>8. QED
  BY <1>3, <1>4, <1>5, <1>6, <1>7 DEF Tuner!Next

(* What is being timed is of the network.                                  *)
LEMMA CurrentIsSupported ==
  ASSUME UNet, WidthsAddUp, WidthsSupported, TunerWalk, FoundInv, ShapesInv, ResultsInv,
         pc # "collect", Len(results) < Len(specs)
  PROVE  Tuner!Current.inC \in SupportedInC
<1> DEFINE n == Len(results) + 1
<1>1. n \in 1 .. Len(specs)
  BY DEF ResultsInv, TunerWalk
<1> HIDE DEF n
<1>2. PICK at \in LayerNames : \E c \in Convs(at) : n = Number(at, c)
  BY <1>1 DEF FoundInv
<1>3. PICK c \in Convs(at) : n = Number(at, c)
  BY <1>2
<1>4. specs[n] = SpecOf(image, at, c)
  BY <1>3, AllReached DEF ShapesInv
<1>5. specs[n].inC = Within(image, at, c).c
  BY <1>4 DEF SpecOf
<1>6. Within(image, at, c).c \in SupportedInC
  BY WidthIsSupported DEF TunerWalk, Convs
<1>7. QED
  BY <1>5, <1>6 DEF Tuner!Current, n

(* For a network that fits the kernel's instantiations, and a device that  *)
(* fits the candidates, nothing the tuner times is refused: without a      *)
(* failure of the GPU, conv_autotune never exits early.                    *)
THEOREM TunerUnhindered ==
  ASSUME UNet, WidthsAddUp, WidthsSupported, Tuner!CandidatesAreNumbers, Tuner!DeviceFits
  PROVE  Tuner!Spec => [](gpuFails \/ pc # "exited")
<1> DEFINE Good == gpuFails \/ pc # "exited"
<1>1. Tuner!Init => Good
  BY DEF Tuner!Init
<1>2. TunerWalk /\ FoundInv /\ ShapesInv /\ ResultsInv /\ TrialInv /\ Good
        /\ [Tuner!Next]_(Tuner!vars) => Good'
  <2> SUFFICES ASSUME TunerWalk, FoundInv, ShapesInv, ResultsInv, TrialInv, Good,
                      [Tuner!Next]_(Tuner!vars)
               PROVE  Good'
    OBVIOUS
  <2>1. CASE Tuner!Measure
    <3>1. /\ pc = "tune" /\ Len(results) < Len(specs) /\ trial <= Tuner!NumTrials
          /\ gpuFails' = gpuFails
      BY <2>1 DEF Tuner!Measure, Tuner!Exit, Tuner!given
    <3>2. trial \in 1 .. Tuner!NumTrials
      BY <3>1, TrialsAre DEF TrialInv
    <3>3. Tuner!Current.inC \in SupportedInC
      BY <3>1, CurrentIsSupported
    <3>4. Tuner!IsCandidateValid(Tuner!BlockOf(trial), Tuner!TileOf(trial))
            => Tuner!DeviceRuns(Tuner!BlockOf(trial), Tuner!TileOf(trial))
      BY <3>2, ValidRuns
    <3>5. pc' = pc \/ gpuFails
      BY <2>1, <3>3, <3>4 DEF Tuner!Measure
    <3>6. QED
      BY <3>1, <3>5
  <2>2. CASE Tuner!Collect
    <3>1. pc = "collect" /\ gpuFails' = gpuFails
      BY <2>2, CollectIs
    <3>2. pc' # "exited"
      BY <2>2, <3>1, CollectIs DEF Found, NextLayer, WalkEnds
    <3>3. QED
      BY <3>2
  <2>3. CASE Tuner!Allocate \/ Tuner!Choose \/ Tuner!Finish
    BY <2>3 DEF Tuner!Allocate, Tuner!Choose, Tuner!Finish, Tuner!Exit, Tuner!given
  <2>4. CASE Tuner!Over \/ UNCHANGED Tuner!vars
    BY <2>4 DEF Tuner!Over, Tuner!vars, Tuner!given
  <2>5. QED
    BY <2>1, <2>2, <2>3, <2>4 DEF Tuner!Next
<1> HIDE DEF Good
<1>3. Good => gpuFails \/ pc # "exited"
  BY DEF Good
<1>4. QED
  BY <1>1, <1>2, <1>3, InitTunerWalk, StepTunerWalk, StepFoundInv, InitShapesInv, StepShapesInv,
     InitResultsInv, StepResultsInv, InitTrialInv, StepTrialInv, PTL
     DEF Tuner!Spec


(* What is left to tune: every trial of every convolution that is left,    *)
(* and the choice of its best.                                             *)
TrialsLeft ==
  (Tuner!ConvsBefore("decoder", DecoderLayers) - Len(results)) * (Tuner!NumTrials + 1)
    - (trial - 1)

TunerLeft(K) ==
  CASE pc = "collect"  -> 3 + TrialsLeft + After(K, Here) + (K - place[3])
    [] pc = "allocate" -> 2 + TrialsLeft
    [] pc = "tune"     -> 1 + TrialsLeft
    [] OTHER           -> 0

LEMMA AllConvs == Tuner!ConvsBefore("decoder", DecoderLayers) \in Nat
<1> DEFINE last == <<"decoder", DecoderLayers - 1>>
<1>1. last \in LayerNames /\ last[2] + 1 = DecoderLayers /\ last[1] = "decoder"
  BY LayerFacts DEF LayerNames
<1>2. /\ Tuner!ConvsBefore(last[1], last[2] + 1)
           = Tuner!ConvsBefore(last[1], last[2]) + NumConvs(LayerAt(last))
      /\ Tuner!ConvsBefore(last[1], last[2]) \in Nat
  BY <1>1, ConvsBeforeIs
<1>3. NumConvs(LayerAt(last)) \in Nat
  BY <1>1, LayerNamed
<1>4. QED
  BY <1>1, <1>2, <1>3

LEMMA TrialsProduct ==
  ASSUME NEW n \in Nat, NEW t \in Nat
  PROVE  /\ n * (t + 1) \in Nat
         /\ n # 0 => n * (t + 1) >= t + 1
         /\ (n + 1) * (t + 1) = n * (t + 1) + t + 1
  BY SMT

LEMMA TrialsLeftIs ==
  ASSUME Tuner!CandidatesAreNumbers, TunerWalk, ResultsInv, TrialInv
  PROVE  TrialsLeft \in Nat
<1> DEFINE C == Tuner!ConvsBefore("decoder", DecoderLayers)
           T == Tuner!NumTrials
           r == Len(results)
<1>1. C \in Nat /\ T \in Nat
  BY AllConvs, TrialsAre
<1>2. r \in Nat /\ Len(specs) \in Nat /\ r <= Len(specs)
  BY DEF ResultsInv, TunerWalk
<1>3. trial \in 1 .. T + 1
  BY DEF TrialInv
<1>4. r <= C /\ (r = C => trial = 1)
  <2>1. CASE pc = "collect"
    <3>1. r = 0
      BY <2>1 DEF ResultsInv
    <3>2. trial = 1
      BY <2>1 DEF TrialInv
    <3>3. QED
      BY <1>1, <3>1, <3>2
  <2>2. CASE pc # "collect"
    BY <1>2, <2>2 DEF TrialInv
  <2>3. QED
    BY <2>1, <2>2
<1>5. TrialsLeft = (C - r) * (T + 1) - (trial - 1)
  BY DEF TrialsLeft
<1> HIDE DEF C, T, r
<1>6. C - r \in Nat
  BY <1>1, <1>2, <1>4
<1> DEFINE p == (C - r) * (T + 1)
<1>7. p \in Nat /\ (C - r # 0 => p >= T + 1)
  BY <1>1, <1>6, TrialsProduct
<1> HIDE DEF p
<1>8. CASE r = C
  BY <1>4, <1>5, <1>7, <1>8 DEF p
<1>9. CASE r # C
  <2>1. p >= T + 1
    BY <1>1, <1>2, <1>7, <1>9
  <2>2. p - (trial - 1) \in Nat
    BY <1>1, <1>3, <1>7, <2>1
  <2>3. QED
    BY <1>5, <2>2 DEF p
<1>10. QED
  BY <1>8, <1>9

LEMMA TunerLeftIs ==
  ASSUME NEW K \in Nat, LayersWithin(K), Tuner!CandidatesAreNumbers,
         TunerWalk, ResultsInv, TrialInv
  PROVE  /\ TunerLeft(K) \in Nat
         /\ pc \in {"collect", "allocate", "tune"} => TunerLeft(K) >= 1
         /\ place[3] \in 0 .. K /\ After(K, Here) \in Nat
<1>1. TrialsLeft \in Nat
  BY TrialsLeftIs
<1>2. NumConvs(LayerAt(Here)) \in Nat /\ NumConvs(LayerAt(Here)) <= K
  BY LayerFacts DEF TunerWalk, LayersWithin
<1>3. place[3] \in 0 .. K
  BY <1>2 DEF TunerWalk
<1>4. After(K, Here) \in Nat
  BY AfterIs DEF TunerWalk
<1> DEFINE A == After(K, Here)
<1> HIDE DEF A
<1>5. A \in Nat
  BY <1>4 DEF A
<1>6. pc = "collect" => TunerLeft(K) = 3 + TrialsLeft + A + (K - place[3])
  BY DEF TunerLeft, A
<1>7. pc # "collect" => TunerLeft(K) = IF pc = "allocate" THEN 2 + TrialsLeft
                                       ELSE IF pc = "tune" THEN 1 + TrialsLeft ELSE 0
  BY DEF TunerLeft
<1>8. QED
  BY <1>1, <1>3, <1>4, <1>5, <1>6, <1>7

LEMMA CollectLeft ==
  ASSUME NEW K \in Nat, LayersWithin(K), Tuner!CandidatesAreNumbers,
         TunerWalk, ResultsInv, TrialInv, Tuner!Collect
  PROVE  TunerLeft(K)' < TunerLeft(K)
<1> DEFINE A == After(K, Here)
           L == TrialsLeft
<1>1. pc = "collect" /\ UNCHANGED <<results, trial>>
  BY CollectIs
<1>2. L \in Nat /\ A \in Nat /\ place[3] \in 0 .. K
  BY TrialsLeftIs, TunerLeftIs
<1>3. L' = L
  BY <1>1 DEF TrialsLeft
<1>4. TunerLeft(K) = 3 + L + A + (K - place[3])
  BY <1>1 DEF TunerLeft
<1> HIDE DEF L
<1>5. CASE Found
  <2>1. pc' = "collect" /\ Here' = Here /\ place'[3] = place[3] + 1
    BY <1>1, <1>5 DEF Found, Here
  <2>2. A' = A
    BY <2>1 DEF After, LayersAfter
  <2>3. TunerLeft(K)' = 3 + L' + A' + (K - place'[3])
    BY <2>1 DEF TunerLeft, L
  <2> HIDE DEF A
  <2>4. QED
    BY <1>2, <1>3, <1>4, <2>1, <2>2, <2>3
<1>6. ASSUME NEW next \in LayerNames, NextLayer(next) PROVE TunerLeft(K)' < TunerLeft(K)
  <2>1. /\ pc' = "collect" /\ Here' = next /\ place'[3] = 0
        /\ Follows(next, Here) /\ Here \in LayerNames
    BY <1>1, <1>6, LayerNamed DEF NextLayer, Here, TunerWalk
  <2>2. A' = After(K, next)
    BY <2>1 DEF After, LayersAfter
  <2>3. A = After(K, next) + K + 3 /\ After(K, next) \in Nat
    BY <2>1, AfterIs
  <2>4. TunerLeft(K)' = 3 + L' + A' + (K - place'[3])
    BY <2>1 DEF TunerLeft, L
  <2> DEFINE B == After(K, next)
  <2> HIDE DEF A, B
  <2>5. A' = B /\ A = B + K + 3 /\ B \in Nat
    BY <2>2, <2>3 DEF B
  <2>6. QED
    BY <1>2, <1>3, <1>4, <2>1, <2>4, <2>5
<1>7. CASE WalkEnds
  <2>1. TunerLeft(K)' = 2 + L'
    BY <1>7 DEF WalkEnds, TunerLeft, L
  <2> HIDE DEF A
  <2>2. QED
    BY <1>2, <1>3, <1>4, <2>1
<1>8. QED
  BY <1>5, <1>6, <1>7, CollectIs

LEMMA TuneLeft ==
  ASSUME NEW K \in Nat, LayersWithin(K), Tuner!CandidatesAreNumbers,
         TunerWalk, ResultsInv, TrialInv,
         Tuner!Allocate \/ Tuner!Measure \/ Tuner!Choose \/ Tuner!Finish
  PROVE  TunerLeft(K)' < TunerLeft(K)
<1> DEFINE C == Tuner!ConvsBefore("decoder", DecoderLayers)
           T == Tuner!NumTrials
           r == Len(results)
           L == TrialsLeft
<1>1. C \in Nat /\ T \in Nat /\ r \in Nat /\ L \in Nat /\ trial \in 1 .. T + 1
  BY AllConvs, TrialsAre, TrialsLeftIs DEF ResultsInv, TrialInv
<1>2. /\ L = (C - r) * (T + 1) - (trial - 1)
      /\ L' = (C - r') * (T + 1) - (trial' - 1)
  BY DEF TrialsLeft
<1>3. /\ pc \in {"allocate", "tune"}
      /\ pc = "allocate" => TunerLeft(K) = 2 + L
      /\ pc = "tune" => TunerLeft(K) = 1 + L
      /\ pc' = "tune" => TunerLeft(K)' = 1 + L'
      /\ pc' \in {"done", "exited"} => TunerLeft(K)' = 0
  BY AfterWalk DEF TunerLeft
<1> HIDE DEF C, T, r, L
<1>4. CASE pc' \in {"done", "exited"}
  BY <1>1, <1>3, <1>4
<1>5. CASE pc' = "tune" /\ Tuner!Allocate
  <2>1. pc = "allocate" /\ UNCHANGED <<results, trial>>
    BY <1>5 DEF Tuner!Allocate, Tuner!Exit
  <2>2. r' = r
    BY <2>1 DEF r
  <2>3. L' = L
    BY <1>2, <2>1, <2>2
  <2>4. QED
    BY <1>1, <1>3, <1>5, <2>1, <2>3
<1>6. CASE pc' = "tune" /\ Tuner!Measure
  <2>1. pc = "tune" /\ results' = results /\ trial' = trial + 1
    BY <1>6 DEF Tuner!Measure, Tuner!Exit
  <2>2. r' = r
    BY <2>1 DEF r
  <2> DEFINE p == (C - r) * (T + 1)
  <2>3. L = p - (trial - 1) /\ L' = p - (trial' - 1)
    BY <1>2, <2>2
  <2> HIDE DEF p
  <2>4. p = L + (trial - 1)
    <3>1. p \in Int
      BY <1>1 DEF p
    <3>2. QED
      BY <1>1, <2>3, <3>1
  <2>5. L' = L - 1
    BY <1>1, <2>1, <2>3, <2>4
  <2>6. QED
    BY <1>1, <1>3, <1>6, <2>1, <2>5
<1>7. CASE pc' = "tune" /\ Tuner!Choose
  <2>1. /\ pc = "tune" /\ trial' = 1 /\ trial > T /\ r < Len(specs)
        /\ \E x : results' = Append(results, x)
    BY <1>7 DEF Tuner!Choose, T, r
  <2>2. r' = r + 1
    BY <2>1 DEF ResultsInv, r
  <2>3. Len(specs) = C /\ trial = T + 1
    BY <1>1, <2>1 DEF TrialInv, C
  <2>4. C - r' \in Nat /\ C - r = (C - r') + 1
    BY <1>1, <2>1, <2>2, <2>3
  <2> DEFINE n == C - r'
             p == n * (T + 1)
  <2>5. p \in Nat /\ (n + 1) * (T + 1) = p + T + 1
    BY <1>1, <2>4, TrialsProduct
  <2>6. L' = p - (trial' - 1) /\ L = (n + 1) * (T + 1) - (trial - 1)
    BY <1>2, <2>4
  <2> HIDE DEF p, n
  <2>7. L' = p /\ L = p + 1
    BY <1>1, <2>1, <2>3, <2>5, <2>6
  <2>8. QED
    BY <1>3, <1>7, <2>1, <2>5, <2>7
<1>8. CASE Tuner!Finish
  <2>1. pc' \in {"done", "exited"}
    BY <1>8 DEF Tuner!Finish, Tuner!Exit
  <2>2. QED
    BY <1>4, <2>1
<1>9. QED
  BY <1>4, <1>5, <1>6, <1>7, <1>8, AfterWalk

(* conv_autotune cannot go on for ever either: for every network and every *)
(* list of candidates, each of its steps is one of finitely many left.     *)
THEOREM TunerWorkEnds ==
  ASSUME NEW K \in Nat, LayersWithin(K), Tuner!CandidatesAreNumbers
  PROVE  Tuner!Spec =>
           [](TunerLeft(K) \in Nat) /\ [][TunerLeft(K)' < TunerLeft(K)]_(Tuner!vars)
<1>1. TunerWalk /\ ResultsInv /\ TrialInv => TunerLeft(K) \in Nat
  BY TunerLeftIs
<1>2. TunerWalk /\ ResultsInv /\ TrialInv /\ [Tuner!Next]_(Tuner!vars)
        => [TunerLeft(K)' < TunerLeft(K)]_(Tuner!vars)
  BY CollectLeft, TuneLeft DEF Tuner!Next, Tuner!Over
<1>3. QED
  BY <1>1, <1>2, InitTunerWalk, StepTunerWalk, StepFoundInv, InitResultsInv, StepResultsInv,
     InitTrialInv, StepTrialInv, PTL
     DEF Tuner!Spec
=============================================================================
