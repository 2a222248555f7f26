------------------------------ MODULE Autotune ------------------------------
(***************************************************************************)
(* conv_autotune: it walks the layers of the model like the pipelines do,  *)
(* to find the shape of every convolution, times each of them under all    *)
(* candidate blocks and tile lengths that fit the device, and prints the   *)
(* fastest blocks for a programmer to paste into model_spec.h.             *)
(*                                                                         *)
(* Times are arbitrary.  A launch of gpu_conv is asynchronous and an error *)
(* shows at the cudaGetLastError after the timed launches.                 *)
(***************************************************************************)
EXTENDS Network

CONSTANTS
  XyVals, ZVals,      \* sequences: the candidate block dimensions
  Tiles,              \* sequence: the candidate tile lengths
  Times,              \* what a measurement may give, below Infinity
  Infinity,
  MaxThreads,         \* threads of a block on this device
  SharedDefault,      \* shared memory of a block, in bytes
  SharedOptin,        \* the same for kernels that opted in
  SupportedInC        \* the widths gpu_conv is instantiated for

TimesFinite == Infinity \in Nat /\ Times \subseteq 0 .. Infinity - 1
ASSUME TimesAssumption == TimesFinite

VARIABLES
  image,      \* <<height, width>>
  gpuFails,   \* whether a CUDA call may fail for no fault of ours
  pc,
  at,         \* <<half, layer_idx, conv_idx>> of the walk
  shape,      \* h, w and c
  skipIdx,    \* skip_idx of collect_decoder_specs
  specs,      \* the convolutions found
  results,    \* per convolution timed so far, the fastest
  trial,      \* number of the next candidate for the current one
  measured    \* its measurements so far: <<block, tile, time>>

walk == <<at, shape, skipIdx, specs>>
given == <<image, gpuFails>>
vars == <<given, pc, walk, results, trial, measured>>

Shape(h, w, c) == [h |-> h, w |-> w, c |-> c]

-----------------------------------------------------------------------------
(* collect_encoder_specs and collect_decoder_specs.                        *)

LayerAt(half, l) == IF half = "encoder" THEN Encoder[l] ELSE Decoder[l]
LayerCount(half) == IF half = "encoder" THEN EncoderLayers ELSE DecoderLayers

FirstSkip_Last == EncoderLayers - 1
FirstSkip == IF EncoderLayers > 3 THEN EncoderLayers - 3 ELSE 0
SkipChannels(idx) == IF idx = 0 THEN ImageChannels ELSE OutChannels(Encoder[idx], 0)

(* A decoder layer's input has the channels of the saved tensor as well.   *)
EnterLayer(half, l, s, skip) ==
  /\ at' = <<half, l, 0>>
  /\ IF half = "decoder" /\ skip >= 0
     THEN shape' = [s EXCEPT !.c = @ + SkipChannels(skip)] /\ skipIdx' = skip - 1
     ELSE shape' = s /\ skipIdx' = skip

AfterPostOp(post, s) ==
  CASE post = "MAX_POOL"    -> Shape(s.h \div 2, s.w \div 2, s.c)
    [] post = "NN_UPSAMPLE" -> Shape(s.h * 2, s.w * 2, s.c)
    [] OTHER                -> s

Collect ==
  /\ pc = "collect"
  /\ LET layer == LayerAt(at[1], at[2])
         after == AfterPostOp(layer.post, shape)
     IN IF at[3] < NumConvs(layer)
        THEN /\ specs' = Append(specs, [id |-> at, h |-> shape.h, w |-> shape.w, inC |-> shape.c,
                                        outC |-> OutChannels(layer, at[3])])
             /\ shape' = [shape EXCEPT !.c = OutChannels(layer, at[3])]
             /\ at' = [at EXCEPT ![3] = @ + 1]
             /\ UNCHANGED <<pc, skipIdx>>
        ELSE /\ UNCHANGED specs
             /\ IF at[2] + 1 < LayerCount(at[1])
                THEN EnterLayer(at[1], at[2] + 1, after, skipIdx) /\ UNCHANGED pc
                ELSE IF at[1] = "encoder"
                THEN EnterLayer("decoder", 0, after, FirstSkip) /\ UNCHANGED pc
                ELSE pc' = "allocate" /\ UNCHANGED <<at, shape, skipIdx>>
  /\ UNCHANGED <<given, results, trial, measured>>

-----------------------------------------------------------------------------
(* Candidates.                                                             *)

Threads(b) == b[1] * b[2] * b[3]

(* build_candidate_blocks: x, then y, then z.                              *)
Combinations == Len(XyVals) * Len(XyVals) * Len(ZVals)
Combination(i) ==
  LET n == Len(XyVals)
      m == Len(ZVals)
  IN <<XyVals[((i - 1) \div (n * m)) + 1], XyVals[(((i - 1) \div m) % n) + 1],
       ZVals[((i - 1) % m) + 1]>>

Blocks ==
  LET candidates[i \in 0 .. Combinations] ==
        IF i = 0 THEN <<>>
        ELSE IF Threads(Combination(i)) <= 1024 THEN Append(candidates[i - 1], Combination(i))
        ELSE candidates[i - 1]
  IN candidates[Combinations]

(* The pairs autotune_conv times, the tile in the inner loop.              *)
NumTrials == Len(Blocks) * Len(Tiles)
BlockOf(i) == Blocks[((i - 1) \div Len(Tiles)) + 1]
TileOf(i) == Tiles[((i - 1) % Len(Tiles)) + 1]

(* shared_mem_for_block, in bytes: two halves of two tiles of halfs.       *)
SharedMem(b, tile) == 2 * (b[1] * b[2] * tile + b[3] * tile) * 2
MaxSharedMem == IF SharedDefault >= SharedOptin THEN SharedDefault ELSE SharedOptin

IsCandidateValid(b, tile) ==
  Threads(b) \in 1 .. 1024 /\ SharedMem(b, tile) <= MaxSharedMem

(* set_smem_optin raises the limit for the instances of the kernel with    *)
(* these tile lengths, and the device runs what is below its limit.        *)
OptedIn_Without64 == {8, 16, 32}
OptedIn == {8, 16, 32, 64}
DeviceRuns(b, tile) ==
  /\ Threads(b) <= MaxThreads
  /\ SharedMem(b, tile) <= IF tile \in OptedIn THEN SharedOptin ELSE SharedDefault

-----------------------------------------------------------------------------
(* main.                                                                   *)

(* exit() in gpuAssert.                                                    *)
Exit == pc' = "exited" /\ UNCHANGED <<given, walk, results, trial, measured>>

(* The two buffers, the device's limits, the opt-in.                       *)
Allocate ==
  /\ pc = "allocate"
  /\ \/ /\ pc' = "tune"
        /\ UNCHANGED <<given, walk, results, trial, measured>>
     \/ gpuFails /\ Exit

Current == specs[Len(results) + 1]

(* launch_and_time_conv: infinity for what is not valid; a width gpu_conv  *)
(* does not know throws; a refused launch ends the program.                *)
Measure ==
  /\ pc = "tune" /\ Len(results) < Len(specs) /\ trial <= NumTrials
  /\ LET b == BlockOf(trial)
         tile == TileOf(trial)
         Note(time) == /\ measured' = Append(measured, <<b, tile, time>>)
                       /\ trial' = trial + 1
                       /\ UNCHANGED <<given, pc, walk, results>>
     IN \/ ~IsCandidateValid(b, tile) /\ Note(Infinity)
        \/ /\ IsCandidateValid(b, tile) /\ Current.inC \in SupportedInC /\ DeviceRuns(b, tile)
           /\ \E time \in Times : Note(time)
        \/ /\ IsCandidateValid(b, tile)
           /\ Current.inC \notin SupportedInC \/ ~DeviceRuns(b, tile) \/ gpuFails
           /\ Exit

(* autotune_conv's best so far, replaced by a strictly smaller time.       *)
Best_ForgetTile(trials) ==
  LET best[i \in 0 .. Len(trials)] ==
        IF i = 0 THEN <<<<1, 1, 1>>, 0, Infinity>>
        ELSE IF trials[i][3] < best[i - 1][3] THEN <<trials[i][1], best[i - 1][2], trials[i][3]>>
        ELSE best[i - 1]
  IN best[Len(trials)]
Best(trials) ==
  LET best[i \in 0 .. Len(trials)] ==
        IF i = 0 THEN <<<<1, 1, 1>>, 0, Infinity>>
        ELSE IF trials[i][3] < best[i - 1][3] THEN trials[i] ELSE best[i - 1]
  IN best[Len(trials)]

Choose ==
  /\ pc = "tune" /\ Len(results) < Len(specs) /\ trial > NumTrials
  /\ results' = Append(results, [best |-> Best(measured), trials |-> measured])
  /\ measured' = <<>> /\ trial' = 1
  /\ UNCHANGED <<given, pc, walk>>

(* encoder_blocks and decoder_blocks: the loop over results that appends   *)
(* each block to those of its layer.                                       *)
Printed_AnyHalf(half, l) ==
  LET printed[n \in 0 .. Len(results)] ==
        IF n = 0 THEN <<>>
        ELSE IF specs[n].id[2] = l THEN Append(printed[n - 1], results[n].best[1])
        ELSE printed[n - 1]
  IN printed[Len(results)]
Printed(half, l) ==
  LET printed[n \in 0 .. Len(results)] ==
        IF n = 0 THEN <<>>
        ELSE IF specs[n].id[1] = half /\ specs[n].id[2] = l
             THEN Append(printed[n - 1], results[n].best[1])
        ELSE printed[n - 1]
  IN printed[Len(results)]

(* Printing, the three cudaFree.                                           *)
Finish ==
  /\ pc = "tune" /\ Len(results) = Len(specs)
  /\ \/ /\ pc' = "done"
        /\ UNCHANGED <<given, walk, results, trial, measured>>
     \/ gpuFails /\ Exit

Over == pc \in {"done", "exited"} /\ UNCHANGED vars

Init ==
  /\ image \in ImageSizes /\ gpuFails \in BOOLEAN
  /\ pc = "collect"
  /\ at = <<"encoder", 0, 0>> /\ skipIdx = -1
  /\ shape = Shape(Padded(image[1]), Padded(image[2]), ImageChannels)
  /\ specs = <<>> /\ results = <<>> /\ trial = 1 /\ measured = <<>>

Next == Collect \/ Allocate \/ Measure \/ Choose \/ Finish \/ Over

Spec == Init /\ [][Next]_vars /\ WF_vars(Next)

-----------------------------------------------------------------------------
(* Properties.                                                             *)

(* How many convolutions there are before a layer.                         *)
EncoderConvs ==
  LET before[l \in 0 .. EncoderLayers] ==
        IF l = 0 THEN 0 ELSE before[l - 1] + NumConvs(Encoder[l - 1])
  IN before
DecoderConvs ==
  LET before[l \in 0 .. DecoderLayers] ==
        IF l = 0 THEN EncoderConvs[EncoderLayers] ELSE before[l - 1] + NumConvs(Decoder[l - 1])
  IN before
ConvsBefore(half, l) == IF half = "encoder" THEN EncoderConvs[l] ELSE DecoderConvs[l]

(* The tensors from the first to the last convolution of a layer, in the   *)
(* network that denoises an image.                                         *)
Between(size, half, l) ==
  Convolutions(half, l, LayerAt(half, l),
               IF half = "encoder" THEN Encoded(size)[l]
               ELSE Joined(Decoder[l], Encoded(size), Decoded(size)[l]))

(* What is timed are the convolutions of the network, all of them in their *)
(* order, with the shapes they have when the network denoises this image:  *)
(* the tuner's walk over the layers agrees with the pipelines'.            *)
TimesTheNetwork ==
  pc \notin {"collect", "exited"} =>
    /\ Len(specs) = ConvsBefore("decoder", DecoderLayers)
    /\ \A half \in {"encoder", "decoder"} : \A l \in 0 .. LayerCount(half) - 1 :
         \A i \in 1 .. NumConvs(LayerAt(half, l)) :
           LET in  == Between(image, half, l)[i - 1]
               out == Between(image, half, l)[i]
           IN specs[ConvsBefore(half, l) + i]
                = [id |-> <<half, l, i - 1>>, h |-> out.h, w |-> out.w, inC |-> in.c, outC |-> out.c]

(* A result is one of the trials, block and tile together, and none of the *)
(* others was faster; with no valid trial it is the initial 1x1x1.         *)
BestOfTrials ==
  \A i \in DOMAIN results :
    LET r == results[i]
    IN /\ \A t \in DOMAIN r.trials : r.best[3] <= r.trials[t][3]
       /\ r.best[3] < Infinity => \E t \in DOMAIN r.trials : r.best = r.trials[t]

(* What is printed has, for every layer of both halves, the block found    *)
(* for each of its convolutions, in their order.                           *)
PrintsEveryConvolution ==
  pc = "done" =>
    \A half \in {"encoder", "decoder"} : \A l \in 0 .. LayerCount(half) - 1 :
      /\ Len(Printed(half, l)) = NumConvs(LayerAt(half, l))
      /\ \A i \in DOMAIN specs :
           specs[i].id[1] = half /\ specs[i].id[2] = l =>
             Printed(half, l)[specs[i].id[3] + 1] = results[i].best[1]

(* What is tried are lists of numbers, the tile lengths of main among      *)
(* them, and a device to tune for gives a block 1024 threads and a kernel  *)
(* that opted in no less shared memory than another.                       *)
CandidatesAreNumbers ==
  XyVals \in Seq(Nat) /\ ZVals \in Seq(Nat) /\ Tiles \in Seq({8, 16, 32, 64})
DeviceFits ==
  /\ MaxThreads \in Nat /\ SharedDefault \in Nat /\ SharedOptin \in Nat
  /\ MaxThreads >= 1024 /\ SharedOptin >= SharedDefault

(* On a device that works the tuner gets to its suggestions: it never      *)
(* times a candidate that the device refuses, which would end it.          *)
Suggests == gpuFails \/ <>(pc = "done")
=============================================================================
