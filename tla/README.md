# Verification of the denoiser

This directory holds TLA+ modules about the denoiser in `src/`: a command-line
program that loads an EXR image, runs an OIDN U-Net (`rt_hdr`) over it on the CPU
(OpenMP) or on a GPU (CUDA) and writes the result, and a tuner for its GPU kernel.
The modules are translated from the source, model-checked by TLC on small instances,
and the safety properties that hold are theorems that TLAPS proves for every value of the
constants that its premises allow.

`PROJECT.json` lists the components, the runs, for each property a faulty variant
of the code that the property notices, the source lines behind each definition, the
hazards and the theorems.

## The system

Paths are relative to the repository's root; `C` is `src/unet/cuda/conv.cu`, `U`
is `src/unet/cuda/unet.cu`.

| Component | State | Operations | Hard part |
|---|---|---|---|
| CUDA convolution kernel (`C:12-229`) | shared memory (two tiles of the input and of the weights), per-thread cursor, tile pointers, accumulator | load a tile, barrier, multiply, swap, store | threads of a block interleave; one barrier per tile; threads outside the image; bit tricks; 32-bit indices |
| CPU convolution (`src/unet/cpu/conv.cpp:78-180`) | float biases, packed weights, output | three OpenMP loops | schedules, tile remainders, SIMD tails |
| Pooling, upsampling, transfer, concatenation (`C:232-313`, `U:13-66`, `cpu/conv.cpp:182-254`, `cpu/unet.cpp`) | output | one kernel or loop each | odd sizes, padding and cropping, grids that hang over the output |
| CUDA pipeline (`U:68-258`) | two work buffers, the saved tensors, `h w c`, `skip_idx`, the stream | size, allocate, copy, launch, swap, download, free | host and device run asynchronously; errors are reported late; sizing must foresee everything |
| CPU pipeline (`src/unet/cpu/unet.cpp`) | the current tensor, the encoder's outputs | same, with unique_ptrs | allocation failures; a second numbering of the skip connections |
| Model builder (`src/model.cu`, `include/model/`) | weight buffer, layers with offsets | create, free | offsets and layout agree with the pipelines'; ownership; a struct with two layouts |
| TZA reader (`src/tza.cpp`) | buffer, cursor | read header, table, tensors | cut-off files, types |
| EXR reader and writer (`src/exr.cpp`) | image, planes | load, dump | data windows, missing channels |
| Autotuner (`src/autotune.cu`) | candidates, best so far | enumerate, time, print | its suggestions have to be usable by the program |
| main (`src/application.cpp`) | image, weights, model | load, build, denoise, dump | ownership by target, error returns |
| Transfer functions (`include/transfer.h`) | none | pure float functions | |
| `include/cutlass`, `include/cute` | none of their own; `gpu_conv`'s CUTLASS branch builds an operation it never runs, and no caller takes it | | |

Interactions: main loads the image and the weights, `createUNetModel` copies the
weights to one buffer on the host or the device, and main hands image and model to
one of the pipelines by reference. A pipeline calls the convolution, pooling and
upsampling of its own back end with raw pointers and sizes; no callee checks them.
The CUDA host code talks to the device through the default stream and
`cudaGetLastError` only. There are no tests, and no documents besides comments.

What makes each part correct:

* the convolutions: every output element is stored once, with its bias and every
  tap exactly once, under every interleaving, and every thread gets to the end;
* the pipelines: either the denoised image comes back or the process ends; no
  access outside a buffer; nothing is freed in use or kept; every convolution gets
  the channels its weights were trained for;
* the kernels between them: accesses inside the tensors, each output element from the
  elements it means, the same on both back ends;
* reader and builder: what is loaded is in the file, the convolutions find their weights where
  they were put, the layers the pipelines see are the ones that were built, all is freed once;
* the images: pixels keep their channel and place whatever the data window, and nothing is left of
  an earlier or failed load;
* the tuner: it times what the pipelines run, and nothing that cannot run;
* main: its exit status tells the truth, whatever failed.

## The modules

```
            Conv3x3                     Network                ModelBuilder   TzaParser
           /   |   \                  /    |    \                      \       /
  ConvSpec     |    TileGeometry     /     |     Autotune            WeightStore
  (refined  CpuConv      \          /      |       |                     |
   by both)    |      ConvKernel   /       |       |            WeightStore_proofs
               |           |   CudaUNet, CpuUNet   |
               |           |    (refine Denoise)   |
               |           |           |           |   RtHdr (networks as data)
        CpuConv_proofs     |           Network_proofs
                    ConvKernel_proofs              Application ---- Application_proofs
                                                   (uses Denoise)
                                                   ElementKernels - ElementKernels_proofs
      Numbers: induction and arithmetic            ExrImage ------- ExrImage_proofs
      for all of the proofs but Application's      LayerLayout
```

Each of ConvKernel, CpuConv, CudaUNet, CpuUNet, ElementKernels, WeightStore, ExrImage,
Autotune and Application has an `MC` module that gives it small instances.

* **Conv3x3** - positions in NHWC and KRSC tensors, and the taps and bias an
  output element is the sum of. **ConvSpec** - the promise of a convolution:
  elements become written, each once, with that value, until all are.
* **TileGeometry**, **ConvKernel** - the kernel. One action per loop turn of
  `LOAD_TILE`, barrier, product, end of tile and store. `idx`, `kk`, `kBase` and
  `curr` are the variables of the source; `smem` is the dynamic shared memory in
  halfs; `acc` is the list of what was added. Data is symbolic: a half is the
  position it was read from, so a wrong, stale or uninitialized operand shows.
  Uninitialized shared memory is `Garbage`. Index arithmetic wraps at `Word`.
  TileGeometry has its bit tricks: `And` is the conjunction bit by bit, `LowestBit` is `__ffs`.
  The blocks of a grid run one after another, in any order: they share only
  read-only inputs and disjoint outputs.
* **CpuConv** - the loops of the CPU convolution with a team of threads. A step
  is one store; any thread can be given any iteration, which covers every OpenMP
  schedule; each loop ends with OpenMP's implicit barrier.
* **ElementKernels** - what runs between the convolutions, on both back ends: pooling,
  upsampling, transfer with padding, inverse with cropping, concatenation. A step is
  a CUDA thread or an OpenMP iteration; a thread's loads and stores are sets of
  positions, computed with the index expressions of the source. `Meaning` says which
  input elements an output element is made of, without indices.
* **Network** - the network as data and the tensor it computes. A tensor records
  the operation, its shape and what it was computed from, so that equal tensors
  are equal computations. Reading memory with another shape than it was written
  with gives `Garbage`. `Denoised` is the meaning of the network, written from the
  structure of the layers and not from any of the three walks over them.
* **Denoise** - what main relies on: the call hands over `Denoised(image)`, whatever that
  is, or the process ends.
* **RtHdr** - the two networks of `model_spec.h`. The `.tza` files in the
  repository are Git LFS pointers; the channel numbers are those of the published
  weights, and the widths their sums produce are exactly those the kernel is
  instantiated for in `include/conv.h:9`.
* **CudaUNet** - the host thread of `oidn_unet_cuda`, the stream (`queue`), the
  two buffers (`mem`), the saved tensors with their offsets (`saved`), live
  allocations. The sizing pass has an action per loop turn, as has the real pass.
  `Execute` runs the oldest operation at any later time. When `gpuFails`, which a
  behaviour chooses once, any allocation, copy or launch may be refused and any
  operation may fault: a refused unchecked launch only sets `lastError`, a fault stops
  the stream, `CUDA_ERR` ends the process. A blocking copy waits for the stream.
* **CpuUNet** - `oidn_unet`, sequential; any allocation may throw. The OpenMP
  loops inside a step are one step; ElementKernels and CpuConv are about their inside.
* **TzaParser** - `loadTza` as a cursor over a file of fields, one action per group of
  reads. `IsTza` says which files have the format, wherever they put the table and the data,
  however they are cut off. Bytes read as something they are not are `Junk`; a read past the end of the
  vector is undefined behaviour and ends the model's run in `"undefined"`.
  **ModelBuilder** - `createUNetModel` and `freeUNetModel`: one action per tensor
  of either pass; the buffer holds element names, so a weight that is out of
  place shows. `freeUNetModel` is called by the CUDA pipeline and by the tuner, always for a
  model on the device (`CallerSaysCuda`), so `Free` is a step of such a model only; its branch for
  the host never runs, and the model of the target cpu is left to the end of the process, which
  `ReleasesAll` is not about. **WeightStore** composes the two as `main` does: the builder works on what
  the reader returned, through `find`.
* **ExrImage** - `Image::load` and `dump_image`. The planes are filled by OpenEXR
  (external) at the addresses the code computes, row by row, and a load may be cut off
  by an exception anywhere; one image may be loaded again.
* **Autotune** - `collect_encoder_specs`, `collect_decoder_specs` and the tuning loop. A
  measurement is any of `Times`; a candidate that needs more shared memory than the
  kernel's instance was opted in for is refused when it is launched.
* **Application** - `main`: arguments, files, model, choice of the pipeline and the
  output file. The pipelines are an instance of `Denoise`, which CudaUNet and CpuUNet
  refine. Any exception, signal or `exit` is `Abort`.
* **LayerLayout** - `vector<Layer>` as `model.cu` (nvcc) writes it and as
  `cpu/unet.cpp` (g++) reads it, word by word.

Definitions named `X_Fault` are variants of `X` with a mistake; only the experiments
that show that each property notices a mistake use them.

## What the runs show

| Run | Instance | Shows |
|---|---|---|
| `kernel_pixels` | 3x2 image, blocks of 2x2x1 threads, tiles of 4 terms of 9 | type correctness; no race on shared memory with one barrier per tile; operands always of the current tile; the inductive invariant; refinement of ConvSpec; every interleaving ends with all output stored |
| `kernel_channels` | 2x1 image, 3 channels in and out, blocks of 2 channels, tiles of 8 | refinement of ConvSpec with tiles that straddle filter cells, tile B longer than tile A, a thread past the last channel |
| `cpu_conv` | 3x3 image in 2x2 tiles, 2 channels in, 5 out, vectors of 2, two threads | disjoint stores, weight packing, several chunks and a tail, refinement of ConvSpec, return |
| `element_kernels` | every operation on both back ends, odd and even sizes | no access outside a tensor; every output element is computed from the elements it means |
| `cuda_unet` | rt_hdr, five images from 1x1 to 33x48, a GPU that works or fails | no stale or partial image is ever returned although convolutions are launched unchecked; nothing freed in use or kept; every access fits the buffers the sizing pass computed; channels add up; poolings see even sizes; the call ends, and returns if the GPU works |
| `cpu_unet_alloc` | rt_hdr, four images, allocations fail | the same image as the CUDA pipeline, or none; skip connections name tensors of the right size |
| `weight_store` | weights files in any order, with gaps, cut at any byte, Git LFS pointers; networks of up to three layers, both targets, CUDA calls that fail | what is loaded is in the file; only an incomplete file is read past its end; the kernels find every weight by their own index arithmetic; the two passes agree; a model on the device is freed as a whole |
| `exr_image` | two loads and a dump, windows at, above and below the origin, missing channels, exceptions anywhere | a load that returns left nothing of an earlier one; OpenEXR writes inside the planes only; load then dump keeps each pixel in its channel |
| `autotune` | seven convolutions with concatenations and upsamplings, two blocks that the device runs and six beyond its limits, any times | the third walk over the layers finds the convolutions of `Denoised` with their shapes; the best candidate is one that was timed, and none was faster; no candidate that is admitted exceeds the device's limits; each convolution is printed, in order, with the block found for it |
| `application` | zero to five arguments, known and unknown models for every target, any step fails | exit status 0 means that the file asked for was written and no other, with the denoised image if the model is one that `get_model_spec` describes (of other names see finding 3); any other status means that no file but the output was touched |
| `cuda_unet_alb_nrm` (violated) | rt_hdr_alb_nrm with RGB | three channels meet weights for nine |
| `layer_layout` (violated) | six layers | the CPU pipeline does not see the layers that were built |

**Bounds.** Nothing is cut off by a state constraint; the instances are finite.
The kernel's behaviour depends on the image only through which threads and
taps are inside it and on the tile only through which tile of the sum it is: the
instances have first, middle and last tiles (the last partly past the sum), both
orders of tile lengths, pixels and channels on both sides of every edge, and tiles
that cross filter cells. `Word`, the number of values of an index, is exactly the
number of elements of the largest tensor (9 and 81), as tight as 2^32 is for the
largest tensor the program can address, so that the wrap below zero at the image's
border lands among valid positions if nothing stops it. Three tiles are needed because the
two halves of shared memory are reused from the third tile on. The CPU
instance has tiles of full and of clipped height and width and a vector
remainder; `Ordered` names the loops whose iterations are handed out first to last:
only the packing of the weights, whose 18 iterations in any order would multiply the
states, while the proof is about `Ordered` of any value. The pipelines run the
real network; image sizes cover padding in no, one and both directions, and padded sizes
that are odd and even multiples of 16. The length of the stream is bounded by the
network. The tuner's network is a small one, because every measurement doubles the
states; it has pooling, upsampling, a concatenation of a saved tensor and one of the
image, and two convolutions in a layer. Its candidates are the program's own with rows and
columns of 16 and 32, depths of 2 and 4 and tiles of 64: 16x16x2 and 16x16x4 are timed, so that
the convolutions end up with different blocks and their order shows; both need the opt-in. Weight
tensors have up to three filters of two channels, enough to tell KRSC from OIHW. `MaxLoads`
is 2: a third load finds what a second one can.

**Fairness.** CUDA on the architecture CMake sets (89) schedules the threads of a
block independently, and blocks start when others end: weak fairness of each thread,
of the barriers and of the next block. OpenMP threads are operating system threads:
weak fairness of each. In CudaUNet the host thread and the stream are weakly
fair; nothing forces a fault, and a fault that happens stops the stream for good. `Returns`
holds where `gpuFails` does not, `Ends` always. The tuner is sequential and runs: weak
fairness of its steps, and `Suggests` is about a device on which no call fails unless the
code asks for too much. The other modules are finite sequential loops without a liveness
property.

**Deadlock** is checked in every run: ended behaviours stutter explicitly.

## Findings

With a run:

1. *The CPU target reads another layout than was written* (`include/model/layer.h:20`,
   run `layer_layout`). `Layer` has `block_dims` and `conv_im2col_tile_ks` only
   under `__CUDACC__`. `model.cu` is compiled by nvcc (80 bytes per element, in
   words of the model 10), `cpu/unet.cpp` by g++ (32 bytes, 4 words), as
   `CMakeLists.txt` enables both languages and overrides neither. The run shows the
   second turn of `oidn_unet`'s loop reading the first layer's `block_dims`; `size()`
   is 15 instead of 6. CpuUNet is about the text of the pipeline, for a build in
   which the layouts agree; with no words in the vectors LayerLayout has no
   violation.
2. *rt_hdr_alb_nrm gets three channels* (`application.cpp:26`, run
   `cuda_unet_alb_nrm`). The model is accepted and instantiated for, but main
   loads R, G and B. In Application, `KnownNames` is therefore `rt_hdr` alone.

Met while modelling, without a run that shows them:

3. *A name that only has a weights file passes for a model* (`application.cpp:61`).
   `weights/` has 23 files, `get_model_spec` describes two of them; for any other, `rt_ldr`
   say, `createUNetModel` returns a model without layers, `oidn_unet` applies its
   transfer functions and nothing else, and main saves the input as the result with
   exit status 0. `CallUnknown` models it, and the run `application` asks for such a name on
   every target. `SavesDenoised` promises the denoised image only for the names in
   `KnownNames`; of the others it says that the target was cpu, since the CUDA pipeline
   crashes on a model without layers. What is saved for them no property defends.
4. *The tuner's blocks of 12* (`autotune.cu:122`). `LOAD_TILE` splits a cursor by the
   mask `blockDim.x - 1` and by the lowest set bit of `blockDim.x` (`conv.cu:51`), 4 for 12: a
   block with `blockDim.x` 12 loads other elements than it uses. ConvKernel computes the same way for
   any width. The theorems about its barriers need no more; that it computes the convolution
   has the premise `BlockXPowerOfTwo`, which all widths (`x`) of `model_spec.h` satisfy and 12
   does not. The tuner times 12 and may suggest it.
5. *32-bit tensors are read as halfs* (`model.cu:81`). `loadTza` accepts type `f` and
   keeps its data, and the builder reads any tensor as half. `Half` of ModelBuilder
   models that; no network of the run uses such a tensor.
6. *`model.h:8` says that all pointers are in CUDA memory if cuda*; the layers' index
   arrays are allocated with `new` for both targets (`model.cu:54`).
7. *`cpu/conv.cpp:235` asks for even sizes*, which its caller does not give (an image
   padded to 16 has a 1x1 tensor at the bottom) and the code does not need.
8. *Indices of 32 bits* in the kernels: an image whose largest tensor has more than 2^32
   elements wraps. `Word` is in the model; the runs keep within it, and `PositionsFit` is
   a premise of the theorem about the kernel's result.

## What is proved

Each proof module states its theorems for every value of the constants that satisfies
the named assumptions of the module it is about. All have the shape `Spec => []P`, or
`Spec => P` for a refinement, with an invariant that is inductive. Some have a premise,
which says what the code takes for granted of its input and does not check. The `MC` modules of
ConvKernel, CudaUNet, CpuUNet, Autotune and WeightStore have the premises on their instances as
an `ASSUME`, which TLC evaluates, with three exceptions: MCCpuUNet leaves to MCCudaUNet what that says
of the same network, rt_hdr; the network of `cuda_unet_alb_nrm`, which is there to show it, does not
satisfy `WidthsAddUp`; and `LayersWithin(K)` asks nothing. The other theorems have no premise.

| Premise | Of | Says | Where it comes from |
|---|---|---|---|
| `UNet` | CudaUNet, CpuUNet, Autotune | the image is halved at most four times and never enlarged, a skip connection joins tensors of one size, and the decoder takes the saved tensors from the last to the first | `Alignment`, and the arithmetic of `skip_idx` |
| `OutputFits` | CudaUNet | the network has no more channels at the end than the image had | the result is copied into a tensor of the image's size |
| `SixEncoderLayers` | CpuUNet | the encoder has six layers | `skip_idx` starts at a literal 3 (`cpu/unet.cpp:95`), which is `encoder.size() - 3` for six |
| `WidthsAddUp` | CudaUNet, CpuUNet, Autotune | each convolution is trained for the channels it gets | finding 2 is a network for which this is false |
| `WidthsSupported` | CudaUNet, Autotune | each convolution has a width that `launch_conv` has an instance of the kernel for | `include/conv.h:9`; any other makes `gpu_conv` throw |
| `CandidatesAreNumbers` | Autotune | block sizes are natural numbers, tile lengths are 8, 16, 32 or 64 | the literals of `build_candidate_blocks` and `main` |
| `DeviceFits` | Autotune | the device has 1024 threads per block and its opt-in limit of shared memory is not below the default | what `build_candidate_blocks` counts on |
| `LayersWithin(K)` | CudaUNet, CpuUNet, Autotune | no layer has more than `K` convolutions | always true of some `K` (`MostConvolutions`): it names the number, and asks nothing of the network |
| `TimesFinite` | Autotune | what is measured is below infinity | an assumption of the module |
| `BlockXPowerOfTwo` | ConvKernel | the block has a power of two rows | finding 4 is a block for which this is false |
| `PositionsFit` | ConvKernel | the tensors have no more elements than an index has values | finding 8 |
| `TensorsFit` | WeightStore | what a network names as a weight and a bias is that of a 3x3 convolution, in halfs | finding 5 for 32-bit tensors |

**ConvKernel_proofs**, for any image, block shape and tile length that is a power of two.
The first half is about the barriers: `TypeCorrect`, `RaceFree` (`NoRace`), `FreshOperands`, and
`Invariant` (`IInv`), from which they follow. `NoRace` is not inductive: it says nothing of
where the threads are in the tile loop. `IInv` adds that (a) `k_base` and the tile
pointers, private to every thread, are equal (`Lockstep`); (b) no thread is past the
first barrier while another is before it (`OnePhase`); (c) a cursor is congruent to its
thread's `linear_tid` modulo the block, so two threads never visit the same element,
and a thread at a barrier has visited all of its own (`Cursors`); (d) what was visited is
loaded (`Loaded`); (e) after a barrier the whole current tile is in place and
the loads in progress go to the other half (`CurrentTile`). The barrier step is the
heart: by (c), each element of the tile belongs to the thread whose `linear_tid` is its
remainder, so by (d) all of it is loaded when all threads have arrived. `Stopped` adds that
a thread past the loop has summed all tiles: as cursors agree, no thread leaves it while another goes
round again, and `NoBarrierInVain` follows: somebody can step, or the whole block is at one
barrier, or at the end.

The second half is `ImplementsConvSpec`, the refinement of ConvSpec (`ComputesConvolution`),
under `BlockXPowerOfTwo` and `PositionsFit`. From the recursive definition of `And` follows
that the masks and shifts of `LOAD_TILE` are remainders and divisions, so that the operands
of a product are the two factors of a term (`ValAIs`, `ValBIs`), zero outside the image. An
accumulator is the sum of the bias and the first terms (`SumsSoFar`); terms on the image and
taps are in bijection, so that a sum of all terms is the convolution's value
(`SumIsConvolution`); and an element is empty until the one thread that has it stores it
(`OutputRight`). `LaunchLeavesNone` is the other direction: after the last block nothing is
empty, because the grid covers the image (`NoneForgotten`).

**CpuConv_proofs**, for any size, tiling, vector width, team and schedule: `TypeCorrect`,
`RaceFree` (`DisjointWrites`) and `ImplementsConvSpec`, the refinement of ConvSpec
(`ComputesConvolution`) as a whole. `IInv` says that an iteration is still to be handed
out, in one thread's hands, or over; with the injectivity of NHWC and KRSC positions that
gives `DisjointWrites`. `DataInv` says that every bias and
packed weight is in place or still to be stored by somebody, so that the barrier finds
all of them; the sum of the third loop is then the convolution's, term by term, by a
bijection between filter cells on the image and terms. No induction over data is needed
because the sum is a set. `NoneForgotten` (an element is stored, or its tile waits, or a
thread in its tile has not passed it) gives `CallLeavesNone`: at the return all of the
output is stored, at clipped tiles and behind the last vector too.

**Network_proofs**, for any network and image of positive size, is about the three walks over
the layers. The CUDA pipeline comes first, with and without failures. Without a premise:
`TypeCorrect`, `NothingFreedInUse` (`NoUseAfterFree`), `EverythingReleased` (`ReleasesAll`), `FailuresNoticed` (`NoSilentFailure`). `IInv` relates the
host's place in the network to what is allocated and to what may be in the stream.
`ErrorInv`, relative to it, is the latch: `lastError` can only be set between the first
convolution and the checked launch of the inverse transfer, and there is no fault after the
blocking copy. For networks that fit together (`UNet`):

* `NothingOutOfBounds` (`FitsInBuffers`, with `OutputFits`), `PoolingsEven` (`PoolsEven`) and
  `WidthsAgree` (`ChannelsAgree`, with `WidthsAddUp`). `HostInv` says that `h`, `w` and `c` are the
  shape of the tensor that `Denoised` has at the host's place, and that the maxima of the
  sizing pass are at least the sizes of all tensors it has met, which after the pass are all
  there are; `OpsInv` carries what follows for an operation from the host, which issues it,
  to the stream, which runs it later.
* `Implements`, the refinement of Denoise (`ImplementsDenoise`). `ValueInv` speaks of the end
  of the stream: if all that is queued were run now, the buffer that the host takes for the
  current one would hold the tensor that `Denoised` has at the host's place, and every saved
  tensor would be at its offset, unless a launch was refused. A step of the host moves both
  sides on by one operation, `Execute` changes neither. At the blocking copy
  the stream is empty and, by `ErrorInv`, no launch was refused: what is copied is the image.

The CPU pipeline (`Cpu`, an instance of CpuUNet that shares the variables of the same name):
`CpuSkipsMatch`, `CpuImplements` (the refinement of Denoise) and, with `WidthsAddUp`,
`CpuWidthsAgree`. `CpuInv` says that the walk is at a place of the network, that `input` is the
tensor that `Denoised` has there, and that `encodeOutputs` are the image and the encoder's
outputs so far, so that `encode_outputs[skip_idx]` is the tensor that the layer names. As both
pipelines are proved to hand over the tensor `Denoised`, the targets cpu and cuda
compute the same network for every image.

The tuner (`Tuner`, an instance of Autotune): `TunerPrintsAll` (`PrintsEveryConvolution`)
without a premise, `TunerTimesTheNetwork` (`TimesTheNetwork`) and `TunerFindsBest`
(`BestOfTrials`, with `TimesFinite`). `FoundInv` says that each convolution the walk has reached
is in `specs` at its number in the network, the sum of the convolutions of the layers before
and its own index, and that nothing else is. What is printed for a layer is then a stretch of
the results, and `AppendsStretch` is the induction over the results that finds it. `ShapesInv`
adds that `h`, `w` and `c` are the shape of the network's tensor, as `HostInv` does for the host.
`BestInv` keeps with each result the trials it is the best of, and `BestIsBest` is the induction over them.

The shape of the tensor at every place is an induction over layers and convolutions. The
induction theorems of the library have an operator as a parameter; `Numbers` restates
induction for the set of the numbers that have the property (`InductionUpTo`), and so shows that the
recursive functions of the modules satisfy their equations (`RecursionExists`, `StepsExist`).

**WeightStore_proofs**, for any files in the format (`FilesAssumption`), cut off anywhere, and
any networks (`NetworksAssumption`): `LoadReturnsContents` (`LoadsContents`),
`CompleteFilesLoad` (`RefusesOnlyUnknown`), `EverythingFreed` (`ReleasesAll`),
`CopiesFillBuffer` (`CopiesFill`, which needs that no half of a tensor is what uninitialized
memory holds, `JunkAssumption`) and, under `TensorsFit`, `WeightsFound` (`WeightsInPlace`).
`ReadingInv`: between two reads the cursor is where the format puts what is read next, and
what was read is a prefix of the contents. `LiveInv`: what is allocated are the buffer, the
model and the arrays of the layers started. `CopyInv`: the offset is a prefix sum of the
first pass's terms, and below it all is written. `PlaceInv`: each tensor copied is where
the sum of the sizes before it says, and the layers' arrays hold these sums. That the copies
turn OIHW into the KRSC positions of the kernel is arithmetic in four dimensions (`WeightIs`).

**ElementKernels_proofs**, for any call with positive sizes: `InsideTensors` (`AccessesInside`) and
`MeaningComputed` (`ComputesMeaning`). `KInv`: an output position is right, or belongs to a
thread that has not run. The arithmetic is that positions of a tensor and its
coordinates determine each other.

**ExrImage_proofs**, for any files, windows and requests: `LoadCorrect` (`LoadsRequest`),
`PlanesSuffice` (`PixelsInPlane`) and `PixelsComeBack` (`RoundTrip`). The base address cancels
against the origin of the window, by integer arithmetic, also for negative ones. `DumpInv`
says of the rows dumped so far that each pixel is under the channel it was loaded from.

**Application_proofs**, for any arguments, disk and network: `FailureHarmless` (`FailsCleanly`),
and `SuccessSaved` (`SavesDenoised`), which has the denoised image for the described models and
nothing about the content for the others. The pipelines enter as `Denoise`: that is what
`Implements` and `CpuImplements` prove of the pipelines.

**Ends.** Liveness needs fairness and ENABLED, which are beyond the prover, so `Ends`, `Returns`,
`Suggests`, `LaunchCompletes` and `ConvReturns` are model-checked only. What each of them rests on
besides fairness is proved, for every value of the constants:

| Property | Only finitely many steps are left | Nothing stops it on the way | At the end |
|---|---|---|---|
| `LaunchCompletes` | `LaunchWorkEnds` | `NoBarrierInVain` | `LaunchLeavesNone` |
| `ConvReturns` | `CallWorkEnds` | | `CallLeavesNone` |
| `Ends`, `Returns` | `CudaWorkEnds` | `CudaUnhindered` | `Implements` |
| the same of `oidn_unet` | `CpuWorkEnds` | any allocation may | `CpuImplements` |
| `Suggests` | `TunerWorkEnds` | `TunerUnhindered` | `TunerPrintsAll`, `TunerFindsBest` |

The first column has a measure in each case that every step but stuttering lowers: for the walks over the
network a number (`StepsLeft` counts each queued operation too); for the kernel the number of
waiting blocks and then what each thread has left, for the CPU convolution the loops left, then the
iterations that nobody has taken, then what each thread has left, compared in this order.
`CudaUnhindered` says that without a failure of the GPU the host neither exits nor finds an
error, and that `gpu_conv`'s throw for an unknown width is out of reach with or without one (`WidthsSupported`).
`TunerUnhindered` says that no candidate that is launched exceeds the device: `is_candidate_valid` is
strict enough for what was opted in for. What is left to TLC is that the host, the stream, the
threads and the barriers do take the steps they can take.

Besides, nothing proves that rt_hdr satisfies the premises, which is a computation that TLC
does; they do not speak of the image, so that the one computation is for all of them. Of the
recursive definitions only those written as recursive functions are reasoned about, by the
induction of `Numbers`. `ChannelsAgree` and `SkipsMatch` of CpuUNet and the three invariants of
Autotune are proved in Network_proofs as properties of the instances `Cpu` and `Tuner`, under
the names given above.

## Not modelled

* `include/cutlass` and `include/cute`, 670 thousand of the 673 thousand lines of the repository
  that count as implementation: vendored templates. `gpu_conv`'s branch that builds a CUTLASS
  operation never runs it, and no caller takes it. The rest of the program is what the modules
  are about; lines of it that no definition stands for are declarations, formatted
  output, timing and the arithmetic of the transfer functions.
* Rounding, the value of half and float arithmetic, transfer functions: TLA+ has no floating
  point; a change of the order of additions is not an error here.
* The numeric limits of CUDA grids; several resident blocks at once (they share no mutable
  state). An error of `cudaFree` is an exit like any other.
* OpenEXR and the CUDA runtime, beyond what their callers rely on.
* The tuner's early exit for a network without convolutions (`autotune.cu:280`), which no network
  that `get_model_spec` describes reaches, and the registers that a block needs: `DeviceRuns` knows of
  threads and shared memory, and `Suggests` does not exclude that a block is refused for its registers.
* `gpu_conv`'s and `launch_conv`'s choice of an instance by tile length, which has a case for each
  length `model_spec.h` names. Of the choice by the number of channels CudaUNet has which numbers have
  an instance (`SupportedInC`).

## Plan

Done: the convolutions with their common specification, the pipelines with theirs, the
kernels between the convolutions, weights from the file to the kernels, images from the
file to the tensor and back, the tuner, main, the struct layout. Proved: every invariant
that a passing run checks, the refinement of ConvSpec by both convolutions
and of Denoise by both pipelines, and of everything that has to end, that it has finitely
many steps left and that nothing stops it early.

Left: to compose WeightStore with the pipelines, so that a convolution's weights in Network
are what `find` returned and not the layer's name; and the case of several kernels in
flight on other streams, should the program come to use them.
