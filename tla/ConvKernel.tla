----------------------------- MODULE ConvKernel -----------------------------
(***************************************************************************)
(* The CUDA kernel conv_relu_nhwc_oihw_cuda, launched by gpu_conv over the *)
(* grid that apply_convolutions computes.                                  *)
(*                                                                         *)
(* A block of BlockX * BlockY * BlockZ threads computes BlockX rows by     *)
(* BlockY columns by BlockZ output channels, one element per thread.  The  *)
(* sum over k = (filter cell, input channel) is cut into tiles of TileK    *)
(* terms.  The threads of the block load a tile of the input (A) and of    *)
(* the weights (B) into shared memory together, meet at __syncthreads, and *)
(* each thread multiplies its own row of A with its own column of B.  Two  *)
(* tiles fit in shared memory: while slower threads still read the current *)
(* one, faster threads already load the next, with ONE barrier per tile.   *)
(*                                                                         *)
(* A value is named by where it was read from: <<"input", i>>,             *)
(* <<"weight", i>>, Zero, or Garbage for shared memory nobody wrote.  An   *)
(* accumulator is the sequence of what was added to it.  Blocks share no   *)
(* state but the read-only inputs and the output, and run one at a time,   *)
(* in any order.                                                           *)
(*                                                                         *)
(* Definitions named X_Fault are X with a plausible mistake in it; nothing *)
(* uses them but the experiments that show that the properties notice.     *)
(***************************************************************************)
EXTENDS Conv3x3, TileGeometry, Sequences

CONSTANTS
  BlockX, BlockY, BlockZ,   \* blockDim
  TileK, LogTileK,          \* CONV_IM2COL_TILE_K and its logarithm
  Word                      \* 2^32 in the code: uint32_t arithmetic wraps here

ASSUME BlockShape == BlockX \in Nat \ {0} /\ BlockY \in Nat \ {0}
                     /\ BlockZ \in Nat \ {0}
ASSUME TileShape == LogTileK \in Nat /\ TileK \in Nat \ {0} /\ TileK = Pow2[LogTileK]
ASSUME WordSize == Word \in Nat \ {0}

VARIABLES
  waiting,   \* blocks of the grid that have not started
  block,     \* blockIdx of the running block
  pc,        \* thread -> where it is in the kernel
  idx,       \* thread -> LOAD_TILE's cursor
  kk,        \* thread -> term of the tile it multiplies next
  kBase,     \* thread -> k_base
  curr,      \* thread -> which half of shared memory curr_a, curr_b point to
  smem,      \* the block's shared memory
  acc,       \* thread -> what its accumulator is the sum of
  out        \* output position -> the accumulator stored there, <<>> before

vars == <<waiting, block, pc, idx, kk, kBase, curr, smem, acc, out>>

-----------------------------------------------------------------------------
(* Geometry.                                                               *)

Threads == (0 .. BlockX - 1) \X (0 .. BlockY - 1) \X (0 .. BlockZ - 1)
BlockThreads == BlockX * BlockY * BlockZ
LinearTid(t) == (t[3] * BlockY + t[2]) * BlockX + t[1]
LocalHw(t) == t[2] * BlockX + t[1]

TotalK == InC * 9
TileA == BlockX * BlockY * TileK
TileB == BlockZ * TileK
MaxTile == IF TileA >= TileB THEN TileA ELSE TileB

CeilDiv(a, b) == (a + b - 1) \div b
Grid == (0 .. CeilDiv(InH, BlockX) - 1) \X (0 .. CeilDiv(InW, BlockY) - 1)
          \X (0 .. CeilDiv(OutC, BlockZ) - 1)

(* The size apply_convolutions asks for, in halfs, and the two halves of   *)
(* it that the four tile pointers split shared memory into.                *)
SmemSize == 2 * (TileA + TileB)
SlotA(half, i) == half * (TileA + TileB) + i
SlotB(half, i) == half * (TileA + TileB) + TileA + i

RowOf(t) == block[1] * BlockX + t[1]
ColOf(t) == block[2] * BlockY + t[2]
ChannelOf(t) == block[3] * BlockZ + t[3]

(* Threads outside the image or past the last channel take part in the     *)
(* loads and the barriers and store nothing.                               *)
InRange_LastRow(t) == RowOf(t) < InH - 1 /\ ColOf(t) < InW /\ ChannelOf(t) < OutC
InRange_NoChannel(t) == RowOf(t) < InH /\ ColOf(t) < InW
InRange(t) == RowOf(t) < InH /\ ColOf(t) < InW /\ ChannelOf(t) < OutC

(* What a launch has to respect for LOAD_TILE to find its pixels: blocks   *)
(* are a power of two rows high, as all of model_spec.h are, and the       *)
(* positions of all three tensors fit in a word.  The top row's neighbour  *)
(* above wraps to the greatest value of a word, which must be no row.      *)
BlockXPowerOfTwo == \E n \in 0 .. BlockX : BlockX = Pow2[n]
PositionsFit ==
  /\ InH < Word /\ InW < Word
  /\ InH * InW * InC <= Word /\ InH * InW * OutC <= Word /\ OutC * TotalK <= Word

-----------------------------------------------------------------------------
(* LOAD_TILE.                                                              *)

Zero == <<"zero", 0>>
Garbage == <<"garbage", 0>>

(* The term of the sum that element i of the tile from term base on is for. *)
KOf(base, i) == base + And[i][TileK - 1]

(* val_a of block b.  Unsigned subtraction wraps: row -1 fails ih < in_h.  *)
ValA_NoPadding(b, base, i) ==
  LET hw      == i \div Pow2[LogTileK]
      h       == b[1] * BlockX + LocalRow(hw, BlockX)
      w       == b[2] * BlockY + LocalCol(hw, BlockX)
      k       == KOf(base, i)
      spatial == k \div InC
      fh      == spatial \div 3
      fw      == spatial - fh * 3
      ih      == (h + fh - 1) % Word
      iw      == (w + fw) % Word
  IN IF k < TotalK /\ h < InH /\ w < InW /\ ih < InH /\ iw < InW
     THEN <<"input", Nhwc(ih, iw, k - spatial * InC, InC) % Word>>
     ELSE Zero

ValA(b, base, i) ==
  LET hw      == i \div Pow2[LogTileK]
      h       == b[1] * BlockX + LocalRow(hw, BlockX)
      w       == b[2] * BlockY + LocalCol(hw, BlockX)
      k       == KOf(base, i)
      spatial == k \div InC
      fh      == spatial \div 3
      fw      == spatial - fh * 3
      ih      == (h + fh - 1) % Word
      iw      == (w + fw - 1) % Word
  IN IF k < TotalK /\ h < InH /\ w < InW /\ ih < InH /\ iw < InW
     THEN <<"input", Nhwc(ih, iw, k - spatial * InC, InC) % Word>>
     ELSE Zero

(* val_b of block b.                                                       *)
ValB(b, base, i) ==
  LET o == b[3] * BlockZ + i \div Pow2[LogTileK]
      k == KOf(base, i)
  IN IF k < TotalK /\ o < OutC THEN <<"weight", (o * TotalK + k) % Word>> ELSE Zero

(* Shared memory m after element i of both tiles went to half of it.       *)
WriteElement(m, half, b, base, i) ==
  [s \in DOMAIN m |-> IF i < TileA /\ s = SlotA(half, i) THEN ValA(b, base, i)
                      ELSE IF i < TileB /\ s = SlotB(half, i) THEN ValB(b, base, i)
                      ELSE m[s]]

(* One turn of LOAD_TILE's loop by thread t, or the end of the loop and    *)
(* the thread's arrival at the barrier.                                    *)
LoadTile_ShortStride(t, half, barrier) ==
  \/ /\ idx[t] < MaxTile
     /\ smem' = WriteElement(smem, half, block, kBase[t], idx[t])
     /\ idx' = [idx EXCEPT ![t] = @ + BlockThreads - 1]
     /\ pc' = pc
  \/ /\ idx[t] >= MaxTile
     /\ pc' = [pc EXCEPT ![t] = barrier]
     /\ UNCHANGED <<idx, smem>>

LoadTile(t, half, barrier) ==
  \/ /\ idx[t] < MaxTile
     /\ smem' = WriteElement(smem, half, block, kBase[t], idx[t])
     /\ idx' = [idx EXCEPT ![t] = @ + BlockThreads]
     /\ pc' = pc
  \/ /\ idx[t] >= MaxTile
     /\ pc' = [pc EXCEPT ![t] = barrier]
     /\ UNCHANGED <<idx, smem>>

-----------------------------------------------------------------------------
(* The kernel.                                                             *)

(* The half a thread loads to: the first tile goes where curr points, each *)
(* later one to the other half (next_a, next_b).                           *)
Target(t) == IF pc[t] \in {"loadFirst", "syncFirst"} THEN curr[t] ELSE 1 - curr[t]

LoadFirst(t) ==
  /\ pc[t] = "loadFirst"
  /\ LoadTile(t, Target(t), "syncFirst")
  /\ UNCHANGED <<waiting, block, kk, kBase, curr, acc, out>>

(* __syncthreads: nobody passes before every thread of the block is there. *)
SyncFirst ==
  /\ \A t \in Threads : pc[t] = "syncFirst"
  /\ pc' = [t \in Threads |-> "multiply"]
  /\ kBase' = [t \in Threads |-> kBase[t] + TileK]
  /\ kk' = [t \in Threads |-> 0]
  /\ UNCHANGED <<waiting, block, idx, curr, smem, acc, out>>

(* acc += a_row[kk] * b_col[kk]                                            *)
OperandA(t) == smem[SlotA(curr[t], LocalHw(t) * TileK + kk[t])]
OperandB(t) == smem[SlotB(curr[t], t[3] * TileK + kk[t])]

Multiply(t) ==
  /\ pc[t] = "multiply"
  /\ kk[t] < TileK
  /\ acc' = [acc EXCEPT ![t] = Append(@, <<OperandA(t), OperandB(t)>>)]
  /\ kk' = [kk EXCEPT ![t] = @ + 1]
  /\ UNCHANGED <<waiting, block, pc, idx, kBase, curr, smem, out>>

(* The tile is used up: stop, or turn to the next one.                     *)
EndTile_NoStop(t) ==
  /\ pc[t] = "multiply"
  /\ kk[t] = TileK
  /\ pc' = [pc EXCEPT ![t] = "loadNext"]
  /\ idx' = [idx EXCEPT ![t] = LinearTid(t)]
  /\ UNCHANGED <<waiting, block, kk, kBase, curr, smem, acc, out>>

EndTile_KeepCursor(t) ==
  /\ pc[t] = "multiply"
  /\ kk[t] = TileK
  /\ pc' = [pc EXCEPT ![t] = IF kBase[t] >= TotalK THEN "store" ELSE "loadNext"]
  /\ UNCHANGED <<waiting, block, idx, kk, kBase, curr, smem, acc, out>>

EndTile(t) ==
  /\ pc[t] = "multiply"
  /\ kk[t] = TileK
  /\ IF kBase[t] >= TotalK
     THEN pc' = [pc EXCEPT ![t] = "store"] /\ idx' = idx
     ELSE /\ pc' = [pc EXCEPT ![t] = "loadNext"]
          /\ idx' = [idx EXCEPT ![t] = LinearTid(t)]
  /\ UNCHANGED <<waiting, block, kk, kBase, curr, smem, acc, out>>

LoadNext(t) ==
  /\ pc[t] = "loadNext"
  /\ LoadTile(t, Target(t), "syncNext")
  /\ UNCHANGED <<waiting, block, kk, kBase, curr, acc, out>>

(* The barrier of the loop, the swap of the tile pointers after it and the *)
(* step of k_base.                                                         *)
SyncNext_NoSwap ==
  /\ \A t \in Threads : pc[t] = "syncNext"
  /\ pc' = [t \in Threads |-> "multiply"]
  /\ kBase' = [t \in Threads |-> kBase[t] + TileK]
  /\ kk' = [t \in Threads |-> 0]
  /\ UNCHANGED <<waiting, block, idx, curr, smem, acc, out>>

SyncNext ==
  /\ \A t \in Threads : pc[t] = "syncNext"
  /\ pc' = [t \in Threads |-> "multiply"]
  /\ curr' = [t \in Threads |-> 1 - curr[t]]
  /\ kBase' = [t \in Threads |-> kBase[t] + TileK]
  /\ kk' = [t \in Threads |-> 0]
  /\ UNCHANGED <<waiting, block, idx, smem, acc, out>>

StoreIndex(t) == Nhwc(RowOf(t), ColOf(t), ChannelOf(t), OutC) % Word

Store(t) ==
  /\ pc[t] = "store"
  /\ out' = IF InRange(t) THEN [out EXCEPT ![StoreIndex(t)] = acc[t]] ELSE out
  /\ pc' = [pc EXCEPT ![t] = "done"]
  /\ UNCHANGED <<waiting, block, idx, kk, kBase, curr, smem, acc>>

Bias(b, t) == IF b[3] * BlockZ + t[3] < OutC
              THEN <<"bias", b[3] * BlockZ + t[3]>> ELSE Zero

(* What a block finds when it starts; shared memory is not initialized.    *)
Fresh(b) ==
  [pc    |-> [t \in Threads |-> "loadFirst"],
   idx   |-> [t \in Threads |-> LinearTid(t)],
   zero  |-> [t \in Threads |-> 0],
   smem  |-> [s \in 0 .. SmemSize - 1 |-> Garbage],
   acc   |-> [t \in Threads |-> <<Bias(b, t)>>]]

(* The block has ended and the next one takes its place.                   *)
NextBlock ==
  /\ \A t \in Threads : pc[t] = "done"
  /\ \E b \in waiting :
       /\ block' = b
       /\ waiting' = waiting \ {b}
       /\ pc' = Fresh(b).pc
       /\ idx' = Fresh(b).idx
       /\ kk' = Fresh(b).zero
       /\ kBase' = Fresh(b).zero
       /\ curr' = Fresh(b).zero
       /\ smem' = Fresh(b).smem
       /\ acc' = Fresh(b).acc
  /\ UNCHANGED out

Terminated ==
  /\ waiting = {}
  /\ \A t \in Threads : pc[t] = "done"
  /\ UNCHANGED vars

Init ==
  /\ block \in Grid
  /\ waiting = Grid \ {block}
  /\ pc = Fresh(block).pc
  /\ idx = Fresh(block).idx
  /\ kk = Fresh(block).zero
  /\ kBase = Fresh(block).zero
  /\ curr = Fresh(block).zero
  /\ smem = Fresh(block).smem
  /\ acc = Fresh(block).acc
  /\ out = [p \in {OutIndex(e) : e \in Outputs} |-> <<>>]

ThreadStep(t) ==
  LoadFirst(t) \/ Multiply(t) \/ EndTile(t) \/ LoadNext(t) \/ Store(t)

Next ==
  \/ \E t \in Threads : ThreadStep(t)
  \/ SyncFirst
  \/ SyncNext
  \/ NextBlock
  \/ Terminated

(* The hardware runs every resident thread on (independent thread          *)
(* scheduling) and every waiting block when another one has ended.         *)
Fairness ==
  /\ \A t \in Threads : WF_vars(ThreadStep(t))
  /\ WF_vars(SyncFirst \/ SyncNext \/ NextBlock)

Spec == Init /\ [][Next]_vars /\ Fairness

-----------------------------------------------------------------------------
(* Properties.                                                             *)

Steps == {"loadFirst", "syncFirst", "multiply", "loadNext", "syncNext", "store", "done"}

(* Type invariant: in particular k_base never runs more than one tile past *)
(* the last term, and the cursors of LOAD_TILE stay within one block of    *)
(* threads after the longer tile.                                          *)
TypeOK ==
  /\ waiting \in SUBSET Grid
  /\ block \in Grid
  /\ pc \in [Threads -> Steps]
  /\ idx \in [Threads -> 0 .. MaxTile + BlockThreads - 1]
  /\ kk \in [Threads -> 0 .. TileK]
  /\ kBase \in [Threads -> 0 .. TotalK + TileK - 1]
  /\ curr \in [Threads -> {0, 1}]
  /\ DOMAIN smem = 0 .. SmemSize - 1

(* No data race on shared memory: while one thread reads a half of it no   *)
(* other thread writes to that half, and two threads that load write to    *)
(* different elements.  One barrier per tile is enough for both.           *)
Writing(t) == pc[t] \in {"loadFirst", "loadNext"} /\ idx[t] < MaxTile

NoRace ==
  \A t, u \in Threads :
    /\ pc[t] = "multiply" /\ Writing(u) => curr[t] # Target(u)
    /\ t # u /\ Writing(t) /\ Writing(u) => idx[t] # idx[u]

(* Every operand a thread multiplies is the element of its own row of A or *)
(* column of B that belongs to the tile being summed: never an element of  *)
(* the tile before or after, nor memory nobody has written.                *)
OperandsFresh ==
  \A t \in Threads :
    pc[t] = "multiply" /\ kk[t] < TileK =>
      /\ OperandA(t) = ValA(block, kBase[t] - TileK, LocalHw(t) * TileK + kk[t])
      /\ OperandB(t) = ValB(block, kBase[t] - TileK, t[3] * TileK + kk[t])

(* What a stored accumulator is worth.  A product with a zero factor adds  *)
(* nothing, the order of the sum is immaterial, and __hmax(acc, 0) keeps   *)
(* the identity of the sum.                                                *)
Nonzero(p) == p[1] # Zero /\ p[2] # Zero
Value(a) ==
  LET terms == {i \in 2 .. Len(a) : Nonzero(a[i])}
  IN [bias  |-> a[1][2],
      taps  |-> {<<a[i][1][2], a[i][2][2]>> : i \in terms},
      terms |-> Cardinality(terms)]
Stored == [p \in DOMAIN out |-> IF out[p] = <<>> THEN <<>> ELSE Value(out[p])]

(* The grid of blocks computes the convolution: each output element is     *)
(* stored once, as the sum of its bias and of every tap exactly once,      *)
(* whatever the interleaving of the threads and the order of the blocks.   *)
Conv == INSTANCE ConvSpec WITH Unwritten <- <<>>, out <- Stored

ComputesConvolution == Conv!Spec

(* Every thread reaches every barrier, also those outside the image, so    *)
(* that the launch ends with all the output stored.                        *)
LaunchCompletes == Conv!Completes

-----------------------------------------------------------------------------
(* The inductive invariant behind NoRace and OperandsFresh.                *)

FirstSteps == {"loadFirst", "syncFirst"}
LoadSteps == FirstSteps \cup {"loadNext", "syncNext"}

(* k_base and the tile pointers are private to each thread, yet equal.     *)
Lockstep == \A t, u \in Threads : kBase[t] = kBase[u] /\ curr[t] = curr[u]

(* No thread is past the first barrier while another is before it.         *)
OnePhase ==
  \/ \A t \in Threads : pc[t] \in FirstSteps /\ kBase[t] = 0
  \/ \A t \in Threads : pc[t] \in Steps \ FirstSteps

(* A thread visits the elements congruent to its linear_tid, and arrives   *)
(* at a barrier when none is left.                                         *)
Cursors ==
  \A t \in Threads :
    /\ pc[t] \in LoadSteps => idx[t] % BlockThreads = LinearTid(t)
    /\ pc[t] \in {"syncFirst", "syncNext"} => idx[t] >= MaxTile
    /\ pc[t] \in {"loadNext", "syncNext"} => kBase[t] < TotalK

(* Element i of both tiles in a half of memory m is the one of the tile    *)
(* from term base on.                                                      *)
Holds(m, half, b, base, i) ==
  /\ i < TileA => m[SlotA(half, i)] = ValA(b, base, i)
  /\ i < TileB => m[SlotB(half, i)] = ValB(b, base, i)

(* The elements a thread has visited are loaded ...                        *)
Loaded ==
  \A t \in Threads : pc[t] \in LoadSteps =>
    \A i \in 0 .. MaxTile - 1 :
      i % BlockThreads = LinearTid(t) /\ i < idx[t] =>
        Holds(smem, Target(t), block, kBase[t], i)

(* ... and between two barriers the whole current tile is.                 *)
CurrentTile ==
  \A t \in Threads : pc[t] \notin FirstSteps =>
    \A i \in 0 .. MaxTile - 1 :
      Holds(smem, curr[t], block, kBase[t] - TileK, i)

(* The inductive invariant: the threads of a block advance tile by tile in *)
(* step, every thread's share of the tile being loaded is in place up to   *)
(* its cursor, and the tile being multiplied is complete and left alone.   *)
IInv == TypeOK /\ Lockstep /\ OnePhase /\ Cursors /\ Loaded /\ CurrentTile
=============================================================================
