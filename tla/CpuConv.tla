------------------------------ MODULE CpuConv ------------------------------
(***************************************************************************)
(* The CPU convolution conv_relu_nhwc_oihw: three OpenMP work-sharing      *)
(* loops, each ended by OpenMP's implicit barrier, that convert the biases *)
(* to float, transpose the weights so that the output channels of a filter *)
(* cell are adjacent, and compute the output tile by tile.                 *)
(*                                                                         *)
(* Any thread may be given any iteration of a loop, which covers every     *)
(* schedule the runtime may choose; the loops in Ordered, a bound for TLC, *)
(* are handed out first to last, as a dynamic schedule does.  A step is one*)
(* store: of a bias, of a weight, or of the SimdWidth (in the tail: one)   *)
(* output channels of a pixel that are summed side by side in one vector.  *)
(***************************************************************************)
EXTENDS Conv3x3

CONSTANTS
  Threads,        \* the OpenMP team
  SimdWidth,      \* SimdOps::width: floats per vector, 1 without SIMD
  TileH, TileW,   \* TILE_H and TILE_W
  Ordered         \* the loops whose iterations are handed out first to last

ASSUME Team == Threads # {} /\ IsFiniteSet(Threads)
ASSUME Tiling == SimdWidth \in Nat \ {0} /\ TileH \in Nat \ {0} /\ TileW \in Nat \ {0}
                  /\ Ordered \subseteq {"bias", "pack", "tiles"}

VARIABLES
  region,    \* the loop being executed, "done" after the last
  todo,      \* its iterations that no thread has taken, by their first store
  at,        \* thread -> the store it does next, Idle between iterations
  biasF32,   \* bias_f32: which bias each element holds
  packed,    \* packed_weights: which weight each element holds
  out        \* output position -> the sum stored there, <<>> before

vars == <<region, todo, at, biasF32, packed, out>>

Idle == <<>>
Unconverted == -1    \* the zero a std::vector<float> starts with

Cells == 0 .. 8
PackedIndex(i, f, o) == (i * 9 + f) * OutC + o

(* A store is a triple: <<0, 0, o>> for a bias, <<i, f, o>> for a weight,  *)
(* <<h, w, out_offset>> for output.                                        *)
Iterations_FullTiles(r) ==
  CASE r = "bias"  -> {0} \X {0} \X OutChannels
    [] r = "pack"  -> InChannels \X Cells \X {0}
    [] r = "tiles" -> {h \in Rows : h % TileH = 0 /\ h + TileH <= InH}
                        \X {w \in Cols : w % TileW = 0} \X {0}
    [] r = "done"  -> {}

Iterations(r) ==
  CASE r = "bias"  -> {0} \X {0} \X OutChannels
    [] r = "pack"  -> InChannels \X Cells \X {0}
    [] r = "tiles" -> {h \in Rows : h % TileH = 0} \X {w \in Cols : w % TileW = 0} \X {0}
    [] r = "done"  -> {}

NextRegion == [bias |-> "pack", pack |-> "tiles", tiles |-> "done"]

Lesser(a, b) == IF a <= b THEN a ELSE b
TileStart(x, size) == (x \div size) * size
TileEnd_NoClip(x, size, limit) == limit
TileEnd_PastEdge(x, size, limit) == TileStart(x, size) + size
TileEnd(x, size, limit) == Lesser(TileStart(x, size) + size, limit)

(* How many output channels, from off on, are summed in one vector.        *)
ChunkWidth(off) == IF SimdWidth > 1 /\ off + SimdWidth <= OutC THEN SimdWidth ELSE 1

(* The store after p in the same iteration.                                *)
After(p) ==
  CASE region = "bias"  -> Idle
    [] region = "pack"  -> IF p[3] + 1 < OutC THEN <<p[1], p[2], p[3] + 1>> ELSE Idle
    [] region = "tiles" ->
         IF p[3] + ChunkWidth(p[3]) < OutC THEN <<p[1], p[2], p[3] + ChunkWidth(p[3])>>
         ELSE IF p[2] + 1 < TileEnd(p[2], TileW, InW) THEN <<p[1], p[2] + 1, 0>>
         ELSE IF p[1] + 1 < TileEnd(p[1], TileH, InH)
              THEN <<p[1] + 1, TileStart(p[2], TileW), 0>>
         ELSE Idle

(* What the sum for output channel o of pixel (h, w) adds up.              *)
Sum(h, w, o) ==
  LET terms == {f \in (0 .. 2) \X (0 .. 2) \X InChannels :
                  h + f[1] - 1 \in Rows /\ w + f[2] - 1 \in Cols}
  IN [bias  |-> biasF32[o],
      taps  |-> {<<((h + f[1] - 1) * InW + w + f[2] - 1) * InC + f[3],
                   packed[f[3] * (9 * OutC) + (f[1] * 3 + f[2]) * OutC + o]>> : f \in terms},
      terms |-> Cardinality(terms)]

-----------------------------------------------------------------------------
(* The loops.                                                              *)

Earlier(p, q) ==
  \/ p[1] < q[1]
  \/ p[1] = q[1] /\ p[2] < q[2]
  \/ p[1] = q[1] /\ p[2] = q[2] /\ p[3] < q[3]

Available == IF region \in Ordered THEN {p \in todo : ~ \E q \in todo : Earlier(q, p)} ELSE todo

(* The runtime hands an iteration to thread t.                             *)
Claim(t) ==
  /\ at[t] = Idle
  /\ \E p \in Available : /\ todo' = todo \ {p}
                     /\ at' = [at EXCEPT ![t] = p]
  /\ UNCHANGED <<region, biasF32, packed, out>>

ConvertBias(t) ==
  /\ region = "bias" /\ at[t] # Idle
  /\ biasF32' = [biasF32 EXCEPT ![at[t][3]] = at[t][3]]
  /\ at' = [at EXCEPT ![t] = After(@)]
  /\ UNCHANGED <<region, todo, packed, out>>

PackWeight(t) ==
  /\ region = "pack" /\ at[t] # Idle
  /\ LET i  == at[t][1]
         f  == at[t][2]
         o  == at[t][3]
         fh == f \div 3
     IN packed' = [packed EXCEPT ![PackedIndex(i, f, o)] = Krsc(o, fh, f - fh * 3, i)]
  /\ at' = [at EXCEPT ![t] = After(@)]
  /\ UNCHANGED <<region, todo, biasF32, out>>

(* The output elements of the vector that thread t stores next.            *)
Chunk(t) == {<<at[t][1], at[t][2], o>> : o \in at[t][3] .. at[t][3] + ChunkWidth(at[t][3]) - 1}

StoreChunk(t) ==
  /\ region = "tiles" /\ at[t] # Idle
  /\ out' = [p \in DOMAIN out |->
               IF \E e \in Chunk(t) : OutIndex(e) = p
               THEN LET e == CHOOSE e \in Chunk(t) : OutIndex(e) = p
                    IN Sum(e[1], e[2], e[3])
               ELSE out[p]]
  /\ at' = [at EXCEPT ![t] = After(@)]
  /\ UNCHANGED <<region, todo, biasF32, packed>>

(* The implicit barrier at the end of a work-sharing loop.                 *)
EndRegion_NoWait ==
  /\ region # "done"
  /\ todo = {}
  /\ \E t \in Threads : at[t] = Idle
  /\ region' = NextRegion[region]
  /\ todo' = Iterations(region')
  /\ at' = [t \in Threads |-> Idle]
  /\ UNCHANGED <<biasF32, packed, out>>

EndRegion ==
  /\ region # "done"
  /\ todo = {}
  /\ \A t \in Threads : at[t] = Idle
  /\ region' = NextRegion[region]
  /\ todo' = Iterations(region')
  /\ UNCHANGED <<at, biasF32, packed, out>>

Returned == region = "done" /\ UNCHANGED vars

Init ==
  /\ region = "bias"
  /\ todo = Iterations("bias")
  /\ at = [t \in Threads |-> Idle]
  /\ biasF32 = [o \in OutChannels |-> Unconverted]
  /\ packed = [i \in 0 .. InC * 9 * OutC - 1 |-> Unconverted]
  /\ out = [p \in {OutIndex(e) : e \in Outputs} |-> <<>>]

ThreadStep(t) == Claim(t) \/ ConvertBias(t) \/ PackWeight(t) \/ StoreChunk(t)

Next == (\E t \in Threads : ThreadStep(t)) \/ EndRegion \/ Returned

(* The operating system runs every thread of the team, and a team that has *)
(* arrived at a barrier leaves it.                                         *)
Fairness == (\A t \in Threads : WF_vars(ThreadStep(t))) /\ WF_vars(EndRegion)

Spec == Init /\ [][Next]_vars /\ Fairness

-----------------------------------------------------------------------------
(* Properties.                                                             *)

(* Type invariant: the tile loops never leave the image, and no chunk      *)
(* reaches past the last output channel.                                   *)
TypeOK ==
  /\ region \in {"bias", "pack", "tiles", "done"}
  /\ todo \subseteq Iterations(region)
  /\ DOMAIN at = Threads
  /\ \A t \in Threads : at[t] # Idle =>
       CASE region = "bias"  -> at[t] \in Iterations("bias")
         [] region = "pack"  -> at[t] \in InChannels \X Cells \X OutChannels
         [] region = "tiles" -> Chunk(t) \subseteq Outputs
         [] region = "done"  -> FALSE
  /\ biasF32 \in [OutChannels -> OutChannels \cup {Unconverted}]
  /\ packed \in [0 .. InC * 9 * OutC - 1 -> 0 .. InC * 9 * OutC - 1 \cup {Unconverted}]

(* No two threads are about to store to the same element, in any of the    *)
(* three loops: neither collapse(2) nor the SIMD chunks overlap.           *)
Writes(t) ==
  CASE at[t] = Idle      -> {}
    [] at[t] # Idle /\ region = "bias"  -> {at[t][3]}
    [] at[t] # Idle /\ region = "pack"  -> {PackedIndex(at[t][1], at[t][2], at[t][3])}
    [] at[t] # Idle /\ region = "tiles" -> {OutIndex(e) : e \in Chunk(t)}

DisjointWrites == \A t, u \in Threads : t # u => Writes(t) \cap Writes(u) = {}

(* The loop nest computes the convolution: every output element is stored  *)
(* once, as the sum of its bias and every tap exactly once - so no thread  *)
(* reads a bias or weight before the loop that converts it has ended, and  *)
(* the transposed weights are read back where they were put.               *)
Conv == INSTANCE ConvSpec WITH Unwritten <- <<>>

ComputesConvolution == Conv!Spec

(* The call returns with all of the output stored.                         *)
ConvReturns == Conv!Completes /\ <>(region = "done")
=============================================================================
