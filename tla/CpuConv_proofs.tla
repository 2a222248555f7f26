--------------------------- MODULE CpuConv_proofs ---------------------------
(***************************************************************************)
(* Proofs about the OpenMP convolution for every size, tiling, SIMD width, *)
(* team and schedule.                                                      *)
(*                                                                         *)
(* An iteration belongs to the thread that claimed it, which never leaves  *)
(* it before it is done, and two iterations have no element in common      *)
(* (Owned): no two stores race.  A bias, a weight or an output element is  *)
(* in place or still to be stored by somebody (DataInv, NoneForgotten), so *)
(* that a barrier finds all of them in place.  What is left to do only     *)
(* gets less (WorkFalls).                                                  *)
(***************************************************************************)
EXTENDS CpuConv, Numbers, FiniteSetTheorems, FunctionTheorems

-----------------------------------------------------------------------------
(* Tiles.                                                                  *)

(* All of a tile's rows, or columns, start in the same place.              *)
LEMMA TileStartOf ==
  ASSUME NEW size \in Nat \ {0}, NEW x \in Nat
  PROVE  /\ TileStart(x, size) \in 0 .. x
         /\ TileStart(TileStart(x, size), size) = TileStart(x, size)
         /\ x + 1 < TileStart(x, size) + size => TileStart(x + 1, size) = TileStart(x, size)
<1> DEFINE q == x \div size
           r == x % size
<1>1. q \in Nat /\ r \in 0 .. size - 1 /\ x = q * size + r
  BY DivMod
<1>2. TileStart(x, size) = q * size
  BY DEF TileStart
<1> HIDE DEF q, r
<1>3. q * size \in Nat
  BY <1>1, SMT
<1>4. (q * size + 0) \div size = q /\ q * size + 0 = q * size
  BY <1>1, <1>3, RadixDivMod
<1>5. TileStart(q * size, size) = q * size
  BY <1>4 DEF TileStart
<1>6. ASSUME x + 1 < q * size + size PROVE TileStart(x + 1, size) = q * size
  <2>1. r + 1 \in 0 .. size - 1 /\ x + 1 = q * size + (r + 1)
    BY <1>1, <1>3, <1>6
  <2>2. (q * size + (r + 1)) \div size = q
    BY <1>1, <2>1, RadixDivMod
  <2>3. QED
    BY <2>1, <2>2 DEF TileStart
<1>7. QED
  BY <1>1, <1>2, <1>3, <1>5, <1>6

LEMMA TileStartMultiple ==
  ASSUME NEW size \in Nat \ {0}, NEW x \in Nat, x % size = 0
  PROVE  TileStart(x, size) = x
<1> DEFINE q == x \div size
<1>1. q \in Nat /\ x = q * size + 0
  BY DivMod
<1>2. TileStart(x, size) = q * size
  BY DEF TileStart
<1> HIDE DEF q
<1>3. q * size \in Nat
  BY <1>1, SMT
<1>4. QED
  BY <1>1, <1>2, <1>3

-----------------------------------------------------------------------------
(* The stores of a loop, and the iteration that a store belongs to, by the *)
(* first store of that iteration.                                          *)

StoresOf(r) ==
  CASE r = "bias"  -> {0} \X {0} \X OutChannels
    [] r = "pack"  -> InChannels \X Cells \X OutChannels
    [] r = "tiles" -> Rows \X Cols \X OutChannels
    [] r = "done"  -> {}

IterationOf(r, p) ==
  CASE r = "bias"  -> p
    [] r = "pack"  -> <<p[1], p[2], 0>>
    [] r = "tiles" -> <<TileStart(p[1], TileH), TileStart(p[2], TileW), 0>>
    [] r = "done"  -> p

Regions == {"bias", "pack", "tiles", "done"}

LEMMA Constants ==
  /\ InH \in Nat \ {0} /\ InW \in Nat \ {0} /\ InC \in Nat \ {0} /\ OutC \in Nat \ {0}
  /\ SimdWidth \in Nat \ {0} /\ TileH \in Nat \ {0} /\ TileW \in Nat \ {0}
  BY ConvShape, Tiling

LEMMA FirstStore ==
  ASSUME NEW r \in Regions, NEW p \in Iterations(r)
  PROVE  p \in StoresOf(r) /\ IterationOf(r, p) = p
<1>1. CASE r = "bias"
  BY <1>1 DEF Iterations, StoresOf, IterationOf
<1>2. CASE r = "pack"
  BY <1>2, Constants DEF Iterations, StoresOf, IterationOf, OutChannels
<1>3. CASE r = "tiles"
  <2>1. PICK h \in Rows, w \in Cols : p = <<h, w, 0>> /\ h % TileH = 0 /\ w % TileW = 0
    BY <1>3 DEF Iterations
  <2>2. h \in Nat /\ w \in Nat
    BY <2>1, Constants DEF Rows, Cols
  <2>3. TileStart(h, TileH) = h /\ TileStart(w, TileW) = w
    BY <2>1, <2>2, Constants, TileStartMultiple
  <2>4. QED
    BY <1>3, <2>1, <2>3, Constants DEF StoresOf, IterationOf, OutChannels
<1>4. CASE r = "done"
  BY <1>4 DEF Iterations
<1>5. QED
  BY <1>1, <1>2, <1>3, <1>4 DEF Regions

LEMMA ChunkFits ==
  ASSUME NEW off \in OutChannels
  PROVE  ChunkWidth(off) \in Nat \ {0} /\ off + ChunkWidth(off) <= OutC
  BY Constants DEF OutChannels, ChunkWidth

(* The store after p belongs to the same iteration.                        *)
LEMMA AfterStays ==
  ASSUME region \in Regions, NEW p \in StoresOf(region), After(p) # Idle
  PROVE  After(p) \in StoresOf(region) /\ IterationOf(region, After(p)) = IterationOf(region, p)
<1>1. CASE region = "bias"
  BY <1>1 DEF After
<1>2. CASE region = "pack"
  <2>1. p[3] + 1 < OutC /\ After(p) = <<p[1], p[2], p[3] + 1>>
    BY <1>2 DEF After
  <2>2. p \in InChannels \X Cells \X OutChannels
    BY <1>2 DEF StoresOf
  <2>3. <<p[1], p[2], p[3] + 1>> \in InChannels \X Cells \X OutChannels
    BY <2>1, <2>2, Constants DEF OutChannels
  <2>4. QED
    BY <1>2, <2>1, <2>3 DEF StoresOf, IterationOf
<1>3. CASE region = "tiles"
  <2> DEFINE h == p[1]
             w == p[2]
             o == p[3]
  <2>1. h \in Rows /\ w \in Cols /\ o \in OutChannels /\ h \in Nat /\ w \in Nat
    BY <1>3, Constants DEF StoresOf, Rows, Cols
  <2>2. ChunkWidth(o) \in Nat \ {0}
    BY <2>1, ChunkFits
  <2>3. /\ TileStart(h, TileH) \in 0 .. h /\ TileStart(w, TileW) \in 0 .. w
        /\ TileStart(TileStart(w, TileW), TileW) = TileStart(w, TileW)
        /\ h + 1 < TileStart(h, TileH) + TileH => TileStart(h + 1, TileH) = TileStart(h, TileH)
        /\ w + 1 < TileStart(w, TileW) + TileW => TileStart(w + 1, TileW) = TileStart(w, TileW)
    BY <2>1, Constants, TileStartOf
  <2>4. CASE o + ChunkWidth(o) < OutC
    <3>1. After(p) = <<h, w, o + ChunkWidth(o)>>
      BY <1>3, <2>4 DEF After
    <3>2. o + ChunkWidth(o) \in OutChannels
      BY <2>1, <2>2, <2>4, Constants DEF OutChannels
    <3>3. QED
      BY <1>3, <2>1, <3>1, <3>2 DEF StoresOf, IterationOf
  <2>5. CASE ~(o + ChunkWidth(o) < OutC) /\ w + 1 < TileEnd(w, TileW, InW)
    <3>1. After(p) = <<h, w + 1, 0>>
      BY <1>3, <2>5 DEF After
    <3>2. w + 1 < InW /\ w + 1 < TileStart(w, TileW) + TileW
      BY <2>1, <2>3, <2>5, Constants DEF TileEnd, Lesser
    <3>3. <<h, w + 1, 0>> \in Rows \X Cols \X OutChannels
      BY <2>1, <3>2, Constants DEF Cols, OutChannels
    <3>4. QED
      BY <1>3, <2>3, <3>1, <3>2, <3>3 DEF StoresOf, IterationOf
  <2>6. CASE /\ ~(o + ChunkWidth(o) < OutC) /\ ~(w + 1 < TileEnd(w, TileW, InW))
             /\ h + 1 < TileEnd(h, TileH, InH)
    <3>1. After(p) = <<h + 1, TileStart(w, TileW), 0>>
      BY <1>3, <2>6 DEF After
    <3>2. h + 1 < InH /\ h + 1 < TileStart(h, TileH) + TileH
      BY <2>1, <2>3, <2>6, Constants DEF TileEnd, Lesser
    <3>3. <<h + 1, TileStart(w, TileW), 0>> \in Rows \X Cols \X OutChannels
      BY <2>1, <2>3, <3>2, Constants DEF Rows, Cols, OutChannels
    <3>4. QED
      BY <1>3, <2>3, <3>1, <3>2, <3>3 DEF StoresOf, IterationOf
  <2>7. QED
    BY <1>3, <2>4, <2>5, <2>6 DEF After
<1>4. CASE region = "done"
  BY <1>4 DEF StoresOf
<1>5. QED
  BY <1>1, <1>2, <1>3, <1>4 DEF Regions

-----------------------------------------------------------------------------
(* The inductive invariant.                                                *)

Active(t) == at[t] # Idle
IterationAt(t) == IterationOf(region, at[t])

(* Every thread is between iterations or at a store of the present loop,   *)
Placed ==
  /\ region \in Regions
  /\ todo \subseteq Iterations(region)
  /\ at \in [Threads -> StoresOf(region) \cup {Idle}]

(* in an iteration that nobody else will get or has got.                   *)
Owned ==
  /\ \A t \in Threads : Active(t) => IterationAt(t) \notin todo
  /\ \A t, u \in Threads :
       t # u /\ Active(t) /\ Active(u) => IterationAt(t) # IterationAt(u)

Filled ==
  /\ biasF32 \in [OutChannels -> OutChannels \cup {Unconverted}]
  /\ packed \in [0 .. InC * 9 * OutC - 1 -> 0 .. InC * 9 * OutC - 1 \cup {Unconverted}]

IInv == Placed /\ Owned /\ Filled

LEMMA StoreIsActive ==
  ASSUME NEW r \in Regions, NEW p \in StoresOf(r)
  PROVE  p # Idle
  BY DEF Regions, StoresOf, Idle

LEMMA InitIInv == Init => IInv
<1> SUFFICES ASSUME Init PROVE IInv
  OBVIOUS
<1>1. Placed
  BY DEF Init, Placed, Regions
<1>2. \A t \in Threads : ~Active(t)
  BY DEF Init, Active
<1>3. Owned
  BY <1>2 DEF Owned
<1>4. Filled
  BY DEF Init, Filled
<1>5. QED
  BY <1>1, <1>3, <1>4 DEF IInv

(* A thread takes an iteration, which leaves todo.                         *)
LEMMA ClaimIInv ==
  ASSUME IInv, NEW t \in Threads, Claim(t)
  PROVE  IInv'
<1>1. PICK p \in todo : todo' = todo \ {p} /\ at' = [at EXCEPT ![t] = p]
  BY DEF Claim, Available
<1>2. /\ region \in Regions /\ todo \subseteq Iterations(region)
      /\ at \in [Threads -> StoresOf(region) \cup {Idle}]
      /\ region' = region /\ ~Active(t)
  BY DEF IInv, Placed, Claim, Active
<1>3. p \in StoresOf(region) /\ IterationOf(region, p) = p
  BY <1>1, <1>2, FirstStore
<1>4. Placed'
  BY <1>1, <1>2, <1>3 DEF Placed
<1>5. at'[t] = p /\ \A u \in Threads : u # t => at'[u] = at[u]
  BY <1>1, <1>2
<1>6. \A u \in Threads : Active(u) => IterationAt(u) \notin todo
  BY DEF IInv, Owned
<1>7. Owned'
  <2>1. ASSUME NEW u \in Threads, Active(u)' PROVE IterationAt(u)' \notin todo'
    BY <1>1, <1>2, <1>3, <1>5, <1>6, <2>1 DEF Active, IterationAt
  <2>2. ASSUME NEW u \in Threads, NEW v \in Threads, u # v, Active(u)', Active(v)'
        PROVE  IterationAt(u)' # IterationAt(v)'
    <3>1. CASE u = t
      BY <1>1, <1>2, <1>3, <1>5, <1>6, <2>2, <3>1 DEF Active, IterationAt
    <3>2. CASE v = t
      BY <1>1, <1>2, <1>3, <1>5, <1>6, <2>2, <3>2 DEF Active, IterationAt
    <3>3. CASE u # t /\ v # t
      BY <1>2, <1>5, <2>2, <3>3 DEF Active, IterationAt, IInv, Owned
    <3>4. QED
      BY <3>1, <3>2, <3>3
  <2>3. QED
    BY <2>1, <2>2 DEF Owned
<1>8. Filled'
  BY DEF IInv, Filled, Claim
<1>9. QED
  BY <1>4, <1>7, <1>8 DEF IInv

(* A thread stores and goes on in its iteration, or is done with it.       *)
LEMMA AdvanceOwned ==
  ASSUME IInv, NEW t \in Threads, Active(t), at' = [at EXCEPT ![t] = After(@)],
         region' = region, todo' = todo
  PROVE  Placed' /\ Owned'
<1>1. /\ region \in Regions /\ todo \subseteq Iterations(region)
      /\ at \in [Threads -> StoresOf(region) \cup {Idle}]
  BY DEF IInv, Placed
<1>2. at[t] \in StoresOf(region)
  BY <1>1 DEF Active
<1>3. at'[t] = After(at[t]) /\ \A u \in Threads : u # t => at'[u] = at[u]
  BY <1>1
<1>4. at'[t] # Idle => /\ at'[t] \in StoresOf(region)
                       /\ IterationOf(region, at'[t]) = IterationOf(region, at[t])
  BY <1>1, <1>2, <1>3, AfterStays
<1>5. Placed'
  BY <1>1, <1>3, <1>4 DEF Placed
<1>6. ASSUME NEW u \in Threads, Active(u)'
      PROVE  Active(u) /\ IterationAt(u)' = IterationAt(u)
  BY <1>3, <1>4, <1>6 DEF Active, IterationAt
<1>7. Owned'
  <2>1. ASSUME NEW u \in Threads, Active(u)' PROVE IterationAt(u)' \notin todo'
    BY <1>6, <2>1 DEF IInv, Owned
  <2>2. ASSUME NEW u \in Threads, NEW v \in Threads, u # v, Active(u)', Active(v)'
        PROVE  IterationAt(u)' # IterationAt(v)'
    BY <1>6, <2>2 DEF IInv, Owned
  <2>3. QED
    BY <2>1, <2>2 DEF Owned
<1>8. QED
  BY <1>5, <1>7

LEMMA ConvertBiasIInv ==
  ASSUME IInv, NEW t \in Threads, ConvertBias(t)
  PROVE  IInv'
<1>1. Placed' /\ Owned'
  BY AdvanceOwned DEF ConvertBias, Active
<1>2. at[t][3] \in OutChannels
  BY DEF ConvertBias, IInv, Placed, StoresOf
<1>3. Filled'
  BY <1>2 DEF ConvertBias, IInv, Filled
<1>4. QED
  BY <1>1, <1>3 DEF IInv

(* Filter cell f is row f \div 3, column f % 3.                            *)
LEMMA KrscRange ==
  ASSUME NEW o \in OutChannels, NEW f \in Cells, NEW i \in InChannels
  PROVE  Krsc(o, f \div 3, f - (f \div 3) * 3, i) \in 0 .. InC * 9 * OutC - 1
<1> DEFINE fh == f \div 3
           fw == f - fh * 3
           a  == (o * 3 + fh) * 3 + fw
<1>1. fh \in 0 .. 2 /\ fw \in 0 .. 2
  BY DEF Cells
<1> HIDE DEF fh, fw
<1>2. o \in 0 .. OutC - 1 /\ i \in 0 .. InC - 1 /\ InC \in Nat \ {0} /\ OutC \in Nat \ {0}
  BY Constants DEF OutChannels, InChannels
<1>3. a \in 0 .. OutC * 9 - 1
  BY <1>1, <1>2
<1> HIDE DEF a
<1>4. a * InC + i \in 0 .. (OutC * 9) * InC - 1
  <2>1. OutC * 9 \in Nat \ {0}
    BY <1>2
  <2>2. QED
    BY <1>2, <1>3, <2>1, RadixRange
<1>5. (OutC * 9) * InC = InC * 9 * OutC
  BY <1>2, SMT
<1>6. QED
  BY <1>4, <1>5 DEF Krsc, a, fh, fw

LEMMA PackWeightIInv ==
  ASSUME IInv, NEW t \in Threads, PackWeight(t)
  PROVE  IInv'
<1> DEFINE i == at[t][1]
           f == at[t][2]
           o == at[t][3]
           k == Krsc(o, f \div 3, f - (f \div 3) * 3, i)
<1>1. Placed' /\ Owned'
  BY AdvanceOwned DEF PackWeight, Active
<1>2. i \in InChannels /\ f \in Cells /\ o \in OutChannels
  BY DEF PackWeight, IInv, Placed, StoresOf
<1>3. k \in 0 .. InC * 9 * OutC - 1
  BY <1>2, KrscRange
<1>4. packed' = [packed EXCEPT ![PackedIndex(i, f, o)] = k] /\ biasF32' = biasF32
  BY DEF PackWeight
<1> HIDE DEF k
<1>5. Filled'
  BY <1>3, <1>4 DEF IInv, Filled
<1>6. QED
  BY <1>1, <1>5 DEF IInv

LEMMA StoreChunkIInv ==
  ASSUME IInv, NEW t \in Threads, StoreChunk(t)
  PROVE  IInv'
<1>1. Placed' /\ Owned'
  BY AdvanceOwned DEF StoreChunk, Active
<1>2. Filled'
  BY DEF StoreChunk, IInv, Filled
<1>3. QED
  BY <1>1, <1>2 DEF IInv

(* At the barrier nobody is in an iteration.                               *)
LEMMA EndRegionIInv == IInv /\ EndRegion => IInv'
<1> SUFFICES ASSUME IInv, EndRegion PROVE IInv'
  OBVIOUS
<1>1. region' \in Regions /\ todo' = Iterations(region') /\ at' = at
  BY DEF EndRegion, IInv, Placed, Regions, NextRegion
<1>2. \A t \in Threads : at'[t] = Idle
  BY <1>1 DEF EndRegion
<1>3. at' \in [Threads -> StoresOf(region') \cup {Idle}]
  BY <1>1, <1>2 DEF IInv, Placed
<1>4. Placed'
  BY <1>1, <1>3 DEF Placed
<1>5. Owned'
  BY <1>2 DEF Owned, Active
<1>6. Filled'
  BY DEF EndRegion, IInv, Filled
<1>7. QED
  BY <1>4, <1>5, <1>6 DEF IInv

LEMMA StepIInv == IInv /\ [Next]_vars => IInv'
<1>1. IInv /\ UNCHANGED vars => IInv'
  BY DEF IInv, Placed, Owned, Filled, Active, IterationAt, vars
<1>2. QED
  BY <1>1, ClaimIInv, ConvertBiasIInv, PackWeightIInv, StoreChunkIInv, EndRegionIInv
     DEF Next, ThreadStep, Returned

(* conv_relu_nhwc_oihw keeps its inductive invariant: an iteration is      *)
(* still to be handed out, in the hands of one thread, or over.            *)
THEOREM IInvHolds == Spec => []IInv
  BY InitIInv, StepIInv, PTL DEF Spec

-----------------------------------------------------------------------------
(* The properties.                                                         *)

(* Two positions of three coordinates agree only if the outer two do.      *)
LEMMA OuterInjective ==
  ASSUME NEW n \in Nat \ {0}, NEW m \in Nat \ {0}, NEW a \in Nat, NEW b \in Nat,
         NEW r \in 0 .. n - 1, NEW s \in 0 .. n - 1, NEW c \in 0 .. m - 1, NEW d \in 0 .. m - 1,
         (a * n + r) * m + c = (b * n + s) * m + d
  PROVE  a = b /\ r = s
<1>1. a * n + r \in Nat /\ b * n + s \in Nat
  BY SMT
<1>2. a * n + r = b * n + s
  <2> DEFINE x == a * n + r
             y == b * n + s
  <2>1. x \in Nat /\ y \in Nat /\ x * m + c = y * m + d
    BY <1>1
  <2> HIDE DEF x, y
  <2>2. x = y
    BY <2>1, RadixInjective
  <2>3. QED
    BY <2>2 DEF x, y
<1>3. QED
  BY <1>2, RadixInjective

(* The elements of different iterations are different.                     *)
LEMMA IterationsApart ==
  ASSUME IInv, NEW t \in Threads, NEW u \in Threads, Active(t), Active(u),
         IterationAt(t) # IterationAt(u)
  PROVE  Writes(t) \cap Writes(u) = {}
<1> DEFINE p == at[t]
           q == at[u]
<1>1. region \in Regions /\ p \in StoresOf(region) /\ q \in StoresOf(region)
  BY DEF IInv, Placed, Active
<1>2. CASE region = "bias"
  <2>1. p = <<0, 0, p[3]>> /\ q = <<0, 0, q[3]>>
    BY <1>1, <1>2 DEF StoresOf
  <2>2. Writes(t) = {p[3]} /\ Writes(u) = {q[3]}
    BY <1>2 DEF Writes, Active
  <2>3. QED
    BY <1>2, <2>1, <2>2 DEF IterationAt, IterationOf
<1>3. CASE region = "pack"
  <2>1. /\ p[1] \in Nat /\ p[2] \in 0 .. 9 - 1 /\ p[3] \in 0 .. OutC - 1
        /\ q[1] \in Nat /\ q[2] \in 0 .. 9 - 1 /\ q[3] \in 0 .. OutC - 1
        /\ OutC \in Nat \ {0}
    BY <1>1, <1>3, Constants DEF StoresOf, InChannels, Cells, OutChannels
  <2>2. ASSUME PackedIndex(p[1], p[2], p[3]) = PackedIndex(q[1], q[2], q[3]) PROVE FALSE
    <3>1. (p[1] * 9 + p[2]) * OutC + p[3] = (q[1] * 9 + q[2]) * OutC + q[3]
      BY <2>2 DEF PackedIndex
    <3> DEFINE a == p[1]
               b == q[1]
               r == p[2]
               s == q[2]
               c == p[3]
               d == q[3]
    <3>2. /\ a \in Nat /\ r \in 0 .. 9 - 1 /\ c \in 0 .. OutC - 1
          /\ b \in Nat /\ s \in 0 .. 9 - 1 /\ d \in 0 .. OutC - 1
          /\ (a * 9 + r) * OutC + c = (b * 9 + s) * OutC + d
      BY <2>1, <3>1
    <3> HIDE DEF a, b, r, s, c, d
    <3>3. a = b /\ r = s
      BY <3>2, Constants, OuterInjective
    <3>4. QED
      BY <1>3, <3>3 DEF IterationAt, IterationOf, a, b, r, s
  <2>3. QED
    BY <1>3, <2>2 DEF Writes, Active
<1>4. CASE region = "tiles"
  <2>1. /\ p[1] \in Nat /\ p[2] \in 0 .. InW - 1 /\ p[3] \in OutChannels
        /\ q[1] \in Nat /\ q[2] \in 0 .. InW - 1 /\ q[3] \in OutChannels
        /\ InW \in Nat \ {0} /\ OutC \in Nat \ {0}
    BY <1>1, <1>4, Constants DEF StoresOf, Rows, Cols
  <2>2. ASSUME NEW e \in Chunk(t), NEW f \in Chunk(u), OutIndex(e) = OutIndex(f) PROVE FALSE
    <3>1. /\ e[1] = p[1] /\ e[2] = p[2] /\ e[3] \in p[3] .. p[3] + ChunkWidth(p[3]) - 1
          /\ f[1] = q[1] /\ f[2] = q[2] /\ f[3] \in q[3] .. q[3] + ChunkWidth(q[3]) - 1
      BY DEF Chunk
    <3>2. e[3] \in 0 .. OutC - 1 /\ f[3] \in 0 .. OutC - 1
      BY <2>1, <3>1, ChunkFits DEF OutChannels
    <3>3. (p[1] * InW + p[2]) * OutC + e[3] = (q[1] * InW + q[2]) * OutC + f[3]
      BY <2>2, <3>1 DEF OutIndex, Nhwc
    <3> DEFINE a == p[1]
               b == q[1]
               r == p[2]
               s == q[2]
               c == e[3]
               d == f[3]
    <3>4. /\ a \in Nat /\ r \in 0 .. InW - 1 /\ c \in 0 .. OutC - 1
          /\ b \in Nat /\ s \in 0 .. InW - 1 /\ d \in 0 .. OutC - 1
          /\ (a * InW + r) * OutC + c = (b * InW + s) * OutC + d
      BY <2>1, <3>2, <3>3
    <3> HIDE DEF a, b, r, s, c, d
    <3>5. a = b /\ r = s
      BY <3>4, Constants, OuterInjective
    <3>6. QED
      BY <1>4, <3>5 DEF IterationAt, IterationOf, a, b, r, s
  <2>3. QED
    BY <1>4, <2>2 DEF Writes, Active
<1>5. CASE region = "done"
  BY <1>1, <1>5 DEF StoresOf
<1>6. QED
  BY <1>1, <1>2, <1>3, <1>4, <1>5 DEF Regions

(* Neither collapse(2) nor the SIMD chunks of conv_relu_nhwc_oihw let two  *)
(* OpenMP threads store to the same element, for any size, tiling, vector  *)
(* width, team and schedule.                                               *)
THEOREM RaceFree == Spec => []DisjointWrites
<1>1. IInv => DisjointWrites
  <2> SUFFICES ASSUME IInv, NEW t \in Threads, NEW u \in Threads, t # u
               PROVE  Writes(t) \cap Writes(u) = {}
    BY DEF DisjointWrites
  <2>1. CASE ~Active(t) \/ ~Active(u)
    BY <2>1 DEF Writes, Active
  <2>2. CASE Active(t) /\ Active(u)
    BY <2>2, IterationsApart DEF IInv, Owned
  <2>3. QED
    BY <2>1, <2>2
<1>2. QED
  BY <1>1, IInvHolds, PTL

(* The tile loops never leave the image and no vector reaches past the     *)
(* last output channel.                                                    *)
THEOREM TypeCorrect == Spec => []TypeOK
<1>1. IInv => TypeOK
  <2> SUFFICES ASSUME IInv PROVE TypeOK
    OBVIOUS
  <2>1. ASSUME NEW t \in Threads, Active(t)
        PROVE  CASE region = "bias"  -> at[t] \in Iterations("bias")
                 [] region = "pack"  -> at[t] \in InChannels \X Cells \X OutChannels
                 [] region = "tiles" -> Chunk(t) \subseteq Outputs
                 [] region = "done"  -> FALSE
    <3>1. region \in Regions /\ at[t] \in StoresOf(region)
      BY <2>1 DEF IInv, Placed, Active
    <3>2. CASE region = "tiles"
      <4>1. at[t][1] \in Rows /\ at[t][2] \in Cols /\ at[t][3] \in OutChannels
        BY <3>1, <3>2 DEF StoresOf
      <4>2. at[t][3] .. at[t][3] + ChunkWidth(at[t][3]) - 1 \subseteq OutChannels
        BY <4>1, ChunkFits, Constants DEF OutChannels
      <4>3. QED
        BY <3>2, <4>1, <4>2 DEF Chunk, Outputs
    <3>3. CASE region \in {"bias", "pack", "done"}
      BY <3>1, <3>3 DEF StoresOf, Iterations
    <3>4. QED
      BY <3>1, <3>2, <3>3 DEF Regions
  <2>2. DOMAIN at = Threads
    BY DEF IInv, Placed
  <2>3. QED
    BY <2>1, <2>2 DEF TypeOK, IInv, Placed, Filled, Regions, Active
<1>2. QED
  BY <1>1, IInvHolds, PTL

-----------------------------------------------------------------------------
(* The sum.  Its terms are the filter cells that fall on the image; each   *)
(* of them is a product of its own, and finds its weight where the second  *)
(* loop put it.                                                            *)

Reach(h, w) == {f \in (0 .. 2) \X (0 .. 2) \X InChannels :
                  h + f[1] - 1 \in Rows /\ w + f[2] - 1 \in Cols}

Tap(h, w, o, f) == <<Nhwc(h + f[1] - 1, w + f[2] - 1, f[3], InC), Krsc(o, f[1], f[2], f[3])>>

LEMMA KrscInjective ==
  ASSUME NEW o \in OutChannels,
         NEW a \in 0 .. 2, NEW b \in 0 .. 2, NEW c \in InChannels,
         NEW d \in 0 .. 2, NEW e \in 0 .. 2, NEW f \in InChannels,
         Krsc(o, a, b, c) = Krsc(o, d, e, f)
  PROVE  a = d /\ b = e /\ c = f
<1> DEFINE x == (o * 3 + a) * 3 + b
           y == (o * 3 + d) * 3 + e
<1>1. /\ x \in Nat /\ y \in Nat /\ c \in 0 .. InC - 1 /\ f \in 0 .. InC - 1 /\ o \in Nat
      /\ x * InC + c = y * InC + f
  BY Constants DEF OutChannels, InChannels, Krsc
<1>2. x = y => a = d /\ b = e
  BY <1>1
<1> HIDE DEF x, y
<1>3. x = y /\ c = f
  BY <1>1, Constants, RadixInjective
<1>4. QED
  BY <1>2, <1>3

LEMMA ReachFinite ==
  ASSUME NEW h, NEW w
  PROVE  IsFiniteSet(Reach(h, w))
<1> DEFINE S == Reach(h, w)
           T == 0 .. InC * 9 * OutC - 1
           G == [f \in S |-> Krsc(0, f[1], f[2], f[3])]
<1>1. \A f \in S : /\ f[1] \in 0 .. 2 /\ f[2] \in 0 .. 2 /\ f[3] \in InChannels
                   /\ f = <<f[1], f[2], f[3]>>
  BY DEF Reach
<1>2. 0 \in OutChannels /\ InC * 9 * OutC \in Nat
  <2>1. InC * 9 \in Nat
    BY Constants
  <2>2. QED
    BY <2>1, Constants, SMT DEF OutChannels
<1>3. ASSUME NEW f \in S PROVE Krsc(0, f[1], f[2], f[3]) \in T
  <2> DEFINE cell == f[1] * 3 + f[2]
  <2>1. cell \in Cells /\ cell \div 3 = f[1] /\ cell - (cell \div 3) * 3 = f[2]
    BY <1>1 DEF Cells
  <2> HIDE DEF cell
  <2>2. QED
    BY <1>1, <1>2, <2>1, KrscRange
<1>4. G \in [S -> T]
  BY <1>3
<1>5. ASSUME NEW f \in S, NEW g \in S, G[f] = G[g] PROVE f = g
  <2>1. Krsc(0, f[1], f[2], f[3]) = Krsc(0, g[1], g[2], g[3])
    BY <1>5
  <2>2. f[1] = g[1] /\ f[2] = g[2] /\ f[3] = g[3]
    BY <1>1, <1>2, <2>1, KrscInjective
  <2>3. QED
    BY <1>1, <2>2
<1>6. G \in Injection(S, T)
  BY <1>4, <1>5 DEF Injection, IsInjective
<1>7. IsFiniteSet(T)
  BY <1>2, FS_Interval
<1> HIDE DEF S, T, G
<1>8. IsFiniteSet(S)
  BY <1>6, <1>7, FS_Injection
<1>9. QED
  BY <1>8 DEF S

LEMMA TapCount ==
  ASSUME NEW h, NEW w, NEW o \in OutChannels
  PROVE  Cardinality(Taps(h, w, o)) = Cardinality(Reach(h, w))
<1> DEFINE S == Reach(h, w)
           T == Taps(h, w, o)
           F == [f \in S |-> Tap(h, w, o, f)]
<1>1. \A f \in S : /\ f[1] \in 0 .. 2 /\ f[2] \in 0 .. 2 /\ f[3] \in InChannels
                   /\ f = <<f[1], f[2], f[3]>>
  BY DEF Reach
<1>2. T = {Tap(h, w, o, f) : f \in S}
  BY DEF Taps, Tap, Reach
<1>3. F \in [S -> T] /\ \A x \in T : \E f \in S : F[f] = x
  BY <1>2
<1>4. ASSUME NEW f \in S, NEW g \in S, F[f] = F[g] PROVE f = g
  <2>1. Tap(h, w, o, f) = Tap(h, w, o, g)
    BY <1>4
  <2>2. Krsc(o, f[1], f[2], f[3]) = Krsc(o, g[1], g[2], g[3])
    BY <2>1 DEF Tap
  <2>3. f[1] = g[1] /\ f[2] = g[2] /\ f[3] = g[3]
    BY <1>1, <2>2, KrscInjective
  <2>4. QED
    BY <1>1, <2>3
<1> HIDE DEF F, T
<1>5. F \in Bijection(S, T)
  BY <1>3, <1>4 DEF Bijection, Injection, Surjection, IsInjective
<1>6. ExistsBijection(S, T)
  BY <1>5 DEF ExistsBijection
<1>7. Cardinality(T) = Cardinality(S)
  BY <1>6, ReachFinite, FS_Bijection
<1>8. QED
  BY <1>7 DEF T

BiasDone(o) == biasF32[o] = o
WeightDone(i, f, o) == packed[PackedIndex(i, f, o)] = Krsc(o, f \div 3, f - (f \div 3) * 3, i)

LEMMA SumRight ==
  ASSUME NEW h \in Rows, NEW w \in Cols, NEW o \in OutChannels, BiasDone(o),
         \A i \in InChannels, f \in Cells : WeightDone(i, f, o)
  PROVE  Sum(h, w, o) = Convolved(h, w, o)
<1> DEFINE Term(f) == <<((h + f[1] - 1) * InW + w + f[2] - 1) * InC + f[3],
                        packed[f[3] * (9 * OutC) + (f[1] * 3 + f[2]) * OutC + o]>>
<1>1. ASSUME NEW f \in Reach(h, w) PROVE Term(f) = Tap(h, w, o, f)
  <2> DEFINE a == f[1]
             b == f[2]
             c == f[3]
             cell == a * 3 + b
             row == h + a - 1
  <2>1. a \in 0 .. 2 /\ b \in 0 .. 2 /\ c \in InChannels /\ c \in Nat /\ row \in Rows
    BY Constants DEF Reach, InChannels
  <2>2. cell \in Cells /\ cell \div 3 = a /\ cell - (cell \div 3) * 3 = b
    BY <2>1 DEF Cells
  <2>3. c * (9 * OutC) + cell * OutC + o = PackedIndex(c, cell, o)
    <3>1. cell \in Nat /\ OutC \in Nat /\ o \in Nat
      BY <2>1, Constants DEF OutChannels
    <3> HIDE DEF cell, c
    <3>2. QED
      BY <2>1, <3>1, SMT DEF PackedIndex
  <2>4. packed[c * (9 * OutC) + cell * OutC + o] = Krsc(o, a, b, c)
    <3>1. packed[PackedIndex(c, cell, o)] = Krsc(o, cell \div 3, cell - (cell \div 3) * 3, c)
      BY <2>1, <2>2 DEF WeightDone
    <3> HIDE DEF a, b, c, cell
    <3>2. QED
      BY <2>2, <2>3, <3>1
  <2>5. row * InW + w + b - 1 = row * InW + (w + b - 1)
    <3> DEFINE base == row * InW
    <3>1. base \in Nat /\ w \in Nat
      <4>1. row \in Nat
        BY <2>1, Constants DEF Rows
      <4> HIDE DEF row
      <4>2. QED
        BY <4>1, Constants, SMT DEF Cols
    <3> HIDE DEF base
    <3>2. base + w + b - 1 = base + (w + b - 1)
      BY <2>1, <3>1
    <3>3. QED
      BY <3>2 DEF base
  <2>6. Term(f) = <<(row * InW + w + b - 1) * InC + c, packed[c * (9 * OutC) + cell * OutC + o]>>
    OBVIOUS
  <2>7. Tap(h, w, o, f) = <<(row * InW + (w + b - 1)) * InC + c, Krsc(o, a, b, c)>>
    BY DEF Tap, Nhwc
  <2>8. QED
    BY <2>4, <2>5, <2>6, <2>7
<1>2. Sum(h, w, o) = [bias |-> o, taps |-> {Term(f) : f \in Reach(h, w)},
                      terms |-> Cardinality(Reach(h, w))]
  BY DEF Sum, Reach, BiasDone
<1>3. Taps(h, w, o) = {Tap(h, w, o, f) : f \in Reach(h, w)}
  BY DEF Taps, Tap, Reach
<1> HIDE DEF Term
<1>4. {Term(f) : f \in Reach(h, w)} = Taps(h, w, o)
  BY <1>1, <1>3
<1>5. QED
  BY <1>2, <1>4, TapCount DEF Convolved

-----------------------------------------------------------------------------
(* What the loops have done so far.  A bias or weight is in place or one   *)
(* that an iteration is still to store, so all of them are in place when   *)
(* a loop has ended; and an output element is unwritten or right.          *)

Triples == InChannels \X Cells \X OutChannels

BiasPending(o) == <<0, 0, o>> \in todo \/ \E t \in Threads : at[t] = <<0, 0, o>>
WeightPending(i, f, o) ==
  \/ <<i, f, 0>> \in todo
  \/ \E t \in Threads : Active(t) /\ at[t][1] = i /\ at[t][2] = f /\ at[t][3] <= o

BiasInv ==
  \A o \in OutChannels : BiasDone(o) \/ (region = "bias" /\ BiasPending(o))

WeightInv ==
  \A p \in Triples :
    \/ WeightDone(p[1], p[2], p[3])
    \/ region = "bias"
    \/ region = "pack" /\ WeightPending(p[1], p[2], p[3])

OutputInv ==
  /\ DOMAIN out = Conv!Positions
  /\ \A e \in Outputs : out[OutIndex(e)] \in {<<>>, Convolved(e[1], e[2], e[3])}

DataInv == BiasInv /\ WeightInv /\ OutputInv

LEMMA SamePositions == Conv!Positions = {OutIndex(e) : e \in Outputs}
  BY DEF Conv!Positions, Conv!OutIndex, Conv!Nhwc, Conv!Outputs, Conv!Rows, Conv!Cols,
         Conv!OutChannels, OutIndex, Nhwc, Outputs, Rows, Cols, OutChannels

LEMMA InitDataInv == Init => DataInv
<1> SUFFICES ASSUME Init PROVE DataInv
  OBVIOUS
<1>1. BiasInv
  <2>1. \A o \in OutChannels : <<0, 0, o>> \in todo
    BY DEF Init, Iterations
  <2>2. QED
    BY <2>1 DEF Init, BiasInv, BiasPending
<1>2. WeightInv
  BY DEF Init, WeightInv
<1>3. OutputInv
  BY SamePositions DEF Init, OutputInv
<1>4. QED
  BY <1>1, <1>2, <1>3 DEF DataInv

(* An output position is the one of a single element, a place of the       *)
(* packed weights that of a single weight.                                 *)
LEMMA OutIndexInjective ==
  ASSUME NEW e \in Outputs, NEW f \in Outputs, OutIndex(e) = OutIndex(f)
  PROVE  e = f
<1> DEFINE a == e[1]
           b == f[1]
           r == e[2]
           s == f[2]
           c == e[3]
           d == f[3]
           x == a * InW + r
           y == b * InW + s
<1>1. /\ a \in Nat /\ r \in 0 .. InW - 1 /\ c \in 0 .. OutC - 1
      /\ b \in Nat /\ s \in 0 .. InW - 1 /\ d \in 0 .. OutC - 1
      /\ x * OutC + c = y * OutC + d
      /\ e = <<a, r, c>> /\ f = <<b, s, d>>
  BY Constants DEF Outputs, Rows, Cols, OutChannels, OutIndex, Nhwc
<1> HIDE DEF a, b, r, s, c, d
<1>2. x \in Nat /\ y \in Nat
  BY <1>1, Constants, SMT
<1>3. x = y => a = b /\ r = s
  BY <1>1, Constants, RadixInjective
<1> HIDE DEF x, y
<1>4. x = y /\ c = d
  BY <1>1, <1>2, Constants, RadixInjective
<1>5. QED
  BY <1>1, <1>3, <1>4

LEMMA PackedPlaces ==
  ASSUME NEW p \in Triples, NEW q \in Triples
  PROVE  /\ PackedIndex(p[1], p[2], p[3]) \in 0 .. InC * 9 * OutC - 1
         /\ PackedIndex(p[1], p[2], p[3]) = PackedIndex(q[1], q[2], q[3]) => p = q
<1> DEFINE a == p[1]
           b == q[1]
           r == p[2]
           s == q[2]
           c == p[3]
           d == q[3]
           x == a * 9 + r
           y == b * 9 + s
<1>1. /\ a \in 0 .. InC - 1 /\ r \in 0 .. 8 /\ c \in 0 .. OutC - 1
      /\ b \in 0 .. InC - 1 /\ s \in 0 .. 8 /\ d \in 0 .. OutC - 1
      /\ p = <<a, r, c>> /\ q = <<b, s, d>>
  BY Constants DEF Triples, InChannels, Cells, OutChannels
<1>2. PackedIndex(a, r, c) = x * OutC + c /\ PackedIndex(b, s, d) = y * OutC + d
  BY DEF PackedIndex
<1> HIDE DEF a, b, r, s, c, d
<1>3. x \in 0 .. InC * 9 - 1 /\ x \in Nat /\ y \in Nat /\ InC * 9 \in Nat \ {0}
  BY <1>1, Constants
<1>4. x = y => a = b /\ r = s
  BY <1>1
<1> HIDE DEF x, y
<1>5. x * OutC + c \in 0 .. InC * 9 * OutC - 1
  BY <1>1, <1>3, Constants, RadixRange
<1>6. x * OutC + c = y * OutC + d => x = y /\ c = d
  BY <1>1, <1>3, Constants, RadixInjective
<1>7. PackedIndex(a, r, c) \in 0 .. InC * 9 * OutC - 1
  BY <1>2, <1>5
<1>8. PackedIndex(a, r, c) = PackedIndex(b, s, d) => p = q
  BY <1>1, <1>2, <1>4, <1>6
<1>9. QED
  BY <1>7, <1>8 DEF a, b, r, s, c, d

LEMMA ClaimDataInv ==
  ASSUME IInv, DataInv, NEW t \in Threads, Claim(t)
  PROVE  DataInv'
<1>1. PICK p \in todo : todo' = todo \ {p} /\ at' = [at EXCEPT ![t] = p]
  BY DEF Claim, Available
<1>2. at[t] = Idle /\ UNCHANGED <<region, biasF32, packed, out>>
  BY DEF Claim
<1>3. region \in Regions /\ p \in StoresOf(region) /\ at \in [Threads -> StoresOf(region) \cup {Idle}]
  BY <1>1, FirstStore DEF IInv, Placed
<1>4. at'[t] = p /\ p # Idle /\ \A u \in Threads : u # t => at'[u] = at[u]
  BY <1>1, <1>3, StoreIsActive
<1>5. ASSUME NEW o \in OutChannels, region = "bias", BiasPending(o) PROVE BiasPending(o)'
  <2>1. CASE <<0, 0, o>> \in todo
    BY <1>1, <1>4, <2>1 DEF BiasPending
  <2>2. CASE \E u \in Threads : at[u] = <<0, 0, o>>
    <3>1. PICK u \in Threads : at[u] = <<0, 0, o>>
      BY <2>2
    <3>2. <<0, 0, o>> # Idle
      BY DEF Idle
    <3>3. u # t
      BY <1>2, <3>1, <3>2
    <3>4. QED
      BY <1>4, <3>1, <3>3 DEF BiasPending
  <2>3. QED
    BY <1>5, <2>1, <2>2 DEF BiasPending
<1>6. ASSUME NEW q \in Triples, region = "pack", WeightPending(q[1], q[2], q[3])
      PROVE  WeightPending(q[1], q[2], q[3])'
  <2>1. CASE <<q[1], q[2], 0>> \in todo
    <3>1. CASE p = <<q[1], q[2], 0>>
      <4>1. at'[t][1] = q[1] /\ at'[t][2] = q[2] /\ at'[t][3] <= q[3]
        BY <1>4, <3>1, Constants DEF Triples, OutChannels
      <4>2. QED
        BY <1>4, <4>1 DEF WeightPending, Active
    <3>2. CASE p # <<q[1], q[2], 0>>
      BY <1>1, <2>1, <3>2 DEF WeightPending
    <3>3. QED
      BY <3>1, <3>2
  <2>2. CASE \E u \in Threads : Active(u) /\ at[u][1] = q[1] /\ at[u][2] = q[2] /\ at[u][3] <= q[3]
    <3>1. PICK u \in Threads : Active(u) /\ at[u][1] = q[1] /\ at[u][2] = q[2] /\ at[u][3] <= q[3]
      BY <2>2
    <3>2. u # t
      BY <1>2, <3>1 DEF Active
    <3>3. QED
      BY <1>4, <3>1, <3>2 DEF WeightPending, Active
  <2>3. QED
    BY <1>6, <2>1, <2>2 DEF WeightPending
<1>7. BiasInv'
  BY <1>2, <1>5 DEF DataInv, BiasInv, BiasDone
<1>8. WeightInv'
  BY <1>2, <1>6 DEF DataInv, WeightInv, WeightDone
<1>9. OutputInv'
  BY <1>2 DEF DataInv, OutputInv
<1>10. QED
  BY <1>7, <1>8, <1>9 DEF DataInv

LEMMA ConvertBiasDataInv ==
  ASSUME IInv, DataInv, NEW t \in Threads, ConvertBias(t)
  PROVE  DataInv'
<1> DEFINE b == at[t][3]
<1>1. /\ region = "bias" /\ at[t] # Idle /\ biasF32' = [biasF32 EXCEPT ![b] = b]
      /\ at' = [at EXCEPT ![t] = After(@)] /\ UNCHANGED <<region, todo, packed, out>>
  BY DEF ConvertBias
<1>2. at \in [Threads -> StoresOf(region) \cup {Idle}] /\ at[t] = <<0, 0, b>> /\ b \in OutChannels
  BY <1>1 DEF IInv, Placed, StoresOf
<1>3. biasF32' \in [OutChannels -> OutChannels \cup {Unconverted}] /\ biasF32'[b] = b
      /\ \A o \in OutChannels : o # b => biasF32'[o] = biasF32[o]
  BY <1>1, <1>2 DEF IInv, Filled
<1>4. ASSUME NEW o \in OutChannels PROVE BiasDone(o)' \/ (region' = "bias" /\ BiasPending(o)')
  <2>1. CASE o = b
    BY <1>3, <2>1 DEF BiasDone
  <2>2. CASE o # b /\ BiasDone(o)
    BY <1>3, <2>2 DEF BiasDone
  <2>3. CASE o # b /\ BiasPending(o)
    <3>1. \A u \in Threads : at[u] = <<0, 0, o>> => u # t /\ at'[u] = at[u]
      BY <1>1, <1>2, <2>3
    <3>2. BiasPending(o)'
      BY <1>1, <2>3, <3>1 DEF BiasPending
    <3>3. QED
      BY <1>1, <3>2
  <2>4. QED
    BY <2>1, <2>2, <2>3 DEF DataInv, BiasInv
<1>5. BiasInv'
  BY <1>4 DEF BiasInv
<1>6. WeightInv' /\ OutputInv'
  BY <1>1 DEF DataInv, WeightInv, OutputInv
<1>7. QED
  BY <1>5, <1>6 DEF DataInv

LEMMA PackWeightDataInv ==
  ASSUME IInv, DataInv, NEW t \in Threads, PackWeight(t)
  PROVE  DataInv'
<1>0. PICK q \in Triples : q = at[t]
  BY DEF PackWeight, IInv, Placed, StoresOf, Triples
<1> DEFINE place == PackedIndex(q[1], q[2], q[3])
           weight == Krsc(q[3], q[2] \div 3, q[2] - (q[2] \div 3) * 3, q[1])
<1>1. /\ region = "pack" /\ q # Idle /\ packed' = [packed EXCEPT ![place] = weight]
      /\ at' = [at EXCEPT ![t] = After(q)] /\ UNCHANGED <<region, todo, biasF32, out>>
  BY <1>0 DEF PackWeight
<1>2. at \in [Threads -> StoresOf(region) \cup {Idle}] /\ q \in Triples
  BY DEF IInv, Placed
<1>3. DOMAIN packed = 0 .. InC * 9 * OutC - 1
  BY DEF IInv, Filled
<1>4. WeightDone(q[1], q[2], q[3])'
  <2>1. place \in DOMAIN packed
    BY <1>2, <1>3, PackedPlaces
  <2> HIDE DEF place, weight
  <2>2. packed'[place] = weight
    BY <1>1, <2>1
  <2>3. QED
    BY <2>2 DEF WeightDone, place, weight
<1>5. ASSUME NEW p \in Triples, p # q, WeightDone(p[1], p[2], p[3])
      PROVE  WeightDone(p[1], p[2], p[3])'
  <2> DEFINE other == PackedIndex(p[1], p[2], p[3])
  <2>1. other # place /\ other \in DOMAIN packed
    BY <1>2, <1>3, <1>5, PackedPlaces
  <2> HIDE DEF place, weight, other
  <2>2. packed'[other] = packed[other]
    BY <1>1, <2>1
  <2>3. QED
    BY <1>5, <2>2 DEF WeightDone, other
<1>6. ASSUME NEW p \in Triples, p # q, WeightPending(p[1], p[2], p[3])
      PROVE  WeightPending(p[1], p[2], p[3])'
  <2>1. CASE <<p[1], p[2], 0>> \in todo
    BY <1>1, <2>1 DEF WeightPending
  <2>2. CASE \E u \in Threads : Active(u) /\ at[u][1] = p[1] /\ at[u][2] = p[2] /\ at[u][3] <= p[3]
    <3>1. PICK u \in Threads : Active(u) /\ at[u][1] = p[1] /\ at[u][2] = p[2] /\ at[u][3] <= p[3]
      BY <2>2
    <3>2. CASE u # t
      <4>1. at'[u] = at[u]
        BY <1>1, <1>2, <3>2
      <4>2. QED
        BY <3>1, <4>1 DEF WeightPending, Active
    <3>3. CASE u = t
      <4>1. /\ p[3] \in 0 .. OutC - 1 /\ q[3] \in 0 .. OutC - 1 /\ p = <<p[1], p[2], p[3]>>
            /\ q = <<q[1], q[2], q[3]>>
        BY <1>2, Constants DEF Triples, OutChannels
      <4>2. q[3] # p[3]
        BY <1>0, <1>6, <3>1, <3>3, <4>1
      <4>3. q[3] + 1 < OutC /\ q[3] + 1 <= p[3]
        BY <1>0, <3>1, <3>3, <4>1, <4>2, Constants
      <4>4. After(q) = <<q[1], q[2], q[3] + 1>>
        BY <1>1, <4>3 DEF After
      <4>5. at'[t] = <<q[1], q[2], q[3] + 1>>
        BY <1>1, <1>2, <4>4
      <4>6. Active(t)' /\ at'[t][1] = p[1] /\ at'[t][2] = p[2] /\ at'[t][3] <= p[3]
        BY <1>0, <3>1, <3>3, <4>3, <4>5 DEF Active, Idle
      <4>7. QED
        BY <4>6 DEF WeightPending
    <3>4. QED
      BY <3>2, <3>3
  <2>3. QED
    BY <1>6, <2>1, <2>2 DEF WeightPending
<1>7. WeightInv'
  <2> SUFFICES ASSUME NEW p \in Triples
               PROVE  WeightDone(p[1], p[2], p[3])' \/ (region' = "pack" /\ WeightPending(p[1], p[2], p[3])')
    BY DEF WeightInv
  <2>1. CASE p = q
    BY <1>4, <2>1
  <2>2. CASE p # q
    BY <1>1, <1>5, <1>6, <2>2 DEF DataInv, WeightInv
  <2>3. QED
    BY <2>1, <2>2
<1>8. BiasInv' /\ OutputInv'
  BY <1>1 DEF DataInv, BiasInv, BiasDone, OutputInv
<1>9. QED
  BY <1>7, <1>8 DEF DataInv

(* The vectors of the third loop hold the convolution's sums.              *)
LEMMA ChunkRight ==
  ASSUME IInv, DataInv, NEW t \in Threads, StoreChunk(t), NEW e \in Outputs
  PROVE  out'[OutIndex(e)] \in {out[OutIndex(e)], Convolved(e[1], e[2], e[3])}
<1> DEFINE p == OutIndex(e)
<1>1. /\ region = "tiles" /\ at[t] # Idle
      /\ out' = [x \in DOMAIN out |->
                   IF \E f \in Chunk(t) : OutIndex(f) = x
                   THEN LET f == CHOOSE f \in Chunk(t) : OutIndex(f) = x IN Sum(f[1], f[2], f[3])
                   ELSE out[x]]
  BY DEF StoreChunk
<1>2. p \in DOMAIN out
  BY SamePositions DEF DataInv, OutputInv
<1>3. CASE \E f \in Chunk(t) : OutIndex(f) = p
  <2> DEFINE g == CHOOSE f \in Chunk(t) : OutIndex(f) = p
  <2>1. g \in Chunk(t) /\ OutIndex(g) = p
    BY <1>3
  <2>2. out'[p] = Sum(g[1], g[2], g[3])
    BY <1>1, <1>2, <1>3
  <2> HIDE DEF g
  <2>3. Chunk(t) \subseteq Outputs
    <3>1. at[t][1] \in Rows /\ at[t][2] \in Cols /\ at[t][3] \in OutChannels
      BY <1>1 DEF IInv, Placed, StoresOf
    <3>2. at[t][3] .. at[t][3] + ChunkWidth(at[t][3]) - 1 \subseteq OutChannels
      BY <3>1, ChunkFits, Constants DEF OutChannels
    <3>3. QED
      BY <3>1, <3>2 DEF Chunk, Outputs
  <2>4. g = e
    BY <2>1, <2>3, OutIndexInjective
  <2>5. e[1] \in Rows /\ e[2] \in Cols /\ e[3] \in OutChannels
    BY DEF Outputs
  <2>6. BiasDone(e[3])
    BY <1>1, <2>5 DEF DataInv, BiasInv
  <2>7. ASSUME NEW i \in InChannels, NEW f \in Cells PROVE WeightDone(i, f, e[3])
    <3>1. <<i, f, e[3]>> \in Triples
      BY <2>5 DEF Triples
    <3>2. QED
      BY <1>1, <3>1 DEF DataInv, WeightInv
  <2>8. Sum(e[1], e[2], e[3]) = Convolved(e[1], e[2], e[3])
    BY <2>5, <2>6, <2>7, SumRight
  <2>9. QED
    BY <2>2, <2>4, <2>8
<1>4. CASE ~ \E f \in Chunk(t) : OutIndex(f) = p
  BY <1>1, <1>2, <1>4
<1>5. QED
  BY <1>3, <1>4

LEMMA StoreChunkDataInv ==
  ASSUME IInv, DataInv, NEW t \in Threads, StoreChunk(t)
  PROVE  DataInv'
<1>1. region = "tiles" /\ UNCHANGED <<region, biasF32, packed>> /\ DOMAIN out' = DOMAIN out
  BY DEF StoreChunk
<1>2. BiasInv' /\ WeightInv'
  BY <1>1 DEF DataInv, BiasInv, BiasDone, WeightInv, WeightDone
<1>3. OutputInv'
  <2>1. DOMAIN out' = Conv!Positions
    BY <1>1 DEF DataInv, OutputInv
  <2>2. ASSUME NEW e \in Outputs
        PROVE  out'[OutIndex(e)] \in {<<>>, Convolved(e[1], e[2], e[3])}
    BY ChunkRight DEF DataInv, OutputInv
  <2>3. QED
    BY <2>1, <2>2 DEF OutputInv
<1>4. QED
  BY <1>2, <1>3 DEF DataInv

(* Behind a barrier everything that the loop was to store is stored.       *)
LEMMA EndRegionDataInv == IInv /\ DataInv /\ EndRegion => DataInv'
<1> SUFFICES ASSUME IInv, DataInv, EndRegion PROVE DataInv'
  OBVIOUS
<1>1. /\ region # "done" /\ todo = {} /\ (\A t \in Threads : at[t] = Idle)
      /\ region' = NextRegion[region] /\ todo' = Iterations(region')
      /\ UNCHANGED <<biasF32, packed, out>> /\ region \in Regions
  BY DEF EndRegion, IInv, Placed
<1>2. ASSUME NEW o \in OutChannels PROVE ~BiasPending(o)
  BY <1>1 DEF BiasPending, Idle
<1>3. ASSUME NEW p \in Triples PROVE ~WeightPending(p[1], p[2], p[3])
  BY <1>1 DEF WeightPending, Active
<1>4. BiasInv'
  BY <1>1, <1>2 DEF DataInv, BiasInv, BiasDone
<1>5. WeightInv'
  <2>1. CASE region = "bias"
    <3>1. region' = "pack"
      BY <1>1, <2>1 DEF NextRegion
    <3>2. ASSUME NEW p \in Triples PROVE <<p[1], p[2], 0>> \in todo'
      BY <1>1, <3>1 DEF Triples, Iterations
    <3>3. QED
      BY <3>1, <3>2 DEF WeightInv, WeightPending
  <2>2. CASE region # "bias"
    BY <1>1, <1>3, <2>2 DEF DataInv, WeightInv, WeightDone
  <2>3. QED
    BY <2>1, <2>2
<1>6. OutputInv'
  BY <1>1 DEF DataInv, OutputInv
<1>7. QED
  BY <1>4, <1>5, <1>6 DEF DataInv

LEMMA StepDataInv == IInv /\ DataInv /\ [Next]_vars => DataInv'
<1>1. DataInv /\ UNCHANGED vars => DataInv'
  BY DEF DataInv, BiasInv, BiasDone, BiasPending, WeightInv, WeightDone, WeightPending, Active,
         OutputInv, vars
<1>2. QED
  BY <1>1, ClaimDataInv, ConvertBiasDataInv, PackWeightDataInv, StoreChunkDataInv, EndRegionDataInv
     DEF Next, ThreadStep, Returned

(* A store is a step of the convolution that the callers rely on; nothing  *)
(* else touches the output.                                                *)
LEMMA ChunkStores ==
  ASSUME IInv, DataInv, NEW t \in Threads, StoreChunk(t)
  PROVE  Conv!StoreSome \/ out' = out
<1>1. DOMAIN out' = Conv!Positions
  BY DEF StoreChunk, DataInv, OutputInv
<1>2. ASSUME NEW e \in Outputs
      PROVE  \/ out'[OutIndex(e)] = out[OutIndex(e)]
             \/ out[OutIndex(e)] = <<>> /\ out'[OutIndex(e)] = Convolved(e[1], e[2], e[3])
  BY ChunkRight DEF DataInv, OutputInv
<1>3. Conv!Outputs = Outputs
  BY DEF Conv!Outputs, Outputs, Conv!Rows, Rows, Conv!Cols, Cols, Conv!OutChannels, OutChannels
<1>4. ASSUME NEW e \in Outputs
      PROVE  /\ Conv!OutIndex(e) = OutIndex(e)
             /\ Conv!Convolved(e[1], e[2], e[3]) = Convolved(e[1], e[2], e[3])
  <2>1. Conv!OutIndex(e) = OutIndex(e)
    BY DEF Conv!OutIndex, OutIndex, Conv!Nhwc, Nhwc
  <2>2. Conv!Taps(e[1], e[2], e[3]) = Taps(e[1], e[2], e[3])
    BY Zenon DEF Conv!Taps, Taps, Conv!Nhwc, Nhwc, Conv!Krsc, Krsc, Conv!InChannels, InChannels,
                 Conv!Rows, Rows, Conv!Cols, Cols
  <2>3. Conv!Convolved(e[1], e[2], e[3]) = Convolved(e[1], e[2], e[3])
    <3>1. \A S : Conv!Cardinality(S) = Cardinality(S)
      BY Zenon DEF Conv!Cardinality, Cardinality
    <3>2. QED
      BY <2>2, <3>1 DEF Conv!Convolved, Convolved
  <2>4. QED
    BY <2>1, <2>3
<1>5. QED
  BY <1>1, <1>2, <1>3, <1>4 DEF Conv!StoreSome

(* conv_relu_nhwc_oihw implements the convolution its caller relies on,    *)
(* for any size, tiling, vector width, team and schedule: each output      *)
(* element is stored once, as the sum of its bias and all of its products, *)
(* each taken once, with the weights and biases already converted.         *)
THEOREM ImplementsConvSpec == Spec => ComputesConvolution
<1>1. Init => Conv!Init
  BY SamePositions DEF Init, Conv!Init
<1>2. IInv /\ DataInv /\ [Next]_vars => [Conv!StoreSome]_out
  <2> SUFFICES ASSUME IInv, DataInv, [Next]_vars PROVE Conv!StoreSome \/ out' = out
    OBVIOUS
  <2>1. ASSUME NEW t \in Threads, ThreadStep(t) PROVE Conv!StoreSome \/ out' = out
    BY <2>1, ChunkStores DEF ThreadStep, Claim, ConvertBias, PackWeight
  <2>2. CASE EndRegion \/ Returned \/ UNCHANGED vars
    BY <2>2 DEF EndRegion, Returned, vars
  <2>3. QED
    BY <2>1, <2>2 DEF Next
<1>3. QED
  BY <1>1, <1>2, IInvHolds, InitDataInv, StepDataInv, PTL
     DEF Spec, ComputesConvolution, Conv!Spec

-----------------------------------------------------------------------------
(* No element is forgotten.  An element of the output is stored, or its    *)
(* tile is still to be handed out, or in the hands of a thread that has    *)
(* not passed it yet.                                                      *)

NotPast(p, e) == p = e \/ Earlier(p, e)

OutputPending(e) ==
  \/ IterationOf("tiles", e) \in todo
  \/ \E t \in Threads : /\ Active(t) /\ NotPast(at[t], e)
                        /\ IterationAt(t) = IterationOf("tiles", e)

NoneForgotten ==
  \A e \in Outputs :
    \/ out[OutIndex(e)] # <<>>
    \/ region \in {"bias", "pack"}
    \/ region = "tiles" /\ OutputPending(e)

(* A tile begins at a multiple of its size, and ends before the next.      *)
LEMMA TileHolds ==
  ASSUME NEW size \in Nat \ {0}, NEW x \in Nat
  PROVE  TileStart(x, size) % size = 0 /\ x < TileStart(x, size) + size
<1> DEFINE q == x \div size
           r == x % size
<1>1. q \in Nat /\ r \in 0 .. size - 1 /\ x = q * size + r
  BY DivMod
<1>2. TileStart(x, size) = q * size
  BY DEF TileStart
<1> HIDE DEF q, r
<1>3. q * size \in Nat
  BY <1>1, SMT
<1>4. (q * size + 0) % size = 0 /\ q * size + 0 = q * size
  BY <1>1, <1>3, RadixDivMod
<1>5. QED
  BY <1>1, <1>2, <1>3, <1>4

LEMMA TileOfElement ==
  ASSUME NEW e \in Outputs
  PROVE  /\ IterationOf("tiles", e) \in Iterations("tiles")
         /\ NotPast(IterationOf("tiles", e), e)
<1>1. PICK h \in Rows, w \in Cols, o \in OutChannels : e = <<h, w, o>>
  BY DEF Outputs
<1>2. h \in 0 .. InH - 1 /\ w \in 0 .. InW - 1 /\ o \in Nat /\ h \in Nat /\ w \in Nat
  BY Constants DEF Rows, Cols, OutChannels
<1> DEFINE a == TileStart(h, TileH)
           b == TileStart(w, TileW)
<1>3. a \in 0 .. h /\ b \in 0 .. w /\ a % TileH = 0 /\ b % TileW = 0
  BY <1>2, Constants, TileStartOf, TileHolds
<1>4. IterationOf("tiles", e) = <<a, b, 0>>
  BY <1>1 DEF IterationOf
<1> HIDE DEF a, b
<1>5. a \in Rows /\ b \in Cols
  BY <1>2, <1>3, Constants DEF Rows, Cols
<1>6. <<a, b, 0>> \in Iterations("tiles")
  BY <1>3, <1>5 DEF Iterations
<1>7. NotPast(<<a, b, 0>>, e)
  BY <1>1, <1>2, <1>3 DEF NotPast, Earlier
<1>8. QED
  BY <1>4, <1>6, <1>7

(* The chunk that begins at a store.                                       *)
InChunk(p, e) ==
  e[1] = p[1] /\ e[2] = p[2] /\ e[3] \in p[3] .. p[3] + ChunkWidth(p[3]) - 1

(* What a thread has not passed it either stores now or does not pass.     *)
LEMMA StaysAhead ==
  ASSUME region = "tiles", NEW p \in StoresOf("tiles"), NEW e \in Outputs,
         IterationOf("tiles", p) = IterationOf("tiles", e), NotPast(p, e), ~InChunk(p, e)
  PROVE  After(p) # Idle /\ NotPast(After(p), e)
<1>1. PICK h \in Rows, w \in Cols, o \in OutChannels : p = <<h, w, o>>
  BY DEF StoresOf
<1>2. PICK h2 \in Rows, w2 \in Cols, o2 \in OutChannels : e = <<h2, w2, o2>>
  BY DEF Outputs
<1>3. /\ h \in Nat /\ w \in Nat /\ o \in Nat /\ h2 \in Nat /\ w2 \in Nat /\ o2 \in Nat
      /\ h2 < InH /\ w2 < InW /\ o2 < OutC
  BY Constants DEF Rows, Cols, OutChannels
<1> DEFINE c == ChunkWidth(o)
           a == TileStart(h, TileH)
           b == TileStart(w, TileW)
<1>4. c \in Nat \ {0}
  BY ChunkFits
<1>5. TileStart(h2, TileH) = a /\ TileStart(w2, TileW) = b
  BY <1>1, <1>2 DEF IterationOf
<1>6. a \in Nat /\ b \in 0 .. w2 /\ h2 < a + TileH /\ w2 < b + TileW
  BY <1>3, <1>5, Constants, TileStartOf, TileHolds
<1>7. /\ TileEnd(h, TileH, InH) = Lesser(a + TileH, InH)
      /\ TileEnd(w, TileW, InW) = Lesser(b + TileW, InW)
  BY DEF TileEnd
<1> HIDE DEF a, b, c
<1>8. h2 < TileEnd(h, TileH, InH) /\ w2 < TileEnd(w, TileW, InW)
  BY <1>3, <1>6, <1>7, Constants DEF Lesser
<1>9. /\ TileEnd(h, TileH, InH) \in Nat /\ TileEnd(w, TileW, InW) \in Nat
  BY <1>6, <1>7, Constants DEF Lesser
<1>10. After(p) = IF o + c < OutC THEN <<h, w, o + c>>
                  ELSE IF w + 1 < TileEnd(w, TileW, InW) THEN <<h, w + 1, 0>>
                  ELSE IF h + 1 < TileEnd(h, TileH, InH) THEN <<h + 1, b, 0>>
                  ELSE Idle
  BY <1>1 DEF After, c, b
<1>11. \/ h < h2
       \/ h = h2 /\ w < w2
       \/ h = h2 /\ w = w2 /\ o <= o2
  BY <1>1, <1>2, <1>3 DEF NotPast, Earlier
<1>12. h = h2 /\ w = w2 /\ o <= o2 => o + c <= o2
  <2>1. ~(o2 \in o .. o + c - 1) \/ ~(h = h2 /\ w = w2)
    BY <1>1, <1>2 DEF InChunk, c
  <2>2. QED
    BY <1>3, <1>4, <2>1
<1>13. CASE o + c < OutC
  <2>1. After(p) = <<h, w, o + c>>
    BY <1>10, <1>13
  <2>2. <<h, w, o + c>> # Idle
    BY DEF Idle
  <2>3. NotPast(<<h, w, o + c>>, <<h2, w2, o2>>)
    BY <1>3, <1>4, <1>11, <1>12 DEF NotPast, Earlier
  <2>4. QED
    BY <1>2, <2>1, <2>2, <2>3
<1>14. CASE ~(o + c < OutC) /\ w + 1 < TileEnd(w, TileW, InW)
  <2>1. After(p) = <<h, w + 1, 0>>
    BY <1>10, <1>14
  <2>2. <<h, w + 1, 0>> # Idle
    BY DEF Idle
  <2>3. ~(h = h2 /\ w = w2)
    BY <1>3, <1>4, <1>11, <1>12, <1>14, Constants
  <2>4. NotPast(<<h, w + 1, 0>>, <<h2, w2, o2>>)
    BY <1>3, <1>11, <2>3 DEF NotPast, Earlier
  <2>5. QED
    BY <1>2, <2>1, <2>2, <2>4
<1>15. CASE ~(o + c < OutC) /\ ~(w + 1 < TileEnd(w, TileW, InW))
  <2>1. h < h2
    BY <1>3, <1>4, <1>8, <1>9, <1>11, <1>12, <1>15, Constants
  <2>2. h + 1 < TileEnd(h, TileH, InH)
    BY <1>3, <1>8, <1>9, <2>1
  <2>3. After(p) = <<h + 1, b, 0>>
    BY <1>10, <1>15, <2>2
  <2>4. <<h + 1, b, 0>> # Idle
    BY DEF Idle
  <2>5. NotPast(<<h + 1, b, 0>>, <<h2, w2, o2>>)
    BY <1>3, <1>6, <2>1 DEF NotPast, Earlier
  <2>6. QED
    BY <1>2, <2>3, <2>4, <2>5
<1>16. QED
  BY <1>13, <1>14, <1>15

LEMMA ClaimForgotten ==
  ASSUME IInv, NoneForgotten, NEW t \in Threads, Claim(t)
  PROVE  NoneForgotten'
<1>1. PICK p \in todo : todo' = todo \ {p} /\ at' = [at EXCEPT ![t] = p]
  BY DEF Claim, Available
<1>2. /\ region \in Regions /\ todo \subseteq Iterations(region)
      /\ at \in [Threads -> StoresOf(region) \cup {Idle}]
      /\ UNCHANGED <<region, out>> /\ ~Active(t)
  BY DEF IInv, Placed, Claim, Active
<1>3. p \in StoresOf(region) /\ IterationOf(region, p) = p
  BY <1>2, FirstStore
<1>4. at'[t] = p /\ \A u \in Threads : u # t => at'[u] = at[u]
  BY <1>1, <1>2
<1>5. ASSUME NEW e \in Outputs, region = "tiles", OutputPending(e) PROVE OutputPending(e)'
  <2>1. CASE IterationOf("tiles", e) = p
    <3>1. NotPast(p, e)
      BY <2>1, TileOfElement
    <3>2. p # Idle
      BY <1>2, <1>3, StoreIsActive
    <3>3. Active(t)' /\ NotPast(at[t], e)' /\ IterationAt(t)' = IterationOf("tiles", e)
      BY <1>2, <1>3, <1>4, <1>5, <2>1, <3>1, <3>2 DEF Active, IterationAt, NotPast, Earlier
    <3>4. IterationOf("tiles", e)' = IterationOf("tiles", e)
      BY DEF IterationOf
    <3>5. QED
      BY <3>3, <3>4 DEF OutputPending
  <2>2. CASE IterationOf("tiles", e) # p /\ IterationOf("tiles", e) \in todo
    BY <1>1, <2>2 DEF OutputPending, IterationOf
  <2>3. CASE \E u \in Threads : /\ Active(u) /\ NotPast(at[u], e)
                                /\ IterationAt(u) = IterationOf("tiles", e)
    <3>1. PICK u \in Threads : /\ Active(u) /\ NotPast(at[u], e)
                               /\ IterationAt(u) = IterationOf("tiles", e)
      BY <2>3
    <3>2. at'[u] = at[u]
      BY <1>2, <1>4, <3>1
    <3>3. Active(u)' /\ NotPast(at[u], e)' /\ IterationAt(u)' = IterationOf("tiles", e)'
      BY <1>2, <3>1, <3>2 DEF Active, IterationAt, NotPast, Earlier, IterationOf
    <3>4. QED
      BY <3>3 DEF OutputPending
  <2>4. QED
    BY <1>5, <2>1, <2>2, <2>3 DEF OutputPending
<1>6. QED
  BY <1>2, <1>5 DEF NoneForgotten

LEMMA StoreChunkForgotten ==
  ASSUME IInv, DataInv, NoneForgotten, NEW t \in Threads, StoreChunk(t)
  PROVE  NoneForgotten'
<1>1. /\ region = "tiles" /\ UNCHANGED <<region, todo>> /\ Active(t)
      /\ at' = [at EXCEPT ![t] = After(at[t])]
  BY DEF StoreChunk, Active
<1>2. at \in [Threads -> StoresOf("tiles") \cup {Idle}]
  BY <1>1 DEF IInv, Placed
<1>3. /\ at[t] \in StoresOf("tiles") /\ at'[t] = After(at[t])
      /\ \A u \in Threads : u # t => at'[u] = at[u]
  BY <1>1, <1>2 DEF Active
<1>4. DOMAIN out = {OutIndex(e) : e \in Outputs}
  BY SamePositions DEF DataInv, OutputInv
<1>5. \A h, w, o : Sum(h, w, o) # <<>>
  <2> TAKE h, w, o
  <2>1. "bias" \in DOMAIN Sum(h, w, o) /\ "bias" \notin DOMAIN <<>>
    BY DEF Sum
  <2>2. QED
    BY <2>1
<1>6. \A p \in DOMAIN out : /\ out'[p] = out[p] \/ out'[p] # <<>>
                            /\ (\E e \in Chunk(t) : OutIndex(e) = p) => out'[p] # <<>>
  <2> TAKE p \in DOMAIN out
  <2>1. out'[p] = IF \E e \in Chunk(t) : OutIndex(e) = p
                  THEN LET e == CHOOSE e \in Chunk(t) : OutIndex(e) = p
                       IN Sum(e[1], e[2], e[3])
                  ELSE out[p]
    BY DEF StoreChunk
  <2>2. QED
    BY <1>5, <2>1
<1>7. ASSUME NEW e \in Outputs, InChunk(at[t], e) PROVE out'[OutIndex(e)] # <<>>
  <2>1. e = <<at[t][1], at[t][2], e[3]>>
    BY <1>7 DEF InChunk, Outputs
  <2>2. e \in Chunk(t)
    BY <1>7, <2>1 DEF Chunk, InChunk
  <2>3. QED
    BY <1>4, <1>6, <2>2
<1>8. ASSUME NEW e \in Outputs, OutputPending(e), ~InChunk(at[t], e) PROVE OutputPending(e)'
  <2>1. CASE IterationOf("tiles", e) \in todo
    BY <1>1, <2>1 DEF OutputPending, IterationOf
  <2>2. ASSUME NEW u \in Threads, Active(u), NotPast(at[u], e),
               IterationAt(u) = IterationOf("tiles", e)
        PROVE  OutputPending(e)'
    <3>1. CASE u = t
      <4>1. IterationOf("tiles", at[t]) = IterationOf("tiles", e)
        BY <1>1, <2>2, <3>1 DEF IterationAt
      <4>2. After(at[t]) # Idle /\ NotPast(After(at[t]), e)
        BY <1>1, <1>3, <1>8, <2>2, <3>1, <4>1, StaysAhead
      <4>3. IterationOf("tiles", After(at[t])) = IterationOf("tiles", e)
        BY <1>1, <1>3, <4>1, <4>2, AfterStays DEF Regions
      <4> DEFINE q == After(at[t])
      <4> HIDE DEF q
      <4>4. at'[t] = q /\ q # Idle /\ NotPast(q, e)
            /\ IterationOf("tiles", q) = IterationOf("tiles", e)
        BY <1>3, <4>2, <4>3 DEF q
      <4>5. Active(t)' /\ NotPast(at[t], e)' /\ IterationAt(t)' = IterationOf("tiles", e)'
        BY <1>1, <4>4 DEF Active, IterationAt, NotPast, Earlier, IterationOf
      <4>6. QED
        BY <4>5 DEF OutputPending
    <3>2. CASE u # t
      <4>1. at'[u] = at[u]
        BY <1>3, <3>2
      <4>2. Active(u)' /\ NotPast(at[u], e)' /\ IterationAt(u)' = IterationOf("tiles", e)'
        BY <1>1, <2>2, <4>1 DEF Active, IterationAt, NotPast, Earlier, IterationOf
      <4>3. QED
        BY <4>2 DEF OutputPending
    <3>3. QED
      BY <3>1, <3>2
  <2>3. QED
    BY <1>8, <2>1, <2>2 DEF OutputPending
<1>9. ASSUME NEW e \in Outputs PROVE out'[OutIndex(e)] # <<>> \/ OutputPending(e)'
  <2>1. CASE InChunk(at[t], e)
    BY <1>7, <2>1
  <2>2. CASE ~InChunk(at[t], e) /\ OutputPending(e)
    BY <1>8, <2>2
  <2>3. CASE ~OutputPending(e)
    <3>1. out[OutIndex(e)] # <<>> /\ OutIndex(e) \in DOMAIN out
      BY <1>1, <1>4, <2>3 DEF NoneForgotten
    <3>2. QED
      BY <1>6, <3>1
  <2>4. QED
    BY <2>1, <2>2, <2>3
<1>10. QED
  BY <1>1, <1>9 DEF NoneForgotten

LEMMA EndRegionForgotten == IInv /\ NoneForgotten /\ EndRegion => NoneForgotten'
<1> SUFFICES ASSUME IInv, NoneForgotten, EndRegion PROVE NoneForgotten'
  OBVIOUS
<1>1. /\ region # "done" /\ todo = {} /\ (\A t \in Threads : at[t] = Idle)
      /\ region' = NextRegion[region] /\ todo' = Iterations(region')
      /\ out' = out /\ region \in Regions
  BY DEF EndRegion, IInv, Placed
<1>2. CASE region = "bias"
  <2>1. region' = "pack"
    BY <1>1, <1>2 DEF NextRegion
  <2>2. QED
    BY <2>1 DEF NoneForgotten
<1>3. CASE region = "pack"
  <2>1. region' = "tiles"
    BY <1>1, <1>3 DEF NextRegion
  <2>2. \A e \in Outputs : IterationOf("tiles", e) \in todo'
    BY <1>1, <2>1, TileOfElement
  <2>3. \A e \in Outputs : OutputPending(e)'
    BY <2>2 DEF OutputPending, IterationOf
  <2>4. QED
    BY <2>1, <2>3 DEF NoneForgotten
<1>4. CASE region = "tiles"
  <2>1. \A e \in Outputs : ~OutputPending(e)
    BY <1>1 DEF OutputPending, Active
  <2>2. QED
    BY <1>1, <1>4, <2>1 DEF NoneForgotten
<1>5. QED
  BY <1>1, <1>2, <1>3, <1>4 DEF Regions

LEMMA StepForgotten == IInv /\ DataInv /\ NoneForgotten /\ [Next]_vars => NoneForgotten'
<1>1. NoneForgotten /\ UNCHANGED vars => NoneForgotten'
  BY DEF NoneForgotten, OutputPending, Active, IterationAt, NotPast, vars
<1>2. ASSUME NoneForgotten, NEW t \in Threads, ConvertBias(t) \/ PackWeight(t)
      PROVE  NoneForgotten'
  BY <1>2 DEF ConvertBias, PackWeight, NoneForgotten
<1>3. QED
  BY <1>1, <1>2, ClaimForgotten, StoreChunkForgotten, EndRegionForgotten
     DEF Next, ThreadStep, Returned

(* When conv_relu_nhwc_oihw returns, every element of the output is        *)
(* stored, whichever thread was given which tile: neither the tiles that   *)
(* the edges clip nor the channels behind the last vector are left out.    *)
THEOREM CallLeavesNone == Spec => [](region = "done" => Conv!Complete)
<1>1. Init => NoneForgotten
  BY DEF Init, NoneForgotten
<1>2. NoneForgotten => (region = "done" => Conv!Complete)
  BY SamePositions DEF NoneForgotten, Conv!Complete
<1>3. QED
  BY <1>1, <1>2, IInvHolds, InitDataInv, StepDataInv, StepForgotten, PTL DEF Spec

-----------------------------------------------------------------------------
(* No call goes on for ever.                                               *)

RegionsLeft ==
  CASE region = "bias" -> 3
    [] region = "pack" -> 2
    [] region = "tiles" -> 1
    [] region = "done" -> 0

(* The stores of a loop from p on, in the order in which a single thread   *)
(* would do them.                                                          *)
Ahead(r, p) == {q \in StoresOf(r) : NotPast(p, q)}
StoresLeft(t) == IF Active(t) THEN Cardinality(Ahead(region, at[t])) ELSE 0

LEMMA TripleFinite ==
  ASSUME NEW X, NEW Y, NEW Z, IsFiniteSet(X), IsFiniteSet(Y), IsFiniteSet(Z)
  PROVE  IsFiniteSet(X \X Y \X Z)
<1>1. IsFiniteSet((X \X Y) \X Z)
  BY FS_Product
<1> DEFINE f == [p \in (X \X Y) \X Z |-> <<p[1][1], p[1][2], p[2]>>]
<1>2. f \in [(X \X Y) \X Z -> X \X Y \X Z]
  OBVIOUS
<1>3. \A g \in X \X Y \X Z : \E p \in (X \X Y) \X Z : f[p] = g
  <2> TAKE g \in X \X Y \X Z
  <2>1. <<<<g[1], g[2]>>, g[3]>> \in (X \X Y) \X Z
    OBVIOUS
  <2>2. f[<<<<g[1], g[2]>>, g[3]>>] = g
    BY <2>1
  <2>3. QED
    BY <2>1, <2>2
<1> HIDE DEF f
<1>4. f \in Surjection((X \X Y) \X Z, X \X Y \X Z)
  BY <1>2, <1>3 DEF Surjection
<1>5. QED
  BY <1>1, <1>4, FS_Surjection

LEMMA StoresFinite ==
  ASSUME NEW r \in Regions
  PROVE  IsFiniteSet(StoresOf(r))
<1>1. \A n \in Nat : IsFiniteSet(0 .. n - 1)
  <2> TAKE n \in Nat
  <2>1. 0 \in Int /\ n - 1 \in Int
    OBVIOUS
  <2>2. QED
    BY <2>1, FS_Interval
<1>2. /\ IsFiniteSet(Rows) /\ IsFiniteSet(Cols)
      /\ IsFiniteSet(InChannels) /\ IsFiniteSet(OutChannels)
  BY <1>1, Constants DEF Rows, Cols, InChannels, OutChannels
<1>3. IsFiniteSet(Cells) /\ IsFiniteSet({0}) /\ IsFiniteSet({})
  <2>1. 9 \in Nat /\ 0 .. 9 - 1 = Cells
    BY DEF Cells
  <2>2. QED
    BY <1>1, <2>1, FS_Singleton, FS_EmptySet
<1>4. /\ IsFiniteSet({0} \X {0} \X OutChannels)
      /\ IsFiniteSet(InChannels \X Cells \X OutChannels)
      /\ IsFiniteSet(Rows \X Cols \X OutChannels)
  BY <1>2, <1>3, TripleFinite
<1>5. CASE r = "bias"
  BY <1>4, <1>5 DEF StoresOf
<1>6. CASE r = "pack"
  BY <1>4, <1>6 DEF StoresOf
<1>7. CASE r = "tiles"
  BY <1>4, <1>7 DEF StoresOf
<1>8. CASE r = "done"
  BY <1>3, <1>8 DEF StoresOf
<1>9. QED
  BY <1>5, <1>6, <1>7, <1>8 DEF Regions

LEMMA AheadFinite ==
  ASSUME NEW r \in Regions, NEW p
  PROVE  IsFiniteSet(Ahead(r, p)) /\ Cardinality(Ahead(r, p)) \in Nat
<1>1. Ahead(r, p) \subseteq StoresOf(r)
  BY DEF Ahead
<1>2. QED
  BY <1>1, StoresFinite, FS_Subset, FS_CardinalityType

(* Within an iteration the stores go forward.                              *)
LEMMA AfterIsLater ==
  ASSUME region \in Regions, NEW p \in StoresOf(region), After(p) # Idle
  PROVE  Earlier(p, After(p))
<1>1. CASE region = "bias"
  BY <1>1 DEF After
<1>2. CASE region = "pack"
  <2>1. After(p) = <<p[1], p[2], p[3] + 1>>
    BY <1>2 DEF After
  <2>2. p[3] \in Nat
    BY <1>2, Constants DEF StoresOf, OutChannels
  <2>3. QED
    BY <2>1, <2>2 DEF Earlier
<1>3. CASE region = "tiles"
  <2> DEFINE c == ChunkWidth(p[3])
             b == TileStart(p[2], TileW)
  <2>1. p[1] \in Nat /\ p[2] \in Nat /\ p[3] \in Nat /\ c \in Nat \ {0}
    BY <1>3, Constants, ChunkFits DEF StoresOf, Rows, Cols, OutChannels
  <2>2. \/ After(p) = <<p[1], p[2], p[3] + c>>
        \/ After(p) = <<p[1], p[2] + 1, 0>>
        \/ After(p) = <<p[1] + 1, b, 0>>
    BY <1>3 DEF After
  <2> HIDE DEF b, c
  <2>3. QED
    BY <2>1, <2>2 DEF Earlier
<1>4. CASE region = "done"
  BY <1>4 DEF StoresOf
<1>5. QED
  BY <1>1, <1>2, <1>3, <1>4 DEF Regions

LEMMA StoreNumbers ==
  ASSUME NEW r \in Regions, NEW p \in StoresOf(r)
  PROVE  p[1] \in Nat /\ p[2] \in Nat /\ p[3] \in Nat
<1>1. /\ InChannels \subseteq Nat /\ OutChannels \subseteq Nat /\ Cells \subseteq Nat
      /\ Rows \subseteq Nat /\ Cols \subseteq Nat
  BY Constants DEF InChannels, OutChannels, Cells, Rows, Cols
<1>2. QED
  BY <1>1 DEF Regions, StoresOf

(* What is ahead of a later store is ahead of p, and p itself is not.      *)
LEMMA FewerAhead ==
  ASSUME NEW r \in Regions, NEW p \in StoresOf(r), NEW q \in StoresOf(r), Earlier(p, q)
  PROVE  Cardinality(Ahead(r, q)) < Cardinality(Ahead(r, p))
<1>1. /\ p[1] \in Nat /\ p[2] \in Nat /\ p[3] \in Nat
      /\ q[1] \in Nat /\ q[2] \in Nat /\ q[3] \in Nat
  BY StoreNumbers
<1>2. p \in Ahead(r, p)
  BY DEF Ahead, NotPast
<1>3. p \notin Ahead(r, q)
  BY <1>1 DEF Ahead, NotPast, Earlier
<1>4. ASSUME NEW e \in Ahead(r, q) PROVE e \in Ahead(r, p)
  <2>1. e \in StoresOf(r) /\ NotPast(q, e)
    BY <1>4 DEF Ahead
  <2>2. e[1] \in Nat /\ e[2] \in Nat /\ e[3] \in Nat
    BY <2>1, StoreNumbers
  <2>3. Earlier(p, e)
    BY <1>1, <2>1, <2>2 DEF NotPast, Earlier
  <2>4. QED
    BY <2>1, <2>3 DEF Ahead, NotPast
<1> DEFINE S == Ahead(r, p)
           T == Ahead(r, q)
<1>5. T \subseteq S /\ S # T /\ IsFiniteSet(S)
  BY <1>2, <1>3, <1>4, AheadFinite
<1>6. Cardinality(S) \in Nat /\ Cardinality(T) \in Nat
  BY AheadFinite
<1> HIDE DEF S, T
<1>7. Cardinality(T) <= Cardinality(S) /\ Cardinality(T) # Cardinality(S)
  BY <1>5, FS_Subset
<1>8. Cardinality(T) < Cardinality(S)
  BY <1>6, <1>7
<1>9. QED
  BY <1>8 DEF S, T

LEMMA WorkIsFinite ==
  ASSUME IInv
  PROVE  /\ RegionsLeft \in Nat
         /\ Cardinality(todo) \in Nat
         /\ \A t \in Threads : StoresLeft(t) \in Nat
<1>1. region \in Regions /\ todo \subseteq Iterations(region)
  BY DEF IInv, Placed
<1>2. RegionsLeft \in Nat
  BY <1>1 DEF Regions, RegionsLeft
<1>3. todo \subseteq StoresOf(region)
  BY <1>1, FirstStore
<1>4. IsFiniteSet(todo)
  BY <1>1, <1>3, StoresFinite, FS_Subset
<1>5. \A t \in Threads : StoresLeft(t) \in Nat
  BY <1>1, AheadFinite DEF StoresLeft
<1>6. QED
  BY <1>2, <1>4, <1>5, FS_CardinalityType

(* What goes on is a loop that ends, an iteration that is taken, or a      *)
(* thread that has fewer stores before it than it had, at the expense of   *)
(* no other.                                                               *)
StoresFall(t) ==
  /\ StoresLeft(t)' < StoresLeft(t)
  /\ \A u \in Threads : u # t => StoresLeft(u)' = StoresLeft(u)

WorkFalls ==
  \/ RegionsLeft' < RegionsLeft
  \/ region' = region /\ Cardinality(todo') < Cardinality(todo)
  \/ region' = region /\ todo' = todo /\ \E t \in Threads : StoresFall(t)

LEMMA ThreadWorkFalls ==
  ASSUME IInv, NEW t \in Threads, ConvertBias(t) \/ PackWeight(t) \/ StoreChunk(t)
  PROVE  WorkFalls
<1>1. /\ region' = region /\ todo' = todo /\ Active(t)
      /\ at' = [at EXCEPT ![t] = After(at[t])]
  BY DEF ConvertBias, PackWeight, StoreChunk, Active
<1>2. region \in Regions /\ at \in [Threads -> StoresOf(region) \cup {Idle}]
  BY DEF IInv, Placed
<1>3. /\ at[t] \in StoresOf(region) /\ at'[t] = After(at[t])
      /\ \A u \in Threads : u # t => at'[u] = at[u]
  BY <1>1, <1>2 DEF Active
<1>4. \A u \in Threads : u # t => StoresLeft(u)' = StoresLeft(u)
  BY <1>1, <1>3 DEF StoresLeft, Active
<1> DEFINE p == at[t]
           q == After(at[t])
<1>5. StoresLeft(t) = Cardinality(Ahead(region, p))
  BY <1>1 DEF StoresLeft
<1>6. StoresLeft(t)' = IF q # Idle THEN Cardinality(Ahead(region, q)) ELSE 0
  BY <1>1, <1>3 DEF StoresLeft, Active
<1>7. StoresLeft(t)' < StoresLeft(t)
  <2>1. CASE q # Idle
    <3>1. q \in StoresOf(region) /\ Earlier(p, q)
      BY <1>2, <1>3, <2>1, AfterStays, AfterIsLater
    <3> HIDE DEF p, q
    <3>2. Cardinality(Ahead(region, q)) < Cardinality(Ahead(region, p))
      BY <1>2, <1>3, <3>1, FewerAhead DEF p
    <3>3. QED
      BY <1>5, <1>6, <2>1, <3>2
  <2>2. CASE q = Idle
    <3>1. p \in Ahead(region, p)
      BY <1>3 DEF Ahead, NotPast
    <3> HIDE DEF p, q
    <3>2. Cardinality(Ahead(region, p)) # 0
      BY <1>2, <3>1, AheadFinite, FS_EmptySet
    <3>3. Cardinality(Ahead(region, p)) \in Nat
      BY <1>2, AheadFinite
    <3>4. QED
      BY <1>5, <1>6, <2>2, <3>2, <3>3
  <2>3. QED
    BY <2>1, <2>2
<1>8. QED
  BY <1>1, <1>4, <1>7 DEF WorkFalls, StoresFall

LEMMA StepWorkFalls == IInv /\ [Next]_vars => [WorkFalls]_vars
<1> SUFFICES ASSUME IInv, Next, vars' # vars PROVE WorkFalls
  OBVIOUS
<1>1. ASSUME NEW t \in Threads, Claim(t) PROVE WorkFalls
  <2>1. PICK p \in todo : region' = region /\ todo' = todo \ {p}
    BY <1>1 DEF Claim, Available
  <2>2. IsFiniteSet(todo)
    <3>1. region \in Regions /\ todo \subseteq StoresOf(region)
      BY FirstStore DEF IInv, Placed
    <3>2. QED
      BY <3>1, StoresFinite, FS_Subset
  <2>3. Cardinality(todo) \in Nat /\ Cardinality(todo \ {p}) = Cardinality(todo) - 1
    BY <2>2, FS_RemoveElement, FS_CardinalityType
  <2>4. Cardinality(todo') < Cardinality(todo)
    BY <2>1, <2>3
  <2>5. QED
    BY <2>1, <2>4 DEF WorkFalls
<1>2. CASE EndRegion
  <2>1. region # "done" /\ region' = NextRegion[region] /\ region \in Regions
    BY <1>2 DEF EndRegion, IInv, Placed
  <2>2. \/ region = "bias" /\ region' = "pack"
        \/ region = "pack" /\ region' = "tiles"
        \/ region = "tiles" /\ region' = "done"
    BY <2>1 DEF Regions, NextRegion
  <2>3. RegionsLeft' < RegionsLeft
    BY <2>2 DEF RegionsLeft
  <2>4. QED
    BY <2>3 DEF WorkFalls
<1>3. QED
  BY <1>1, <1>2, ThreadWorkFalls DEF Next, ThreadStep, Returned

(* A call of conv_relu_nhwc_oihw cannot go on for ever: for every shape,   *)
(* tiling, SIMD width and team, each step ends one of the three loops,     *)
(* takes one of the finitely many iterations of the present one, or is one *)
(* of the finitely many stores a thread has left of the iteration it took. *)
THEOREM CallWorkEnds ==
  Spec => /\ [](/\ RegionsLeft \in Nat
                /\ Cardinality(todo) \in Nat
                /\ \A t \in Threads : StoresLeft(t) \in Nat)
          /\ [][WorkFalls]_vars
<1>1. IInv /\ [Next]_vars => [WorkFalls]_vars
  BY StepWorkFalls
<1>2. QED
  BY <1>1, WorkIsFinite, IInvHolds, PTL DEF Spec
=============================================================================
