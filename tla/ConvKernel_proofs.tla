-------------------------- MODULE ConvKernel_proofs --------------------------
(***************************************************************************)
(* Proofs about ConvKernel for every image, every block shape and every    *)
(* tile length.                                                            *)
(*                                                                         *)
(* The first half is about the barriers: IInv is inductive, so no thread   *)
(* reads a half of shared memory that another one loads, and the operands  *)
(* of every product are those that LOAD_TILE put there for it.  All leave  *)
(* the loop over the tiles at the same one (Stopped), so no barrier waits  *)
(* for a thread that has left, and what is left to do only gets less       *)
(* (Progress).                                                             *)
(*                                                                         *)
(* The second half is about what is summed.  LOAD_TILE's masks and shifts  *)
(* are remainders and divisions, so that the operands of a product are the *)
(* factors of a term (ValAIs, ValBIs); an accumulator is the sum of the    *)
(* first terms (SumsSoFar); a sum of all terms is the convolution's value  *)
(* (SumIsConvolution); an element is empty until its one thread stores     *)
(* (OutputRight), and not after (NoneForgotten).                           *)
(***************************************************************************)
EXTENDS ConvKernel, Numbers, FiniteSetTheorems

-----------------------------------------------------------------------------
(* Geometry of a block.                                                    *)

LEMMA SizesPositive ==
  /\ TileA \in Nat \ {0} /\ TileB \in Nat \ {0} /\ TotalK \in Nat \ {0}
  /\ BlockThreads \in Nat \ {0}
  /\ MaxTile \in Nat \ {0} /\ TileA <= MaxTile /\ TileB <= MaxTile
<1> USE BlockShape, TileShape, ConvShape
<1>1. BlockX * BlockY \in Nat \ {0}  BY SMT
<1>2. TileA \in Nat \ {0}  BY <1>1, SMT DEF TileA
<1>3. TileB \in Nat \ {0}  BY SMT DEF TileB
<1>4. BlockThreads \in Nat \ {0}  BY <1>1, SMT DEF BlockThreads
<1>5. TotalK \in Nat \ {0}  BY SMT DEF TotalK
<1>6. QED  BY <1>2, <1>3, <1>4, <1>5 DEF MaxTile

(* linear_tid numbers the threads of a block 0 .. BlockThreads - 1 ...     *)
LEMMA TidRange ==
  ASSUME NEW t \in Threads
  PROVE  LinearTid(t) \in 0 .. BlockThreads - 1
<1>1. t[1] \in 0 .. BlockX - 1 /\ t[2] \in 0 .. BlockY - 1 /\ t[3] \in 0 .. BlockZ - 1
  BY DEF Threads
<1>2. t[3] * BlockY + t[2] \in 0 .. BlockZ * BlockY - 1
  BY <1>1, RadixRange, BlockShape
<1>3. BlockZ * BlockY \in Nat \ {0}  BY BlockShape, SMT
<1>4. LinearTid(t) \in 0 .. (BlockZ * BlockY) * BlockX - 1
  BY <1>1, <1>2, <1>3, RadixRange, BlockShape DEF LinearTid
<1>5. BlockThreads = (BlockZ * BlockY) * BlockX
  BY BlockShape, SMT DEF BlockThreads
<1>6. QED  BY <1>4, <1>5

(* ... without repetition ...                                              *)
LEMMA TidInjective ==
  ASSUME NEW t \in Threads, NEW u \in Threads, LinearTid(t) = LinearTid(u)
  PROVE  t = u
<1>1. /\ t[1] \in 0 .. BlockX - 1 /\ t[2] \in 0 .. BlockY - 1 /\ t[3] \in 0 .. BlockZ - 1
      /\ u[1] \in 0 .. BlockX - 1 /\ u[2] \in 0 .. BlockY - 1 /\ u[3] \in 0 .. BlockZ - 1
  BY DEF Threads
<1>2. t[3] * BlockY + t[2] \in Nat /\ u[3] * BlockY + u[2] \in Nat
  BY <1>1, BlockShape, SMT
<1>3. t[1] = u[1] /\ t[3] * BlockY + t[2] = u[3] * BlockY + u[2]
  <2> DEFINE p == t[3] * BlockY + t[2]
             q == u[3] * BlockY + u[2]
  <2>1. p * BlockX + t[1] = q * BlockX + u[1]  BY DEF LinearTid
  <2>2. p \in Nat /\ q \in Nat  BY <1>2
  <2> HIDE DEF p, q
  <2>3. t[1] = u[1] /\ p = q  BY <1>1, <2>1, <2>2, RadixInjective, BlockShape
  <2>4. QED  BY <2>3 DEF p, q
<1>4. t[2] = u[2] /\ t[3] = u[3]
  BY <1>1, <1>3, RadixInjective, BlockShape
<1>5. QED  BY <1>3, <1>4 DEF Threads

(* ... or gaps.                                                            *)
LEMMA TidSurjective ==
  ASSUME NEW n \in 0 .. BlockThreads - 1
  PROVE  \E t \in Threads : LinearTid(t) = n
<1>1. BlockZ * BlockY \in Nat \ {0}  BY BlockShape, SMT
<1>2. BlockThreads = (BlockZ * BlockY) * BlockX
  BY BlockShape, SMT DEF BlockThreads
<1>3. PICK zy \in 0 .. BlockZ * BlockY - 1, x \in 0 .. BlockX - 1 : n = zy * BlockX + x
  BY <1>1, <1>2, RadixSurjective, BlockShape
<1>4. PICK z \in 0 .. BlockZ - 1, y \in 0 .. BlockY - 1 : zy = z * BlockY + y
  BY RadixSurjective, BlockShape
<1>5. <<x, y, z>> \in Threads /\ LinearTid(<<x, y, z>>) = n
  BY <1>3, <1>4 DEF Threads, LinearTid
<1>6. QED  BY <1>5

(* The element of tile A that a thread multiplies at step k is inside the  *)
(* tile, and so is the one of tile B.                                      *)
LEMMA OperandRange ==
  ASSUME NEW t \in Threads, NEW k \in 0 .. TileK - 1
  PROVE  /\ LocalHw(t) * TileK + k \in 0 .. TileA - 1
         /\ t[3] * TileK + k \in 0 .. TileB - 1
<1>1. t[1] \in 0 .. BlockX - 1 /\ t[2] \in 0 .. BlockY - 1 /\ t[3] \in 0 .. BlockZ - 1
  BY DEF Threads
<1>2. LocalHw(t) \in 0 .. BlockY * BlockX - 1
  BY <1>1, RadixRange, BlockShape DEF LocalHw
<1>3. BlockY * BlockX \in Nat \ {0} /\ BlockY * BlockX = BlockX * BlockY
  BY BlockShape, SMT
<1>4. LocalHw(t) * TileK + k \in 0 .. (BlockY * BlockX) * TileK - 1
  BY <1>2, <1>3, RadixRange, TileShape
<1>5. t[3] * TileK + k \in 0 .. BlockZ * TileK - 1
  BY <1>1, RadixRange, TileShape, BlockShape
<1>6. QED  BY <1>3, <1>4, <1>5 DEF TileA, TileB

(* The four tiles lie side by side in shared memory.                       *)
LEMMA SlotsApart ==
  ASSUME NEW g \in {0, 1}, NEW h \in {0, 1}
  PROVE  /\ \A i \in 0 .. TileA - 1 : SlotA(g, i) \in 0 .. SmemSize - 1
         /\ \A i \in 0 .. TileB - 1 : SlotB(g, i) \in 0 .. SmemSize - 1
         /\ \A i, j \in 0 .. TileA - 1 : SlotA(g, i) = SlotA(h, j) => g = h /\ i = j
         /\ \A i, j \in 0 .. TileB - 1 : SlotB(g, i) = SlotB(h, j) => g = h /\ i = j
         /\ \A i \in 0 .. TileA - 1, j \in 0 .. TileB - 1 : SlotA(g, i) # SlotB(h, j)
<1>1. TileA \in Nat /\ TileB \in Nat  BY SizesPositive
<1>2. CASE g = 0 /\ h = 0  BY <1>1, <1>2 DEF SlotA, SlotB, SmemSize
<1>3. CASE g = 0 /\ h = 1  BY <1>1, <1>3 DEF SlotA, SlotB, SmemSize
<1>4. CASE g = 1 /\ h = 0  BY <1>1, <1>4 DEF SlotA, SlotB, SmemSize
<1>5. CASE g = 1 /\ h = 1  BY <1>1, <1>5 DEF SlotA, SlotB, SmemSize
<1>6. QED  BY <1>2, <1>3, <1>4, <1>5

-----------------------------------------------------------------------------
(* One element is loaded: it is in place ...                               *)
LEMMA WriteLoads ==
  ASSUME NEW m, DOMAIN m = 0 .. SmemSize - 1, NEW b, NEW base,
         NEW half \in {0, 1}, NEW j \in 0 .. MaxTile - 1
  PROVE  /\ DOMAIN WriteElement(m, half, b, base, j) = 0 .. SmemSize - 1
         /\ Holds(WriteElement(m, half, b, base, j), half, b, base, j)
<1> DEFINE n == WriteElement(m, half, b, base, j)
<1>1. DOMAIN n = 0 .. SmemSize - 1  BY DEF WriteElement
<1>2. TileA \in Nat /\ TileB \in Nat /\ j \in Nat  BY SizesPositive
<1>3. j < TileA => n[SlotA(half, j)] = ValA(b, base, j)
  BY <1>2, SlotsApart DEF WriteElement
<1>4. j < TileA /\ j < TileB => SlotB(half, j) # SlotA(half, j)
  BY <1>2, SlotsApart
<1>5. j < TileB => n[SlotB(half, j)] = ValB(b, base, j)
  BY <1>2, <1>4, SlotsApart DEF WriteElement
<1>6. QED  BY <1>1, <1>3, <1>5 DEF Holds

(* ... and every other element is what it was.                             *)
LEMMA WriteKeeps ==
  ASSUME NEW m, DOMAIN m = 0 .. SmemSize - 1, NEW b, NEW base, NEW c,
         NEW half \in {0, 1}, NEW j \in 0 .. MaxTile - 1,
         NEW g \in {0, 1}, NEW i \in 0 .. MaxTile - 1, g = half => i # j,
         Holds(m, g, b, c, i)
  PROVE  Holds(WriteElement(m, half, b, base, j), g, b, c, i)
<1> DEFINE n == WriteElement(m, half, b, base, j)
<1>1. /\ TileA \in Nat /\ TileB \in Nat /\ j \in Nat /\ i \in Nat
  BY SizesPositive
<1>2. ASSUME i < TileA  PROVE n[SlotA(g, i)] = m[SlotA(g, i)]
  <2>1. j < TileA => SlotA(g, i) # SlotA(half, j)
    BY <1>1, <1>2, SlotsApart
  <2>2. j < TileB => SlotA(g, i) # SlotB(half, j)
    BY <1>1, <1>2, SlotsApart
  <2>3. SlotA(g, i) \in DOMAIN m  BY <1>1, <1>2, SlotsApart
  <2>4. QED  BY <2>1, <2>2, <2>3 DEF WriteElement
<1>3. ASSUME i < TileB  PROVE n[SlotB(g, i)] = m[SlotB(g, i)]
  <2>1. j < TileA => SlotB(g, i) # SlotA(half, j)
    BY <1>1, <1>3, SlotsApart
  <2>2. j < TileB => SlotB(g, i) # SlotB(half, j)
    BY <1>1, <1>3, SlotsApart
  <2>3. SlotB(g, i) \in DOMAIN m  BY <1>1, <1>3, SlotsApart
  <2>4. QED  BY <2>1, <2>2, <2>3 DEF WriteElement
<1>4. QED  BY <1>2, <1>3 DEF Holds

-----------------------------------------------------------------------------
(* The inductive invariant.                                                *)

LEMMA SmallMod ==
  ASSUME NEW n \in Nat \ {0}, NEW r \in 0 .. n - 1
  PROVE  r % n = r
<1>1. (0 * n + r) % n = r  BY RadixDivMod
<1>2. 0 * n + r = r  BY SMT
<1>3. QED  BY <1>1, <1>2

(* A block starts with nothing loaded and every cursor at its thread.      *)
LEMMA InitInv == Init => IInv
<1> SUFFICES ASSUME Init PROVE IInv  OBVIOUS
<1>1. \A t \in Threads :
        /\ pc[t] = "loadFirst" /\ idx[t] = LinearTid(t) /\ kk[t] = 0
        /\ kBase[t] = 0 /\ curr[t] = 0
  BY DEF Init, Fresh
<1>2. \A t \in Threads : LinearTid(t) \in Nat /\ LinearTid(t) % BlockThreads = LinearTid(t)
                         /\ LinearTid(t) < BlockThreads
  BY TidRange, SizesPositive, SmallMod
<1>3. TypeOK
  <2>1. pc \in [Threads -> Steps] /\ kk \in [Threads -> 0 .. TileK]
        /\ curr \in [Threads -> {0, 1}]
    BY TileShape DEF Init, Fresh, Steps
  <2>2. idx \in [Threads -> 0 .. MaxTile + BlockThreads - 1]
    BY <1>2, SizesPositive DEF Init, Fresh
  <2>3. kBase \in [Threads -> 0 .. TotalK + TileK - 1]
    BY SizesPositive, TileShape DEF Init, Fresh
  <2>4. DOMAIN smem = 0 .. SmemSize - 1  BY DEF Init, Fresh
  <2>5. QED  BY <2>1, <2>2, <2>3, <2>4 DEF TypeOK, Init
<1>4. Lockstep /\ OnePhase /\ CurrentTile
  BY <1>1 DEF Lockstep, OnePhase, CurrentTile, FirstSteps
<1>5. Cursors  BY <1>1, <1>2 DEF Cursors
<1>6. Loaded
  <2> SUFFICES ASSUME NEW t \in Threads, NEW i \in 0 .. MaxTile - 1,
                      i % BlockThreads = LinearTid(t), i < idx[t]
               PROVE  FALSE
    BY DEF Loaded
  <2>1. i \in 0 .. BlockThreads - 1  BY <1>1, <1>2, SizesPositive
  <2>2. i % BlockThreads = i  BY <2>1, SizesPositive, SmallMod
  <2>3. QED  BY <1>1, <2>2, SizesPositive
<1>7. QED  BY <1>3, <1>4, <1>5, <1>6 DEF IInv

(* The threads that load while t does load the same tile to the same half. *)
LEMMA SameTarget ==
  ASSUME IInv, NEW t \in Threads, NEW u \in Threads,
         pc[t] \in LoadSteps, pc[u] \in LoadSteps
  PROVE  Target(u) = Target(t) /\ kBase[u] = kBase[t] /\ Target(t) \in {0, 1}
<1>1. curr[t] \in {0, 1} /\ curr[u] = curr[t] /\ kBase[u] = kBase[t]
  BY DEF IInv, TypeOK, Lockstep
<1>2. CASE pc[t] \in FirstSteps
  <2>1. pc[u] \in FirstSteps  BY <1>2 DEF IInv, OnePhase
  <2>2. QED  BY <1>1, <1>2, <2>1 DEF Target, FirstSteps
<1>3. CASE pc[t] \notin FirstSteps
  <2>1. pc[u] \notin FirstSteps  BY <1>3 DEF IInv, OnePhase
  <2>2. QED  BY <1>1, <1>3, <2>1 DEF Target, FirstSteps
<1>4. QED  BY <1>2, <1>3

(* One turn of LOAD_TILE, in either of its two calls.                      *)
LEMMA LoadInv ==
  ASSUME IInv, NEW t \in Threads, NEW barrier,
         \/ pc[t] = "loadFirst" /\ barrier = "syncFirst"
         \/ pc[t] = "loadNext" /\ barrier = "syncNext",
         LoadTile(t, Target(t), barrier),
         UNCHANGED <<waiting, block, kk, kBase, curr, acc, out>>
  PROVE  IInv'
<1> DEFINE half == Target(t)
           j == idx[t]
<1>1. pc[t] \in LoadSteps /\ half \in {0, 1}
  BY SameTarget DEF LoadSteps, FirstSteps
<1>2. TypeOK /\ Lockstep /\ OnePhase /\ Cursors /\ Loaded /\ CurrentTile  BY DEF IInv
<1>3. Lockstep'  BY <1>2 DEF Lockstep
<1>4. CASE j < MaxTile
  <2>1. /\ smem' = WriteElement(smem, half, block, kBase[t], j)
        /\ idx' = [idx EXCEPT ![t] = j + BlockThreads]
        /\ pc' = pc
    BY <1>4, <1>2, SizesPositive DEF LoadTile, TypeOK
  <2>2. j \in 0 .. MaxTile - 1  BY <1>2, <1>4, SizesPositive DEF TypeOK
  <2>3. DOMAIN smem = 0 .. SmemSize - 1  BY <1>2 DEF TypeOK
  <2>4. /\ DOMAIN smem' = 0 .. SmemSize - 1
        /\ Holds(smem', half, block, kBase[t], j)
    <3> HIDE DEF half, j
    <3>1. QED  BY <1>1, <2>1, <2>2, <2>3, WriteLoads
  <2>11. ASSUME NEW g \in {0, 1}, NEW c, NEW i \in 0 .. MaxTile - 1,
               g = half => i # j, Holds(smem, g, block, c, i)
        PROVE  Holds(smem', g, block, c, i)
    <3> HIDE DEF half, j
    <3>1. half \in {0, 1} /\ j \in 0 .. MaxTile - 1  BY <1>1, <2>2
    <3>2. QED  BY <2>1, <2>3, <2>11, <3>1, WriteKeeps
  <2>5. TypeOK'
    <3>1. j + BlockThreads \in 0 .. MaxTile + BlockThreads - 1
      BY <2>2, SizesPositive
    <3>2. QED  BY <1>2, <2>1, <2>3, <2>4, <3>1 DEF TypeOK
  <2>6. OnePhase'  BY <1>2, <2>1 DEF OnePhase
  <2>7. Cursors'
    <3>1. j % BlockThreads = LinearTid(t)  BY <1>1, <1>2 DEF Cursors
    <3>2. (j + BlockThreads) % BlockThreads = LinearTid(t)
      BY <2>2, <3>1, SizesPositive, ModStride
    <3>3. pc[t] \notin {"syncFirst", "syncNext"}  OBVIOUS
    <3>4. idx \in [Threads -> Int]  BY <1>2, SizesPositive DEF TypeOK
    <3>5. QED  BY <1>2, <2>1, <3>2, <3>3, <3>4 DEF Cursors
  <2>8. Loaded'
    <3> SUFFICES ASSUME NEW u \in Threads, pc'[u] \in LoadSteps,
                        NEW i \in 0 .. MaxTile - 1,
                        i % BlockThreads = LinearTid(u), i < idx'[u]
                 PROVE  Holds(smem', Target(u)', block', kBase'[u], i)
      BY DEF Loaded
    <3>1. pc[u] \in LoadSteps  BY <2>1
    <3>2. Target(u)' = half /\ kBase'[u] = kBase[t] /\ Target(u) = half
          /\ kBase[u] = kBase[t] /\ block' = block
      BY <1>1, <2>1, <3>1, SameTarget DEF Target
    <3>3. j % BlockThreads = LinearTid(t)  BY <1>1, <1>2 DEF Cursors
    <3>4. idx \in [Threads -> Int]  BY <1>2, SizesPositive DEF TypeOK
    <3>5. CASE u # t
      <4>1. i # j  BY <3>3, <3>5, TidInjective
      <4>2. i < idx[u]  BY <2>1, <3>4, <3>5
      <4>3. Holds(smem, half, block, kBase[t], i)
        BY <1>2, <3>1, <3>2, <4>2 DEF Loaded
      <4>4. QED  BY <1>1, <2>11, <3>2, <4>1, <4>3
    <3>6. CASE u = t /\ i # j
      <4>1. i < j + BlockThreads  BY <2>1, <3>4, <3>6
      <4>2. i <= j  BY <2>2, <3>3, <3>6, <4>1, SizesPositive, ModGap
      <4>3. i < idx[t]  BY <2>2, <3>6, <4>2
      <4>4. Holds(smem, half, block, kBase[t], i)
        BY <1>1, <1>2, <3>6, <4>3 DEF Loaded
      <4>5. QED  BY <1>1, <2>11, <3>2, <3>6, <4>4
    <3>7. CASE u = t /\ i = j  BY <2>4, <3>2, <3>7
    <3>8. QED  BY <3>5, <3>6, <3>7
  <2>9. CurrentTile'
    <3> SUFFICES ASSUME NEW u \in Threads, pc'[u] \notin FirstSteps,
                        NEW i \in 0 .. MaxTile - 1
                 PROVE  Holds(smem', curr'[u], block', kBase'[u] - TileK, i)
      BY DEF CurrentTile
    <3>1. pc[u] \notin FirstSteps /\ curr'[u] = curr[u] /\ kBase'[u] = kBase[u]
          /\ block' = block
      BY <2>1
    <3>2. pc[t] \notin FirstSteps  BY <1>2, <3>1 DEF OnePhase
    <3>3. curr[u] = 1 - half
      <4>1. curr[u] = curr[t] /\ curr[t] \in {0, 1}  BY <1>2 DEF Lockstep, TypeOK
      <4>2. half = 1 - curr[t]  BY <3>2 DEF Target, FirstSteps
      <4>3. QED  BY <4>1, <4>2
    <3>4. Holds(smem, 1 - half, block, kBase[u] - TileK, i)
      BY <1>2, <3>1, <3>3 DEF CurrentTile
    <3>5. QED  BY <1>1, <2>11, <3>1, <3>3, <3>4
  <2>10. QED  BY <1>3, <2>5, <2>6, <2>7, <2>8, <2>9 DEF IInv
<1>5. CASE j >= MaxTile
  <2>1. pc' = [pc EXCEPT ![t] = barrier] /\ idx' = idx /\ smem' = smem
    BY <1>2, <1>5, SizesPositive DEF LoadTile, TypeOK
  <2>2. pc' \in [Threads -> Steps] /\ pc'[t] = barrier
        /\ \A u \in Threads : u # t => pc'[u] = pc[u]
    BY <1>2, <2>1 DEF TypeOK, Steps
  <2>3. TypeOK'  BY <1>2, <2>1, <2>2 DEF TypeOK
  <2>4. barrier \in FirstSteps <=> pc[t] \in FirstSteps  BY DEF FirstSteps
  <2>5. OnePhase'
    BY <1>2, <2>2, <2>4 DEF OnePhase, TypeOK
  <2>6. Cursors'  BY <1>1, <1>2, <1>5, <2>1, <2>2 DEF Cursors, LoadSteps, FirstSteps
  <2>7. \A u \in Threads : /\ pc'[u] \in LoadSteps <=> pc[u] \in LoadSteps
                           /\ pc'[u] \in FirstSteps <=> pc[u] \in FirstSteps
                           /\ Target(u)' = Target(u)
    BY <2>1, <2>2 DEF Target, LoadSteps, FirstSteps
  <2>8. Loaded'  BY <1>2, <2>1, <2>7 DEF Loaded
  <2>9. CurrentTile'  BY <1>2, <2>1, <2>7 DEF CurrentTile
  <2>10. QED  BY <1>3, <2>3, <2>5, <2>6, <2>8, <2>9 DEF IInv
<1>6. QED  BY <1>2, <1>4, <1>5, SizesPositive DEF TypeOK

(* Steps that touch neither shared memory nor a cursor nor the tile loop.  *)
LEMMA QuietInv ==
  ASSUME IInv, kk' \in [Threads -> 0 .. TileK],
         UNCHANGED <<waiting, block, idx, kBase, curr, smem>>,
         pc' \in [Threads -> Steps],
         \A t \in Threads :
           pc'[t] = pc[t] \/ (pc[t] \notin LoadSteps /\ pc'[t] \notin LoadSteps)
  PROVE  IInv'
<1>1. TypeOK /\ Lockstep /\ OnePhase /\ Cursors /\ Loaded /\ CurrentTile  BY DEF IInv
<1>2. \A t \in Threads : /\ pc'[t] \in LoadSteps => pc[t] = pc'[t]
                         /\ pc'[t] \in FirstSteps <=> pc[t] \in FirstSteps
                         /\ Target(t)' = Target(t)
  BY DEF Target, LoadSteps, FirstSteps
<1>3. TypeOK' /\ Lockstep'  BY <1>1 DEF TypeOK, Lockstep
<1>4. OnePhase'  BY <1>1, <1>2 DEF OnePhase
<1>5. Cursors'  BY <1>1, <1>2 DEF Cursors, LoadSteps, FirstSteps
<1>6. Loaded'  BY <1>1, <1>2 DEF Loaded
<1>7. CurrentTile'  BY <1>1, <1>2 DEF CurrentTile
<1>8. QED  BY <1>3, <1>4, <1>5, <1>6, <1>7 DEF IInv

(* The first barrier: every thread has loaded its share, and the shares of *)
(* all threads are the whole tile.                                         *)
LEMMA TileComplete ==
  ASSUME IInv, NEW u \in Threads,
         \A t \in Threads : pc[t] \in {"syncFirst", "syncNext"}
  PROVE  \A i \in 0 .. MaxTile - 1 : Holds(smem, Target(u), block, kBase[u], i)
<1> SUFFICES ASSUME NEW i \in 0 .. MaxTile - 1
             PROVE  Holds(smem, Target(u), block, kBase[u], i)
  OBVIOUS
<1>1. i % BlockThreads \in 0 .. BlockThreads - 1  BY SizesPositive, DivMod
<1>2. PICK t \in Threads : LinearTid(t) = i % BlockThreads  BY <1>1, TidSurjective
<1>3. pc[t] \in LoadSteps /\ pc[u] \in LoadSteps  BY DEF LoadSteps, FirstSteps
<1>4. idx[t] >= MaxTile /\ idx[t] \in Int
  BY SizesPositive DEF IInv, Cursors, TypeOK
<1>5. i < idx[t]  BY <1>4, SizesPositive
<1>6. Holds(smem, Target(t), block, kBase[t], i)
  BY <1>2, <1>3, <1>5 DEF IInv, Loaded
<1>7. QED  BY <1>3, <1>6, SameTarget

LEMMA SyncFirstInv == IInv /\ SyncFirst => IInv'
<1> SUFFICES ASSUME IInv, SyncFirst PROVE IInv'  OBVIOUS
<1>1. TypeOK /\ Lockstep /\ OnePhase /\ Cursors /\ Loaded /\ CurrentTile  BY DEF IInv
<1>2. \A t \in Threads : /\ pc[t] = "syncFirst" /\ pc'[t] = "multiply"
                         /\ kBase'[t] = kBase[t] + TileK /\ kBase[t] = 0
                         /\ Target(t) = curr[t]
  BY <1>1 DEF SyncFirst, OnePhase, Steps, FirstSteps, Target
<1>3. TypeOK'
  <2>1. kBase' \in [Threads -> 0 .. TotalK + TileK - 1]
    BY <1>2, SizesPositive, TileShape DEF SyncFirst
  <2>2. pc' \in [Threads -> Steps] /\ kk' \in [Threads -> 0 .. TileK]
    BY TileShape DEF SyncFirst, Steps
  <2>3. QED  BY <1>1, <2>1, <2>2 DEF TypeOK, SyncFirst
<1>4. Lockstep'  BY <1>1, <1>2 DEF Lockstep, SyncFirst
<1>5. OnePhase' /\ Cursors' /\ Loaded'
  BY <1>2 DEF OnePhase, Cursors, Loaded, Steps, FirstSteps, LoadSteps
<1>6. CurrentTile'
  <2> SUFFICES ASSUME NEW t \in Threads, NEW i \in 0 .. MaxTile - 1
               PROVE  Holds(smem', curr'[t], block', kBase'[t] - TileK, i)
    BY DEF CurrentTile
  <2>1. Holds(smem, curr[t], block, kBase[t], i)  BY <1>2, TileComplete
  <2>2. kBase'[t] - TileK = kBase[t]  BY <1>2, TileShape
  <2>3. QED  BY <2>1, <2>2 DEF SyncFirst
<1>7. QED  BY <1>3, <1>4, <1>5, <1>6 DEF IInv

LEMMA SyncNextInv == IInv /\ SyncNext => IInv'
<1> SUFFICES ASSUME IInv, SyncNext PROVE IInv'  OBVIOUS
<1>1. TypeOK /\ Lockstep /\ OnePhase /\ Cursors /\ Loaded /\ CurrentTile  BY DEF IInv
<1>2. \A t \in Threads : /\ pc[t] = "syncNext" /\ pc'[t] = "multiply"
                         /\ kBase'[t] = kBase[t] + TileK /\ kBase[t] < TotalK
                         /\ kBase[t] \in Nat
                         /\ Target(t) = 1 - curr[t] /\ curr'[t] = 1 - curr[t]
  BY <1>1, SizesPositive, TileShape DEF SyncNext, Cursors, TypeOK, Target
<1>3. TypeOK'
  <2>1. kBase' \in [Threads -> 0 .. TotalK + TileK - 1]
    BY <1>2, SizesPositive, TileShape DEF SyncNext
  <2>2. curr' \in [Threads -> {0, 1}]
    <3>1. \A t \in Threads : curr[t] \in {0, 1}  BY <1>1 DEF TypeOK
    <3>2. \A t \in Threads : 1 - curr[t] \in {0, 1}  BY <3>1
    <3>3. QED  BY <3>2 DEF SyncNext
  <2>3. pc' \in [Threads -> Steps] /\ kk' \in [Threads -> 0 .. TileK]
    BY TileShape DEF SyncNext, Steps
  <2>4. QED  BY <1>1, <2>1, <2>2, <2>3 DEF TypeOK, SyncNext
<1>4. Lockstep'  BY <1>1, <1>2 DEF Lockstep, SyncNext
<1>5. OnePhase' /\ Cursors' /\ Loaded'
  BY <1>2 DEF OnePhase, Cursors, Loaded, Steps, FirstSteps, LoadSteps
<1>6. CurrentTile'
  <2> SUFFICES ASSUME NEW t \in Threads, NEW i \in 0 .. MaxTile - 1
               PROVE  Holds(smem', curr'[t], block', kBase'[t] - TileK, i)
    BY DEF CurrentTile
  <2>1. Holds(smem, 1 - curr[t], block, kBase[t], i)  BY <1>2, TileComplete
  <2>2. kBase'[t] - TileK = kBase[t]  BY <1>2, TileShape
  <2>3. QED  BY <1>2, <2>1, <2>2 DEF SyncNext
<1>7. QED  BY <1>3, <1>4, <1>5, <1>6 DEF IInv

LEMMA EndTileInv ==
  ASSUME NEW t \in Threads, IInv, EndTile(t)
  PROVE  IInv'
<1>1. TypeOK /\ Lockstep /\ OnePhase /\ Cursors /\ Loaded /\ CurrentTile  BY DEF IInv
<1>2. kBase[t] \in Int /\ pc[t] = "multiply"
  BY <1>1, SizesPositive, TileShape DEF TypeOK, EndTile
<1>3. CASE kBase[t] >= TotalK
  <2>1. pc' = [pc EXCEPT ![t] = "store"]
        /\ UNCHANGED <<waiting, block, idx, kk, kBase, curr, smem>>
    BY <1>2, <1>3, SizesPositive DEF EndTile
  <2>2. pc' \in [Threads -> Steps] /\ kk' \in [Threads -> 0 .. TileK]
    BY <1>1, <2>1 DEF TypeOK, Steps
  <2>3. \A u \in Threads :
          pc'[u] = pc[u] \/ (pc[u] \notin LoadSteps /\ pc'[u] \notin LoadSteps)
    BY <1>1, <1>2, <2>1 DEF TypeOK, LoadSteps, FirstSteps
  <2>4. QED  BY <2>1, <2>2, <2>3, QuietInv
<1>4. CASE kBase[t] < TotalK
  <2>1. /\ pc' = [pc EXCEPT ![t] = "loadNext"]
        /\ idx' = [idx EXCEPT ![t] = LinearTid(t)]
        /\ UNCHANGED <<waiting, block, kk, kBase, curr, smem>>
    BY <1>2, <1>4, SizesPositive DEF EndTile
  <2>2. LinearTid(t) \in 0 .. BlockThreads - 1 /\ BlockThreads \in Nat \ {0}
        /\ MaxTile \in Nat
    BY TidRange, SizesPositive
  <2>3. TypeOK'
    <3>1. pc' \in [Threads -> Steps]  BY <1>1, <2>1 DEF TypeOK, Steps
    <3>2. LinearTid(t) \in 0 .. MaxTile + BlockThreads - 1  BY <2>2
    <3>3. QED  BY <1>1, <2>1, <3>1, <3>2 DEF TypeOK
  <2>4. Lockstep'  BY <1>1, <2>1 DEF Lockstep
  <2>5. \A u \in Threads : /\ pc'[u] \in FirstSteps <=> pc[u] \in FirstSteps
                           /\ u # t => pc'[u] = pc[u] /\ idx'[u] = idx[u]
                           /\ u # t => Target(u)' = Target(u)
    BY <1>1, <1>2, <2>1 DEF TypeOK, FirstSteps, Target
  <2>6. pc'[t] = "loadNext" /\ idx'[t] = LinearTid(t)  BY <1>1, <2>1 DEF TypeOK
  <2>7. OnePhase'  BY <1>1, <2>1, <2>3, <2>5 DEF OnePhase, TypeOK
  <2>8. Cursors'
    <3>1. LinearTid(t) % BlockThreads = LinearTid(t)  BY <2>2, SmallMod
    <3>2. QED  BY <1>1, <1>4, <2>1, <2>5, <2>6, <3>1 DEF Cursors
  <2>9. Loaded'
    <3> SUFFICES ASSUME NEW u \in Threads, pc'[u] \in LoadSteps,
                        NEW i \in 0 .. MaxTile - 1,
                        i % BlockThreads = LinearTid(u), i < idx'[u]
                 PROVE  Holds(smem', Target(u)', block', kBase'[u], i)
      BY DEF Loaded
    <3>1. CASE u # t  BY <1>1, <2>1, <2>5, <3>1 DEF Loaded
    <3>2. CASE u = t
      <4>1. i \in 0 .. BlockThreads - 1 /\ i < LinearTid(t)  BY <2>2, <2>6, <3>2
      <4>2. i % BlockThreads = i  BY <2>2, <4>1, SmallMod
      <4>3. QED  BY <2>2, <3>2, <4>1, <4>2
    <3>3. QED  BY <3>1, <3>2
  <2>10. CurrentTile'  BY <1>1, <2>1, <2>5 DEF CurrentTile
  <2>11. QED  BY <2>3, <2>4, <2>7, <2>8, <2>9, <2>10 DEF IInv
<1>5. QED  BY <1>2, <1>3, <1>4, SizesPositive

(* Everything starts over with the next block.                             *)
LEMMA NextBlockInv == IInv /\ NextBlock => IInv'
<1> SUFFICES ASSUME IInv, NextBlock PROVE IInv'  OBVIOUS
<1>1. PICK b \in waiting :
        /\ block' = b /\ waiting' = waiting \ {b}
        /\ pc' = Fresh(b).pc /\ idx' = Fresh(b).idx /\ kk' = Fresh(b).zero
        /\ kBase' = Fresh(b).zero /\ curr' = Fresh(b).zero
        /\ smem' = Fresh(b).smem
  BY DEF NextBlock
<1>2. block' \in Grid /\ waiting' \in SUBSET Grid
  BY <1>1 DEF IInv, TypeOK
<1>3. \A t \in Threads :
        /\ pc'[t] = "loadFirst" /\ idx'[t] = LinearTid(t) /\ kk'[t] = 0
        /\ kBase'[t] = 0 /\ curr'[t] = 0
  BY <1>1 DEF Fresh
<1>4. \A t \in Threads : LinearTid(t) \in Nat /\ LinearTid(t) % BlockThreads = LinearTid(t)
                         /\ LinearTid(t) < BlockThreads
  BY TidRange, SizesPositive, SmallMod
<1>5. TypeOK'
  <2>1. pc' \in [Threads -> Steps] /\ kk' \in [Threads -> 0 .. TileK]
        /\ curr' \in [Threads -> {0, 1}]
    BY <1>1, TileShape DEF Fresh, Steps
  <2>2. idx' \in [Threads -> 0 .. MaxTile + BlockThreads - 1]
    BY <1>1, <1>4, SizesPositive DEF Fresh
  <2>3. kBase' \in [Threads -> 0 .. TotalK + TileK - 1]
    BY <1>1, SizesPositive, TileShape DEF Fresh
  <2>4. DOMAIN smem' = 0 .. SmemSize - 1  BY <1>1 DEF Fresh
  <2>5. QED  BY <1>2, <2>1, <2>2, <2>3, <2>4 DEF TypeOK
<1>6. Lockstep' /\ OnePhase' /\ CurrentTile'
  BY <1>3 DEF Lockstep, OnePhase, CurrentTile, FirstSteps
<1>7. Cursors'  BY <1>3, <1>4 DEF Cursors
<1>8. Loaded'
  <2> SUFFICES ASSUME NEW t \in Threads, NEW i \in 0 .. MaxTile - 1,
                      i % BlockThreads = LinearTid(t), i < idx'[t]
               PROVE  FALSE
    BY DEF Loaded
  <2>1. i \in 0 .. BlockThreads - 1  BY <1>3, <1>4, SizesPositive
  <2>2. i % BlockThreads = i  BY <2>1, SizesPositive, SmallMod
  <2>3. QED  BY <1>3, <2>2, SizesPositive
<1>9. QED  BY <1>5, <1>6, <1>7, <1>8 DEF IInv

(* Every step of the kernel preserves the invariant.                       *)
LEMMA NextInv == IInv /\ [Next]_vars => IInv'
<1> SUFFICES ASSUME IInv, [Next]_vars PROVE IInv'  OBVIOUS
<1>0. TypeOK  BY DEF IInv
<1>1. ASSUME NEW t \in Threads, LoadFirst(t)  PROVE IInv'
  BY <1>1, LoadInv DEF LoadFirst
<1>2. ASSUME NEW t \in Threads, LoadNext(t)  PROVE IInv'
  BY <1>2, LoadInv DEF LoadNext
<1>3. ASSUME NEW t \in Threads, Multiply(t)  PROVE IInv'
  <2>1. kk' \in [Threads -> 0 .. TileK]
    BY <1>0, <1>3, TileShape DEF Multiply, TypeOK
  <2>2. QED  BY <1>0, <1>3, <2>1, QuietInv DEF Multiply, TypeOK
<1>4. ASSUME NEW t \in Threads, EndTile(t)  PROVE IInv'  BY <1>4, EndTileInv
<1>5. ASSUME NEW t \in Threads, Store(t)  PROVE IInv'
  <2>1. pc' = [pc EXCEPT ![t] = "done"] /\ pc[t] = "store"
        /\ UNCHANGED <<waiting, block, idx, kk, kBase, curr, smem>>
    BY <1>5 DEF Store
  <2>2. pc' \in [Threads -> Steps] /\ kk' \in [Threads -> 0 .. TileK]
    BY <1>0, <2>1 DEF TypeOK, Steps
  <2>3. \A u \in Threads :
          pc'[u] = pc[u] \/ (pc[u] \notin LoadSteps /\ pc'[u] \notin LoadSteps)
    BY <1>0, <2>1 DEF TypeOK, LoadSteps, FirstSteps
  <2>4. QED  BY <2>1, <2>2, <2>3, QuietInv
<1>6. CASE SyncFirst  BY <1>6, SyncFirstInv
<1>7. CASE SyncNext   BY <1>7, SyncNextInv
<1>8. CASE NextBlock  BY <1>8, NextBlockInv
<1>9. CASE UNCHANGED vars
  BY <1>9 DEF vars, IInv, TypeOK, Lockstep, OnePhase, Cursors, Loaded, CurrentTile, Target
<1>10. QED
  BY <1>1, <1>2, <1>3, <1>4, <1>5, <1>6, <1>7, <1>8, <1>9
  DEF Next, ThreadStep, Terminated

-----------------------------------------------------------------------------
(* What the invariant is for.                                              *)

LEMMA InvNoRace == IInv => NoRace
<1> SUFFICES ASSUME IInv, NEW t \in Threads, NEW u \in Threads
             PROVE  /\ pc[t] = "multiply" /\ Writing(u) => curr[t] # Target(u)
                    /\ t # u /\ Writing(t) /\ Writing(u) => idx[t] # idx[u]
  BY DEF NoRace
<1>1. ASSUME pc[t] = "multiply", Writing(u)  PROVE curr[t] # Target(u)
  <2>1. pc[u] = "loadNext"  BY <1>1 DEF IInv, OnePhase, Writing, FirstSteps
  <2>2. Target(u) = 1 - curr[u]  BY <2>1 DEF Target
  <2>3. curr[u] = curr[t] /\ curr[t] \in {0, 1}  BY DEF IInv, Lockstep, TypeOK
  <2>4. QED  BY <2>2, <2>3
<1>2. ASSUME t # u, Writing(t), Writing(u)  PROVE idx[t] # idx[u]
  <2>1. /\ idx[t] % BlockThreads = LinearTid(t)
        /\ idx[u] % BlockThreads = LinearTid(u)
    BY <1>2 DEF IInv, Cursors, Writing, LoadSteps, FirstSteps
  <2>2. QED  BY <1>2, <2>1, TidInjective
<1>3. QED  BY <1>1, <1>2

LEMMA InvOperandsFresh == IInv => OperandsFresh
<1> SUFFICES ASSUME IInv, NEW t \in Threads, pc[t] = "multiply", kk[t] < TileK
             PROVE  /\ OperandA(t) = ValA(block, kBase[t] - TileK, LocalHw(t) * TileK + kk[t])
                    /\ OperandB(t) = ValB(block, kBase[t] - TileK, t[3] * TileK + kk[t])
  BY DEF OperandsFresh
<1>1. kk[t] \in 0 .. TileK - 1  BY TileShape DEF IInv, TypeOK
<1>2. /\ LocalHw(t) * TileK + kk[t] \in 0 .. TileA - 1
      /\ t[3] * TileK + kk[t] \in 0 .. TileB - 1
  BY <1>1, OperandRange
<1>3. \A i \in 0 .. MaxTile - 1 : Holds(smem, curr[t], block, kBase[t] - TileK, i)
  BY DEF IInv, CurrentTile, FirstSteps
<1>4. /\ \A i \in 0 .. TileA - 1 :
           smem[SlotA(curr[t], i)] = ValA(block, kBase[t] - TileK, i)
      /\ \A i \in 0 .. TileB - 1 :
           smem[SlotB(curr[t], i)] = ValB(block, kBase[t] - TileK, i)
  BY <1>3, SizesPositive DEF Holds
<1>5. QED  BY <1>2, <1>4 DEF OperandA, OperandB

(* The inductive invariant holds in every launch of the kernel.            *)
THEOREM Invariant == Spec => []IInv
  BY InitInv, NextInv, PTL DEF Spec

(* The cursors and the tile counter of conv_relu_nhwc_oihw_cuda stay in    *)
(* their ranges for every block shape and every tile length.               *)
THEOREM TypeCorrect == Spec => []TypeOK
<1>1. IInv => TypeOK  BY DEF IInv
<1>2. QED  BY <1>1, Invariant, PTL

(* One __syncthreads per tile is enough: no two threads of a block ever    *)
(* race on shared memory.                                                  *)
THEOREM RaceFree == Spec => []NoRace
  BY InvNoRace, Invariant, PTL

(* Every product is taken of the operands that belong to it.               *)
THEOREM FreshOperands == Spec => []OperandsFresh
  BY InvOperandsFresh, Invariant, PTL

-----------------------------------------------------------------------------
(* No barrier is waited at in vain, and nobody goes on for ever.           *)

(* A thread that has left the loop over the tiles has summed them all.     *)
Stopped == \A t \in Threads : pc[t] \in {"store", "done"} => kBase[t] >= TotalK

LEMMA InitStopped == Init => Stopped
  BY DEF Init, Stopped, Fresh

LEMMA NextStopped == IInv /\ Stopped /\ [Next]_vars => Stopped'
<1> SUFFICES ASSUME IInv, Stopped, [Next]_vars PROVE Stopped'
  OBVIOUS
<1>0. pc \in [Threads -> Steps]
  BY DEF IInv, TypeOK
<1>1. ASSUME NEW t \in Threads, EndTile(t) PROVE Stopped'
  <2>1. /\ kBase' = kBase
        /\ \/ pc' = [pc EXCEPT ![t] = "store"] /\ kBase[t] >= TotalK
           \/ pc' = [pc EXCEPT ![t] = "loadNext"]
    BY <1>1 DEF EndTile
  <2>2. QED
    BY <1>0, <2>1 DEF Stopped
<1>2. ASSUME NEW t \in Threads, Store(t) PROVE Stopped'
  BY <1>0, <1>2 DEF Store, Stopped
<1>3. ASSUME NEW t \in Threads, LoadFirst(t) \/ Multiply(t) \/ LoadNext(t) PROVE Stopped'
  BY <1>0, <1>3 DEF LoadFirst, LoadNext, LoadTile, Multiply, Stopped
<1>4. CASE SyncFirst \/ SyncNext \/ NextBlock
  BY <1>4 DEF SyncFirst, SyncNext, NextBlock, Fresh, Stopped
<1>5. CASE Terminated \/ UNCHANGED vars
  BY <1>5 DEF Terminated, vars, Stopped
<1>6. QED
  BY <1>1, <1>2, <1>3, <1>4, <1>5 DEF Next, ThreadStep

(* Some thread has a step to take, or the whole block is at one barrier,   *)
(* or at the end.                                                          *)
SomebodyRuns ==
  \/ \E t \in Threads : pc[t] \in {"loadFirst", "multiply", "loadNext", "store"}
  \/ \E where \in {"syncFirst", "syncNext", "done"} : \A t \in Threads : pc[t] = where

LEMMA InvRuns == IInv /\ Stopped => SomebodyRuns
<1> SUFFICES ASSUME IInv, Stopped,
                    \A t \in Threads : pc[t] \in {"syncFirst", "syncNext", "done"}
             PROVE  \E where \in {"syncFirst", "syncNext", "done"} :
                      \A t \in Threads : pc[t] = where
  BY DEF SomebodyRuns, IInv, TypeOK, Steps
<1>1. CASE \A t \in Threads : pc[t] \in FirstSteps
  BY <1>1 DEF FirstSteps
<1>2. CASE \A t \in Threads : pc[t] \notin FirstSteps
  <2>1. ASSUME NEW t \in Threads, NEW u \in Threads, pc[t] = "syncNext", pc[u] = "done"
        PROVE  FALSE
    <3>1. kBase[t] < TotalK /\ kBase[u] >= TotalK /\ kBase[t] = kBase[u]
      BY <2>1 DEF IInv, Cursors, Lockstep, Stopped
    <3>2. kBase[t] \in Int /\ TotalK \in Int
      BY SizesPositive, TileShape DEF IInv, TypeOK
    <3>3. QED
      BY <3>1, <3>2
  <2>2. QED
    BY <1>2, <2>1 DEF FirstSteps
<1>3. QED
  BY <1>1, <1>2 DEF IInv, OnePhase

(* Whatever the block's shape and the image's edges, the threads that are  *)
(* waiting at a barrier are never all that is left: the others are on      *)
(* their way to it, for all leave the loop over the tiles at the same one. *)
THEOREM NoBarrierInVain == Spec => []SomebodyRuns
  BY InitInv, NextInv, InitStopped, NextStopped, InvRuns, PTL DEF Spec

(* What is left of the tile a thread is at, and of all its tiles.          *)
Cursor == MaxTile + BlockThreads
TileLeft(t) ==
  CASE pc[t] = "multiply"                      -> (TileK - kk[t]) + Cursor + 3
    [] pc[t] \in {"loadFirst", "loadNext"}     -> (Cursor - idx[t]) + 2
    [] pc[t] \in {"syncFirst", "syncNext", "store"} -> 1
    [] OTHER                                   -> 0
TurnsLeft(t) == TotalK + TileK - kBase[t]
Left(t) == TurnsLeft(t) * (TileK + Cursor + 4) + TileLeft(t)

LEMMA TileLeftIs ==
  ASSUME IInv, NEW t \in Threads
  PROVE  /\ TileK \in Nat \ {0} /\ Cursor \in Nat \ {0}
         /\ TileLeft(t) \in 0 .. TileK + Cursor + 3
         /\ TurnsLeft(t) \in Nat \ {0}
<1>1. /\ TileK \in Nat \ {0} /\ MaxTile \in Nat \ {0} /\ BlockThreads \in Nat \ {0}
      /\ TotalK \in Nat \ {0}
  BY SizesPositive, TileShape
<1>2. /\ idx[t] \in 0 .. MaxTile + BlockThreads - 1 /\ kk[t] \in 0 .. TileK
      /\ kBase[t] \in 0 .. TotalK + TileK - 1
  BY DEF IInv, TypeOK
<1>3. Cursor = MaxTile + BlockThreads
  BY DEF Cursor
<1>4. TurnsLeft(t) \in Nat \ {0}
  BY <1>1, <1>2 DEF TurnsLeft
<1>5. CASE pc[t] = "multiply"
  BY <1>1, <1>2, <1>3, <1>4, <1>5 DEF TileLeft
<1>6. CASE pc[t] \in {"loadFirst", "loadNext"}
  BY <1>1, <1>2, <1>3, <1>4, <1>6 DEF TileLeft
<1>7. CASE pc[t] \notin {"loadFirst", "loadNext", "multiply"}
  BY <1>1, <1>2, <1>3, <1>4, <1>7 DEF TileLeft
<1>8. QED
  BY <1>5, <1>6, <1>7

LEMMA TileEnds ==
  ASSUME NEW m \in Nat \ {0}, NEW n \in Nat, NEW b \in Nat \ {0}, n < m,
         NEW x \in 0 .. b - 1
  PROVE  n * b + x < m * b + 1
<1>1. (n + 1) * b <= m * b
  BY SMT
<1>2. (n + 1) * b = n * b + b
  BY SMT
<1> DEFINE p == n * b
           q == m * b
<1>3. p \in Nat /\ q \in Nat
  BY SMT
<1> HIDE DEF p, q
<1>4. p + b <= q
  BY <1>1, <1>2 DEF p, q
<1>5. QED
  BY <1>3, <1>4 DEF p, q

LEMMA LeftIs ==
  ASSUME IInv, NEW t \in Threads
  PROVE  Left(t) \in Nat
<1>1. /\ TurnsLeft(t) \in Nat /\ TileLeft(t) \in Nat /\ TileK + Cursor + 4 \in Nat
  BY TileLeftIs
<1> DEFINE p == TurnsLeft(t) * (TileK + Cursor + 4)
<1>2. p \in Nat
  BY <1>1, SMT
<1> HIDE DEF p
<1>3. QED
  BY <1>1, <1>2 DEF Left, p

(* A step within a tile.                                                   *)
LEMMA ThreadLeftFalls ==
  ASSUME IInv, NEW t \in Threads, ThreadStep(t)
  PROVE  /\ waiting' = waiting
         /\ \A u \in Threads : u # t => Left(u)' = Left(u)
         /\ Left(t)' < Left(t)
<1>1. /\ TileK \in Nat \ {0} /\ MaxTile \in Nat \ {0} /\ BlockThreads \in Nat \ {0}
      /\ TotalK \in Nat \ {0} /\ Cursor = MaxTile + BlockThreads
  BY SizesPositive, TileShape DEF Cursor
<1>2. /\ idx \in [Threads -> 0 .. MaxTile + BlockThreads - 1]
      /\ kk \in [Threads -> 0 .. TileK] /\ pc \in [Threads -> Steps]
      /\ kBase[t] \in 0 .. TotalK + TileK - 1
  BY DEF IInv, TypeOK
<1>3. waiting' = waiting /\ kBase' = kBase
  BY DEF ThreadStep, LoadFirst, LoadNext, Multiply, EndTile, Store
<1>4. \A u \in Threads : u # t => pc'[u] = pc[u] /\ idx'[u] = idx[u] /\ kk'[u] = kk[u]
  BY <1>2 DEF ThreadStep, LoadFirst, LoadNext, LoadTile, Multiply, EndTile, Store
<1>5. \A u \in Threads : u # t => Left(u)' = Left(u)
  BY <1>3, <1>4 DEF Left, TurnsLeft, TileLeft, Cursor
<1>6. idx[t] \in 0 .. MaxTile + BlockThreads - 1 /\ kk[t] \in 0 .. TileK
  BY <1>2
<1>7. TileLeft(t)' < TileLeft(t)
  <2>1. CASE LoadFirst(t) \/ LoadNext(t)
    <3>1. pc[t] \in {"loadFirst", "loadNext"} /\ TileLeft(t) = (Cursor - idx[t]) + 2
      BY <2>1 DEF LoadFirst, LoadNext, TileLeft
    <3>2. CASE idx[t] < MaxTile
      <4>1. idx'[t] = idx[t] + BlockThreads /\ pc'[t] = pc[t]
        BY <1>1, <1>2, <1>6, <2>1, <3>2 DEF LoadFirst, LoadNext, LoadTile
      <4>2. TileLeft(t)' = (Cursor - idx'[t]) + 2
        BY <3>1, <4>1 DEF TileLeft, Cursor
      <4>3. QED
        BY <1>1, <1>6, <3>1, <4>1, <4>2
    <3>3. CASE ~(idx[t] < MaxTile)
      <4>1. pc'[t] \in {"syncFirst", "syncNext"}
        BY <1>2, <2>1, <3>3 DEF LoadFirst, LoadNext, LoadTile
      <4>2. TileLeft(t)' = 1
        BY <4>1 DEF TileLeft
      <4>3. QED
        BY <1>1, <1>6, <3>1, <4>2
    <3>4. QED
      BY <3>2, <3>3
  <2>2. CASE Multiply(t)
    <3>1. pc' = pc /\ pc[t] = "multiply" /\ kk'[t] = kk[t] + 1
      BY <1>2, <2>2 DEF Multiply
    <3>2. /\ TileLeft(t) = (TileK - kk[t]) + Cursor + 3
          /\ TileLeft(t)' = (TileK - kk'[t]) + Cursor + 3
      BY <3>1 DEF TileLeft, Cursor
    <3>3. QED
      BY <1>1, <1>6, <3>1, <3>2
  <2>3. CASE EndTile(t)
    <3>1. TileLeft(t) = (TileK - kk[t]) + Cursor + 3
      BY <2>3 DEF EndTile, TileLeft
    <3>2. \/ pc'[t] = "store"
          \/ pc'[t] = "loadNext" /\ idx'[t] = LinearTid(t)
      BY <1>2, <2>3 DEF EndTile
    <3>3. TileLeft(t)' = 1 \/ TileLeft(t)' = (Cursor - LinearTid(t)) + 2
      BY <3>2 DEF TileLeft, Cursor
    <3>4. LinearTid(t) \in 0 .. BlockThreads - 1
      BY TidRange
    <3> DEFINE tid == LinearTid(t)
    <3> HIDE DEF tid
    <3>5. tid \in Nat /\ (TileLeft(t)' = 1 \/ TileLeft(t)' = (Cursor - tid) + 2)
      BY <3>3, <3>4 DEF tid
    <3>6. QED
      BY <1>1, <1>6, <3>1, <3>5
  <2>4. CASE Store(t)
    <3>1. pc[t] = "store" /\ pc'[t] = "done"
      BY <1>2, <2>4 DEF Store
    <3>2. QED
      BY <3>1 DEF TileLeft
  <2>5. QED
    BY <2>1, <2>2, <2>3, <2>4 DEF ThreadStep
<1>8. TileLeft(t)' \in Int /\ TileLeft(t) \in Int
  <2>1. idx'[t] \in Int /\ kk'[t] \in Int
    <3>1. LinearTid(t) \in Int
      BY TidRange
    <3>2. \/ idx'[t] = idx[t] \/ idx'[t] = idx[t] + BlockThreads \/ idx'[t] = LinearTid(t)
      BY <1>2 DEF ThreadStep, LoadFirst, LoadNext, LoadTile, Multiply, EndTile, Store
    <3>3. kk'[t] = kk[t] \/ kk'[t] = kk[t] + 1
      BY <1>2 DEF ThreadStep, LoadFirst, LoadNext, LoadTile, Multiply, EndTile, Store
    <3>4. QED
      BY <1>1, <1>6, <3>1, <3>2, <3>3
  <2>2. QED
    BY <1>1, <1>6, <2>1 DEF TileLeft, Cursor
<1> DEFINE p == TurnsLeft(t) * (TileK + Cursor + 4)
<1>9. p' = p
  BY <1>3 DEF TurnsLeft, Cursor
<1>10. p \in Int
  <2>1. TurnsLeft(t) \in Nat /\ TileK + Cursor + 4 \in Nat
    BY TileLeftIs
  <2>2. QED
    BY <2>1, SMT
<1>11. Left(t) = p + TileLeft(t) /\ Left(t)' = p' + TileLeft(t)'
  BY DEF Left
<1> HIDE DEF p
<1>12. Left(t)' < Left(t)
  BY <1>7, <1>8, <1>9, <1>10, <1>11
<1>13. QED
  BY <1>3, <1>5, <1>12

(* The way through a barrier, to the next tile.                            *)
LEMMA BarrierLeftFalls ==
  ASSUME IInv, IInv', SyncFirst \/ SyncNext
  PROVE  waiting' = waiting /\ \A t \in Threads : Left(t)' < Left(t)
<1>1. /\ waiting' = waiting /\ kBase' = [t \in Threads |-> kBase[t] + TileK]
      /\ pc' = [t \in Threads |-> "multiply"]
      /\ \A t \in Threads : pc[t] \in {"syncFirst", "syncNext"}
  BY DEF SyncFirst, SyncNext
<1>2. ASSUME NEW t \in Threads PROVE Left(t)' < Left(t)
  <2> DEFINE m == TurnsLeft(t)
             b == TileK + Cursor + 4
             x == TileLeft(t)'
  <2>0. /\ m \in Nat \ {0} /\ TileK \in Nat \ {0} /\ Cursor \in Nat \ {0} /\ TotalK \in Nat \ {0}
    BY TileLeftIs, SizesPositive
  <2>1. TileLeft(t) = 1
    BY <1>1 DEF TileLeft
  <2>2. x \in 0 .. b - 1
    <3>1. pc'[t] = "multiply" /\ kk'[t] = 0
      BY <1>1 DEF SyncFirst, SyncNext
    <3>2. x = (TileK - 0) + Cursor + 3
      BY <3>1 DEF TileLeft, Cursor
    <3>3. QED
      BY <2>0, <3>2
  <2>3. m' < m /\ m' \in Nat
    <3>1. kBase'[t] = kBase[t] + TileK
      BY <1>1
    <3>2. kBase[t] \in Nat
      BY <2>0 DEF IInv, TypeOK
    <3>3. kBase'[t] \in 0 .. TotalK + TileK - 1
      BY DEF IInv, TypeOK
    <3>4. m = TotalK + TileK - kBase[t] /\ m' = TotalK + TileK - kBase'[t]
      BY DEF TurnsLeft
    <3> HIDE DEF m
    <3>5. QED
      BY <2>0, <3>1, <3>2, <3>3, <3>4
  <2>4. Left(t) = m * b + 1 /\ Left(t)' = m' * b + x
    BY <2>1 DEF Left, Cursor
  <2>5. b \in Nat \ {0}
    BY <2>0
  <2> HIDE DEF m, b, x
  <2>6. m' * b + x < m * b + 1
    BY <2>0, <2>2, <2>3, <2>5, TileEnds
  <2>7. QED
    BY <2>4, <2>6
<1>3. QED
  BY <1>1, <1>2

LEMMA GridFinite == IsFiniteSet(Grid)
<1>1. \A n \in Int : IsFiniteSet(0 .. n - 1)
  <2> TAKE n \in Int
  <2>1. n - 1 \in Int /\ 0 \in Int
    OBVIOUS
  <2>2. QED
    BY <2>1, FS_Interval
<1>2. /\ CeilDiv(InH, BlockX) \in Int /\ CeilDiv(InW, BlockY) \in Int
      /\ CeilDiv(OutC, BlockZ) \in Int
  BY BlockShape, ConvShape DEF CeilDiv
<1>3. /\ IsFiniteSet(0 .. CeilDiv(InH, BlockX) - 1)
      /\ IsFiniteSet(0 .. CeilDiv(InW, BlockY) - 1)
      /\ IsFiniteSet(0 .. CeilDiv(OutC, BlockZ) - 1)
  BY <1>1, <1>2
<1> DEFINE X == 0 .. CeilDiv(InH, BlockX) - 1
           Y == 0 .. CeilDiv(InW, BlockY) - 1
           Z == 0 .. CeilDiv(OutC, BlockZ) - 1
<1> HIDE DEF X, Y, Z
<1>4. IsFiniteSet((X \X Y) \X Z)
  BY <1>3, FS_Product DEF X, Y, Z
<1> DEFINE f == [p \in (X \X Y) \X Z |-> <<p[1][1], p[1][2], p[2]>>]
<1>5. f \in [(X \X Y) \X Z -> X \X Y \X Z]
  OBVIOUS
<1>6. \A g \in X \X Y \X Z : \E p \in (X \X Y) \X Z : f[p] = g
  <2> TAKE g \in X \X Y \X Z
  <2>1. <<<<g[1], g[2]>>, g[3]>> \in (X \X Y) \X Z
    OBVIOUS
  <2>2. f[<<<<g[1], g[2]>>, g[3]>>] = g
    BY <2>1
  <2>3. QED
    BY <2>1, <2>2
<1> HIDE DEF f
<1>7. f \in Surjection((X \X Y) \X Z, X \X Y \X Z)
  BY <1>5, <1>6 DEF Surjection
<1>8. IsFiniteSet(X \X Y \X Z)
  BY <1>4, <1>7, FS_Surjection
<1>9. QED
  BY <1>8 DEF Grid, X, Y, Z

(* What goes on is a block that has started, or one fewer waits.           *)
Progress ==
  \/ Cardinality(waiting') < Cardinality(waiting)
  \/ /\ waiting' = waiting
     /\ \A t \in Threads : Left(t)' <= Left(t)
     /\ \E t \in Threads : Left(t)' < Left(t)

LeftNat == \A t \in Threads : Left(t) \in Nat

LEMMA StepProgress ==
  ASSUME IInv, IInv', LeftNat, LeftNat', [Next]_vars
  PROVE  [Progress]_vars
<1> SUFFICES ASSUME Next, vars' # vars PROVE Progress
  OBVIOUS
<1>1. ASSUME NEW t \in Threads, ThreadStep(t) PROVE Progress
  <2>1. /\ waiting' = waiting
        /\ \A u \in Threads : u # t => Left(u)' = Left(u)
        /\ Left(t)' < Left(t)
    BY <1>1, ThreadLeftFalls
  <2>2. \A u \in Threads : Left(u) \in Nat /\ Left(u)' \in Nat
    BY DEF LeftNat
  <2> HIDE DEF Left
  <2>3. \A u \in Threads : Left(u)' <= Left(u)
    BY <2>1, <2>2
  <2>4. QED
    BY <2>1, <2>3 DEF Progress
<1>2. CASE SyncFirst \/ SyncNext
  <2>1. waiting' = waiting /\ \A t \in Threads : Left(t)' < Left(t)
    BY <1>2, BarrierLeftFalls
  <2>2. \A u \in Threads : Left(u) \in Nat /\ Left(u)' \in Nat
    BY DEF LeftNat
  <2>3. \E t : t \in Threads
    <3>1. 0 \in 0 .. BlockX - 1 /\ 0 \in 0 .. BlockY - 1 /\ 0 \in 0 .. BlockZ - 1
      BY BlockShape
    <3>2. <<0, 0, 0>> \in Threads
      BY <3>1 DEF Threads
    <3>3. QED
      BY <3>2
  <2> HIDE DEF Left
  <2>4. \A u \in Threads : Left(u)' <= Left(u)
    BY <2>1, <2>2
  <2>5. QED
    BY <2>1, <2>3, <2>4 DEF Progress
<1>3. CASE NextBlock
  <2>1. PICK b \in waiting : waiting' = waiting \ {b}
    BY <1>3 DEF NextBlock
  <2>2. IsFiniteSet(waiting)
    BY GridFinite, FS_Subset DEF IInv, TypeOK
  <2>3. Cardinality(waiting) \in Nat
    BY <2>2, FS_CardinalityType
  <2>4. Cardinality(waiting \ {b}) = Cardinality(waiting) - 1
    BY <2>2, FS_RemoveElement
  <2>5. Cardinality(waiting') < Cardinality(waiting)
    BY <2>1, <2>3, <2>4
  <2>6. QED
    BY <2>5 DEF Progress
<1>4. QED
  BY <1>1, <1>2, <1>3 DEF Next, Terminated

(* A launch cannot go on for ever: for every image, every block shape and  *)
(* every tile length, each step starts one of the finitely many blocks     *)
(* that wait, or is one of finitely many that a thread of the running      *)
(* block has left, at the expense of no other.                             *)
THEOREM LaunchWorkEnds ==
  Spec => /\ [](Cardinality(waiting) \in Nat /\ \A t \in Threads : Left(t) \in Nat)
          /\ [][Progress]_vars
<1>1. IInv => LeftNat
  BY LeftIs DEF LeftNat
<1>2. IInv => Cardinality(waiting) \in Nat
  BY GridFinite, FS_Subset, FS_CardinalityType DEF IInv, TypeOK
<1>3. LeftNat => \A t \in Threads : Left(t) \in Nat
  BY DEF LeftNat
<1>4. IInv /\ IInv' /\ LeftNat /\ LeftNat' /\ [Next]_vars => [Progress]_vars
  BY StepProgress
<1>5. QED
  BY <1>1, <1>2, <1>3, <1>4, InitInv, NextInv, PTL DEF Spec

-----------------------------------------------------------------------------
(* Bits.  And is a function that is defined by recursion on both its       *)
(* arguments; the approximations that are right up to a are right at a.    *)

(* Shifts are divisions by powers of two.                                  *)
LEMMA PowersOfTwo ==
  /\ Pow2 \in [Nat -> Nat \ {0}]
  /\ Pow2[0] = 1
  /\ \A n \in Nat : Pow2[n + 1] = 2 * Pow2[n]
<1> DEFINE op == [u \in Nat \ {0} |-> 2 * u]
<1>1. \A u \in Nat \ {0} : op[u] \in Nat \ {0} /\ op[u] = 2 * u
  OBVIOUS
<1> HIDE DEF op
<1> DEFINE S == Nat \ {0}
<1>2. PICK f \in [Nat -> S] : f[0] = 1 /\ \A n \in Nat : f[n + 1] = op[f[n]]
  <2>1. 1 \in S /\ \A u \in S : op[u] \in S
    BY <1>1
  <2> HIDE DEF S
  <2>2. HasRecursion(S, 1, op)
    BY <2>1, RecursionExists
  <2>3. QED
    BY <2>2 DEF HasRecursion
<1>3. f = [n \in Nat |-> IF n = 0 THEN 1 ELSE 2 * f[n - 1]]
  <2>1. \A n \in Nat : f[n] = IF n = 0 THEN 1 ELSE 2 * f[n - 1]
    <3> TAKE n \in Nat
    <3>1. CASE n = 0
      BY <1>2, <3>1
    <3>2. CASE n # 0
      <4>1. n - 1 \in Nat /\ (n - 1) + 1 = n
        BY <3>2
      <4>2. f[n] = op[f[n - 1]] /\ f[n - 1] \in S
        BY <1>2, <4>1
      <4>3. QED
        BY <1>1, <3>2, <4>2
    <3>3. QED
      BY <3>1, <3>2
  <2>2. QED
    BY <2>1
<1>4. Pow2 = [n \in Nat |-> IF n = 0 THEN 1 ELSE 2 * Pow2[n - 1]]
  BY <1>3 DEF Pow2
<1>5. Pow2[0] = 1 /\ \A n \in Nat : Pow2[n + 1] = 2 * Pow2[n]
  <2>1. \A n \in Nat : Pow2[n] = IF n = 0 THEN 1 ELSE 2 * Pow2[n - 1]
    BY <1>4
  <2>2. \A n \in Nat : n + 1 \in Nat /\ n + 1 # 0 /\ (n + 1) - 1 = n
    OBVIOUS
  <2>3. QED
    BY <2>1, <2>2
<1>6. \A n \in Nat : Pow2[n] \in S
  <2> TAKE n \in Nat
  <2> DEFINE T == {k \in 0 .. n : Pow2[k] \in S}
  <2>1. 0 \in T
    BY <1>5
  <2>2. \A k \in 0 .. n - 1 : k \in T => k + 1 \in T
    BY <1>5
  <2> HIDE DEF T
  <2>3. 0 .. n \subseteq T
    BY <2>1, <2>2, InductionUpTo
  <2>4. QED
    BY <2>3 DEF T
<1>7. Pow2 \in [Nat -> S]
  BY <1>4, <1>6
<1>8. QED
  BY <1>5, <1>7

(* What And is defined to be, and is.                                      *)
AndOf(g, a, b) ==
  IF a = 0 \/ b = 0 THEN 0 ELSE 2 * g[a \div 2][b \div 2] + (a % 2) * (b % 2)

LEMMA Halves ==
  ASSUME NEW a \in Nat
  PROVE  a \div 2 \in Nat /\ a % 2 \in 0 .. 1 /\ a = 2 * (a \div 2) + (a % 2)
         /\ (a # 0 => a \div 2 <= a - 1)
  BY SMT

LEMMA AndIs == \A a, b \in Nat : And[a][b] = AndOf(And, a, b)
<1> DEFINE S == [Nat -> [Nat -> Nat]]
           none == [a \in Nat |-> [b \in Nat |-> 0]]
           op == [g \in S |-> [a \in Nat |-> [b \in Nat |-> AndOf(g, a, b)]]]
<1>1. none \in S /\ \A g \in S : op[g] \in S
  <2>1. \A g \in S : \A a, b \in Nat : AndOf(g, a, b) \in Nat
    <3> TAKE g \in S
    <3> TAKE a, b \in Nat
    <3>1. a \div 2 \in Nat /\ b \div 2 \in Nat /\ a % 2 \in {0, 1} /\ b % 2 \in {0, 1}
      BY Halves
    <3>2. g[a \div 2][b \div 2] \in Nat
      BY <3>1
    <3>3. (a % 2) * (b % 2) \in Nat
      BY <3>1
    <3> DEFINE u == g[a \div 2][b \div 2]
               v == (a % 2) * (b % 2)
    <3>4. 2 * u + v \in Nat
      <4>1. u \in Nat /\ v \in Nat
        BY <3>2, <3>3
      <4> HIDE DEF u, v
      <4>2. QED
        BY <4>1
    <3> HIDE DEF u, v
    <3>5. AndOf(g, a, b) = IF a = 0 \/ b = 0 THEN 0 ELSE 2 * u + v
      BY DEF AndOf, u, v
    <3>6. QED
      BY <3>4, <3>5
  <2>2. QED
    BY <2>1
<1>2. \A g \in S : \A a, b \in Nat : op[g][a][b] = AndOf(g, a, b)
  OBVIOUS
<1>3. PICK s \in [Nat -> S] : s[0] = none /\ \A n \in Nat : s[n + 1] = op[s[n]]
  <2> HIDE DEF S, none, op
  <2>1. HasRecursion(S, none, op)
    BY <1>1, RecursionExists
  <2>2. QED
    BY <2>1 DEF HasRecursion
<1> HIDE DEF op
<1>4. \A n \in Nat : \A a, b \in Nat : s[n][a][b] \in Nat /\ s[n + 1][a][b] = AndOf(s[n], a, b)
  <2> TAKE n \in Nat
  <2> TAKE a, b \in Nat
  <2>1. n + 1 \in Nat /\ s[n] \in S /\ s[n + 1] = op[s[n]]
    <3> HIDE DEF S, none
    <3>1. QED
      BY <1>3
  <2>2. op[s[n]][a][b] = AndOf(s[n], a, b)
    <3> HIDE DEF S
    <3>1. QED
      BY <1>2, <2>1
  <2>3. s[n][a][b] \in Nat
    <3>1. s[n] \in [Nat -> [Nat -> Nat]]
      BY <2>1
    <3>2. s[n][a] \in [Nat -> Nat]
      BY <3>1
    <3>3. QED
      BY <3>2
  <2>4. QED
    BY <2>1, <2>2, <2>3
(* The value for a does not change after step a.                           *)
<1>5. ASSUME NEW n \in Nat
      PROVE  \A a \in 0 .. n : \A b \in Nat : s[n + 1][a][b] = s[n][a][b]
  <2> DEFINE T == {k \in 0 .. n : \A a \in 0 .. k : \A b \in Nat : s[k + 1][a][b] = s[k][a][b]}
  <2>1. 0 \in T
    <3>1. \A b \in Nat : s[0][0][b] = 0 /\ s[0 + 1][0][b] = AndOf(s[0], 0, b)
      <4>1. \A b \in Nat : none[0][b] = 0
        OBVIOUS
      <4>2. 0 \in Nat /\ s[0] = none
        BY <1>3
      <4> HIDE DEF none
      <4>3. QED
        BY <1>4, <4>1, <4>2
    <3>2. \A b \in Nat : AndOf(s[0], 0, b) = 0
      BY DEF AndOf
    <3>3. \A a \in 0 .. 0 : a = 0
      OBVIOUS
    <3>4. \A b \in Nat : s[0 + 1][0][b] = s[0][0][b]
      BY <3>1, <3>2
    <3>5. \A a \in 0 .. 0 : \A b \in Nat : s[0 + 1][a][b] = s[0][a][b]
      <4> TAKE a \in 0 .. 0
      <4>1. a = 0
        BY <3>3
      <4>2. QED
        BY <3>4, <4>1
    <3>6. 0 \in 0 .. n
      OBVIOUS
    <3>7. QED
      BY <3>5, <3>6
  <2>2. \A k \in 0 .. n - 1 : k \in T => k + 1 \in T
    <3> TAKE k \in 0 .. n - 1
    <3> HAVE k \in T
    <3>0. k + 1 \in 0 .. n
      OBVIOUS
    <3> SUFFICES ASSUME NEW a \in 0 .. k + 1, NEW b \in Nat
                 PROVE  s[k + 1 + 1][a][b] = s[k + 1][a][b]
      BY <3>0
    <3>1. /\ a \in Nat /\ k \in Nat /\ k + 1 \in Nat
          /\ s[k + 1 + 1][a][b] = AndOf(s[k + 1], a, b)
          /\ s[k + 1][a][b] = AndOf(s[k], a, b)
      <4>1. a \in Nat /\ k \in Nat /\ k + 1 \in Nat
        OBVIOUS
      <4>2. QED
        BY <1>4, <4>1
    <3>2. CASE a = 0 \/ b = 0
      BY <3>1, <3>2 DEF AndOf
    <3>3. CASE ~(a = 0 \/ b = 0)
      <4>1. a \div 2 \in 0 .. k /\ b \div 2 \in Nat
        <5>1. a # 0
          BY <3>3
        <5>2. a \div 2 \in Nat /\ a \div 2 <= a - 1 /\ b \div 2 \in Nat
          BY <3>1, <5>1, Halves
        <5> DEFINE h == a \div 2
        <5> HIDE DEF h
        <5>3. h \in Nat /\ h <= a - 1
          BY <5>2 DEF h
        <5>4. h \in 0 .. k
          BY <3>1, <5>3
        <5>5. QED
          BY <5>2, <5>4 DEF h
      <4>2. s[k + 1][a \div 2][b \div 2] = s[k][a \div 2][b \div 2]
        BY <4>1
      <4>3. QED
        BY <3>1, <4>2 DEF AndOf
    <3>4. QED
      BY <3>2, <3>3
  <2> HIDE DEF T
  <2>3. 0 .. n \subseteq T
    BY <2>1, <2>2, InductionUpTo
  <2>4. n \in 0 .. n
    OBVIOUS
  <2>5. n \in T
    BY <2>3, <2>4
  <2>6. QED
    BY <2>5 DEF T
<1>6. ASSUME NEW a \in Nat, NEW n \in Nat, a <= n, NEW b \in Nat
      PROVE  s[n][a][b] = s[a][a][b]
  <2> DEFINE T == {k \in 0 .. n : k < a \/ s[k][a][b] = s[a][a][b]}
  <2>1. 0 \in T
    <3>1. 0 \in 0 .. n /\ (0 < a \/ 0 = a)
      BY <1>6
    <3>2. QED
      BY <3>1
  <2>2. \A k \in 0 .. n - 1 : k \in T => k + 1 \in T
    <3> TAKE k \in 0 .. n - 1
    <3> HAVE k \in T
    <3>0. k \in Nat /\ k + 1 \in 0 .. n
      OBVIOUS
    <3>1. CASE k + 1 < a
      BY <3>0, <3>1
    <3>2. CASE k + 1 = a
      BY <3>0, <3>2
    <3>3. CASE k + 1 > a
      <4>1. a \in 0 .. k /\ k \in Nat
        BY <3>3
      <4>2. s[k + 1][a][b] = s[k][a][b]
        BY <1>5, <4>1
      <4>3. ~(k < a)
        BY <4>1
      <4>4. QED
        BY <3>0, <4>2, <4>3
    <3>4. QED
      BY <3>0, <3>1, <3>2, <3>3
  <2> HIDE DEF T
  <2>3. 0 .. n \subseteq T
    BY <2>1, <2>2, InductionUpTo
  <2>4. QED
    BY <1>6, <2>3 DEF T
<1> DEFINE f == [a \in Nat |-> [b \in Nat |-> s[a][a][b]]]
<1>7. \A a, b \in Nat : f[a][b] = s[a][a][b]
  OBVIOUS
<1>8. ASSUME NEW a \in Nat, NEW b \in Nat PROVE f[a][b] = AndOf(f, a, b)
  <2> HIDE DEF f
  <2>1. s[a][a][b] = s[a + 1][a][b]
    <3>1. a + 1 \in Nat /\ a <= a + 1
      OBVIOUS
    <3>2. QED
      BY <1>6, <3>1
  <2>2. s[a + 1][a][b] = AndOf(s[a], a, b)
    BY <1>4
  <2>3. AndOf(s[a], a, b) = AndOf(f, a, b)
    <3>1. CASE a = 0 \/ b = 0
      BY <3>1 DEF AndOf
    <3>2. CASE ~(a = 0 \/ b = 0)
      <4>1. a \div 2 \in Nat /\ a \div 2 <= a /\ b \div 2 \in Nat
        BY <3>2, Halves
      <4> DEFINE p == a \div 2
                 q == b \div 2
      <4> HIDE DEF p, q
      <4>2. p \in Nat /\ p <= a /\ q \in Nat
        BY <4>1 DEF p, q
      <4>3. s[a][p][q] = s[p][p][q] /\ f[p][q] = s[p][p][q]
        BY <1>6, <1>7, <4>2
      <4>4. QED
        BY <3>2, <4>3 DEF AndOf, p, q
    <3>3. QED
      BY <3>1, <3>2
  <2>4. QED
    BY <1>7, <2>1, <2>2, <2>3
<1>9. f = [a \in Nat |-> [b \in Nat |-> AndOf(f, a, b)]]
  <2> DEFINE e == [a \in Nat |-> [b \in Nat |-> AndOf(f, a, b)]]
  <2>1. \A a \in Nat : e[a] = [b \in Nat |-> AndOf(f, a, b)]
    OBVIOUS
  <2>2. \A a \in Nat : f[a] = [b \in Nat |-> s[a][a][b]]
    OBVIOUS
  <2>3. \A a \in Nat : f[a] = e[a]
    <3> TAKE a \in Nat
    <3>1. \A b \in Nat : s[a][a][b] = AndOf(f, a, b)
      <4> HIDE DEF f
      <4>1. QED
        BY <1>7, <1>8
    <3>2. QED
      BY <2>1, <2>2, <3>1
  <2>4. QED
    BY <2>3
<1> HIDE DEF f
<1>10. And = [a \in Nat |-> [b \in Nat |-> AndOf(And, a, b)]]
  BY <1>9 DEF And, AndOf
<1>11. \A a, b \in Nat : And[a][b] = AndOf(And, a, b)
  <2> DEFINE e == [a \in Nat |-> [b \in Nat |-> AndOf(And, a, b)]]
  <2>1. \A a, b \in Nat : e[a][b] = AndOf(And, a, b)
    OBVIOUS
  <2>2. And = e
    BY <1>10
  <2> HIDE DEF e
  <2>3. QED
    BY <2>1, <2>2
<1>12. QED
  BY <1>11

(* A mask of L ones keeps the remainder by 2^L.                            *)
LEMMA DoubleDivMod ==
  ASSUME NEW n \in Nat \ {0}, NEW i \in Nat
  PROVE  i % (2 * n) = 2 * ((i \div 2) % n) + (i % 2)
<1> DEFINE h == i \div 2
           r == i % 2
<1>1. h \in Nat /\ r \in 0 .. 1 /\ i = 2 * h + r
  BY Halves
<1> HIDE DEF h, r
<1> DEFINE q == h \div n
           m == h % n
<1>2. q \in Nat /\ m \in 0 .. n - 1 /\ h = q * n + m
  BY <1>1, DivMod
<1> HIDE DEF q, m
<1>3. i = q * (2 * n) + (2 * m + r)
  <2>1. 2 * (q * n) = q * (2 * n)
    BY <1>2, SMT
  <2>2. q * n \in Nat
    BY <1>2, SMT
  <2> DEFINE x == q * n
  <2>3. x \in Nat /\ h = x + m
    BY <1>2, <2>2
  <2> HIDE DEF x
  <2>4. i = 2 * x + (2 * m + r)
    BY <1>1, <1>2, <2>3
  <2>5. QED
    BY <2>1, <2>4 DEF x
<1>4. 2 * m + r \in 0 .. 2 * n - 1 /\ 2 * n \in Nat \ {0}
  BY <1>1, <1>2
<1>5. (q * (2 * n) + (2 * m + r)) % (2 * n) = 2 * m + r
  BY <1>2, <1>4, RadixDivMod
<1>6. QED
  BY <1>3, <1>5 DEF m, h, r

LEMMA AndMask ==
  ASSUME NEW n \in Nat
  PROVE  \A i \in Nat : And[i][Pow2[n] - 1] = i % Pow2[n]
<1> DEFINE T == {k \in 0 .. n : \A i \in Nat : And[i][Pow2[k] - 1] = i % Pow2[k]}
<1>1. 0 \in T
  <2> SUFFICES ASSUME NEW i \in Nat PROVE And[i][Pow2[0] - 1] = i % Pow2[0]
    OBVIOUS
  <2>1. Pow2[0] = 1 /\ And[i][0] = 0
    BY PowersOfTwo, AndIs DEF AndOf
  <2>2. i % 1 = 0
    BY SMT
  <2>3. QED
    BY <2>1, <2>2
<1>2. \A k \in 0 .. n - 1 : k \in T => k + 1 \in T
  <2> TAKE k \in 0 .. n - 1
  <2> HAVE k \in T
  <2>0. k \in Nat /\ k + 1 \in 0 .. n
    OBVIOUS
  <2> SUFFICES ASSUME NEW i \in Nat PROVE And[i][Pow2[k + 1] - 1] = i % Pow2[k + 1]
    BY <2>0
  <2> DEFINE p == Pow2[k]
             mask == 2 * p - 1
             h == i \div 2
  <2>1. p \in Nat \ {0} /\ Pow2[k + 1] = 2 * p
    BY <2>0, PowersOfTwo
  <2>2. And[h][p - 1] = h % p /\ h \in Nat
    BY Halves
  <2> HIDE DEF p, h
  <2>3. mask \in Nat /\ mask # 0 /\ mask = (p - 1) * 2 + 1 /\ p - 1 \in Nat
    BY <2>1
  <2>4. mask \div 2 = p - 1 /\ mask % 2 = 1
    BY <2>3, RadixDivMod
  <2> HIDE DEF mask
  <2>5. And[i][mask] = AndOf(And, i, mask)
    BY <2>3, AndIs
  <2>6. i % 2 \in Nat /\ (i % 2) * 1 = i % 2
    BY Halves
  <2>7. i % (2 * p) = 2 * (h % p) + (i % 2)
    BY <2>1, DoubleDivMod DEF h
  <2>8. CASE i = 0
    <3>1. And[i][mask] = 0
      BY <2>5, <2>8 DEF AndOf
    <3>2. 0 % (2 * p) = 0
      BY <2>1, SMT
    <3>3. QED
      BY <2>1, <2>8, <3>1, <3>2 DEF mask
  <2>9. CASE i # 0
    <3>1. And[i][mask] = 2 * And[h][p - 1] + (i % 2) * 1
      BY <2>3, <2>4, <2>5, <2>9 DEF AndOf, h
    <3>2. QED
      BY <2>1, <2>2, <2>6, <2>7, <3>1 DEF mask
  <2>10. QED
    BY <2>8, <2>9
<1> HIDE DEF T
<1>3. 0 .. n \subseteq T
  BY <1>1, <1>2, InductionUpTo
<1>4. n \in T
  BY <1>3
<1>5. QED
  BY <1>4 DEF T

(* A power of two divides every later one.                                 *)
LEMMA PowerDivides ==
  ASSUME NEW n \in Nat, NEW m \in 0 .. n
  PROVE  \E q \in Nat \ {0} : Pow2[n] = q * Pow2[m]
<1> DEFINE T == {k \in 0 .. n : k < m \/ \E q \in Nat \ {0} : Pow2[k] = q * Pow2[m]}
<1>0. Pow2[m] \in Nat \ {0} /\ m \in Nat
  BY PowersOfTwo
<1>1. 0 \in T
  <2>1. CASE m = 0
    <3>1. 1 \in Nat \ {0} /\ Pow2[0] = 1 * Pow2[m]
      BY <1>0, <2>1
    <3>2. QED
      BY <3>1
  <2>2. CASE m # 0
    BY <2>2
  <2>3. QED
    BY <2>1, <2>2
<1>2. \A k \in 0 .. n - 1 : k \in T => k + 1 \in T
  <2> TAKE k \in 0 .. n - 1
  <2> HAVE k \in T
  <2>0. k \in Nat /\ k + 1 \in 0 .. n
    OBVIOUS
  <2>1. CASE k + 1 < m
    BY <2>0, <2>1
  <2>2. CASE k + 1 = m
    <3>1. 1 \in Nat \ {0} /\ Pow2[k + 1] = 1 * Pow2[m]
      BY <1>0, <2>2
    <3>2. QED
      BY <2>0, <3>1
  <2>3. CASE k + 1 > m
    <3>1. ~(k < m)
      BY <1>0, <2>0, <2>3
    <3>2. PICK q \in Nat \ {0} : Pow2[k] = q * Pow2[m]
      BY <3>1
    <3>3. Pow2[k + 1] = 2 * (q * Pow2[m])
      BY <2>0, <3>2, PowersOfTwo
    <3>4. 2 * q \in Nat \ {0} /\ 2 * (q * Pow2[m]) = (2 * q) * Pow2[m]
      <4> DEFINE p == Pow2[m]
      <4>1. p \in Nat
        BY <1>0
      <4> HIDE DEF p
      <4>2. 2 * q \in Nat \ {0} /\ 2 * (q * p) = (2 * q) * p
        BY <4>1, SMT
      <4>3. QED
        BY <4>2 DEF p
    <3>5. QED
      BY <2>0, <3>3, <3>4
  <2>4. QED
    BY <1>0, <2>0, <2>1, <2>2, <2>3
<1> HIDE DEF T
<1>3. 0 .. n \subseteq T
  BY <1>1, <1>2, InductionUpTo
<1>4. n \in T /\ ~(n < m)
  BY <1>0, <1>3
<1>5. QED
  BY <1>4 DEF T

LEMMA PowerGrows ==
  ASSUME NEW n \in Nat
  PROVE  n < Pow2[n]
<1> DEFINE T == {k \in 0 .. n : k < Pow2[k]}
<1>1. 0 \in T
  BY PowersOfTwo
<1>2. \A k \in 0 .. n - 1 : k \in T => k + 1 \in T
  <2> TAKE k \in 0 .. n - 1
  <2> HAVE k \in T
  <2>1. k \in Nat /\ k < Pow2[k] /\ Pow2[k] \in Nat /\ Pow2[k + 1] = 2 * Pow2[k]
    BY PowersOfTwo
  <2>2. k + 1 \in 0 .. n /\ k + 1 < Pow2[k + 1]
    BY <2>1
  <2>3. QED
    BY <2>2
<1> HIDE DEF T
<1>3. 0 .. n \subseteq T
  BY <1>1, <1>2, InductionUpTo
<1>4. QED
  BY <1>3 DEF T

(* The lowest bit of a power of two is its only one.                       *)
LEMMA LowestBitIs ==
  ASSUME NEW n \in Nat
  PROVE  LowestBit(Pow2[n]) = n
<1> DEFINE p == Pow2[n]
           Only(b) == p % Pow2[b] = 0 /\ p % Pow2[b + 1] # 0
<1>1. p \in Nat \ {0} /\ n \in 0 .. p
  BY PowersOfTwo, PowerGrows
<1>2. \A b \in 0 .. n : p % Pow2[b] = 0
  <2> TAKE b \in 0 .. n
  <2>1. PICK q \in Nat \ {0} : p = q * Pow2[b]
    BY PowerDivides
  <2>2. Pow2[b] \in Nat \ {0}
    BY PowersOfTwo
  <2> DEFINE d == Pow2[b]
  <2> HIDE DEF d
  <2>3. 0 \in 0 .. d - 1 /\ d \in Nat \ {0} /\ q * d + 0 = q * d
    BY <2>2, SMT DEF d
  <2>4. (q * d + 0) % d = 0
    BY <2>3, RadixDivMod
  <2>5. QED
    BY <2>1, <2>3, <2>4 DEF d
<1>3. \A b \in Nat : b > n => p % Pow2[b] # 0
  <2> TAKE b \in Nat
  <2> HAVE b > n
  <2>1. n + 1 \in 0 .. b
    OBVIOUS
  <2>2. PICK q \in Nat \ {0} : Pow2[b] = q * Pow2[n + 1]
    BY <2>1, PowerDivides
  <2>3. Pow2[n + 1] = 2 * p
    BY PowersOfTwo
  <2> DEFINE d == Pow2[b]
  <2>4. d \in Nat \ {0} /\ d = q * (2 * p)
    BY <2>2, <2>3, PowersOfTwo
  <2> HIDE DEF d, p
  <2>5. p < d
    <3>1. q * (2 * p) >= 2 * p
      BY <1>1, SMT
    <3>2. QED
      BY <1>1, <2>4, <3>1
  <2>6. 0 * d + p = p /\ p \in 0 .. d - 1
    BY <1>1, <2>4, <2>5, SMT
  <2>7. (0 * d + p) % d = p
    BY <2>4, <2>6, RadixDivMod
  <2>8. QED
    BY <1>1, <2>6, <2>7 DEF d
<1> HIDE DEF p
<1>4. Only(n)
  BY <1>2, <1>3
<1>5. \A b \in 0 .. p : Only(b) => b = n
  <2> TAKE b \in 0 .. p
  <2> HAVE Only(b)
  <2>1. b \in Nat /\ b + 1 \in Nat
    BY <1>1
  <2>2. ~(b > n)
    BY <1>3, <2>1
  <2>3. ~(b + 1 \in 0 .. n)
    BY <1>2
  <2>4. QED
    BY <2>1, <2>2, <2>3
<1>6. LowestBit(p) = CHOOSE b \in 0 .. p : Only(b)
  BY DEF LowestBit
<1> HIDE DEF Only
<1>7. (CHOOSE b \in 0 .. p : Only(b)) = n
  BY <1>1, <1>4, <1>5
<1>8. QED
  BY <1>6, <1>7 DEF p

-----------------------------------------------------------------------------
(* What the accumulators hold.                                             *)

(* The filter cell and the channel that term k of the sum is about.        *)
Spatial(k) == k \div InC
FilterRow(k) == Spatial(k) \div 3
FilterCol(k) == Spatial(k) - FilterRow(k) * 3
Channel(k) == k - Spatial(k) * InC

(* The two factors of term k for the pixel and the channel of thread t of  *)
(* block b, and the sum of the first n terms.                              *)
FactorA(b, t, k) ==
  LET h == b[1] * BlockX + t[1]
      w == b[2] * BlockY + t[2]
      ih == h + FilterRow(k) - 1
      iw == w + FilterCol(k) - 1
  IN IF k < TotalK /\ h < InH /\ w < InW /\ ih \in Rows /\ iw \in Cols
     THEN <<"input", Nhwc(ih, iw, Channel(k), InC)>> ELSE Zero
FactorB(b, t, k) ==
  LET o == b[3] * BlockZ + t[3]
  IN IF k < TotalK /\ o < OutC THEN <<"weight", o * TotalK + k>> ELSE Zero
PartialSum(b, t, n) ==
  [i \in 1 .. n + 1 |-> IF i = 1 THEN Bias(b, t)
                        ELSE <<FactorA(b, t, i - 2), FactorB(b, t, i - 2)>>]

(* How many terms a thread has added.                                      *)
Added(t) == IF pc[t] = "multiply" THEN kBase[t] - TileK + kk[t] ELSE kBase[t]

(* Every accumulator is the sum of the first terms, and of all of them     *)
(* when it is stored.                                                      *)
SumsSoFar ==
  /\ DOMAIN acc = Threads
  /\ \A t \in Threads :
       /\ acc[t] = PartialSum(block, t, Added(t))
       /\ pc[t] = "multiply" => kBase[t] >= TileK
       /\ pc[t] = "store" => kBase[t] >= TotalK

(* The element of the output that a thread computes.                       *)
Element(b, t) == <<b[1] * BlockX + t[1], b[2] * BlockY + t[2], b[3] * BlockZ + t[3]>>
Pending(b, t) == b \in waiting \/ (b = block /\ pc[t] # "done")

(* What is in the output is right, and nothing is there yet of the threads *)
(* that are still to store.                                                *)
OutputRight ==
  /\ block \notin waiting
  /\ DOMAIN out = {OutIndex(e) : e \in Outputs}
  /\ \A e \in Outputs :
       out[OutIndex(e)] = <<>> \/ Value(out[OutIndex(e)]) = Convolved(e[1], e[2], e[3])
  /\ \A b \in Grid, t \in Threads :
       Element(b, t) \in Outputs /\ Pending(b, t) => out[OutIndex(Element(b, t))] = <<>>

-----------------------------------------------------------------------------
(* LOAD_TILE's index arithmetic.                                           *)

LEMMA Ranges ==
  ASSUME NEW t \in Threads
  PROVE  /\ t = <<t[1], t[2], t[3]>>
         /\ t[1] \in 0 .. BlockX - 1 /\ t[2] \in 0 .. BlockY - 1 /\ t[3] \in 0 .. BlockZ - 1
         /\ t[1] \in Nat /\ t[2] \in Nat /\ t[3] \in Nat
  BY BlockShape DEF Threads

LEMMA BlockRanges ==
  ASSUME NEW b \in Grid
  PROVE  /\ b = <<b[1], b[2], b[3]>>
         /\ b[1] \in Nat /\ b[2] \in Nat /\ b[3] \in Nat
  BY DEF Grid

LEMMA ElementNat ==
  ASSUME NEW b \in Grid, NEW t \in Threads
  PROVE  /\ b[1] * BlockX + t[1] \in Nat
         /\ b[2] * BlockY + t[2] \in Nat
         /\ b[3] * BlockZ + t[3] \in Nat
<1>1. \A m, n, r \in Nat : m * n + r \in Nat
  BY SMT
<1>2. QED
  BY <1>1, Ranges, BlockRanges, BlockShape

(* The thread's own row of tile A and column of tile B.                    *)
LEMMA RowOfTile ==
  ASSUME BlockXPowerOfTwo, NEW t \in Threads, NEW k \in 0 .. TileK - 1
  PROVE  LET i == LocalHw(t) * TileK + k
         IN /\ i \in Nat
            /\ And[i][TileK - 1] = k
            /\ LocalRow(i \div TileK, BlockX) = t[1]
            /\ LocalCol(i \div TileK, BlockX) = t[2]
<1> DEFINE hw == LocalHw(t)
           i == hw * TileK + k
<1>1. hw \in Nat /\ hw = t[2] * BlockX + t[1]
  <2>1. \A m, n, r \in Nat : m * n + r \in Nat
    BY SMT
  <2>2. QED
    BY <2>1, Ranges, BlockShape DEF LocalHw
<1>2. i \div TileK = hw /\ i % TileK = k /\ i \in Nat
  <2> HIDE DEF hw
  <2>1. \A m, n, r \in Nat : m * n + r \in Nat
    BY SMT
  <2>2. i \in Nat
    BY <1>1, <2>1, TileShape
  <2>3. i \div TileK = hw /\ i % TileK = k
    BY <1>1, RadixDivMod, TileShape
  <2>4. QED
    BY <2>2, <2>3
<1> HIDE DEF hw, i
<1>3. And[i][TileK - 1] = k
  BY <1>2, AndMask, TileShape
<1>4. PICK n \in Nat : BlockX = Pow2[n]
  BY BlockShape DEF BlockXPowerOfTwo
<1>5. hw % BlockX = t[1] /\ hw \div BlockX = t[2]
  BY <1>1, RadixDivMod, Ranges, BlockShape
<1>6. LocalRow(hw, BlockX) = t[1]
  BY <1>1, <1>4, <1>5, AndMask DEF LocalRow
<1>7. LocalCol(hw, BlockX) = t[2]
  BY <1>4, <1>5, LowestBitIs DEF LocalCol
<1>8. QED
  BY <1>2, <1>3, <1>6, <1>7 DEF i, hw

LEMMA ColOfTile ==
  ASSUME NEW t \in Threads, NEW k \in 0 .. TileK - 1
  PROVE  LET i == t[3] * TileK + k
         IN And[i][TileK - 1] = k /\ i \div TileK = t[3]
<1> DEFINE i == t[3] * TileK + k
<1>1. i \div TileK = t[3] /\ i % TileK = k
  BY RadixDivMod, Ranges, TileShape
<1>2. i \in Nat
  <2>1. \A m, n, r \in Nat : m * n + r \in Nat
    BY SMT
  <2>2. QED
    BY <2>1, Ranges, TileShape
<1> HIDE DEF i
<1>3. And[i][TileK - 1] = k
  BY <1>1, <1>2, AndMask, TileShape
<1>4. QED
  BY <1>1, <1>3 DEF i

(* A term is a filter cell and a channel.                                  *)
LEMMA CellOfTerm ==
  ASSUME NEW k \in 0 .. TotalK - 1
  PROVE  /\ FilterRow(k) \in 0 .. 2 /\ FilterCol(k) \in 0 .. 2 /\ Channel(k) \in InChannels
         /\ k = (FilterRow(k) * 3 + FilterCol(k)) * InC + Channel(k)
<1>1. k \in Nat /\ TotalK = 9 * InC /\ InC \in Nat \ {0}
  BY ConvShape DEF TotalK
<1> DEFINE s == k \div InC
           c == k % InC
           a == s \div 3
           d == s % 3
<1>2. s \in Nat /\ c \in 0 .. InC - 1 /\ k = s * InC + c
  BY <1>1, DivMod
<1>3. a \in Nat /\ d \in 0 .. 2 /\ s = a * 3 + d
  <2> HIDE DEF s
  <2>1. QED
    BY <1>2, DivMod
<1>4. Spatial(k) = s /\ FilterRow(k) = a
  BY DEF Spatial, FilterRow
<1> HIDE DEF s, c, a, d
<1>5. s < 9
  <2>1. s * InC < 9 * InC
    BY <1>1, <1>2, SMT
  <2>2. QED
    BY <1>1, <1>2, <2>1, SMT
<1>6. Channel(k) = c
  <2>1. s * InC \in Nat
    BY <1>1, <1>2, SMT
  <2> DEFINE x == s * InC
  <2>2. x \in Nat /\ k = x + c
    BY <1>2, <2>1
  <2> HIDE DEF x
  <2>3. k - x = c
    BY <1>1, <1>2, <2>2
  <2>4. QED
    BY <1>4, <2>3 DEF Channel, x
<1>7. FilterCol(k) = d /\ a \in 0 .. 2
  BY <1>3, <1>4, <1>5 DEF FilterCol
<1>8. QED
  BY <1>2, <1>3, <1>4, <1>6, <1>7 DEF InChannels

LEMMA TermOfCell ==
  ASSUME NEW a \in 0 .. 2, NEW d \in 0 .. 2, NEW c \in InChannels
  PROVE  LET k == (a * 3 + d) * InC + c
         IN /\ k \in 0 .. TotalK - 1
            /\ FilterRow(k) = a /\ FilterCol(k) = d /\ Channel(k) = c
<1> DEFINE s == a * 3 + d
           k == s * InC + c
<1>1. s \in 0 .. 8 /\ s \div 3 = a /\ s - a * 3 = d /\ c \in 0 .. InC - 1 /\ InC \in Nat \ {0}
  BY ConvShape DEF InChannels
<1> HIDE DEF s
<1>2. k \div InC = s
  BY <1>1, RadixDivMod
<1>3. k \in 0 .. 9 * InC - 1
  BY <1>1, RadixRange
<1>4. k - s * InC = c
  <2>1. s * InC \in Nat
    BY <1>1, SMT
  <2>2. QED
    BY <1>1, <2>1
<1> HIDE DEF k
<1>5. Spatial(k) = s
  BY <1>2 DEF Spatial
<1>6. QED
  BY <1>1, <1>3, <1>4, <1>5 DEF FilterRow, FilterCol, Channel, TotalK, k, s

(* Positions of elements that exist are less than a word.                  *)
LEMMA NhwcFits ==
  ASSUME PositionsFit, NEW h \in Rows, NEW w \in Cols, NEW C \in {InC, OutC}, NEW c \in 0 .. C - 1
  PROVE  Nhwc(h, w, c, C) \in 0 .. Word - 1 /\ Nhwc(h, w, c, C) % Word = Nhwc(h, w, c, C)
<1>1. /\ h \in 0 .. InH - 1 /\ w \in 0 .. InW - 1 /\ InH \in Nat \ {0} /\ InW \in Nat \ {0}
      /\ C \in Nat \ {0} /\ (InH * InW) * C <= Word /\ Word \in Nat \ {0}
  BY ConvShape, WordSize DEF PositionsFit, Rows, Cols
<1>2. h * InW + w \in 0 .. InH * InW - 1 /\ InH * InW \in Nat \ {0}
  BY <1>1, RadixRange, SMT
<1> DEFINE x == h * InW + w
           n == InH * InW
<1>3. x \in 0 .. n - 1 /\ n \in Nat \ {0} /\ n * C <= Word
  BY <1>1, <1>2
<1> HIDE DEF x, n
<1>4. x * C + c \in 0 .. n * C - 1
  BY <1>1, <1>3, RadixRange
<1>5. n * C \in Nat
  BY <1>1, <1>3, SMT
<1> DEFINE y == x * C + c
           m == n * C
<1>6. y \in 0 .. m - 1 /\ m \in Nat /\ m <= Word
  BY <1>3, <1>4, <1>5
<1> HIDE DEF y, m
<1>7. y \in 0 .. Word - 1
  BY <1>1, <1>6
<1>8. y % Word = y
  BY <1>1, <1>7, SmallMod
<1>9. Nhwc(h, w, c, C) = y
  BY DEF Nhwc, x, y
<1>10. QED
  BY <1>7, <1>8, <1>9

(* Row -1 and row InH fail the test of the source.                         *)
LEMMA Wrap ==
  ASSUME NEW n \in Nat \ {0}, n < Word, NEW h \in 0 .. n - 1, NEW f \in 0 .. 2
  PROVE  /\ (h + f - 1) % Word < n <=> h + f - 1 \in 0 .. n - 1
         /\ h + f - 1 \in 0 .. n - 1 => (h + f - 1) % Word = h + f - 1
<1>1. CASE h + f - 1 \in 0 .. Word - 1
  <2>1. (h + f - 1) % Word = h + f - 1
    BY <1>1, SmallMod, WordSize
  <2>2. QED
    BY <1>1, <2>1, WordSize
<1>2. CASE h + f - 1 \notin 0 .. Word - 1
  <2>1. h + f - 1 = 0 - 1
    BY <1>2, WordSize
  <2>2. (0 - 1) % Word = Word - 1
    BY WordSize, SMT
  <2>3. QED
    BY <2>1, <2>2, WordSize
<1>3. QED
  BY <1>1, <1>2

LEMMA ValAIs ==
  ASSUME BlockXPowerOfTwo, PositionsFit,
         NEW b \in Grid, NEW t \in Threads, NEW base \in Nat, NEW k \in 0 .. TileK - 1
  PROVE  ValA(b, base, LocalHw(t) * TileK + k) = FactorA(b, t, base + k)
<1> DEFINE i == LocalHw(t) * TileK + k
           n == base + k
           h == b[1] * BlockX + t[1]
           w == b[2] * BlockY + t[2]
           a == FilterRow(n)
           d == FilterCol(n)
           c == Channel(n)
           ih == (h + a - 1) % Word
           iw == (w + d - 1) % Word
<1>1. KOf(base, i) = n
  BY RowOfTile DEF KOf
<1>2. i \div Pow2[LogTileK] = i \div TileK
  BY TileShape
<1>3. ValA(b, base, i) =
        IF n < TotalK /\ h < InH /\ w < InW /\ ih < InH /\ iw < InW
        THEN <<"input", Nhwc(ih, iw, c, InC) % Word>> ELSE Zero
  <2>1. LocalRow(i \div TileK, BlockX) = t[1] /\ LocalCol(i \div TileK, BlockX) = t[2]
    BY RowOfTile
  <2> HIDE DEF i, n
  <2>2. ValA(b, base, i) =
          LET hh      == b[1] * BlockX + LocalRow(i \div TileK, BlockX)
              ww      == b[2] * BlockY + LocalCol(i \div TileK, BlockX)
              spatial == n \div InC
              fh      == spatial \div 3
              fw      == spatial - fh * 3
              ii      == (hh + fh - 1) % Word
              jj      == (ww + fw - 1) % Word
          IN IF n < TotalK /\ hh < InH /\ ww < InW /\ ii < InH /\ jj < InW
             THEN <<"input", Nhwc(ii, jj, n - spatial * InC, InC) % Word>> ELSE Zero
    BY <1>1, <1>2 DEF ValA
  <2>3. QED
    BY <2>1, <2>2 DEF FilterRow, FilterCol, Channel, Spatial
<1>4. h \in Nat /\ w \in Nat /\ n \in Nat
  BY ElementNat
<1>5. InH \in Nat \ {0} /\ InW \in Nat \ {0} /\ InH < Word /\ InW < Word
  BY ConvShape DEF PositionsFit
<1>6. ASSUME n < TotalK /\ h < InH /\ w < InW
      PROVE  ValA(b, base, i) = FactorA(b, t, n)
  <2>1. n \in 0 .. TotalK - 1
    BY <1>4, <1>6, SizesPositive
  <2>2. a \in 0 .. 2 /\ d \in 0 .. 2 /\ c \in InChannels
    <3> HIDE DEF n
    <3>1. QED
      BY <2>1, CellOfTerm
  <2>3. h \in 0 .. InH - 1 /\ w \in 0 .. InW - 1
    BY <1>4, <1>5, <1>6
  <2> HIDE DEF h, w, a, d, c
  <2>4. /\ ih < InH <=> h + a - 1 \in Rows
        /\ h + a - 1 \in Rows => ih = h + a - 1
    BY <1>5, <2>2, <2>3, Wrap DEF Rows
  <2>5. /\ iw < InW <=> w + d - 1 \in Cols
        /\ w + d - 1 \in Cols => iw = w + d - 1
    BY <1>5, <2>2, <2>3, Wrap DEF Cols
  <2> HIDE DEF ih, iw, i, n
  <2>6. FactorA(b, t, n) = IF h + a - 1 \in Rows /\ w + d - 1 \in Cols
                           THEN <<"input", Nhwc(h + a - 1, w + d - 1, c, InC)>> ELSE Zero
    BY <1>6 DEF FactorA, h, w, a, d, c
  <2>7. CASE h + a - 1 \in Rows /\ w + d - 1 \in Cols
    <3>1. Nhwc(ih, iw, c, InC) % Word = Nhwc(h + a - 1, w + d - 1, c, InC)
      BY <2>2, <2>4, <2>5, <2>7, NhwcFits DEF InChannels
    <3>2. QED
      BY <1>3, <1>6, <2>4, <2>5, <2>6, <2>7, <3>1
  <2>8. CASE ~(h + a - 1 \in Rows /\ w + d - 1 \in Cols)
    BY <1>3, <2>4, <2>5, <2>6, <2>8
  <2>9. QED
    BY <2>7, <2>8
<1>7. ASSUME ~(n < TotalK /\ h < InH /\ w < InW)
      PROVE  ValA(b, base, i) = FactorA(b, t, n)
  <2>1. FactorA(b, t, n) = Zero
    BY <1>7 DEF FactorA
  <2> HIDE DEF h, w, n, i, ih, iw
  <2>2. ValA(b, base, i) = Zero
    BY <1>3, <1>7
  <2>3. QED
    BY <2>1, <2>2
<1>8. QED
  BY <1>6, <1>7

LEMMA ValBIs ==
  ASSUME PositionsFit,
         NEW b \in Grid, NEW t \in Threads, NEW base \in Nat, NEW k \in 0 .. TileK - 1
  PROVE  ValB(b, base, t[3] * TileK + k) = FactorB(b, t, base + k)
<1> DEFINE i == t[3] * TileK + k
           n == base + k
           o == b[3] * BlockZ + t[3]
<1>1. KOf(base, i) = n /\ i \div Pow2[LogTileK] = t[3]
  BY ColOfTile, TileShape DEF KOf
<1>2. ValB(b, base, i) = IF n < TotalK /\ o < OutC THEN <<"weight", (o * TotalK + n) % Word>> ELSE Zero
  <2> HIDE DEF i, n
  <2>1. QED
    BY <1>1 DEF ValB
<1>3. o \in Nat /\ n \in Nat
  BY ElementNat
<1>4. ASSUME n < TotalK, o < OutC PROVE (o * TotalK + n) % Word = o * TotalK + n
  <2>1. /\ OutC \in Nat \ {0} /\ TotalK \in Nat \ {0} /\ o \in 0 .. OutC - 1 /\ n \in 0 .. TotalK - 1
        /\ OutC * TotalK <= Word /\ Word \in Nat \ {0}
    BY <1>3, <1>4, ConvShape, SizesPositive, WordSize DEF PositionsFit
  <2> HIDE DEF o, n
  <2>2. o * TotalK + n \in 0 .. OutC * TotalK - 1 /\ OutC * TotalK \in Nat
    BY <2>1, RadixRange, SMT
  <2> DEFINE x == o * TotalK + n
             m == OutC * TotalK
  <2>3. x \in 0 .. m - 1 /\ m \in Nat /\ m <= Word
    BY <2>1, <2>2
  <2> HIDE DEF x, m
  <2>4. x \in 0 .. Word - 1
    BY <2>1, <2>3
  <2>5. x % Word = x
    BY <2>1, <2>4, SmallMod
  <2>6. QED
    BY <2>5 DEF x
<1> HIDE DEF i, n, o
<1>5. FactorB(b, t, n) = IF n < TotalK /\ o < OutC THEN <<"weight", o * TotalK + n>> ELSE Zero
  BY DEF FactorB, o
<1>6. QED
  BY <1>2, <1>4, <1>5 DEF i, n
-----------------------------------------------------------------------------
(* A sum of at least all terms is the convolution.                         *)

LEMMA WeightPosition ==
  ASSUME NEW o \in Nat, NEW k \in 0 .. TotalK - 1
  PROVE  Krsc(o, FilterRow(k), FilterCol(k), Channel(k)) = o * TotalK + k
<1> DEFINE a == FilterRow(k)
           d == FilterCol(k)
           c == Channel(k)
<1>1. /\ a \in 0 .. 2 /\ d \in 0 .. 2 /\ c \in Nat /\ k = (a * 3 + d) * InC + c
      /\ InC \in Nat /\ TotalK = 9 * InC
  BY CellOfTerm, ConvShape DEF InChannels, TotalK
<1> HIDE DEF a, d, c
<1>2. ((o * 3 + a) * 3 + d) * InC + c = o * (9 * InC) + ((a * 3 + d) * InC + c)
  <2>1. (o * 3 + a) * 3 + d = 9 * o + (a * 3 + d)
    BY <1>1, SMT
  <2>2. \A u, v, m \in Nat : (9 * u + v) * m = u * (9 * m) + v * m
    BY SMT
  <2> DEFINE v == a * 3 + d
  <2>3. v \in Nat
    BY <1>1
  <2> HIDE DEF v
  <2>4. (9 * o + v) * InC = o * (9 * InC) + v * InC
    BY <1>1, <2>2, <2>3
  <2>5. o * (9 * InC) \in Nat /\ v * InC \in Nat
    BY <1>1, <2>3, SMT
  <2> DEFINE x == o * (9 * InC)
             y == v * InC
  <2>6. x \in Nat /\ y \in Nat /\ (9 * o + v) * InC = x + y
    BY <2>4, <2>5
  <2> HIDE DEF x, y
  <2>7. (9 * o + v) * InC + c = x + (y + c)
    BY <1>1, <2>6
  <2>8. QED
    BY <2>1, <2>7 DEF x, y, v
<1>3. QED
  BY <1>1, <1>2 DEF Krsc, a, d, c

LEMMA SumIsConvolution ==
  ASSUME NEW b \in Grid, NEW t \in Threads, NEW n \in Nat, n >= TotalK,
         Element(b, t) \in Outputs
  PROVE  LET e == Element(b, t)
         IN Value(PartialSum(b, t, n)) = Convolved(e[1], e[2], e[3])
<1> DEFINE h == b[1] * BlockX + t[1]
           w == b[2] * BlockY + t[2]
           o == b[3] * BlockZ + t[3]
           s == PartialSum(b, t, n)
           T == {i \in 2 .. Len(s) : Nonzero(s[i])}
           Pair(i) == <<s[i][1][2], s[i][2][2]>>
           Reaches(k) == h + FilterRow(k) - 1 \in Rows /\ w + FilterCol(k) - 1 \in Cols
           TapOf(k) == <<Nhwc(h + FilterRow(k) - 1, w + FilterCol(k) - 1, Channel(k), InC),
                         o * TotalK + k>>
<1>1. /\ h \in Rows /\ w \in Cols /\ o \in OutChannels
      /\ h < InH /\ w < InW /\ o < OutC /\ o \in Nat
      /\ TotalK \in Nat \ {0} /\ InC \in Nat \ {0}
  <2>1. h \in Rows /\ w \in Cols /\ o \in OutChannels
    BY DEF Element, Outputs
  <2> HIDE DEF h, w, o
  <2>2. QED
    BY <2>1, ConvShape, SizesPositive DEF Rows, Cols, OutChannels
<1>2. /\ Len(s) = n + 1
      /\ s[1] = <<"bias", o>>
      /\ \A i \in 2 .. n + 1 : s[i] = <<FactorA(b, t, i - 2), FactorB(b, t, i - 2)>>
  <2>1. s = [i \in 1 .. n + 1 |-> IF i = 1 THEN Bias(b, t)
                                  ELSE <<FactorA(b, t, i - 2), FactorB(b, t, i - 2)>>]
    BY DEF PartialSum
  <2>2. Bias(b, t) = <<"bias", o>>
    BY <1>1 DEF Bias
  <2> HIDE DEF s
  <2>3. Len(s) = n + 1
    BY <2>1
  <2>4. QED
    BY <2>1, <2>2, <2>3
<1> HIDE DEF s
<1>3. ASSUME NEW i \in 2 .. n + 1
      PROVE  /\ Nonzero(s[i]) <=> i - 2 \in 0 .. TotalK - 1 /\ Reaches(i - 2)
             /\ Nonzero(s[i]) => Pair(i) = TapOf(i - 2)
  <2> DEFINE k == i - 2
  <2>1. k \in Nat /\ (k < TotalK <=> k \in 0 .. TotalK - 1)
    BY <1>1
  <2> HIDE DEF k
  <2>2. s[i] = <<FactorA(b, t, k), FactorB(b, t, k)>>
    BY <1>2 DEF k
  <2>3. FactorA(b, t, k) = IF k < TotalK /\ Reaches(k)
                           THEN <<"input", Nhwc(h + FilterRow(k) - 1, w + FilterCol(k) - 1, Channel(k), InC)>>
                           ELSE Zero
    BY <1>1 DEF FactorA
  <2>4. FactorB(b, t, k) = IF k < TotalK THEN <<"weight", o * TotalK + k>> ELSE Zero
    BY <1>1 DEF FactorB
  <2> HIDE DEF h, w, o, Reaches
  <2>5. CASE k < TotalK /\ Reaches(k)
    <3>1. Nonzero(s[i])
      BY <2>2, <2>3, <2>4, <2>5 DEF Nonzero, Zero
    <3>2. Pair(i) = TapOf(k)
      BY <2>2, <2>3, <2>4, <2>5
    <3>3. QED
      BY <2>1, <2>5, <3>1, <3>2 DEF k
  <2>6. CASE ~(k < TotalK /\ Reaches(k))
    <3>1. ~Nonzero(s[i])
      BY <2>2, <2>3, <2>4, <2>6 DEF Nonzero
    <3>2. QED
      BY <2>1, <2>6, <3>1 DEF k
  <2>7. QED
    BY <2>5, <2>6
<1>4. T = {i \in 2 .. n + 1 : i - 2 \in 0 .. TotalK - 1 /\ Reaches(i - 2)}
  <2> HIDE DEF Reaches
  <2>1. QED
    BY <1>2, <1>3
<1>5. \A i \in T : Pair(i) = TapOf(i - 2)
  <2> HIDE DEF Pair, TapOf, Reaches
  <2>1. QED
    BY <1>2, <1>3
(* The taps are those of the terms that reach the image.                   *)
<1>6. Taps(h, w, o) = {Pair(i) : i \in T}
  <2> DEFINE cells == {f \in (0 .. 2) \X (0 .. 2) \X InChannels :
                         h + f[1] - 1 \in Rows /\ w + f[2] - 1 \in Cols}
             Tap(f) == <<Nhwc(h + f[1] - 1, w + f[2] - 1, f[3], InC), Krsc(o, f[1], f[2], f[3])>>
  <2>1. Taps(h, w, o) = {Tap(f) : f \in cells}
    BY DEF Taps
  <2>2. ASSUME NEW f \in cells PROVE \E i \in T : Tap(f) = Pair(i)
    <3>1. f[1] \in 0 .. 2 /\ f[2] \in 0 .. 2 /\ f[3] \in InChannels
      OBVIOUS
    <3> DEFINE k == (f[1] * 3 + f[2]) * InC + f[3]
    <3>2. k \in 0 .. TotalK - 1 /\ FilterRow(k) = f[1] /\ FilterCol(k) = f[2] /\ Channel(k) = f[3]
      BY <3>1, TermOfCell
    <3> HIDE DEF k
    <3>3. Krsc(o, f[1], f[2], f[3]) = o * TotalK + k
      BY <1>1, <3>2, WeightPosition
    <3>4. Reaches(k)
      BY <3>2
    <3>5. Tap(f) = TapOf(k)
      BY <3>2, <3>3
    <3> HIDE DEF Tap, TapOf, Reaches, Pair, T
    <3>6. k + 2 \in 2 .. n + 1 /\ (k + 2) - 2 = k
      BY <1>1, <3>2
    <3>7. k + 2 \in T
      BY <1>4, <3>2, <3>4, <3>6
    <3>8. QED
      BY <1>5, <3>5, <3>6, <3>7
  <2>3. ASSUME NEW i \in T PROVE \E f \in cells : Tap(f) = Pair(i)
    <3> DEFINE k == i - 2
               f == <<FilterRow(k), FilterCol(k), Channel(k)>>
    <3>1. k \in 0 .. TotalK - 1 /\ Reaches(k) /\ Pair(i) = TapOf(k)
      <4> HIDE DEF Reaches, TapOf, Pair
      <4>1. QED
        BY <1>4, <1>5
    <3> HIDE DEF k
    <3>2. f \in cells
      BY <3>1, CellOfTerm
    <3>3. Tap(f) = TapOf(k)
      BY <1>1, <3>1, WeightPosition
    <3>4. QED
      BY <3>1, <3>2, <3>3
  <2> HIDE DEF cells, Tap, T, Pair
  <2>4. QED
    BY <2>1, <2>2, <2>3
(* A tap names its weight, and the weight its term.                        *)
<1>7. \A i, j \in T : Pair(i) = Pair(j) => i = j
  <2> SUFFICES ASSUME NEW i \in T, NEW j \in T, Pair(i) = Pair(j) PROVE i = j
    OBVIOUS
  <2>1. TapOf(i - 2) = TapOf(j - 2) /\ i \in 2 .. n + 1 /\ j \in 2 .. n + 1
    <3> HIDE DEF Pair, TapOf, Reaches
    <3>1. QED
      BY <1>4, <1>5
  <2>2. o * TotalK + (i - 2) = o * TotalK + (j - 2)
    BY <2>1
  <2>3. o * TotalK \in Nat
    BY <1>1, SMT
  <2> HIDE DEF o, T, Pair, TapOf
  <2>4. QED
    BY <2>1, <2>2, <2>3
<1> HIDE DEF Pair, TapOf, Reaches
<1>8. IsFiniteSet(T)
  <2>1. IsFiniteSet(2 .. n + 1)
    BY FS_Interval
  <2>2. T \subseteq 2 .. n + 1
    BY <1>4
  <2>3. QED
    BY <2>1, <2>2, FS_Subset
<1> HIDE DEF T
<1>9. Cardinality(Taps(h, w, o)) = Cardinality(T)
  <2> DEFINE F == [i \in T |-> Pair(i)]
             D == Taps(h, w, o)
  <2>1. F \in [T -> D] /\ \A i \in T : F[i] = Pair(i)
    BY <1>6
  <2> HIDE DEF F, D
  <2>2. F \in Injection(T, D)
    BY <1>7, <2>1 DEF Injection, IsInjective
  <2>3. F \in Surjection(T, D)
    BY <1>6, <2>1 DEF Surjection, D
  <2>4. ExistsBijection(T, D)
    BY <2>2, <2>3 DEF Bijection, ExistsBijection
  <2>5. QED
    BY <1>8, <2>4, FS_Bijection DEF D
<1>10. Value(s) = [bias |-> o, taps |-> {Pair(i) : i \in T}, terms |-> Cardinality(T)]
  BY <1>2 DEF Value, T, Pair
<1>11. Value(s) = Convolved(h, w, o)
  BY <1>6, <1>9, <1>10 DEF Convolved
<1>12. QED
  BY <1>11 DEF Element, s
-----------------------------------------------------------------------------
(* The invariants of the sums and of the output.                           *)

LEMMA SumGrows ==
  ASSUME NEW b, NEW t, NEW n \in Nat
  PROVE  Append(PartialSum(b, t, n), <<FactorA(b, t, n), FactorB(b, t, n)>>)
           = PartialSum(b, t, n + 1)
<1> DEFINE el(i) == IF i = 1 THEN Bias(b, t) ELSE <<FactorA(b, t, i - 2), FactorB(b, t, i - 2)>>
           s == [i \in 1 .. n + 1 |-> el(i)]
           S == {el(i) : i \in 1 .. n + 2}
<1>1. el(n + 2) = <<FactorA(b, t, n), FactorB(b, t, n)>>
  <2>1. n + 2 # 1 /\ (n + 2) - 2 = n
    OBVIOUS
  <2>2. QED
    BY <2>1
<1>2. PartialSum(b, t, n) = s /\ PartialSum(b, t, n + 1) = [i \in 1 .. n + 2 |-> el(i)]
  <2>1. (n + 1) + 1 = n + 2
    OBVIOUS
  <2>2. QED
    BY <2>1 DEF PartialSum
<1> HIDE DEF el
<1>3. s \in Seq(S) /\ el(n + 2) \in S /\ Len(s) = n + 1
  <2>1. \A i \in 1 .. n + 1 : el(i) \in S
    OBVIOUS
  <2>2. s \in [1 .. n + 1 -> S] /\ n + 1 \in Nat
    BY <2>1
  <2>3. n + 2 \in 1 .. n + 2
    OBVIOUS
  <2>4. s \in Seq(S) /\ el(n + 2) \in S
    <3>1. el(n + 2) \in S
      BY <2>3
    <3> HIDE DEF s, S
    <3>2. s \in Seq(S)
      BY <2>2
    <3>3. QED
      BY <3>1, <3>2
  <2>5. Len(s) = n + 1
    <3> HIDE DEF S
    <3>1. DOMAIN s = 1 .. n + 1
      OBVIOUS
    <3> HIDE DEF s
    <3>2. QED
      BY <2>2, <2>4, <3>1
  <2>6. QED
    BY <2>4, <2>5
<1>4. Append(s, el(n + 2)) = [i \in 1 .. n + 2 |-> IF i <= n + 1 THEN s[i] ELSE el(n + 2)]
  <2> DEFINE u == Append(s, el(n + 2))
  <2> HIDE DEF s, S
  <2>1. u \in Seq(S) /\ Len(u) = n + 2 /\ DOMAIN u = 1 .. n + 2
    BY <1>3
  <2>2. \A i \in 1 .. n + 2 : u[i] = IF i <= n + 1 THEN s[i] ELSE el(n + 2)
    BY <1>3
  <2> HIDE DEF u
  <2>3. u \in [1 .. n + 2 -> S]
    BY <2>1
  <2>4. QED
    BY <2>2, <2>3 DEF u
<1>5. \A i \in 1 .. n + 2 : (IF i <= n + 1 THEN s[i] ELSE el(n + 2)) = el(i)
  <2> TAKE i \in 1 .. n + 2
  <2>1. CASE i <= n + 1
    BY <2>1
  <2>2. CASE ~(i <= n + 1)
    <3>1. i = n + 2
      BY <2>2
    <3>2. QED
      BY <2>2, <3>1
  <2>3. QED
    BY <2>1, <2>2
<1> HIDE DEF s
<1>6. QED
  BY <1>1, <1>2, <1>4, <1>5

LEMMA FreshSum ==
  ASSUME NEW b, NEW t
  PROVE  <<Bias(b, t)>> = PartialSum(b, t, 0)
<1>1. \A i \in 1 .. 0 + 1 : i = 1
  OBVIOUS
<1>2. PartialSum(b, t, 0) = [i \in 1 .. 1 |-> Bias(b, t)]
  BY <1>1 DEF PartialSum
<1>3. QED
  BY <1>2

(* What a thread multiplies is the next term of its sum.                   *)
LEMMA OperandsAreFactors ==
  ASSUME BlockXPowerOfTwo, PositionsFit, IInv, SumsSoFar,
         NEW t \in Threads, pc[t] = "multiply", kk[t] < TileK
  PROVE  /\ Added(t) \in Nat
         /\ OperandA(t) = FactorA(block, t, Added(t))
         /\ OperandB(t) = FactorB(block, t, Added(t))
<1> DEFINE base == kBase[t] - TileK
<1>1. /\ kk[t] \in 0 .. TileK - 1 /\ kBase[t] \in Nat /\ kBase[t] >= TileK /\ block \in Grid
      /\ TileK \in Nat
  BY TileShape, SizesPositive DEF IInv, TypeOK, SumsSoFar
<1>2. base \in Nat /\ Added(t) = base + kk[t] /\ Added(t) \in Nat
  BY <1>1 DEF Added
<1>3. /\ OperandA(t) = ValA(block, base, LocalHw(t) * TileK + kk[t])
      /\ OperandB(t) = ValB(block, base, t[3] * TileK + kk[t])
  BY InvOperandsFresh DEF OperandsFresh
<1> HIDE DEF base
<1>4. /\ OperandA(t) = FactorA(block, t, base + kk[t])
      /\ OperandB(t) = FactorB(block, t, base + kk[t])
  BY <1>1, <1>2, <1>3, ValAIs, ValBIs
<1>5. QED
  BY <1>2, <1>4

LEMMA InitSums == Init => SumsSoFar
<1> SUFFICES ASSUME Init, NEW t \in Threads
             PROVE  /\ acc[t] = PartialSum(block, t, Added(t))
                    /\ pc[t] = "multiply" => kBase[t] >= TileK
                    /\ pc[t] = "store" => kBase[t] >= TotalK
  BY DEF SumsSoFar, Init, Fresh
<1>1. pc[t] = "loadFirst" /\ kBase[t] = 0 /\ acc[t] = <<Bias(block, t)>>
  BY DEF Init, Fresh
<1>2. QED
  BY <1>1, FreshSum DEF Added

LEMMA NextSums ==
  ASSUME BlockXPowerOfTwo, PositionsFit, IInv, SumsSoFar, [Next]_vars
  PROVE  SumsSoFar'
<1>0. /\ pc \in [Threads -> Steps] /\ kk \in [Threads -> 0 .. TileK]
      /\ kBase \in [Threads -> 0 .. TotalK + TileK - 1] /\ TileK \in Nat \ {0} /\ TotalK \in Nat \ {0}
      /\ \A t \in Threads : kBase[t] \in Nat /\ kk[t] \in Nat
      /\ DOMAIN acc = Threads
  BY TileShape, SizesPositive DEF IInv, TypeOK, SumsSoFar
<1> DEFINE Good(t) == /\ acc[t] = PartialSum(block, t, Added(t))
                      /\ pc[t] = "multiply" => kBase[t] >= TileK
                      /\ pc[t] = "store" => kBase[t] >= TotalK
(* A step that leaves a thread alone leaves its sum alone.                 *)
<1>1. ASSUME NEW t \in Threads, block' = block, acc'[t] = acc[t], pc'[t] = pc[t],
             kBase'[t] = kBase[t], kk'[t] = kk[t]
      PROVE  Good(t)'
  BY <1>1 DEF SumsSoFar, Added
<1>2. ASSUME NEW t \in Threads, LoadFirst(t) \/ LoadNext(t) PROVE SumsSoFar'
  <2>1. UNCHANGED <<block, kk, kBase, acc>>
    BY <1>2 DEF LoadFirst, LoadNext
  <2>2. pc[t] \in {"loadFirst", "loadNext"} /\ pc'[t] \in LoadSteps
        /\ \A u \in Threads : u # t => pc'[u] = pc[u]
    BY <1>0, <1>2 DEF LoadFirst, LoadNext, LoadTile, LoadSteps, FirstSteps
  <2>3. ASSUME NEW u \in Threads PROVE Good(u)'
    <3>1. CASE u # t
      BY <1>1, <2>1, <2>2, <3>1
    <3>2. CASE u = t
      <4>1. Added(t)' = Added(t)
        BY <2>1, <2>2 DEF Added, LoadSteps, FirstSteps
      <4>2. QED
        BY <2>1, <2>2, <3>2, <4>1 DEF SumsSoFar, LoadSteps, FirstSteps
    <3>3. QED
      BY <3>1, <3>2
  <2>4. QED
    BY <1>0, <2>1, <2>3 DEF SumsSoFar
<1>3. ASSUME NEW t \in Threads, Multiply(t) PROVE SumsSoFar'
  <2>1. /\ pc[t] = "multiply" /\ kk[t] < TileK /\ UNCHANGED <<block, pc, kBase>>
        /\ kk' = [kk EXCEPT ![t] = @ + 1]
        /\ acc' = [acc EXCEPT ![t] = Append(@, <<OperandA(t), OperandB(t)>>)]
    BY <1>3 DEF Multiply
  <2>2. DOMAIN acc' = Threads /\ \A u \in Threads : u # t => acc'[u] = acc[u] /\ kk'[u] = kk[u]
    BY <1>0, <2>1
  <2>3. Added(t)' = Added(t) + 1 /\ Added(t) \in Nat
    <3>1. kk'[t] = kk[t] + 1
      BY <1>0, <2>1
    <3>2. kBase[t] >= TileK
      BY <2>1 DEF SumsSoFar
    <3>3. QED
      BY <1>0, <2>1, <3>1, <3>2 DEF Added
  <2>4. acc'[t] = PartialSum(block, t, Added(t) + 1)
    <3>1. acc'[t] = Append(acc[t], <<OperandA(t), OperandB(t)>>)
      BY <1>0, <2>1
    <3>2. acc[t] = PartialSum(block, t, Added(t))
      BY DEF SumsSoFar
    <3>3. OperandA(t) = FactorA(block, t, Added(t)) /\ OperandB(t) = FactorB(block, t, Added(t))
      BY <2>1, OperandsAreFactors
    <3>4. QED
      BY <2>3, <3>1, <3>2, <3>3, SumGrows
  <2>5. ASSUME NEW u \in Threads PROVE Good(u)'
    <3>1. CASE u # t
      BY <1>1, <2>1, <2>2, <3>1
    <3>2. CASE u = t
      BY <2>1, <2>3, <2>4, <3>2 DEF SumsSoFar
    <3>3. QED
      BY <3>1, <3>2
  <2>6. QED
    BY <2>2, <2>5 DEF SumsSoFar
<1>4. ASSUME NEW t \in Threads, EndTile(t) \/ Store(t) PROVE SumsSoFar'
  <2>1. UNCHANGED <<block, kk, kBase, acc>>
    BY <1>4 DEF EndTile, Store
  <2>2. /\ \A u \in Threads : u # t => pc'[u] = pc[u]
        /\ \/ pc[t] = "multiply" /\ kk[t] = TileK /\ pc'[t] \in {"loadNext", "store"}
              /\ (pc'[t] = "store" => kBase[t] >= TotalK)
           \/ pc[t] = "store" /\ pc'[t] = "done"
    BY <1>0, <1>4 DEF EndTile, Store
  <2>3. Added(t)' = Added(t)
    BY <1>0, <2>1, <2>2 DEF Added
  <2>4. ASSUME NEW u \in Threads PROVE Good(u)'
    <3>1. CASE u # t
      BY <1>1, <2>1, <2>2, <3>1
    <3>2. CASE u = t
      BY <2>1, <2>2, <2>3, <3>2 DEF SumsSoFar
    <3>3. QED
      BY <3>1, <3>2
  <2>5. QED
    BY <1>0, <2>1, <2>4 DEF SumsSoFar
<1>5. CASE SyncFirst \/ SyncNext
  <2>1. /\ UNCHANGED <<block, acc>>
        /\ \A t \in Threads : /\ pc[t] \in {"syncFirst", "syncNext"} /\ pc'[t] = "multiply"
                              /\ kBase'[t] = kBase[t] + TileK /\ kk'[t] = 0
    BY <1>5 DEF SyncFirst, SyncNext
  <2>2. ASSUME NEW t \in Threads PROVE Good(t)'
    <3>1. Added(t)' = Added(t) /\ kBase'[t] >= TileK
      BY <1>0, <2>1 DEF Added
    <3>2. QED
      BY <2>1, <3>1 DEF SumsSoFar
  <2>3. QED
    BY <1>0, <2>1, <2>2 DEF SumsSoFar
<1>6. CASE NextBlock
  <2>1. PICK b \in waiting : block' = b /\ pc' = Fresh(b).pc /\ kBase' = Fresh(b).zero /\ acc' = Fresh(b).acc
    BY <1>6 DEF NextBlock
  <2>2. DOMAIN acc' = Threads
    BY <2>1 DEF Fresh
  <2>3. ASSUME NEW t \in Threads PROVE Good(t)'
    <3>1. pc'[t] = "loadFirst" /\ kBase'[t] = 0 /\ acc'[t] = <<Bias(b, t)>>
      BY <2>1 DEF Fresh
    <3>2. QED
      BY <2>1, <3>1, FreshSum DEF Added
  <2>4. QED
    BY <2>2, <2>3 DEF SumsSoFar
<1>7. CASE UNCHANGED vars
  BY <1>7 DEF vars, SumsSoFar, Added
<1>8. QED
  BY <1>2, <1>3, <1>4, <1>5, <1>6, <1>7 DEF Next, ThreadStep, Terminated

-----------------------------------------------------------------------------
(* Threads and elements of the output.                                     *)

LEMMA ElementInjective ==
  ASSUME NEW b \in Grid, NEW c \in Grid, NEW t \in Threads, NEW u \in Threads,
         Element(b, t) = Element(c, u)
  PROVE  b = c /\ t = u
<1>1. /\ b[1] * BlockX + t[1] = c[1] * BlockX + u[1]
      /\ b[2] * BlockY + t[2] = c[2] * BlockY + u[2]
      /\ b[3] * BlockZ + t[3] = c[3] * BlockZ + u[3]
  BY DEF Element
<1>2. b[1] = c[1] /\ t[1] = u[1]
  BY <1>1, RadixInjective, Ranges, BlockRanges, BlockShape
<1>3. b[2] = c[2] /\ t[2] = u[2]
  BY <1>1, RadixInjective, Ranges, BlockRanges, BlockShape
<1>4. b[3] = c[3] /\ t[3] = u[3]
  BY <1>1, RadixInjective, Ranges, BlockRanges, BlockShape
<1>5. QED
  BY <1>2, <1>3, <1>4, Ranges, BlockRanges

LEMMA OutIndexInjective ==
  ASSUME NEW e \in Outputs, NEW f \in Outputs, OutIndex(e) = OutIndex(f)
  PROVE  e = f
<1> DEFINE a == e[1]
           b == f[1]
           r == e[2]
           s == f[2]
           c == e[3]
           d == f[3]
           x == a * InW + r
           y == b * InW + s
<1>1. /\ a \in Nat /\ r \in 0 .. InW - 1 /\ c \in 0 .. OutC - 1
      /\ b \in Nat /\ s \in 0 .. InW - 1 /\ d \in 0 .. OutC - 1
      /\ x * OutC + c = y * OutC + d
      /\ e = <<a, r, c>> /\ f = <<b, s, d>>
  BY ConvShape DEF Outputs, Rows, Cols, OutChannels, OutIndex, Nhwc
<1> HIDE DEF a, b, r, s, c, d
<1>2. x \in Nat /\ y \in Nat
  BY <1>1, ConvShape, SMT
<1>3. x = y => a = b /\ r = s
  BY <1>1, ConvShape, RadixInjective
<1> HIDE DEF x, y
<1>4. x = y /\ c = d
  BY <1>1, <1>2, ConvShape, RadixInjective
<1>5. QED
  BY <1>1, <1>3, <1>4

LEMMA InRangeElement ==
  ASSUME block \in Grid, NEW t \in Threads, PositionsFit
  PROVE  /\ InRange(t) <=> Element(block, t) \in Outputs
         /\ InRange(t) => StoreIndex(t) = OutIndex(Element(block, t))
<1> DEFINE h == RowOf(t)
           w == ColOf(t)
           o == ChannelOf(t)
<1>1. h \in Nat /\ w \in Nat /\ o \in Nat /\ Element(block, t) = <<h, w, o>>
  BY ElementNat DEF RowOf, ColOf, ChannelOf, Element
<1>2. InRange(t) <=> h < InH /\ w < InW /\ o < OutC
  BY DEF InRange
<1> HIDE DEF h, w, o
<1>3. InRange(t) <=> h \in Rows /\ w \in Cols /\ o \in OutChannels
  BY <1>1, <1>2, ConvShape DEF Rows, Cols, OutChannels
<1>4. Element(block, t) \in Outputs <=> h \in Rows /\ w \in Cols /\ o \in OutChannels
  BY <1>1 DEF Outputs
<1>5. ASSUME InRange(t) PROVE StoreIndex(t) = OutIndex(Element(block, t))
  <2>1. Nhwc(h, w, o, OutC) % Word = Nhwc(h, w, o, OutC)
    BY <1>3, <1>5, NhwcFits DEF OutChannels
  <2>2. OutIndex(Element(block, t)) = Nhwc(h, w, o, OutC)
    BY <1>1 DEF OutIndex
  <2>3. QED
    BY <2>1, <2>2 DEF StoreIndex, h, w, o
<1>6. QED
  BY <1>3, <1>4, <1>5

-----------------------------------------------------------------------------

LEMMA InitOutput == Init => OutputRight
<1> SUFFICES ASSUME Init PROVE OutputRight
  OBVIOUS
<1>1. out = [p \in {OutIndex(e) : e \in Outputs} |-> <<>>] /\ block \notin waiting
  BY DEF Init
<1>2. \A e \in Outputs : out[OutIndex(e)] = <<>>
  BY <1>1
<1>3. QED
  BY <1>1, <1>2 DEF OutputRight

(* A store puts the element's value where nothing has been stored.         *)
LEMMA StoreRight ==
  ASSUME PositionsFit, IInv, SumsSoFar, OutputRight, NEW t \in Threads, Store(t), InRange(t)
  PROVE  LET e == Element(block, t)
         IN /\ e \in Outputs /\ out[OutIndex(e)] = <<>>
            /\ out' = [out EXCEPT ![OutIndex(e)] = acc[t]]
            /\ Value(acc[t]) = Convolved(e[1], e[2], e[3])
<1> DEFINE e == Element(block, t)
<1>1. block \in Grid /\ pc[t] = "store" /\ kBase[t] \in Nat
  BY TileShape, SizesPositive DEF IInv, TypeOK, Store
<1>2. e \in Outputs /\ StoreIndex(t) = OutIndex(e)
  BY <1>1, InRangeElement
<1>3. out[OutIndex(e)] = <<>>
  BY <1>1, <1>2 DEF OutputRight, Pending
<1>4. out' = [out EXCEPT ![OutIndex(e)] = acc[t]]
  BY <1>2 DEF Store
<1>5. acc[t] = PartialSum(block, t, kBase[t]) /\ kBase[t] >= TotalK
  BY <1>1 DEF SumsSoFar, Added
<1>6. Value(acc[t]) = Convolved(e[1], e[2], e[3])
  BY <1>1, <1>2, <1>5, SumIsConvolution
<1>7. QED
  BY <1>2, <1>3, <1>4, <1>6

LEMMA StoreOutput ==
  ASSUME PositionsFit, IInv, SumsSoFar, OutputRight, NEW t \in Threads, Store(t)
  PROVE  OutputRight'
<1> DEFINE e == Element(block, t)
<1>1. /\ block \in Grid /\ UNCHANGED <<waiting, block>> /\ pc[t] = "store"
      /\ pc' = [pc EXCEPT ![t] = "done"] /\ pc \in [Threads -> Steps]
  BY DEF IInv, TypeOK, Store
<1>2. \A b \in Grid, u \in Threads :
        Pending(b, u)' => Pending(b, u) /\ ~(b = block /\ u = t)
  <2> TAKE b \in Grid, u \in Threads
  <2> HAVE Pending(b, u)'
  <2>1. pc'[t] = "done" /\ (u # t => pc'[u] = pc[u])
    BY <1>1
  <2>2. block \notin waiting
    BY DEF OutputRight
  <2>3. QED
    BY <1>1, <2>1, <2>2 DEF Pending
<1>3. CASE InRange(t)
  <2>1. /\ e \in Outputs /\ out[OutIndex(e)] = <<>>
        /\ out' = [out EXCEPT ![OutIndex(e)] = acc[t]]
        /\ Value(acc[t]) = Convolved(e[1], e[2], e[3])
    BY <1>3, StoreRight
  <2> HIDE DEF e
  <2>2. DOMAIN out = {OutIndex(f) : f \in Outputs}
    BY DEF OutputRight
  <2>3. /\ DOMAIN out' = DOMAIN out
        /\ \A f \in Outputs : out'[OutIndex(f)] = IF OutIndex(f) = OutIndex(e) THEN acc[t] ELSE out[OutIndex(f)]
    BY <2>1, <2>2
  <2>4. \A f \in Outputs : out'[OutIndex(f)] = IF f = e THEN acc[t] ELSE out[OutIndex(f)]
    BY <2>1, <2>3, OutIndexInjective
  <2>5. ASSUME NEW f \in Outputs
        PROVE  out'[OutIndex(f)] = <<>> \/ Value(out'[OutIndex(f)]) = Convolved(f[1], f[2], f[3])
    <3>1. CASE f = e
      BY <2>1, <2>4, <3>1
    <3>2. CASE f # e
      BY <2>4, <3>2 DEF OutputRight
    <3>3. QED
      BY <3>1, <3>2
  <2>6. ASSUME NEW b \in Grid, NEW u \in Threads, Element(b, u) \in Outputs, Pending(b, u)'
        PROVE  out'[OutIndex(Element(b, u))] = <<>>
    <3>1. Element(b, u) # e
      BY <1>1, <1>2, <2>6, ElementInjective DEF e
    <3>2. out[OutIndex(Element(b, u))] = <<>>
      BY <1>2, <2>6 DEF OutputRight
    <3>3. QED
      BY <2>4, <2>6, <3>1, <3>2
  <2>7. block' \notin waiting'
    BY <1>1 DEF OutputRight
  <2>8. QED
    BY <2>2, <2>3, <2>5, <2>6, <2>7 DEF OutputRight
<1>4. CASE ~InRange(t)
  <2>1. out' = out
    BY <1>4 DEF Store
  <2>2. QED
    BY <1>1, <1>2, <2>1 DEF OutputRight
<1>5. QED
  BY <1>3, <1>4

LEMMA NextOutput ==
  ASSUME PositionsFit, IInv, SumsSoFar, OutputRight, [Next]_vars
  PROVE  OutputRight'
<1>0. pc \in [Threads -> Steps] /\ waiting \in SUBSET Grid
  BY DEF IInv, TypeOK
<1>1. ASSUME UNCHANGED <<waiting, block, out>>,
             \A t \in Threads : pc[t] = "done" => pc'[t] = "done"
      PROVE  OutputRight'
  <2>1. \A b \in Grid, t \in Threads : Pending(b, t)' => Pending(b, t)
    BY <1>1 DEF Pending
  <2>2. QED
    BY <1>1, <2>1 DEF OutputRight
<1>2. ASSUME NEW t \in Threads, LoadFirst(t) \/ LoadNext(t) \/ Multiply(t) \/ EndTile(t)
      PROVE  OutputRight'
  <2>1. UNCHANGED <<waiting, block, out>> /\ pc[t] # "done"
    BY <1>2 DEF LoadFirst, LoadNext, Multiply, EndTile
  <2>2. \A u \in Threads : u # t => pc'[u] = pc[u]
    BY <1>0, <1>2 DEF LoadFirst, LoadNext, Multiply, EndTile, LoadTile
  <2>3. QED
    BY <1>1, <2>1, <2>2
<1>3. CASE SyncFirst \/ SyncNext
  BY <1>1, <1>3 DEF SyncFirst, SyncNext
<1>4. CASE NextBlock
  <2>1. PICK b \in waiting : block' = b /\ waiting' = waiting \ {b} /\ out' = out
    BY <1>4 DEF NextBlock
  <2>2. \A c \in Grid, t \in Threads : Pending(c, t)' => Pending(c, t)
    BY <2>1 DEF Pending
  <2>3. QED
    BY <2>1, <2>2 DEF OutputRight
<1>5. CASE UNCHANGED vars
  BY <1>1, <1>5 DEF vars
<1>6. QED
  BY <1>2, <1>3, <1>4, <1>5, StoreOutput DEF Next, ThreadStep, Terminated

-----------------------------------------------------------------------------
(* The refinement.                                                         *)

LEMMA SamePositions == Conv!Positions = {OutIndex(e) : e \in Outputs}
  BY DEF Conv!Positions, Conv!OutIndex, Conv!Nhwc, Conv!Outputs, Conv!Rows, Conv!Cols,
         Conv!OutChannels, OutIndex, Nhwc, Outputs, Rows, Cols, OutChannels

LEMMA SameElements ==
  /\ Conv!Outputs = Outputs
  /\ \A e \in Outputs : /\ Conv!OutIndex(e) = OutIndex(e)
                        /\ Conv!Convolved(e[1], e[2], e[3]) = Convolved(e[1], e[2], e[3])
<1>1. Conv!Outputs = Outputs
  BY DEF Conv!Outputs, Outputs, Conv!Rows, Rows, Conv!Cols, Cols, Conv!OutChannels, OutChannels
<1>2. ASSUME NEW e \in Outputs
      PROVE  /\ Conv!OutIndex(e) = OutIndex(e)
             /\ Conv!Convolved(e[1], e[2], e[3]) = Convolved(e[1], e[2], e[3])
  <2>1. Conv!OutIndex(e) = OutIndex(e)
    BY DEF Conv!OutIndex, OutIndex, Conv!Nhwc, Nhwc
  <2>2. Conv!Taps(e[1], e[2], e[3]) = Taps(e[1], e[2], e[3])
    BY Zenon DEF Conv!Taps, Taps, Conv!Nhwc, Nhwc, Conv!Krsc, Krsc, Conv!InChannels, InChannels,
                 Conv!Rows, Rows, Conv!Cols, Cols
  <2>3. Conv!Convolved(e[1], e[2], e[3]) = Convolved(e[1], e[2], e[3])
    <3>1. \A S : Conv!Cardinality(S) = Cardinality(S)
      BY Zenon DEF Conv!Cardinality, Cardinality
    <3>2. QED
      BY <2>2, <3>1 DEF Conv!Convolved, Convolved
  <2>4. QED
    BY <2>1, <2>3
<1>3. QED
  BY <1>1, <1>2

LEMMA InitStored == Init => Conv!Init
<1> SUFFICES ASSUME Init PROVE Stored = [p \in Conv!Positions |-> <<>>]
  BY DEF Conv!Init
<1>1. out = [p \in Conv!Positions |-> <<>>]
  BY SamePositions DEF Init
<1>2. QED
  BY <1>1 DEF Stored

LEMMA NextStored ==
  ASSUME PositionsFit, IInv, SumsSoFar, OutputRight, [Next]_vars
  PROVE  [Conv!StoreSome]_Stored
<1>1. out' = out => Stored' = Stored
  BY DEF Stored
<1>2. ASSUME NEW t \in Threads, Store(t), InRange(t), Stored' # Stored PROVE Conv!StoreSome
  <2> DEFINE e == Element(block, t)
  <2>1. /\ e \in Outputs /\ out[OutIndex(e)] = <<>>
        /\ out' = [out EXCEPT ![OutIndex(e)] = acc[t]]
        /\ Value(acc[t]) = Convolved(e[1], e[2], e[3])
    BY <1>2, StoreRight
  <2> HIDE DEF e
  <2>2. DOMAIN out = {OutIndex(f) : f \in Outputs} /\ DOMAIN out' = DOMAIN out
    BY <2>1 DEF OutputRight
  <2>3. DOMAIN Stored' = Conv!Positions
    BY <2>2, SamePositions DEF Stored
  <2>4. ASSUME NEW f \in Outputs
        PROVE  \/ Stored'[OutIndex(f)] = Stored[OutIndex(f)]
               \/ Stored[OutIndex(f)] = <<>> /\ Stored'[OutIndex(f)] = Convolved(f[1], f[2], f[3])
    <3>1. /\ Stored[OutIndex(f)] = IF out[OutIndex(f)] = <<>> THEN <<>> ELSE Value(out[OutIndex(f)])
          /\ Stored'[OutIndex(f)] = IF out'[OutIndex(f)] = <<>> THEN <<>> ELSE Value(out'[OutIndex(f)])
      BY <2>2 DEF Stored
    <3>2. CASE f = e
      <4>1. out'[OutIndex(f)] = acc[t] /\ out[OutIndex(f)] = <<>>
        BY <2>1, <2>2, <3>2
      <4>2. QED
        BY <2>1, <3>1, <3>2, <4>1
    <3>3. CASE f # e
      <4>1. OutIndex(f) # OutIndex(e)
        BY <2>1, <3>3, OutIndexInjective
      <4>2. out'[OutIndex(f)] = out[OutIndex(f)]
        BY <2>1, <2>2, <4>1
      <4>3. QED
        BY <3>1, <4>2
    <3>4. QED
      BY <3>2, <3>3
  <2>5. QED
    BY <1>2, <2>3, <2>4, SameElements DEF Conv!StoreSome
<1>3. ASSUME NEW t \in Threads, ThreadStep(t) PROVE out' = out \/ (Store(t) /\ InRange(t))
  BY <1>3 DEF ThreadStep, LoadFirst, LoadNext, Multiply, EndTile, Store
<1>4. (SyncFirst \/ SyncNext \/ NextBlock \/ Terminated \/ UNCHANGED vars) => out' = out
  BY DEF SyncFirst, SyncNext, NextBlock, Terminated, vars
<1>5. QED
  BY <1>1, <1>2, <1>3, <1>4 DEF Next

(* gpu_conv's launches implement the convolution that apply_convolutions   *)
(* relies on: for every image, channel numbers, block shape with a power   *)
(* of two rows, tile length, interleaving and order of the blocks, each    *)
(* output element is stored once, as the sum of its bias and all of its    *)
(* products, each taken once.                                              *)
THEOREM ImplementsConvSpec ==
  ASSUME BlockXPowerOfTwo, PositionsFit
  PROVE  Spec => ComputesConvolution
<1>1. Init => SumsSoFar /\ OutputRight
  BY InitSums, InitOutput
<1>2. IInv /\ SumsSoFar /\ OutputRight /\ [Next]_vars => SumsSoFar' /\ OutputRight'
  BY NextSums, NextOutput
<1>3. IInv /\ SumsSoFar /\ OutputRight /\ [Next]_vars => [Conv!StoreSome]_Stored
  BY NextStored
<1>4. QED
  BY <1>1, <1>2, <1>3, InitStored, Invariant, PTL DEF Spec, ComputesConvolution, Conv!Spec

-----------------------------------------------------------------------------
(* No element is forgotten.                                                *)

NoneForgotten ==
  \A b \in Grid, t \in Threads : Element(b, t) \in Outputs =>
    Pending(b, t) \/ out[OutIndex(Element(b, t))] # <<>>

LEMMA SumIsSomething ==
  ASSUME NEW b, NEW t, NEW n \in Nat
  PROVE  PartialSum(b, t, n) # <<>>
<1>1. 1 \in DOMAIN PartialSum(b, t, n)
  BY DEF PartialSum
<1>2. 1 \notin DOMAIN <<>>
  OBVIOUS
<1>3. QED
  BY <1>1, <1>2

LEMMA InitForgotten == Init => NoneForgotten
<1> SUFFICES ASSUME Init, NEW b \in Grid, NEW t \in Threads PROVE Pending(b, t)
  BY DEF NoneForgotten
<1>1. waiting = Grid \ {block} /\ pc[t] = "loadFirst"
  BY DEF Init, Fresh
<1>2. QED
  BY <1>1 DEF Pending

LEMMA NextForgotten ==
  ASSUME PositionsFit, IInv, SumsSoFar, OutputRight, NoneForgotten, [Next]_vars
  PROVE  NoneForgotten'
<1>0. pc \in [Threads -> Steps] /\ block \in Grid
  BY DEF IInv, TypeOK
<1>1. ASSUME out' = out, \A b \in Grid, t \in Threads : Pending(b, t) => Pending(b, t)'
      PROVE  NoneForgotten'
  BY <1>1 DEF NoneForgotten
<1>2. ASSUME NEW t \in Threads, LoadFirst(t) \/ LoadNext(t) \/ Multiply(t) \/ EndTile(t)
      PROVE  NoneForgotten'
  <2>1. UNCHANGED <<waiting, block, out>>
    BY <1>2 DEF LoadFirst, LoadNext, Multiply, EndTile
  <2>2. \A u \in Threads : pc'[u] = "done" => pc[u] = "done"
    BY <1>0, <1>2 DEF LoadFirst, LoadNext, Multiply, EndTile, LoadTile
  <2>3. QED
    BY <1>1, <2>1, <2>2 DEF Pending
<1>3. CASE SyncFirst \/ SyncNext
  <2>1. UNCHANGED <<waiting, block, out>> /\ \A u \in Threads : pc'[u] = "multiply"
    BY <1>3 DEF SyncFirst, SyncNext
  <2>2. QED
    BY <1>1, <2>1 DEF Pending
<1>4. CASE NextBlock
  <2>1. PICK b \in waiting : block' = b /\ waiting' = waiting \ {b} /\ out' = out
    BY <1>4 DEF NextBlock
  <2>2. \A u \in Threads : pc[u] = "done" /\ pc'[u] = "loadFirst"
    BY <1>4 DEF NextBlock, Fresh
  <2>3. QED
    BY <1>1, <2>1, <2>2 DEF Pending
<1>5. ASSUME NEW t \in Threads, Store(t) PROVE NoneForgotten'
  <2> DEFINE e == Element(block, t)
  <2>1. /\ UNCHANGED <<waiting, block>> /\ pc[t] = "store"
        /\ \A u \in Threads : u # t => pc'[u] = pc[u]
    BY <1>0, <1>5 DEF Store
  <2>2. ASSUME NEW b \in Grid, NEW u \in Threads, Pending(b, u), ~Pending(b, u)'
        PROVE  b = block /\ u = t
    BY <2>1, <2>2 DEF Pending
  <2>3. CASE InRange(t)
    <3>1. /\ e \in Outputs /\ out[OutIndex(e)] = <<>>
          /\ out' = [out EXCEPT ![OutIndex(e)] = acc[t]]
      BY <1>5, <2>3, StoreRight
    <3>2. acc[t] # <<>>
      <4>0. kBase[t] \in Nat
        BY TileShape, SizesPositive DEF IInv, TypeOK
      <4>1. acc[t] = PartialSum(block, t, kBase[t])
        BY <2>1 DEF SumsSoFar, Added
      <4>2. QED
        BY <4>0, <4>1, SumIsSomething
    <3>3. DOMAIN out = {OutIndex(f) : f \in Outputs}
      BY DEF OutputRight
    <3> HIDE DEF e
    <3>4. \A f \in Outputs : out'[OutIndex(f)] = IF OutIndex(f) = OutIndex(e) THEN acc[t]
                                                ELSE out[OutIndex(f)]
      BY <3>1, <3>3
    <3>5. ASSUME NEW b \in Grid, NEW u \in Threads, Element(b, u) \in Outputs, ~Pending(b, u)'
          PROVE  out'[OutIndex(Element(b, u))] # <<>>
      <4>1. CASE Pending(b, u)
        <5>1. Element(b, u) = e
          BY <2>2, <3>5, <4>1 DEF e
        <5>2. QED
          BY <3>1, <3>2, <3>4, <5>1
      <4>2. CASE ~Pending(b, u)
        <5>1. out[OutIndex(Element(b, u))] # <<>>
          BY <3>5, <4>2 DEF NoneForgotten
        <5>2. QED
          BY <3>2, <3>4, <3>5, <5>1
      <4>3. QED
        BY <4>1, <4>2
    <3>6. QED
      BY <3>5 DEF NoneForgotten
  <2>4. CASE ~InRange(t)
    <3>1. out' = out
      BY <1>5, <2>4 DEF Store
    <3>2. e \notin Outputs
      BY <1>0, <2>4, InRangeElement
    <3>3. ASSUME NEW b \in Grid, NEW u \in Threads, Element(b, u) \in Outputs, Pending(b, u)
          PROVE  Pending(b, u)'
      BY <2>2, <3>2, <3>3
    <3>4. QED
      BY <3>1, <3>3 DEF NoneForgotten
  <2>5. QED
    BY <2>3, <2>4
<1>6. CASE Terminated \/ UNCHANGED vars
  BY <1>1, <1>6 DEF Terminated, vars, Pending
<1>7. QED
  BY <1>2, <1>3, <1>4, <1>5, <1>6 DEF Next, ThreadStep

(* Blocks of b cover n.                                                    *)
LEMMA CeilDivCovers ==
  ASSUME NEW n \in Nat, NEW b \in Nat \ {0}, NEW x \in 0 .. n - 1
  PROVE  \E a \in 0 .. CeilDiv(n, b) - 1, r \in 0 .. b - 1 : x = a * b + r
<1> DEFINE a == x \div b
           r == x % b
           y == n + b - 1
           q == y \div b
           s == y % b
<1>1. a \in Nat /\ r \in 0 .. b - 1 /\ x = a * b + r
  <2>1. x \in Nat
    OBVIOUS
  <2>2. QED
    BY <2>1, DivMod
<1>2. q \in Nat /\ s \in 0 .. b - 1 /\ y = q * b + s
  <2>1. y \in Nat
    OBVIOUS
  <2> HIDE DEF y
  <2>2. QED
    BY <2>1, DivMod
<1>3. CeilDiv(n, b) = q
  BY DEF CeilDiv
<1> HIDE DEF a, r, q, s
<1>4. a < q
  <2> SUFFICES ASSUME q <= a PROVE FALSE
    BY <1>1, <1>2
  <2>1. q * b <= a * b
    BY <1>1, <1>2, SMT
  <2> DEFINE c == a * b
             d == q * b
  <2>2. c \in Nat /\ d \in Nat
    BY <1>1, <1>2, SMT
  <2> HIDE DEF c, d
  <2>3. d <= c /\ x = c + r /\ n + b - 1 = d + s
    BY <1>1, <1>2, <2>1 DEF c, d
  <2>4. QED
    BY <1>1, <1>2, <2>2, <2>3
<1>5. QED
  BY <1>1, <1>2, <1>3, <1>4

LEMMA GridCovers ==
  ASSUME NEW e \in Outputs
  PROVE  \E b \in Grid, t \in Threads : Element(b, t) = e
<1>1. PICK h \in 0 .. InH - 1, w \in 0 .. InW - 1, o \in 0 .. OutC - 1 : e = <<h, w, o>>
  BY DEF Outputs, Rows, Cols, OutChannels
<1>0. /\ InH \in Nat /\ InW \in Nat /\ OutC \in Nat
      /\ BlockX \in Nat \ {0} /\ BlockY \in Nat \ {0} /\ BlockZ \in Nat \ {0}
  BY ConvShape, BlockShape
<1>2. PICK a \in 0 .. CeilDiv(InH, BlockX) - 1, x \in 0 .. BlockX - 1 : h = a * BlockX + x
  BY <1>0, CeilDivCovers
<1>3. PICK b \in 0 .. CeilDiv(InW, BlockY) - 1, y \in 0 .. BlockY - 1 : w = b * BlockY + y
  BY <1>0, CeilDivCovers
<1>4. PICK c \in 0 .. CeilDiv(OutC, BlockZ) - 1, z \in 0 .. BlockZ - 1 : o = c * BlockZ + z
  BY <1>0, CeilDivCovers
<1>5. <<a, b, c>> \in Grid /\ <<x, y, z>> \in Threads
  BY DEF Grid, Threads
<1>6. Element(<<a, b, c>>, <<x, y, z>>) = e
  BY <1>1, <1>2, <1>3, <1>4 DEF Element
<1>7. QED
  BY <1>5, <1>6

(* When the last block of a launch has ended, every element of the output  *)
(* is stored: neither the threads that lie outside the image nor the       *)
(* order of the blocks leave one out.                                      *)
THEOREM LaunchLeavesNone ==
  ASSUME BlockXPowerOfTwo, PositionsFit
  PROVE  Spec => [](waiting = {} /\ (\A t \in Threads : pc[t] = "done") => Conv!Complete)
<1>1. Init => SumsSoFar /\ OutputRight
  BY InitSums, InitOutput
<1>2. IInv /\ SumsSoFar /\ OutputRight /\ [Next]_vars => SumsSoFar' /\ OutputRight'
  BY NextSums, NextOutput
<1>3. IInv /\ SumsSoFar /\ OutputRight /\ NoneForgotten /\ [Next]_vars => NoneForgotten'
  BY NextForgotten
<1>4. OutputRight /\ NoneForgotten =>
        (waiting = {} /\ (\A t \in Threads : pc[t] = "done") => Conv!Complete)
  <2> SUFFICES ASSUME OutputRight, NoneForgotten, waiting = {}, \A t \in Threads : pc[t] = "done",
                      NEW p \in Conv!Positions
               PROVE  Stored[p] # <<>>
    BY DEF Conv!Complete
  <2>1. PICK e \in Outputs : p = OutIndex(e)
    BY SamePositions
  <2>2. PICK b \in Grid : \E t \in Threads : Element(b, t) = e
    BY GridCovers
  <2>3. PICK t \in Threads : Element(b, t) = e
    BY <2>2
  <2>4. out[p] # <<>> /\ p \in DOMAIN out
    BY <2>1, <2>3 DEF NoneForgotten, Pending, OutputRight
  <2>5. Stored[p] = Value(out[p])
    BY <2>4 DEF Stored
  <2>6. "bias" \in DOMAIN Value(out[p]) /\ "bias" \notin DOMAIN <<>>
    BY DEF Value
  <2>7. QED
    BY <2>5, <2>6
<1>5. QED
  BY <1>1, <1>2, <1>3, <1>4, InitForgotten, Invariant, PTL DEF Spec
=============================================================================
