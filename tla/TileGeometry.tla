---------------------------- MODULE TileGeometry ----------------------------
(***************************************************************************)
(* The bit tricks by which LOAD_TILE recovers, from the position of an     *)
(* element in a tile, the pixel of the block it belongs to.                *)
(***************************************************************************)
EXTENDS Integers

(* 1 << n: what a shift by n divides by.                                   *)
Pow2[n \in Nat] == IF n = 0 THEN 1 ELSE 2 * Pow2[n - 1]

(* Bitwise conjunction of naturals.                                        *)
And[a \in Nat] ==
  [b \in Nat |-> IF a = 0 \/ b = 0 THEN 0
                 ELSE 2 * And[a \div 2][b \div 2] + (a % 2) * (b % 2)]

(* __ffs(n) - 1: the position of the lowest bit set in n > 0.              *)
LowestBit(n) == CHOOSE b \in 0 .. n : n % Pow2[b] = 0 /\ n % Pow2[b + 1] # 0

(* Row and column, inside a block blockX rows high, of pixel number hw.    *)
LocalRow(hw, blockX) == And[hw][blockX - 1]
LocalCol(hw, blockX) == hw \div Pow2[LowestBit(blockX)]
=============================================================================
