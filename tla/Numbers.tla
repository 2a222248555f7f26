------------------------------ MODULE Numbers ------------------------------
(***************************************************************************)
(* Lemmas about natural numbers that belong to no component.               *)
(*                                                                         *)
(* First, induction.  Its usual statement has an operator as a parameter;  *)
(* here the property is a set of the numbers that have it, which is what   *)
(* lets a proof use it: with it the functions that are defined by          *)
(* recursion over layers, convolutions and dimensions are shown to exist.  *)
(*                                                                         *)
(* Then, positions of the form a * n + r with r in 0 .. n - 1: the linear  *)
(* thread number, the elements of a shared-memory tile and the NHWC        *)
(* positions of the tensors are all built from such steps.                 *)
(***************************************************************************)
EXTENDS Integers, FiniteSetTheorems, WellFoundedInduction, TLAPS

(* A set of natural numbers has a least one: of the initial segments below *)
(* its elements one is minimal, because finite sets are well-founded under *)
(* inclusion.                                                              *)
LEMMA LeastElement ==
  ASSUME NEW T \in SUBSET Nat, T # {}
  PROVE  \E n \in T : \A m \in T : n <= m
<1> DEFINE Below(n) == {k \in Nat : k < n}
           Segments == {Below(n) : n \in T}
<1>1. \A n \in Nat : Below(n) \in FiniteSubsetsOf(Nat)
  <2> TAKE n \in Nat
  <2>1. Below(n) \in SUBSET Nat /\ \A k \in Below(n) : k <= n
    OBVIOUS
  <2> HIDE DEF Below
  <2>2. IsFiniteSet(Below(n))
    BY <2>1, FS_BoundedSetOfNaturals
  <2>3. QED
    BY <2>1, <2>2 DEF FiniteSubsetsOf
<1>2. Segments \subseteq FiniteSubsetsOf(Nat) /\ Segments # {}
  BY <1>1
<1>3. \E x \in Segments : \A y \in Segments : <<y, x>> \notin StrictSubsetOrdering(Nat)
  <2> HIDE DEF Segments
  <2>1. QED
    BY <1>2, WFMin, FS_StrictSubsetOrderingWellFounded
<1>4. PICK n \in T : \A m \in T : <<Below(m), Below(n)>> \notin StrictSubsetOrdering(Nat)
  BY <1>3
<1>5. \A m \in T : n <= m
  <2> SUFFICES ASSUME NEW m \in T, m < n PROVE FALSE
    OBVIOUS
  <2>1. /\ Below(m) \subseteq Below(n) /\ Below(n) \subseteq Nat
        /\ m \in Below(n) /\ m \notin Below(m)
    OBVIOUS
  <2> HIDE DEF Below
  <2>2. <<Below(m), Below(n)>> \in StrictSubsetOrdering(Nat)
    BY <2>1 DEF StrictSubsetOrdering
  <2>3. QED
    BY <1>4, <2>2
<1>6. QED
  BY <1>5

(* What holds of 0, and of every number up to n after one that it holds    *)
(* of, holds up to n.                                                      *)
LEMMA InductionUpTo ==
  ASSUME NEW n \in Nat, NEW S, 0 \in S, \A i \in 0 .. n - 1 : i \in S => i + 1 \in S
  PROVE  0 .. n \subseteq S
<1> SUFFICES ASSUME NEW k \in 0 .. n, k \notin S PROVE FALSE
  OBVIOUS
<1> DEFINE T == {i \in 0 .. n : i \notin S}
<1>1. T \in SUBSET Nat /\ T # {}
  OBVIOUS
<1>2. PICK i \in T : \A j \in T : i <= j
  <2> HIDE DEF T
  <2>1. QED
    BY <1>1, LeastElement
<1>3. i # 0 /\ i - 1 \in 0 .. n - 1 /\ i - 1 \notin T
  BY <1>2
<1>4. QED
  BY <1>2, <1>3

(* A set of natural numbers with a bound has a greatest one.               *)
LEMMA GreatestElement ==
  ASSUME NEW T \in SUBSET Nat, T # {}, NEW b \in Nat, \A m \in T : m <= b
  PROVE  \E n \in T : \A m \in T : n >= m
<1> DEFINE D == {b - m : m \in T}
<1>1. D \in SUBSET Nat /\ D # {}
  <2>1. PICK m \in T : TRUE
    OBVIOUS
  <2>2. b - m \in D
    BY <2>1
  <2>3. \A k \in T : b - k \in Nat
    OBVIOUS
  <2>4. QED
    BY <2>2, <2>3
<1>2. PICK d \in D : \A e \in D : d <= e
  <2> HIDE DEF D
  <2>1. QED
    BY <1>1, LeastElement
<1>3. PICK n \in T : d = b - n
  BY <1>2
<1>4. \A m \in T : b - n <= b - m
  BY <1>2, <1>3
<1>5. QED
  BY <1>4

(* The values of a sequence of natural numbers have a bound.               *)
LEMMA SequenceBounded ==
  ASSUME NEW n \in Nat, NEW f \in [1 .. n -> Nat]
  PROVE  \E b \in Nat : \A i \in 1 .. n : f[i] <= b
<1> DEFINE S == {k \in 0 .. n : \E b \in Nat : \A i \in 1 .. k : f[i] <= b}
<1>1. 0 \in S
  OBVIOUS
<1>2. \A k \in 0 .. n - 1 : k \in S => k + 1 \in S
  <2> TAKE k \in 0 .. n - 1
  <2> HAVE k \in S
  <2> PICK b \in Nat : \A i \in 1 .. k : f[i] <= b
    OBVIOUS
  <2>1. f[k + 1] \in Nat
    OBVIOUS
  <2>2. /\ b + f[k + 1] \in Nat
        /\ \A i \in 1 .. k + 1 : f[i] <= b + f[k + 1]
    BY <2>1
  <2>3. k + 1 \in 0 .. n
    OBVIOUS
  <2>4. QED
    BY <2>2, <2>3
<1>3. n \in S
  <2> HIDE DEF S
  <2>1. 0 .. n \subseteq S
    BY <1>1, <1>2, InductionUpTo
  <2>2. QED
    BY <2>1
<1>4. QED
  BY <1>3

-----------------------------------------------------------------------------
(* Sums and products.                                                      *)

(* A function that takes one element of a sequence at a time to what it    *)
(* already has exists.                                                     *)
HasSteps(n, S, b, op) ==
  \E e : /\ e \in [0 .. n -> S]
         /\ e[0] = b
         /\ \A i \in 1 .. n : e[i] = op[i][e[i - 1]]

LEMMA StepsExist ==
  ASSUME NEW n \in Nat, NEW S, NEW b \in S,
         NEW op, \A i \in 1 .. n : \A u \in S : op[i][u] \in S
  PROVE  HasSteps(n, S, b, op)
<1> DEFINE Step(i, u) == op[i][u]
           Begins(g, k) == /\ g[0] = b
                           /\ \A i \in 1 .. k : g[i] = Step(i, g[i - 1])
                           /\ \A i \in 0 .. k : g[i] \in S
           K == {k \in 0 .. n : \E g : Begins(g, k)}
<1>0. \A i \in 1 .. n : \A u \in S : Step(i, u) \in S
  OBVIOUS
<1> HIDE DEF Step
<1>1. 0 \in K
  <2> DEFINE g == [i \in {0} |-> b]
  <2>1. g[0] = b
    OBVIOUS
  <2> HIDE DEF g
  <2>2. Begins(g, 0) /\ 0 \in 0 .. n
    BY <2>1
  <2>3. QED
    BY <2>2
<1>2. \A k \in 0 .. n - 1 : k \in K => k + 1 \in K
  <2> TAKE k \in 0 .. n - 1
  <2> HAVE k \in K
  <2>0. PICK g : Begins(g, k)
    OBVIOUS
  <2> DEFINE v == Step(k + 1, g[k])
             h == [i \in 0 .. k + 1 |-> IF i <= k THEN g[i] ELSE v]
  <2>1. v \in S
    BY <1>0, <2>0
  <2>2. /\ h[k + 1] = Step(k + 1, h[k]) /\ h[k + 1] = v
        /\ \A i \in 1 .. k : h[i] = g[i] /\ h[i - 1] = g[i - 1]
        /\ \A i \in 0 .. k : h[i] = g[i]
    OBVIOUS
  <2> HIDE DEF h, v
  <2>3. Begins(h, k + 1)
    <3>1. h[0] = b
      BY <2>0, <2>2
    <3>2. \A i \in 1 .. k : h[i] = Step(i, h[i - 1])
      BY <2>0, <2>2
    <3>3. \A i \in 0 .. k + 1 : h[i] \in S
      <4>1. \A i \in 0 .. k : h[i] \in S
        BY <2>0, <2>2
      <4>2. QED
        BY <2>1, <2>2, <4>1
    <3>4. \A i \in 1 .. k + 1 : h[i] = Step(i, h[i - 1])
      <4>1. \A i \in 1 .. k + 1 : i \in 1 .. k \/ i = k + 1
        OBVIOUS
      <4>2. k + 1 - 1 = k
        OBVIOUS
      <4>3. QED
        BY <2>2, <3>2, <4>1, <4>2
    <3>5. QED
      BY <3>1, <3>3, <3>4
  <2>4. k + 1 \in 0 .. n
    OBVIOUS
  <2>5. QED
    BY <2>3, <2>4
<1>3. PICK g : Begins(g, n)
  <2>1. n \in 0 .. n
    OBVIOUS
  <2> HIDE DEF K
  <2>2. 0 .. n \subseteq K
    BY <1>1, <1>2, InductionUpTo
  <2>3. n \in K
    BY <2>1, <2>2
  <2> HIDE DEF Begins
  <2>4. QED
    BY <2>3 DEF K
<1> DEFINE e == [i \in 0 .. n |-> g[i]]
<1>4. e \in [0 .. n -> S]
  BY <1>3
<1>5. e[0] = b /\ \A i \in 1 .. n : e[i] = Step(i, e[i - 1])
  BY <1>3
<1> HIDE DEF e
<1>6. QED
  BY <1>4, <1>5 DEF Step, HasSteps

(* On numbers, with the same operation for every element.                  *)
HasFold(n, b, s, op) ==
  \E e : /\ e \in [0 .. n -> Nat]
         /\ e[0] = b
         /\ \A i \in 1 .. n : e[i] = op[e[i - 1]][s[i]]

LEMMA FoldExists ==
  ASSUME NEW n \in Nat, NEW b \in Nat, NEW s, \A i \in 1 .. n : s[i] \in Nat,
         NEW op, \A u, v \in Nat : op[u][v] \in Nat
  PROVE  HasFold(n, b, s, op)
<1> DEFINE step == [i \in 1 .. n |-> [u \in Nat |-> op[u][s[i]]]]
<1>1. \A i \in 1 .. n : \A u \in Nat : step[i][u] = op[u][s[i]] /\ step[i][u] \in Nat
  OBVIOUS
<1> HIDE DEF step
<1>2. HasSteps(n, Nat, b, step)
  BY <1>1, StepsExist
<1>3. PICK e : /\ e \in [0 .. n -> Nat]
               /\ e[0] = b
               /\ \A i \in 1 .. n : e[i] = step[i][e[i - 1]]
  BY <1>2 DEF HasSteps
<1>4. \A i \in 1 .. n : e[i] = op[e[i - 1]][s[i]]
  <2> TAKE i \in 1 .. n
  <2>1. i - 1 \in 0 .. n /\ e[i - 1] \in Nat
    BY <1>3
  <2>2. QED
    BY <1>1, <1>3, <2>1
<1>5. QED
  BY <1>3, <1>4 DEF HasFold

(* So does a function that is defined from each number to the next.        *)
HasRecursion(S, b, op) ==
  \E f \in [Nat -> S] : f[0] = b /\ \A n \in Nat : f[n + 1] = op[f[n]]

LEMMA RecursionExists ==
  ASSUME NEW S, NEW b \in S, NEW op, \A u \in S : op[u] \in S
  PROVE  HasRecursion(S, b, op)
<1> DEFINE Begins(g, n) == /\ g[0] = b
                           /\ \A i \in 0 .. n - 1 : g[i + 1] = op[g[i]]
                           /\ \A i \in 0 .. n : g[i] \in S
<1>1. ASSUME NEW n \in Nat PROVE \E g : Begins(g, n)
  <2> DEFINE T == {k \in 0 .. n : \E g : Begins(g, k)}
  <2>1. 0 \in T
    <3> DEFINE g == [i \in {0} |-> b]
    <3>1. g[0] = b
      OBVIOUS
    <3> HIDE DEF g
    <3>2. Begins(g, 0) /\ 0 \in 0 .. n
      BY <3>1
    <3>3. QED
      BY <3>2
  <2>2. \A k \in 0 .. n - 1 : k \in T => k + 1 \in T
    <3> TAKE k \in 0 .. n - 1
    <3> HAVE k \in T
    <3>1. PICK g : Begins(g, k)
      OBVIOUS
    <3> DEFINE h == [i \in 0 .. k + 1 |-> IF i <= k THEN g[i] ELSE op[g[k]]]
    <3>2. h[k + 1] = op[g[k]] /\ \A i \in 0 .. k : h[i] = g[i]
      OBVIOUS
    <3>3. op[g[k]] \in S
      BY <3>1
    <3> HIDE DEF h
    <3>4. h[0] = b
      BY <3>1, <3>2
    <3>5. \A i \in 0 .. k : h[i + 1] = op[h[i]]
      <4> TAKE i \in 0 .. k
      <4>1. CASE i = k
        BY <3>2, <4>1
      <4>2. CASE i # k
        <5>1. i \in 0 .. k - 1 /\ i + 1 \in 0 .. k
          BY <4>2
        <5>2. QED
          BY <3>1, <3>2, <5>1
      <4>3. QED
        BY <4>1, <4>2
    <3>6. \A i \in 0 .. k + 1 : h[i] \in S
      <4> TAKE i \in 0 .. k + 1
      <4>1. i \in 0 .. k \/ i = k + 1
        OBVIOUS
      <4>2. QED
        BY <3>1, <3>2, <3>3, <4>1
    <3>7. k + 1 \in 0 .. n /\ (k + 1) - 1 = k
      OBVIOUS
    <3>8. Begins(h, k + 1)
      BY <3>4, <3>5, <3>6, <3>7
    <3>9. QED
      BY <3>7, <3>8
  <2>3. n \in T
    <3> HIDE DEF T
    <3>1. 0 .. n \subseteq T
      BY <2>1, <2>2, InductionUpTo
    <3>2. n \in 0 .. n
      OBVIOUS
    <3>3. QED
      BY <3>1, <3>2
  <2>4. QED
    BY <2>3
<1>2. ASSUME NEW n \in Nat, NEW m \in Nat, NEW g, NEW h, Begins(g, n), Begins(h, m),
             NEW k \in Nat, k <= n, k <= m
      PROVE  g[k] = h[k]
  <2> DEFINE T == {i \in 0 .. k : g[i] = h[i]}
  <2>1. 0 \in T
    BY <1>2
  <2>2. \A i \in 0 .. k - 1 : i \in T => i + 1 \in T
    <3> TAKE i \in 0 .. k - 1
    <3>1. i \in 0 .. n - 1 /\ i \in 0 .. m - 1 /\ i + 1 \in 0 .. k
      BY <1>2
    <3>2. g[i + 1] = op[g[i]] /\ h[i + 1] = op[h[i]]
      BY <1>2, <3>1
    <3>3. QED
      BY <3>1, <3>2
  <2>3. k \in T
    <3> HIDE DEF T
    <3>1. 0 .. k \subseteq T
      BY <2>1, <2>2, InductionUpTo
    <3>2. k \in 0 .. k
      OBVIOUS
    <3>3. QED
      BY <3>1, <3>2
  <2>4. QED
    BY <2>3
<1> DEFINE seg == [n \in Nat |-> CHOOSE g : Begins(g, n)]
           f == [n \in Nat |-> seg[n][n]]
<1>3. ASSUME NEW n \in Nat PROVE Begins(seg[n], n)
  <2>1. seg[n] = CHOOSE g : Begins(g, n)
    OBVIOUS
  <2> HIDE DEF seg, Begins
  <2>2. QED
    BY <1>1, <2>1
<1>4. f \in [Nat -> S]
  <2>1. \A n \in Nat : seg[n][n] \in S
    <3> TAKE n \in Nat
    <3>1. Begins(seg[n], n) /\ n \in 0 .. n
      BY <1>3
    <3> HIDE DEF seg
    <3>2. QED
      BY <3>1
  <2> HIDE DEF seg
  <2>2. QED
    BY <2>1
<1>5. \A n \in Nat : f[n] = seg[n][n]
  OBVIOUS
<1> HIDE DEF f, seg
<1>6. f[0] = b
  <2>1. Begins(seg[0], 0)
    BY <1>3
  <2>2. QED
    BY <1>5, <2>1
<1>7. \A n \in Nat : f[n + 1] = op[f[n]]
  <2> TAKE n \in Nat
  <2>1. n + 1 \in Nat /\ n \in 0 .. (n + 1) - 1 /\ n <= n + 1 /\ n <= n
    OBVIOUS
  <2>2. Begins(seg[n + 1], n + 1) /\ Begins(seg[n], n)
    BY <1>3, <2>1
  <2>3. seg[n + 1][n + 1] = op[seg[n + 1][n]]
    BY <2>1, <2>2
  <2> HIDE DEF Begins
  <2>4. seg[n + 1][n] = seg[n][n]
    BY <1>2, <2>1, <2>2
  <2>5. QED
    BY <1>5, <2>1, <2>3, <2>4
<1>8. QED
  BY <1>4, <1>6, <1>7 DEF HasRecursion

(* What grows from each number to the next grows.                          *)
LEMMA Grows ==
  ASSUME NEW n \in Nat, NEW f \in [0 .. n -> Nat], \A i \in 1 .. n : f[i - 1] <= f[i],
         NEW i \in 0 .. n, NEW j \in 0 .. n, i <= j
  PROVE  f[i] <= f[j]
<1> DEFINE S == {k \in 0 .. n : k < i \/ f[i] <= f[k]}
<1>1. 0 \in S
  OBVIOUS
<1>2. \A k \in 0 .. n - 1 : k \in S => k + 1 \in S
  <2> TAKE k \in 0 .. n - 1
  <2>1. f[k] <= f[k + 1] /\ f[i] \in Nat /\ f[k] \in Nat /\ f[k + 1] \in Nat
    OBVIOUS
  <2>2. k + 1 \in 0 .. n /\ (k + 1 = i \/ k < i => k + 1 < i \/ f[i] <= f[k + 1])
    BY <2>1
  <2>3. QED
    BY <2>1, <2>2
<1>3. j \in S
  <2> HIDE DEF S
  <2>1. 0 .. n \subseteq S
    BY <1>1, <1>2, InductionUpTo
  <2>2. QED
    BY <2>1
<1>4. QED
  BY <1>3

-----------------------------------------------------------------------------
(* Positions.                                                              *)

(* A position lies within m rows of n elements.                            *)
LEMMA RadixRange ==
  ASSUME NEW n \in Nat \ {0}, NEW m \in Nat \ {0},
         NEW a \in 0 .. m - 1, NEW r \in 0 .. n - 1
  PROVE  a * n + r \in 0 .. m * n - 1
  BY SMT

(* Two positions are equal only if their rows and columns are.             *)
LEMMA RadixInjective ==
  ASSUME NEW n \in Nat \ {0}, NEW a \in Nat, NEW b \in Nat,
         NEW r \in 0 .. n - 1, NEW s \in 0 .. n - 1,
         a * n + r = b * n + s
  PROVE  a = b /\ r = s
  BY SMT

(* Division recovers the row, the remainder the column.                    *)
LEMMA DivMod ==
  ASSUME NEW n \in Nat \ {0}, NEW i \in Nat
  PROVE  /\ i \div n \in Nat
         /\ i % n \in 0 .. n - 1
         /\ i = (i \div n) * n + (i % n)
  BY SMT

(* Every position below m * n is in one of the m rows.                     *)
LEMMA RadixSurjective ==
  ASSUME NEW n \in Nat \ {0}, NEW m \in Nat \ {0}, NEW i \in 0 .. m * n - 1
  PROVE  \E a \in 0 .. m - 1, r \in 0 .. n - 1 : i = a * n + r
<1> DEFINE a == i \div n
           r == i % n
<1>1. i \in Nat  BY SMT
<1>2. a \in Nat /\ r \in 0 .. n - 1 /\ i = a * n + r  BY <1>1, DivMod
<1> HIDE DEF a, r
<1>3. a * n < m * n  BY <1>2, SMT
<1>4. a < m  BY <1>2, <1>3, SMT
<1>5. QED  BY <1>2, <1>4

(* The row and column of a position are the ones it was built from.        *)
LEMMA RadixDivMod ==
  ASSUME NEW n \in Nat \ {0}, NEW a \in Nat, NEW r \in 0 .. n - 1
  PROVE  (a * n + r) \div n = a /\ (a * n + r) % n = r
<1> DEFINE x == a * n + r
<1>1. x \in Nat  BY SMT
<1>2. /\ x \div n \in Nat /\ x % n \in 0 .. n - 1
      /\ (x \div n) * n + (x % n) = a * n + r
  BY <1>1, DivMod
<1>3. QED  BY <1>2, RadixInjective

(* A stride of n leaves the residue unchanged.                             *)
LEMMA ModStride ==
  ASSUME NEW n \in Nat \ {0}, NEW i \in Nat
  PROVE  (i + n) % n = i % n
<1> DEFINE q == i \div n
           r == i % n
<1>1. q \in Nat /\ r \in 0 .. n - 1 /\ i = q * n + r  BY DivMod
<1> HIDE DEF q, r
<1>2. i + n = (q + 1) * n + r  BY <1>1, SMT
<1>3. ((q + 1) * n + r) % n = r  BY <1>1, RadixDivMod
<1>4. QED  BY <1>2, <1>3 DEF r

(* Between j and j + n no other number has the residue of j.               *)
LEMMA ModGap ==
  ASSUME NEW n \in Nat \ {0}, NEW i \in Nat, NEW j \in Nat,
         i % n = j % n, i < j + n
  PROVE  i <= j
<1> DEFINE p == i \div n
           q == j \div n
           r == i % n
<1>1. /\ p \in Nat /\ q \in Nat /\ r \in 0 .. n - 1
      /\ i = p * n + r /\ j = q * n + r
  BY DivMod
<1> HIDE DEF p, q, r
<1>2. p < q + 1  BY <1>1, SMT
<1>3. p * n <= q * n  BY <1>1, <1>2, SMT
<1>4. QED  BY <1>1, <1>3
=============================================================================
