--------------------------- MODULE ElementKernels ---------------------------
(***************************************************************************)
(* The kernels and loops between the convolutions: 2x2 pooling, nearest    *)
(* neighbour upsampling, the transfer function with its padding, its       *)
(* inverse with the cropping, and the concatenation of a saved tensor, in  *)
(* their CUDA and their CPU form.  The CUDA grid covers the output with    *)
(* blocks that hang over its edge; the CPU loops cover it exactly and are  *)
(* shared out by OpenMP.  Threads and iterations run in any order.         *)
(*                                                                         *)
(* The content of a tensor is symbolic: what is stored is the set of the   *)
(* elements <<tensor, position>> it was computed from.  A call is a record *)
(* with the operation, the back end, the size h x w x c of the padded      *)
(* tensor, h0 x w0 of the image, the channels of the saved tensor and the  *)
(* CUDA block.                                                             *)
(***************************************************************************)
EXTENDS Integers, FiniteSets

CONSTANT Calls   \* the calls considered

Ops == {"max_pool", "avg_pool", "nn_upsample", "transfer", "inverse", "concat"}

ASSUME CallShape ==
  \A k \in Calls :
    /\ k.op \in Ops /\ k.target \in {"cuda", "cpu"}
    /\ k.h \in Nat \ {0} /\ k.w \in Nat \ {0} /\ k.c \in Nat \ {0} /\ k.skip \in Nat \ {0}
    /\ k.h0 \in 1 .. k.h /\ k.w0 \in 1 .. k.w
    /\ k.block \in (Nat \ {0}) \X (Nat \ {0}) \X (Nat \ {0})

VARIABLES
  call,   \* the call that runs
  todo,   \* threads or iterations that have not run
  out     \* output position -> what was stored there

vars == <<call, todo, out>>

Unwritten == {<<"unwritten", 0>>}
Zero == {}

-----------------------------------------------------------------------------
(* Shapes.                                                                 *)

Pools == {"max_pool", "avg_pool"}

InShape(k) == IF k.op = "transfer" THEN <<k.h0, k.w0, k.c>> ELSE <<k.h, k.w, k.c>>
SkipShape(k) == <<k.h, k.w, k.skip>>
OutShape(k) ==
  CASE k.op \in Pools        -> <<k.h \div 2, k.w \div 2, k.c>>
    [] k.op = "nn_upsample"  -> <<k.h * 2, k.w * 2, k.c>>
    [] k.op = "transfer"     -> <<k.h, k.w, k.c>>
    [] k.op = "inverse"      -> <<k.h0, k.w0, k.c>>
    [] k.op = "concat"       -> <<k.h, k.w, k.c + k.skip>>

Volume(s) == s[1] * s[2] * s[3]
Box(s) == (0 .. s[1] - 1) \X (0 .. s[2] - 1) \X (0 .. s[3] - 1)

(* The index expression of all of them, for a tensor of W columns and C    *)
(* channels.                                                               *)
Flat(h, w, c, W, C) == (h * W + w) * C + c

-----------------------------------------------------------------------------
(* What one element is computed from and where it goes: the set of pairs   *)
(* <<position, elements read>> stored for output row h, column w and       *)
(* channel c.                                                              *)

Window_OutStride(k, h, w, c) ==
  LET base == Flat(2 * h, 2 * w, c, k.w, k.c)
      row  == (k.w \div 2) * k.c
  IN {base, base + k.c, base + row, base + row + k.c}
(* The four elements under a pooling window.                               *)
Window(k, h, w, c) ==
  LET base == Flat(2 * h, 2 * w, c, k.w, k.c)
      row  == k.w * k.c
  IN {base, base + k.c, base + row, base + row + k.c}

From(tensor, positions) == {<<tensor, p>> : p \in positions}

Element(k, h, w, c) ==
  CASE k.op \in Pools ->
         <<Flat(h, w, c, k.w \div 2, k.c), From("input", Window(k, h, w, c))>>
    [] k.op = "nn_upsample" ->
         <<Flat(h, w, c, k.w * 2, k.c), From("input", {Flat(h \div 2, w \div 2, c, k.w, k.c)})>>
    [] k.op = "transfer" ->
         <<Flat(h, w, c, k.w, k.c),
           IF h < k.h0 /\ w < k.w0 THEN From("input", {Flat(h, w, c, k.w0, k.c)}) ELSE Zero>>
    [] k.op = "inverse" ->
         <<Flat(h, w, c, k.w0, k.c), From("input", {Flat(h, w, c, k.w, k.c)})>>

(* The channels of pixel i, of input and then of the saved tensor.         *)
Pixel(k, i) ==
  {<<i * (k.c + k.skip) + ch, From("input", {i * k.c + ch})>> : ch \in 0 .. k.c - 1}
  \cup {<<i * (k.c + k.skip) + k.c + ch, From("skip", {i * k.skip + ch})>> : ch \in 0 .. k.skip - 1}

-----------------------------------------------------------------------------
(* CUDA: one thread per element, or per pixel for the concatenation.       *)

RoundUp(n, m) == ((n + m - 1) \div m) * m

Threads(k) ==
  LET s == OutShape(k)
  IN IF k.op = "concat"
     THEN {<<i, 0, 0>> : i \in 0 .. RoundUp(k.h * k.w, k.block[1]) - 1}
     ELSE Box(<<RoundUp(s[1], k.block[1]), RoundUp(s[2], k.block[2]), RoundUp(s[3], k.block[3])>>)

InRange_Input(k, t) ==
  IF k.op = "concat" THEN t[1] < k.h * k.w
  ELSE t[1] < OutShape(k)[1] /\ t[2] < InShape(k)[2] /\ t[3] < k.c
InRange(k, t) ==
  IF k.op = "concat" THEN t[1] < k.h * k.w
  ELSE LET s == OutShape(k) IN t[1] < s[1] /\ t[2] < s[2] /\ t[3] < s[3]

CudaStores(k, t) ==
  IF ~InRange(k, t) THEN {}
  ELSE IF k.op = "concat" THEN Pixel(k, t[1]) ELSE {Element(k, t[1], t[2], t[3])}

(* CPU: the loops of the poolings and of the upsampling are collapsed, the *)
(* others share out rows, or pixels.                                       *)
Iterations(k) ==
  CASE k.op \in {"transfer", "inverse"} -> {<<y, 0, 0>> : y \in 0 .. k.h0 - 1}
    [] k.op = "concat" -> {<<i, 0, 0>> : i \in 0 .. k.h * k.w - 1}
    [] OTHER           -> Box(OutShape(k))

CpuStores(k, t) ==
  CASE k.op \in {"transfer", "inverse"} ->
         {Element(k, t[1], x, ch) : x \in 0 .. k.w0 - 1, ch \in 0 .. k.c - 1}
    [] k.op = "concat" -> Pixel(k, t[1])
    [] OTHER           -> {Element(k, t[1], t[2], t[3])}

Stores(k, t) == IF k.target = "cuda" THEN CudaStores(k, t) ELSE CpuStores(k, t)

-----------------------------------------------------------------------------
(* A new tensor holds nothing, but for fill_n before the CPU's transfer.   *)
Fresh(k) == IF k.op = "transfer" /\ k.target = "cpu" THEN Zero ELSE Unwritten

Init ==
  /\ call \in Calls
  /\ todo = IF call.target = "cuda" THEN Threads(call) ELSE Iterations(call)
  /\ out = [p \in 0 .. Volume(OutShape(call)) - 1 |-> Fresh(call)]

Run(t) ==
  LET stores == Stores(call, t)
  IN /\ out' = [p \in DOMAIN out |->
                  IF \E s \in stores : s[1] = p THEN (CHOOSE s \in stores : s[1] = p)[2] ELSE out[p]]
     /\ todo' = todo \ {t}
     /\ UNCHANGED call

Finished == todo = {} /\ UNCHANGED vars

Next == (\E t \in todo : Run(t)) \/ Finished

Spec == Init /\ [][Next]_vars

-----------------------------------------------------------------------------
(* Properties.                                                             *)

TensorShape(k, tensor) == IF tensor = "skip" THEN SkipShape(k) ELSE InShape(k)

(* No thread or iteration still to run reads or writes outside the tensors *)
(* it is given, whatever the overhang of the grid and the parity of the    *)
(* input.                                                                  *)
AccessesInside ==
  \A t \in todo : \A s \in Stores(call, t) :
    /\ s[1] \in 0 .. Volume(OutShape(call)) - 1
    /\ \A r \in s[2] : r[2] \in 0 .. Volume(TensorShape(call, r[1])) - 1

(* Row, column and channel of a position in an NHWC tensor.                *)
Coordinates(s, p) == <<p \div (s[2] * s[3]), (p \div s[3]) % s[2], p % s[3]>>

(* What the operation means, over coordinates: the elements that make up   *)
(* output element e.                                                       *)
Meaning(k, e) ==
  LET h == e[1]
      w == e[2]
      c == e[3]
  IN CASE k.op \in Pools ->
            {<<"input", <<2 * h + i, 2 * w + j, c>>>> : i \in 0 .. 1, j \in 0 .. 1}
       [] k.op = "nn_upsample" -> {<<"input", <<h \div 2, w \div 2, c>>>>}
       [] k.op = "transfer" -> {<<"input", f>> : f \in {e} \cap Box(InShape(k))}
       [] k.op = "inverse" -> {<<"input", e>>}
       [] k.op = "concat" -> IF c < k.c THEN {<<"input", e>>} ELSE {<<"skip", <<h, w, c - k.c>>>>}

(* Whatever the order, every element of the output is in the end computed  *)
(* from exactly the elements the operation means, on both back ends:       *)
(* nothing is missed, mixed up or overwritten.                             *)
ComputesMeaning ==
  todo = {} =>
    \A p \in DOMAIN out :
      {<<r[1], Coordinates(TensorShape(call, r[1]), r[2])>> : r \in out[p]}
        = Meaning(call, Coordinates(OutShape(call), p))
=============================================================================
