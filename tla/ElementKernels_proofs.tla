----------------------- MODULE ElementKernels_proofs -----------------------
(***************************************************************************)
(* The kernels between the convolutions are right for every size, every    *)
(* block and every order of the threads: they stay inside their tensors    *)
(* and compute each element from the elements it is made of.               *)
(*                                                                         *)
(* The argument: a single store is right wherever it happens, and every    *)
(* output position that is not right yet is one that a thread still to run *)
(* will store to.                                                          *)
(***************************************************************************)
EXTENDS ElementKernels, Numbers

-----------------------------------------------------------------------------
(* Positions and coordinates of an NHWC tensor.                            *)

LEMMA FlatRange ==
  ASSUME NEW H \in Nat \ {0}, NEW W \in Nat \ {0}, NEW C \in Nat \ {0},
         NEW h \in 0 .. H - 1, NEW w \in 0 .. W - 1, NEW c \in 0 .. C - 1
  PROVE  Flat(h, w, c, W, C) \in 0 .. H * W * C - 1
<1>1. h * W + w \in 0 .. H * W - 1
  BY RadixRange
<1>2. H * W \in Nat \ {0}
  BY SMT
<1>3. QED
  BY <1>1, <1>2, RadixRange DEF Flat

LEMMA FlatCoordinates ==
  ASSUME NEW W \in Nat \ {0}, NEW C \in Nat \ {0}, NEW H,
         NEW h \in Nat, NEW w \in 0 .. W - 1, NEW c \in 0 .. C - 1
  PROVE  Coordinates(<<H, W, C>>, Flat(h, w, c, W, C)) = <<h, w, c>>
<1> DEFINE p == Flat(h, w, c, W, C)
<1>1. h * W + w \in Nat /\ W * C \in Nat \ {0}
  BY SMT
<1>2. p \div C = h * W + w /\ p % C = c
  BY <1>1, RadixDivMod DEF Flat
<1>3. (h * W + w) % W = w
  BY RadixDivMod
<1>4. w * C + c \in 0 .. W * C - 1
  BY RadixRange
<1>5. p = h * (W * C) + (w * C + c)
  BY SMT DEF Flat
<1> HIDE DEF p
<1>6. p \div (W * C) = h
  <2>1. (h * (W * C) + (w * C + c)) \div (W * C) = h
    BY <1>1, <1>4, RadixDivMod
  <2>2. QED
    BY <1>5, <2>1
<1>7. QED
  BY <1>2, <1>3, <1>6 DEF Coordinates, p

LEMMA FlatSurjective ==
  ASSUME NEW H \in Nat, NEW W \in Nat, NEW C \in Nat, NEW p \in 0 .. H * W * C - 1
  PROVE  \E h \in 0 .. H - 1, w \in 0 .. W - 1, c \in 0 .. C - 1 : p = Flat(h, w, c, W, C)
<1>1. H * W \in Nat \ {0} /\ C \in Nat \ {0} /\ H \in Nat \ {0} /\ W \in Nat \ {0}
  <2>1. H # 0 /\ W # 0 /\ C # 0
    BY SMT
  <2>2. QED
    BY <2>1, SMT
<1>2. PICK a \in 0 .. H * W - 1, c \in 0 .. C - 1 : p = a * C + c
  BY <1>1, RadixSurjective
<1>3. PICK h \in 0 .. H - 1, w \in 0 .. W - 1 : a = h * W + w
  BY <1>1, RadixSurjective
<1>4. QED
  BY <1>2, <1>3 DEF Flat

(* A grid rounded up to whole blocks covers the range it was made for.     *)
LEMMA RoundUpCovers ==
  ASSUME NEW n \in Nat, NEW m \in Nat \ {0}
  PROVE  RoundUp(n, m) \in Nat /\ RoundUp(n, m) >= n
<1> DEFINE q == (n + m - 1) \div m
           r == (n + m - 1) % m
<1>1. n + m - 1 \in Nat
  OBVIOUS
<1>2. q \in Nat /\ r \in 0 .. m - 1 /\ n + m - 1 = q * m + r
  BY <1>1, DivMod
<1>3. RoundUp(n, m) = q * m
  BY DEF RoundUp
<1> HIDE DEF q, r
<1>4. q * m \in Nat
  BY <1>2, SMT
<1>5. QED
  BY <1>2, <1>3, <1>4

-----------------------------------------------------------------------------
(* Shapes.                                                                 *)

LEMMA CallTypes ==
  ASSUME NEW k \in Calls
  PROVE  /\ k.op \in Ops /\ k.target \in {"cuda", "cpu"}
         /\ k.h \in Nat \ {0} /\ k.w \in Nat \ {0} /\ k.c \in Nat \ {0} /\ k.skip \in Nat \ {0}
         /\ k.h0 \in 1 .. k.h /\ k.w0 \in 1 .. k.w
         /\ k.block[1] \in Nat \ {0} /\ k.block[2] \in Nat \ {0} /\ k.block[3] \in Nat \ {0}
  BY CallShape

At(e, s) == Flat(e[1], e[2], e[3], s[2], s[3])

IsShape(s) == \E H \in Nat, W \in Nat, C \in Nat : s = <<H, W, C>>

LEMMA ShapeTypes ==
  ASSUME NEW k \in Calls
  PROVE  /\ IsShape(OutShape(k))
         /\ k.op # "concat" => OutShape(k)[3] = k.c
         /\ \A tensor : IsShape(TensorShape(k, tensor))
<1>1. /\ k.h \div 2 \in Nat /\ k.w \div 2 \in Nat /\ k.h * 2 \in Nat /\ k.w * 2 \in Nat
      /\ k.h \in Nat /\ k.w \in Nat /\ k.c \in Nat /\ k.skip \in Nat /\ k.c + k.skip \in Nat
      /\ k.h0 \in Nat /\ k.w0 \in Nat
  BY CallTypes
<1>2. k.op \in Ops
  BY CallTypes
<1>3. QED
  BY <1>1, <1>2 DEF Ops, Pools, OutShape, TensorShape, InShape, SkipShape, IsShape

LEMMA BoxOf ==
  ASSUME NEW s, IsShape(s), NEW e \in Box(s)
  PROVE  /\ s[1] \in Nat \ {0} /\ s[2] \in Nat \ {0} /\ s[3] \in Nat \ {0}
         /\ s = <<s[1], s[2], s[3]>> /\ e = <<e[1], e[2], e[3]>>
         /\ e[1] \in 0 .. s[1] - 1 /\ e[2] \in 0 .. s[2] - 1 /\ e[3] \in 0 .. s[3] - 1
  BY DEF IsShape, Box

LEMMA BoxOfTuple ==
  ASSUME NEW H, NEW W, NEW C, NEW e \in Box(<<H, W, C>>)
  PROVE  e[1] \in 0 .. H - 1 /\ e[2] \in 0 .. W - 1 /\ e[3] \in 0 .. C - 1
  BY DEF Box

(* An element of a tensor is inside it, and its position gives back its    *)
(* coordinates.                                                            *)
LEMMA ElementAt ==
  ASSUME NEW s, IsShape(s), NEW e \in Box(s)
  PROVE  At(e, s) \in 0 .. Volume(s) - 1 /\ Coordinates(s, At(e, s)) = e
<1>1. /\ s[1] \in Nat \ {0} /\ s[2] \in Nat \ {0} /\ s[3] \in Nat \ {0}
      /\ s = <<s[1], s[2], s[3]>> /\ e = <<e[1], e[2], e[3]>>
      /\ e[1] \in 0 .. s[1] - 1 /\ e[2] \in 0 .. s[2] - 1 /\ e[3] \in 0 .. s[3] - 1
  BY BoxOf
<1>2. At(e, s) \in 0 .. Volume(s) - 1
  BY <1>1, FlatRange DEF At, Volume
<1>3. Coordinates(<<s[1], s[2], s[3]>>, At(e, s)) = <<e[1], e[2], e[3]>>
  <2>1. e[1] \in Nat
    BY <1>1
  <2>2. QED
    BY <1>1, <2>1, FlatCoordinates DEF At
<1>4. QED
  BY <1>1, <1>2, <1>3

LEMMA ElementOf ==
  ASSUME NEW s, IsShape(s), NEW p \in 0 .. Volume(s) - 1
  PROVE  \E e \in Box(s) : p = At(e, s)
<1>1. s[1] \in Nat /\ s[2] \in Nat /\ s[3] \in Nat
  BY DEF IsShape
<1>2. PICK h \in 0 .. s[1] - 1, w \in 0 .. s[2] - 1, c \in 0 .. s[3] - 1 :
        p = Flat(h, w, c, s[2], s[3])
  BY <1>1, FlatSurjective DEF Volume
<1>3. <<h, w, c>> \in Box(s)
  BY DEF Box
<1>4. QED
  BY <1>2, <1>3 DEF At

-----------------------------------------------------------------------------
(* A store that is right for output element e: it goes to the position of  *)
(* e, and what it reads are the positions of the elements that e means.    *)
RightFor(k, e, store) ==
  \E tensor \in {"input", "skip"} : \E S \in SUBSET Box(TensorShape(k, tensor)) :
    /\ store[1] = At(e, OutShape(k))
    /\ store[2] = From(tensor, {At(f, TensorShape(k, tensor)) : f \in S})
    /\ Meaning(k, e) = {<<tensor, f>> : f \in S}

Right(k, store) == \E e \in Box(OutShape(k)) : RightFor(k, e, store)

(* The elements that were read, by coordinates.                            *)
Read(k, value) == {<<r[1], Coordinates(TensorShape(k, r[1]), r[2])>> : r \in value}

LEMMA RightInside ==
  ASSUME NEW k \in Calls, NEW store, Right(k, store)
  PROVE  /\ store[1] \in 0 .. Volume(OutShape(k)) - 1
         /\ \A r \in store[2] : r[2] \in 0 .. Volume(TensorShape(k, r[1])) - 1
<1>1. PICK e \in Box(OutShape(k)) : RightFor(k, e, store)
  BY DEF Right
<1> PICK tensor \in {"input", "skip"} :
      \E S \in SUBSET Box(TensorShape(k, tensor)) :
        /\ store[1] = At(e, OutShape(k))
        /\ store[2] = From(tensor, {At(f, TensorShape(k, tensor)) : f \in S})
  BY <1>1 DEF RightFor
<1>2. PICK S \in SUBSET Box(TensorShape(k, tensor)) :
        /\ store[1] = At(e, OutShape(k))
        /\ store[2] = From(tensor, {At(f, TensorShape(k, tensor)) : f \in S})
  OBVIOUS
<1>3. \A f \in S : At(f, TensorShape(k, tensor)) \in 0 .. Volume(TensorShape(k, tensor)) - 1
  BY ShapeTypes, ElementAt
<1>4. QED
  BY <1>2, <1>3, ShapeTypes, ElementAt DEF From

LEMMA RightMeans ==
  ASSUME NEW k \in Calls, NEW e \in Box(OutShape(k)), NEW store, RightFor(k, e, store)
  PROVE  Read(k, store[2]) = Meaning(k, e)
<1> PICK tensor \in {"input", "skip"} :
      \E S \in SUBSET Box(TensorShape(k, tensor)) :
        /\ store[2] = From(tensor, {At(f, TensorShape(k, tensor)) : f \in S})
        /\ Meaning(k, e) = {<<tensor, f>> : f \in S}
  BY DEF RightFor
<1>1. PICK S \in SUBSET Box(TensorShape(k, tensor)) :
        /\ store[2] = From(tensor, {At(f, TensorShape(k, tensor)) : f \in S})
        /\ Meaning(k, e) = {<<tensor, f>> : f \in S}
  OBVIOUS
<1>2. ASSUME NEW f \in S PROVE Coordinates(TensorShape(k, tensor), At(f, TensorShape(k, tensor))) = f
  BY ShapeTypes, ElementAt
<1> DEFINE t == TensorShape(k, tensor)
<1>3. store[2] = {<<tensor, At(f, t)>> : f \in S}
  BY <1>1 DEF From
<1>4. ASSUME NEW x \in Read(k, store[2]) PROVE x \in Meaning(k, e)
  <2>1. PICK f \in S : x = <<tensor, Coordinates(t, At(f, t))>>
    BY <1>3, <1>4 DEF Read
  <2>2. QED
    BY <1>1, <1>2, <2>1
<1>5. ASSUME NEW x \in Meaning(k, e) PROVE x \in Read(k, store[2])
  <2>1. PICK f \in S : x = <<tensor, f>>
    BY <1>1, <1>5
  <2>2. <<tensor, At(f, t)>> \in store[2]
    BY <1>3, <2>1
  <2>3. <<tensor, Coordinates(t, At(f, t))>> \in Read(k, store[2])
    <3> DEFINE r == <<tensor, At(f, t)>>
    <3>1. r[1] = tensor /\ r[2] = At(f, t)
      OBVIOUS
    <3>2. r \in store[2]
      BY <2>2
    <3> HIDE DEF r
    <3>3. <<r[1], Coordinates(TensorShape(k, r[1]), r[2])>> \in Read(k, store[2])
      BY <3>2 DEF Read
    <3>4. QED
      BY <3>1, <3>3
  <2>4. QED
    BY <1>2, <2>1, <2>3
<1>6. QED
  BY <1>4, <1>5

-----------------------------------------------------------------------------
(* The stores of each operation.                                           *)

(* The window's four positions are the elements at twice the row and       *)
(* column, and one further.                                                *)
LEMMA WindowElements ==
  ASSUME NEW k \in Calls, NEW h \in Nat, NEW w \in Nat, NEW c \in Nat
  PROVE  Window(k, h, w, c) =
           {At(f, <<k.h, k.w, k.c>>) : f \in {<<2 * h + i, 2 * w + j, c>> : i \in 0 .. 1, j \in 0 .. 1}}
<1> DEFINE base == Flat(2 * h, 2 * w, c, k.w, k.c)
<1>1. k.w \in Nat /\ k.c \in Nat
  BY CallTypes
<1>2. /\ Flat(2 * h, 2 * w + 1, c, k.w, k.c) = base + k.c
      /\ Flat(2 * h + 1, 2 * w, c, k.w, k.c) = base + k.w * k.c
      /\ Flat(2 * h + 1, 2 * w + 1, c, k.w, k.c) = base + k.w * k.c + k.c
  BY <1>1, SMT DEF Flat
<1>3. {<<2 * h + i, 2 * w + j, c>> : i \in 0 .. 1, j \in 0 .. 1} =
        {<<2 * h, 2 * w, c>>, <<2 * h, 2 * w + 1, c>>, <<2 * h + 1, 2 * w, c>>, <<2 * h + 1, 2 * w + 1, c>>}
  BY SMT
<1>4. Window(k, h, w, c) = {base, base + k.c, base + k.w * k.c, base + k.w * k.c + k.c}
  BY DEF Window
<1> HIDE DEF base
<1>5. /\ At(<<2 * h, 2 * w, c>>, <<k.h, k.w, k.c>>) = base
      /\ At(<<2 * h, 2 * w + 1, c>>, <<k.h, k.w, k.c>>) = base + k.c
      /\ At(<<2 * h + 1, 2 * w, c>>, <<k.h, k.w, k.c>>) = base + k.w * k.c
      /\ At(<<2 * h + 1, 2 * w + 1, c>>, <<k.h, k.w, k.c>>) = base + k.w * k.c + k.c
  BY <1>2 DEF At, base
<1>6. QED
  BY <1>3, <1>4, <1>5

LEMMA ElementRight ==
  ASSUME NEW k \in Calls, k.op # "concat", NEW h, NEW w, NEW c, <<h, w, c>> \in Box(OutShape(k))
  PROVE  RightFor(k, <<h, w, c>>, Element(k, h, w, c))
<1> DEFINE e == <<h, w, c>>
           s == OutShape(k)
           t == TensorShape(k, "input")
           st == Element(k, h, w, c)
<1>1. /\ k.op \in Ops /\ k.h \in Nat \ {0} /\ k.w \in Nat \ {0} /\ k.c \in Nat \ {0}
      /\ k.h0 \in 1 .. k.h /\ k.w0 \in 1 .. k.w
  BY CallTypes
<1>2. /\ h \in 0 .. s[1] - 1 /\ w \in 0 .. s[2] - 1 /\ c \in 0 .. s[3] - 1
      /\ s[1] \in Nat /\ s[2] \in Nat /\ s[3] \in Nat /\ h \in Nat /\ w \in Nat /\ c \in Nat
  BY ShapeTypes DEF IsShape, Box
<1>3. ASSUME NEW S \in SUBSET Box(t),
             st[1] = At(e, s), st[2] = From("input", {At(f, t) : f \in S}),
             Meaning(k, e) = {<<"input", f>> : f \in S}
      PROVE  RightFor(k, e, st)
  BY <1>3 DEF RightFor
<1>4. CASE k.op \in Pools
  <2> DEFINE S == {<<2 * h + i, 2 * w + j, c>> : i \in 0 .. 1, j \in 0 .. 1}
  <2>0. k.op \in Pools /\ k.op # "nn_upsample" /\ k.op # "transfer" /\ k.op # "inverse" /\ k.op # "concat"
    BY <1>4 DEF Pools
  <2>1. s = <<k.h \div 2, k.w \div 2, k.c>> /\ t = <<k.h, k.w, k.c>>
    BY <2>0 DEF OutShape, TensorShape, InShape
  <2>2. st = <<Flat(h, w, c, k.w \div 2, k.c), From("input", Window(k, h, w, c))>>
    BY <2>0 DEF Element
  <2>3. S \in SUBSET Box(t)
    <3>1. h \in 0 .. (k.h \div 2) - 1 /\ w \in 0 .. (k.w \div 2) - 1 /\ c \in 0 .. k.c - 1
      BY <1>2, <2>1
    <3>2. \A i \in 0 .. 1, j \in 0 .. 1 : 2 * h + i \in 0 .. k.h - 1 /\ 2 * w + j \in 0 .. k.w - 1
      BY <1>1, <3>1
    <3>3. QED
      BY <2>1, <3>1, <3>2 DEF Box
  <2>4. st[2] = From("input", {At(f, t) : f \in S})
    <3>1. Window(k, h, w, c) = {At(f, <<k.h, k.w, k.c>>) : f \in S}
      BY <1>2, WindowElements
    <3>2. st[2] = From("input", Window(k, h, w, c))
      BY <2>2
    <3> HIDE DEF S, st, t
    <3>3. QED
      BY <2>1, <3>1, <3>2, Zenon
  <2>5. Meaning(k, e) = {<<"input", f>> : f \in S}
    <3>1. Meaning(k, e) = {<<"input", <<2 * h + i, 2 * w + j, c>>>> : i \in 0 .. 1, j \in 0 .. 1}
      BY <2>0 DEF Meaning
    <3>2. QED
      BY <3>1
  <2>6. st[1] = At(e, s)
    BY <2>1, <2>2 DEF At
  <2> HIDE DEF S
  <2>7. QED
    BY <1>3, <2>3, <2>4, <2>5, <2>6
<1>5. CASE k.op = "nn_upsample"
  <2> DEFINE S == {<<h \div 2, w \div 2, c>>}
  <2>1. s = <<k.h * 2, k.w * 2, k.c>> /\ t = <<k.h, k.w, k.c>>
    BY <1>5 DEF Pools, OutShape, TensorShape, InShape
  <2>2. st = <<Flat(h, w, c, k.w * 2, k.c), From("input", {Flat(h \div 2, w \div 2, c, k.w, k.c)})>>
    BY <1>5 DEF Element, Pools
  <2>3. S \in SUBSET Box(t)
    BY <1>1, <1>2, <2>1 DEF Box
  <2>4. st[2] = From("input", {At(f, t) : f \in S}) /\ st[1] = At(e, s)
    <3>1. {At(f, t) : f \in S} = {At(<<h \div 2, w \div 2, c>>, t)}
      OBVIOUS
    <3>2. At(<<h \div 2, w \div 2, c>>, t) = Flat(h \div 2, w \div 2, c, k.w, k.c)
      BY <2>1 DEF At
    <3>3. st[1] = At(e, s)
      BY <2>1, <2>2 DEF At
    <3>4. st[2] = From("input", {Flat(h \div 2, w \div 2, c, k.w, k.c)})
      BY <2>2
    <3> HIDE DEF S, st, t
    <3>5. QED
      BY <3>1, <3>2, <3>3, <3>4
  <2>5. Meaning(k, e) = {<<"input", f>> : f \in S}
    BY <1>5 DEF Meaning, Pools
  <2>6. QED
    BY <1>3, <2>3, <2>4, <2>5
<1>6. CASE k.op = "transfer"
  <2> DEFINE S == {e} \cap Box(t)
  <2>1. s = <<k.h, k.w, k.c>> /\ t = <<k.h0, k.w0, k.c>> /\ t = InShape(k)
    BY <1>6 DEF Pools, OutShape, TensorShape, InShape
  <2>2. st = <<Flat(h, w, c, k.w, k.c),
               IF h < k.h0 /\ w < k.w0 THEN From("input", {Flat(h, w, c, k.w0, k.c)}) ELSE Zero>>
    BY <1>6 DEF Element, Pools
  <2>3. e \in Box(t) <=> h < k.h0 /\ w < k.w0
    BY <1>1, <1>2, <2>1 DEF Box
  <2>4. st[2] = From("input", {At(f, t) : f \in S}) /\ st[1] = At(e, s)
    BY <2>1, <2>2, <2>3 DEF At, From, Zero
  <2>5. Meaning(k, e) = {<<"input", f>> : f \in S}
    BY <1>6, <2>1 DEF Meaning, Pools
  <2>6. QED
    BY <1>3, <2>4, <2>5
<1>7. CASE k.op = "inverse"
  <2> DEFINE S == {e}
  <2>1. s = <<k.h0, k.w0, k.c>> /\ t = <<k.h, k.w, k.c>>
    BY <1>7 DEF Pools, OutShape, TensorShape, InShape
  <2>2. st = <<Flat(h, w, c, k.w0, k.c), From("input", {Flat(h, w, c, k.w, k.c)})>>
    BY <1>7 DEF Element, Pools
  <2>3. S \in SUBSET Box(t)
    BY <1>1, <1>2, <2>1 DEF Box
  <2>4. st[2] = From("input", {At(f, t) : f \in S}) /\ st[1] = At(e, s)
    BY <2>1, <2>2 DEF At
  <2>5. Meaning(k, e) = {<<"input", f>> : f \in S}
    BY <1>7 DEF Meaning, Pools
  <2>6. QED
    BY <1>3, <2>3, <2>4, <2>5
<1>8. QED
  BY <1>1, <1>4, <1>5, <1>6, <1>7 DEF Ops, Pools

(* Pixel i of a concatenation is row i \div w, column i % w.               *)
LEMMA PixelRight ==
  ASSUME NEW k \in Calls, k.op = "concat", NEW h \in 0 .. k.h - 1, NEW w \in 0 .. k.w - 1,
         NEW store \in Pixel(k, h * k.w + w)
  PROVE  \E c \in 0 .. k.c + k.skip - 1 : RightFor(k, <<h, w, c>>, store)
<1> DEFINE i == h * k.w + w
           s == OutShape(k)
<1>1. /\ k.h \in Nat \ {0} /\ k.w \in Nat \ {0} /\ k.c \in Nat \ {0} /\ k.skip \in Nat \ {0}
  BY CallTypes
<1>2. /\ s = <<k.h, k.w, k.c + k.skip>> /\ TensorShape(k, "input") = <<k.h, k.w, k.c>>
      /\ TensorShape(k, "skip") = <<k.h, k.w, k.skip>>
  BY DEF OutShape, TensorShape, InShape, SkipShape, Pools
<1>3. ASSUME NEW tensor \in {"input", "skip"}, NEW c, NEW f \in Box(TensorShape(k, tensor)),
             store[1] = At(<<h, w, c>>, s), store[2] = From(tensor, {At(f, TensorShape(k, tensor))}),
             Meaning(k, <<h, w, c>>) = {<<tensor, f>>}
      PROVE  RightFor(k, <<h, w, c>>, store)
  <2>1. /\ {f} \in SUBSET Box(TensorShape(k, tensor))
        /\ {At(g, TensorShape(k, tensor)) : g \in {f}} = {At(f, TensorShape(k, tensor))}
        /\ {<<tensor, g>> : g \in {f}} = {<<tensor, f>>}
    OBVIOUS
  <2>2. QED
    BY <1>3, <2>1 DEF RightFor
<1>4. ASSUME NEW c \in 0 .. k.c - 1, store = <<i * (k.c + k.skip) + c, From("input", {i * k.c + c})>>
      PROVE  RightFor(k, <<h, w, c>>, store)
  <2>1. <<h, w, c>> \in Box(TensorShape(k, "input"))
    BY <1>1, <1>2 DEF Box
  <2>2. store[1] = At(<<h, w, c>>, s) /\ store[2] = From("input", {At(<<h, w, c>>, TensorShape(k, "input"))})
    BY <1>2, <1>4 DEF At, Flat
  <2>3. Meaning(k, <<h, w, c>>) = {<<"input", <<h, w, c>>>>}
    BY <1>1 DEF Meaning, Pools
  <2>4. QED
    BY <1>3, <2>1, <2>2, <2>3
<1>5. ASSUME NEW c \in 0 .. k.skip - 1,
             store = <<i * (k.c + k.skip) + k.c + c, From("skip", {i * k.skip + c})>>
      PROVE  RightFor(k, <<h, w, k.c + c>>, store)
  <2>1. <<h, w, c>> \in Box(TensorShape(k, "skip"))
    BY <1>1, <1>2 DEF Box
  <2>2. i * (k.c + k.skip) + k.c + c = i * (k.c + k.skip) + (k.c + c) /\ (k.c + c) - k.c = c
    <3> DEFINE base == i * (k.c + k.skip)
    <3>1. i \in Nat /\ k.c \in Nat /\ k.skip \in Nat /\ c \in Nat
      BY <1>1, SMT
    <3> HIDE DEF i
    <3>2. base \in Nat
      BY <3>1, SMT
    <3> HIDE DEF base
    <3>3. base + k.c + c = base + (k.c + c) /\ (k.c + c) - k.c = c
      BY <3>1, <3>2
    <3>4. QED
      BY <3>3 DEF base
  <2>3. store[1] = At(<<h, w, k.c + c>>, s) /\ store[2] = From("skip", {At(<<h, w, c>>, TensorShape(k, "skip"))})
    <3>1. At(<<h, w, k.c + c>>, s) = i * (k.c + k.skip) + (k.c + c)
      BY <1>2 DEF At, Flat
    <3>2. At(<<h, w, c>>, TensorShape(k, "skip")) = i * k.skip + c
      BY <1>2 DEF At, Flat
    <3>3. store[1] = i * (k.c + k.skip) + k.c + c /\ store[2] = From("skip", {i * k.skip + c})
      BY <1>5
    <3> HIDE DEF i, s
    <3>4. QED
      BY <2>2, <3>1, <3>2, <3>3
  <2>4. Meaning(k, <<h, w, k.c + c>>) = {<<"skip", <<h, w, c>>>>}
    BY <1>1, <2>2 DEF Meaning, Pools
  <2>5. QED
    BY <1>3, <2>1, <2>3, <2>4
<1>6. QED
  <2>1. CASE \E c \in 0 .. k.c - 1 : store = <<i * (k.c + k.skip) + c, From("input", {i * k.c + c})>>
    <3>1. PICK c \in 0 .. k.c - 1 : store = <<i * (k.c + k.skip) + c, From("input", {i * k.c + c})>>
      BY <2>1
    <3>2. RightFor(k, <<h, w, c>>, store)
      BY <1>4, <3>1
    <3>3. c \in 0 .. k.c + k.skip - 1
      BY <1>1
    <3>4. QED
      BY <3>2, <3>3
  <2>2. CASE \E c \in 0 .. k.skip - 1 :
               store = <<i * (k.c + k.skip) + k.c + c, From("skip", {i * k.skip + c})>>
    <3>1. PICK c \in 0 .. k.skip - 1 :
            store = <<i * (k.c + k.skip) + k.c + c, From("skip", {i * k.skip + c})>>
      BY <2>2
    <3>2. RightFor(k, <<h, w, k.c + c>>, store)
      BY <1>5, <3>1
    <3>3. k.c + c \in 0 .. k.c + k.skip - 1
      BY <1>1
    <3>4. QED
      BY <3>2, <3>3
  <2>3. QED
    BY <2>1, <2>2 DEF Pixel

-----------------------------------------------------------------------------
(* The stores of a thread or an iteration.                                 *)

All(k) == IF k.target = "cuda" THEN Threads(k) ELSE Iterations(k)

LEMMA InverseShapes ==
  ASSUME NEW k \in Calls
  PROVE  /\ k.op = "transfer" => OutShape(k) = <<k.h, k.w, k.c>>
         /\ k.op = "inverse"  => OutShape(k) = <<k.h0, k.w0, k.c>>
         /\ k.op = "concat"   => OutShape(k) = <<k.h, k.w, k.c + k.skip>>
         /\ k.op = "transfer" => TensorShape(k, "input") = <<k.h0, k.w0, k.c>>
  BY DEF OutShape, TensorShape, InShape, Pools

(* Pixel i is the one of some row and column.                              *)
LEMMA PixelOf ==
  ASSUME NEW k \in Calls, NEW i \in Nat, i < k.h * k.w
  PROVE  \E h \in 0 .. k.h - 1, w \in 0 .. k.w - 1 : i = h * k.w + w
<1>1. k.h \in Nat \ {0} /\ k.w \in Nat \ {0}
  BY CallTypes
<1>2. k.h * k.w \in Nat
  BY <1>1, SMT
<1>3. i \in 0 .. k.h * k.w - 1
  BY <1>2
<1>4. QED
  BY <1>1, <1>3, RadixSurjective

LEMMA PixelStoresRight ==
  ASSUME NEW k \in Calls, k.op = "concat", NEW i \in Nat, i < k.h * k.w, NEW store \in Pixel(k, i)
  PROVE  Right(k, store)
<1>1. PICK h \in 0 .. k.h - 1, w \in 0 .. k.w - 1 : i = h * k.w + w
  BY PixelOf
<1>2. PICK c \in 0 .. k.c + k.skip - 1 : RightFor(k, <<h, w, c>>, store)
  BY <1>1, PixelRight
<1>3. <<h, w, c>> \in Box(OutShape(k))
  <2>1. <<h, w, c>> \in Box(<<k.h, k.w, k.c + k.skip>>)
    BY CallTypes DEF Box
  <2>2. QED
    BY <2>1, InverseShapes
<1>4. QED
  BY <1>2, <1>3 DEF Right

LEMMA StoresRight ==
  ASSUME NEW k \in Calls, NEW t \in All(k), NEW store \in Stores(k, t)
  PROVE  Right(k, store)
<1> DEFINE s == OutShape(k)
<1>1. /\ k.op \in Ops /\ k.target \in {"cuda", "cpu"}
      /\ k.h \in Nat \ {0} /\ k.w \in Nat \ {0} /\ k.c \in Nat \ {0}
      /\ k.h0 \in 1 .. k.h /\ k.w0 \in 1 .. k.w
      /\ k.block[1] \in Nat \ {0} /\ k.block[2] \in Nat \ {0} /\ k.block[3] \in Nat \ {0}
  BY CallTypes
<1>2. s[1] \in Nat /\ s[2] \in Nat /\ s[3] \in Nat
  BY ShapeTypes DEF IsShape
<1>3. k.h * k.w \in Nat
  BY <1>1, SMT
<1>4. ASSUME k.op # "concat", NEW e \in Box(s), store = Element(k, e[1], e[2], e[3])
      PROVE  Right(k, store)
  <2>1. e = <<e[1], e[2], e[3]>>
    BY DEF Box
  <2>2. RightFor(k, <<e[1], e[2], e[3]>>, store)
    BY <1>4, <2>1, ElementRight
  <2>3. QED
    BY <2>1, <2>2 DEF Right
<1>5. CASE k.target = "cuda"
  <2>1. InRange(k, t) /\ store \in (IF k.op = "concat" THEN Pixel(k, t[1]) ELSE {Element(k, t[1], t[2], t[3])})
    BY <1>5 DEF Stores, CudaStores
  <2>2. CASE k.op = "concat"
    <3>1. t \in {<<i, 0, 0>> : i \in 0 .. RoundUp(k.h * k.w, k.block[1]) - 1}
      BY <1>5, <2>2 DEF All, Threads
    <3>2. RoundUp(k.h * k.w, k.block[1]) \in Nat
      BY <1>1, <1>3, RoundUpCovers
    <3>3. t[1] \in Nat
      BY <3>1, <3>2
    <3>4. t[1] < k.h * k.w
      BY <2>1, <2>2 DEF InRange
    <3>5. QED
      BY <2>1, <2>2, <3>3, <3>4, PixelStoresRight
  <2>3. CASE k.op # "concat"
    <3> DEFINE R == <<RoundUp(s[1], k.block[1]), RoundUp(s[2], k.block[2]), RoundUp(s[3], k.block[3])>>
    <3>1. t \in Box(R)
      BY <1>5, <2>3 DEF All, Threads
    <3>2. t[1] < s[1] /\ t[2] < s[2] /\ t[3] < s[3]
      BY <2>1, <2>3 DEF InRange
    <3>3. R[1] \in Nat /\ R[2] \in Nat /\ R[3] \in Nat
      BY <1>1, <1>2, RoundUpCovers
    <3> HIDE DEF R, s
    <3>4. t \in Box(s)
      BY <1>2, <3>1, <3>2, <3>3 DEF Box
    <3>5. QED
      BY <1>4, <2>1, <2>3, <3>4 DEF s
  <2>4. QED
    BY <2>2, <2>3
<1>6. CASE k.target = "cpu"
  <2>1. t \in Iterations(k) /\ store \in CpuStores(k, t)
    BY <1>6 DEF All, Stores
  <2>2. CASE k.op \in {"transfer", "inverse"}
    <3>1. t[1] \in 0 .. k.h0 - 1
      BY <2>1, <2>2 DEF Iterations
    <3>2. PICK x \in 0 .. k.w0 - 1, ch \in 0 .. k.c - 1 : store = Element(k, t[1], x, ch)
      BY <2>1, <2>2 DEF CpuStores
    <3>3. s = <<k.h, k.w, k.c>> \/ s = <<k.h0, k.w0, k.c>>
      BY <2>2, InverseShapes
    <3>4. /\ <<t[1], x, ch>> \in Box(<<k.h, k.w, k.c>>)
          /\ <<t[1], x, ch>> \in Box(<<k.h0, k.w0, k.c>>)
      BY <1>1, <3>1 DEF Box
    <3>5. <<t[1], x, ch>> \in Box(s)
      BY <3>3, <3>4
    <3>6. QED
      BY <1>4, <2>2, <3>2, <3>5
  <2>3. CASE k.op = "concat"
    <3>1. t[1] \in 0 .. k.h * k.w - 1
      BY <2>1, <2>3 DEF Iterations
    <3>2. store \in Pixel(k, t[1])
      BY <2>1, <2>3 DEF CpuStores
    <3>3. QED
      BY <1>3, <2>3, <3>1, <3>2, PixelStoresRight
  <2>4. CASE k.op \notin {"transfer", "inverse", "concat"}
    <3>1. t \in Box(s) /\ store = Element(k, t[1], t[2], t[3])
      BY <2>1, <2>4 DEF Iterations, CpuStores
    <3>2. QED
      BY <1>4, <2>4, <3>1
  <2>5. QED
    BY <2>2, <2>3, <2>4
<1>7. QED
  BY <1>1, <1>5, <1>6

-----------------------------------------------------------------------------
(* The stores reach every element of the output.                           *)

LEMMA ElementStored ==
  ASSUME NEW k \in Calls, k.op # "concat", NEW e \in Box(OutShape(k))
  PROVE  Element(k, e[1], e[2], e[3])[1] = At(e, OutShape(k))
<1>1. e = <<e[1], e[2], e[3]>>
  BY DEF Box
<1>2. RightFor(k, e, Element(k, e[1], e[2], e[3]))
  BY <1>1, ElementRight
<1>3. QED
  BY <1>2 DEF RightFor

LEMMA PixelStored ==
  ASSUME NEW k \in Calls, k.op = "concat", NEW e \in Box(OutShape(k))
  PROVE  /\ e[1] * k.w + e[2] \in 0 .. k.h * k.w - 1
         /\ \E st \in Pixel(k, e[1] * k.w + e[2]) : st[1] = At(e, OutShape(k))
<1> DEFINE i == e[1] * k.w + e[2]
           base == i * (k.c + k.skip)
<1>1. k.h \in Nat \ {0} /\ k.w \in Nat \ {0} /\ k.c \in Nat \ {0} /\ k.skip \in Nat \ {0}
  BY CallTypes
<1>2. OutShape(k) = <<k.h, k.w, k.c + k.skip>>
  BY InverseShapes
<1>3. e[1] \in 0 .. k.h - 1 /\ e[2] \in 0 .. k.w - 1 /\ e[3] \in 0 .. k.c + k.skip - 1
  <2>1. e \in Box(<<k.h, k.w, k.c + k.skip>>)
    BY <1>2
  <2>2. QED
    BY <1>1, <2>1, BoxOfTuple
<1>4. i \in 0 .. k.h * k.w - 1
  BY <1>1, <1>3, RadixRange
<1>5. At(e, OutShape(k)) = base + e[3]
  BY <1>2 DEF At, Flat
<1>6. base \in Nat
  <2>1. i \in Nat /\ k.c + k.skip \in Nat
    BY <1>1, <1>4, SMT
  <2> HIDE DEF i
  <2>2. QED
    BY <2>1, SMT
<1> HIDE DEF base, i
<1>7. CASE e[3] < k.c
  <2>1. e[3] \in 0 .. k.c - 1
    BY <1>1, <1>3, <1>7
  <2>2. <<base + e[3], From("input", {i * k.c + e[3]})>> \in Pixel(k, i)
    BY <2>1 DEF Pixel, base
  <2>3. QED
    BY <1>4, <1>5, <2>2 DEF i
<1>8. CASE e[3] >= k.c
  <2> DEFINE ch == e[3] - k.c
  <2>1. ch \in 0 .. k.skip - 1 /\ base + k.c + ch = base + e[3]
    BY <1>1, <1>3, <1>6, <1>8
  <2> HIDE DEF ch
  <2>2. <<base + k.c + ch, From("skip", {i * k.skip + ch})>> \in Pixel(k, i)
    BY <2>1 DEF Pixel, base
  <2>3. QED
    BY <1>4, <1>5, <2>1, <2>2 DEF i
<1>9. QED
  BY <1>1, <1>3, <1>7, <1>8

(* What a tensor starts with is right wherever no thread or iteration      *)
(* stores: only the CPU's transfer leaves elements out, and fill_n made    *)
(* them zero, which is what they mean.                                     *)
LEMMA Covered ==
  ASSUME NEW k \in Calls, NEW e \in Box(OutShape(k))
  PROVE  \/ \E t \in All(k) : \E st \in Stores(k, t) : st[1] = At(e, OutShape(k))
         \/ Fresh(k) = Zero /\ Meaning(k, e) = {}
<1> DEFINE s == OutShape(k)
<1>1. /\ k.op \in Ops /\ k.target \in {"cuda", "cpu"}
      /\ k.h \in Nat \ {0} /\ k.w \in Nat \ {0} /\ k.c \in Nat \ {0}
      /\ k.h0 \in 1 .. k.h /\ k.w0 \in 1 .. k.w
      /\ k.block[1] \in Nat \ {0} /\ k.block[2] \in Nat \ {0} /\ k.block[3] \in Nat \ {0}
  BY CallTypes
<1>2. /\ s[1] \in Nat \ {0} /\ s[2] \in Nat \ {0} /\ s[3] \in Nat \ {0} /\ e = <<e[1], e[2], e[3]>>
      /\ e[1] \in 0 .. s[1] - 1 /\ e[2] \in 0 .. s[2] - 1 /\ e[3] \in 0 .. s[3] - 1
  BY ShapeTypes, BoxOf
<1>3. k.h * k.w \in Nat
  BY <1>1, SMT
<1>4. CASE k.op = "concat"
  <2> DEFINE i == e[1] * k.w + e[2]
             t == <<i, 0, 0>>
  <2>1. i \in 0 .. k.h * k.w - 1 /\ \E st \in Pixel(k, i) : st[1] = At(e, s)
    BY <1>4, PixelStored
  <2>2. RoundUp(k.h * k.w, k.block[1]) \in Nat /\ RoundUp(k.h * k.w, k.block[1]) >= k.h * k.w
    BY <1>1, <1>3, RoundUpCovers
  <2> HIDE DEF i, s
  <2>3. i \in 0 .. RoundUp(k.h * k.w, k.block[1]) - 1
    BY <1>3, <2>1, <2>2
  <2>4. t \in All(k)
    BY <1>1, <1>4, <2>1, <2>3 DEF All, Threads, Iterations
  <2>5. i < k.h * k.w
    BY <1>3, <2>1
  <2>6. Stores(k, t) = Pixel(k, i)
    BY <1>1, <1>4, <2>5 DEF Stores, CudaStores, CpuStores, InRange
  <2>7. QED
    BY <2>1, <2>4, <2>6 DEF s
<1>5. CASE k.op # "concat" /\ k.target = "cuda"
  <2>1. /\ RoundUp(s[1], k.block[1]) \in Nat /\ RoundUp(s[1], k.block[1]) >= s[1]
        /\ RoundUp(s[2], k.block[2]) \in Nat /\ RoundUp(s[2], k.block[2]) >= s[2]
        /\ RoundUp(s[3], k.block[3]) \in Nat /\ RoundUp(s[3], k.block[3]) >= s[3]
    BY <1>1, <1>2, RoundUpCovers
  <2>2. e \in Box(<<RoundUp(s[1], k.block[1]), RoundUp(s[2], k.block[2]), RoundUp(s[3], k.block[3])>>)
    <3> HIDE DEF s
    <3>1. /\ e[1] \in 0 .. RoundUp(s[1], k.block[1]) - 1
          /\ e[2] \in 0 .. RoundUp(s[2], k.block[2]) - 1
          /\ e[3] \in 0 .. RoundUp(s[3], k.block[3]) - 1
      BY <1>2, <2>1
    <3>2. QED
      BY <1>2, <3>1 DEF Box
  <2>3. e \in All(k)
    BY <1>5, <2>2 DEF All, Threads
  <2>4. InRange(k, e)
    BY <1>2, <1>5 DEF InRange
  <2>5. Stores(k, e) = {Element(k, e[1], e[2], e[3])}
    BY <1>5, <2>4 DEF Stores, CudaStores
  <2>6. QED
    BY <1>5, <2>3, <2>5, ElementStored
<1>6. CASE k.op \in {"transfer", "inverse"} /\ k.target = "cpu"
  <2>1. CASE e[1] < k.h0 /\ e[2] < k.w0
    <3> DEFINE t == <<e[1], 0, 0>>
    <3>1. e[1] \in 0 .. k.h0 - 1 /\ e[2] \in 0 .. k.w0 - 1 /\ e[3] \in 0 .. k.c - 1
      BY <1>1, <1>2, <1>6, <2>1, InverseShapes
    <3>2. t \in All(k)
      BY <1>6, <3>1 DEF All, Iterations
    <3>3. Element(k, t[1], e[2], e[3]) \in Stores(k, t)
      BY <1>6, <3>1 DEF Stores, CpuStores
    <3>4. Element(k, t[1], e[2], e[3])[1] = At(e, s)
      BY <1>6, ElementStored
    <3>5. QED
      BY <3>2, <3>3, <3>4
  <2>2. CASE ~(e[1] < k.h0 /\ e[2] < k.w0)
    <3>1. k.op = "transfer"
      <4>1. k.op = "inverse" => e[1] < k.h0 /\ e[2] < k.w0
        BY <1>1, <1>2, InverseShapes
      <4>2. QED
        BY <1>6, <2>2, <4>1
    <3>2. InShape(k) = <<k.h0, k.w0, k.c>>
      BY <3>1 DEF InShape
    <3>3. e \notin Box(InShape(k))
      BY <1>1, <1>2, <2>2, <3>2 DEF Box
    <3>4. Meaning(k, e) = {}
      BY <3>1, <3>3 DEF Meaning, Pools
    <3>5. QED
      BY <1>6, <3>1, <3>4 DEF Fresh
  <2>3. QED
    BY <2>1, <2>2
<1>7. CASE k.op \notin {"transfer", "inverse", "concat"} /\ k.target = "cpu"
  <2>1. e \in All(k)
    BY <1>7 DEF All, Iterations
  <2>2. Stores(k, e) = {Element(k, e[1], e[2], e[3])}
    BY <1>7 DEF Stores, CpuStores
  <2>3. QED
    BY <1>7, <2>1, <2>2, ElementStored
<1>8. QED
  BY <1>1, <1>4, <1>5, <1>6, <1>7

-----------------------------------------------------------------------------
(* The invariant: every output position is right, or one that a thread     *)
(* still to run will store to.                                             *)

Positions(k) == 0 .. Volume(OutShape(k)) - 1

RightAt(k, value, p) == Read(k, value) = Meaning(k, Coordinates(OutShape(k), p))
Pending(k, threads, p) == \E t \in threads : \E st \in Stores(k, t) : st[1] = p

KInv ==
  /\ call \in Calls
  /\ todo \subseteq All(call)
  /\ DOMAIN out = Positions(call)
  /\ \A p \in Positions(call) : RightAt(call, out[p], p) \/ Pending(call, todo, p)

LEMMA InitKInv == Init => KInv
<1> SUFFICES ASSUME Init PROVE KInv
  OBVIOUS
<1>1. call \in Calls /\ todo = All(call) /\ out = [p \in Positions(call) |-> Fresh(call)]
  BY DEF Init, All, Positions
<1>2. ASSUME NEW p \in Positions(call)
      PROVE  RightAt(call, out[p], p) \/ Pending(call, todo, p)
  <2>1. IsShape(OutShape(call))
    BY <1>1, ShapeTypes
  <2>2. PICK e \in Box(OutShape(call)) : p = At(e, OutShape(call))
    BY <2>1, ElementOf DEF Positions
  <2>3. Coordinates(OutShape(call), p) = e
    BY <2>1, <2>2, ElementAt
  <2>4. CASE Pending(call, todo, p)
    BY <2>4
  <2>5. CASE Fresh(call) = Zero /\ Meaning(call, e) = {}
    <3>1. out[p] = {}
      BY <1>1, <2>5 DEF Zero
    <3>2. Read(call, out[p]) = {}
      BY <3>1 DEF Read
    <3>3. QED
      BY <2>3, <2>5, <3>2 DEF RightAt
  <2>6. QED
    BY <1>1, <2>2, <2>4, <2>5, Covered DEF Pending
<1>3. QED
  BY <1>1, <1>2 DEF KInv

(* What a thread stores is right where it stores it.                       *)
LEMMA StoreRightAt ==
  ASSUME NEW k \in Calls, NEW t \in All(k), NEW st \in Stores(k, t)
  PROVE  RightAt(k, st[2], st[1])
<1>1. Right(k, st)
  BY StoresRight
<1>2. PICK e \in Box(OutShape(k)) : RightFor(k, e, st)
  BY <1>1 DEF Right
<1>3. Read(k, st[2]) = Meaning(k, e)
  BY <1>2, RightMeans
<1>4. st[1] = At(e, OutShape(k))
  BY <1>2 DEF RightFor
<1>5. Coordinates(OutShape(k), st[1]) = e
  BY <1>4, ShapeTypes, ElementAt
<1>6. QED
  BY <1>3, <1>5 DEF RightAt

LEMMA StepKInv == KInv /\ [Next]_vars => KInv'
<1> SUFFICES ASSUME KInv, [Next]_vars PROVE KInv'
  OBVIOUS
<1>1. ASSUME NEW t \in todo, Run(t) PROVE KInv'
  <2> DEFINE stores == Stores(call, t)
  <2>1. /\ call' = call /\ todo' = todo \ {t}
        /\ out' = [p \in DOMAIN out |->
                     IF \E s \in stores : s[1] = p THEN (CHOOSE s \in stores : s[1] = p)[2] ELSE out[p]]
    BY <1>1 DEF Run
  <2>2. call \in Calls /\ todo \subseteq All(call) /\ DOMAIN out = Positions(call)
    BY DEF KInv
  <2>3. ASSUME NEW p \in Positions(call)
        PROVE  RightAt(call, out'[p], p) \/ Pending(call, todo', p)
    <3>1. CASE \E s \in stores : s[1] = p
      <4> DEFINE st == CHOOSE s \in stores : s[1] = p
      <4>1. st \in stores /\ st[1] = p
        BY <3>1
      <4>2. out'[p] = st[2]
        BY <2>1, <2>2, <3>1
      <4> HIDE DEF st
      <4>3. RightAt(call, st[2], st[1])
        BY <2>2, <4>1, StoreRightAt
      <4>4. QED
        BY <4>1, <4>2, <4>3
    <3>2. CASE ~ \E s \in stores : s[1] = p
      <4>1. out'[p] = out[p]
        BY <2>1, <2>2, <3>2
      <4>2. CASE RightAt(call, out[p], p)
        BY <4>1, <4>2
      <4>3. CASE Pending(call, todo, p)
        <5>1. PICK u \in todo : \E st \in Stores(call, u) : st[1] = p
          BY <4>3 DEF Pending
        <5>2. u # t
          BY <3>2, <5>1
        <5>3. QED
          BY <2>1, <5>1, <5>2 DEF Pending
      <4>4. QED
        BY <4>2, <4>3 DEF KInv
    <3>3. QED
      BY <3>1, <3>2
  <2>4. DOMAIN out' = Positions(call)
    BY <2>1, <2>2
  <2>5. QED
    BY <2>1, <2>2, <2>3, <2>4 DEF KInv
<1>2. CASE UNCHANGED vars
  BY <1>2 DEF KInv, vars, RightAt, Pending
<1>3. QED
  BY <1>1, <1>2 DEF Next, Finished

(* Whatever a kernel or loop has stored is what it means, in its place.    *)
THEOREM KInvHolds == Spec => []KInv
  BY InitKInv, StepKInv, PTL DEF Spec

(* No CUDA thread of the pooling, upsampling, transfer, concatenation and  *)
(* inverse kernels of conv.cu and unet.cu, and no OpenMP iteration of      *)
(* their CPU counterparts, accesses an element outside its tensors, for    *)
(* any size, block and order.                                              *)
THEOREM InsideTensors == Spec => []AccessesInside
<1>1. KInv => AccessesInside
  <2> SUFFICES ASSUME KInv, NEW t \in todo, NEW s \in Stores(call, t)
               PROVE  /\ s[1] \in 0 .. Volume(OutShape(call)) - 1
                      /\ \A r \in s[2] : r[2] \in 0 .. Volume(TensorShape(call, r[1])) - 1
    BY DEF AccessesInside
  <2>1. call \in Calls /\ t \in All(call)
    BY DEF KInv
  <2>2. QED
    BY <2>1, StoresRight, RightInside
<1>2. QED
  BY <1>1, KInvHolds, PTL

(* When the threads are done, every output element was computed from the   *)
(* input elements the operation means, for any size, block and order.      *)
THEOREM MeaningComputed == Spec => []ComputesMeaning
<1>1. KInv => ComputesMeaning
  <2> SUFFICES ASSUME KInv, todo = {}, NEW p \in DOMAIN out
               PROVE  {<<r[1], Coordinates(TensorShape(call, r[1]), r[2])>> : r \in out[p]}
                        = Meaning(call, Coordinates(OutShape(call), p))
    BY DEF ComputesMeaning
  <2>1. RightAt(call, out[p], p)
    BY DEF KInv, Pending
  <2>2. QED
    BY <2>1 DEF RightAt, Read
<1>2. QED
  BY <1>1, KInvHolds, PTL
=============================================================================
