-------------------------- MODULE ExrImage_proofs --------------------------
(***************************************************************************)
(* Loading is right for every file, every request and every number of      *)
(* loads: OpenEXR stays inside the planes, whatever the data window, and   *)
(* the packed tensor is the window's pixels.  Dumping it row by row stores *)
(* each of them under its channel (DumpInv).                               *)
(***************************************************************************)
EXTENDS ExrImage, Numbers, SequenceTheorems

Value == {Junk} \cup (Labels \X Int \X Int)
Plane == [0 .. width * height - 1 -> Value]

(* The members that describe the size have been set for this file.         *)
Sized ==
  /\ width = MaxX - MinX + 1 /\ height = MaxY - MinY + 1
  /\ width \in Nat \ {0} /\ height \in Nat \ {0}

(* One plane and one name per label so far.                                *)
Sliced ==
  /\ planes \in Seq(Plane) /\ loaded \in Seq(Labels)
  /\ Len(loaded) = Len(planes) /\ Len(planes) <= Len(labels)
  /\ \A c \in 1 .. Len(planes) : loaded[c] = labels[c]

(* The rows above row are in all planes.                                   *)
RowsRead ==
  /\ Len(planes) = Len(labels)
  /\ row \in MinY .. MaxY + 1
  /\ \A c \in 1 .. Len(planes), y \in MinY .. row - 1, x \in MinX .. MaxX :
       planes[c][PlaneAddress(y, x)] = <<labels[c], y, x>>

ImageInv ==
  /\ file \in ExrFiles /\ labels \in Seq(Labels)
  /\ pc \in {"clear", "slice", "read", "loaded"} => Sized
  /\ pc \in {"clear", "slice", "read", "loaded"} => available = file.channels
  /\ pc \in {"slice", "read"} => Sliced
  /\ pc = "read" => RowsRead
  /\ pc = "loaded" => LoadsRequest

-----------------------------------------------------------------------------
(* Addresses.                                                              *)

LEMMA WindowInt ==
  ASSUME file \in ExrFiles
  PROVE  MinX \in Int /\ MinY \in Int /\ MaxX \in Int /\ MaxY \in Int
  BY InputShape DEF MinX, MinY, MaxX, MaxY

(* The pixel of row y and column x is where an image without an origin of  *)
(* its own would have it.                                                  *)
LEMMA AddressIs ==
  ASSUME file \in ExrFiles, Sized, NEW y \in Int, NEW x \in Int
  PROVE  PlaneAddress(y, x) = (y - MinY) * width + (x - MinX)
<1>1. MinX \in Int /\ MinY \in Int /\ width \in Int
  BY WindowInt DEF Sized
<1>2. PlaneAddress(y, x) = (0 - MinX - MinY * width) + y * width + x * 1
  BY DEF PlaneAddress, SliceAddress, BasePointer
<1> HIDE DEF MinX, MinY
<1>3. (y - MinY) * width = y * width - MinY * width
  BY <1>1, SMT
<1>4. QED
  BY <1>1, <1>2, <1>3, SMT

LEMMA PixelOffsets ==
  ASSUME file \in ExrFiles, Sized, NEW y \in MinY .. MaxY, NEW x \in MinX .. MaxX
  PROVE  /\ y \in Int /\ x \in Int
         /\ y - MinY \in 0 .. height - 1 /\ x - MinX \in 0 .. width - 1
  BY WindowInt DEF Sized

LEMMA AddressInPlane ==
  ASSUME file \in ExrFiles, Sized, NEW y \in MinY .. MaxY, NEW x \in MinX .. MaxX
  PROVE  PlaneAddress(y, x) \in 0 .. width * height - 1
<1>1. /\ PlaneAddress(y, x) = (y - MinY) * width + (x - MinX)
      /\ y - MinY \in 0 .. height - 1 /\ x - MinX \in 0 .. width - 1
  BY PixelOffsets, AddressIs
<1>2. width \in Nat \ {0} /\ height \in Nat \ {0} /\ height * width = width * height
  BY SMT DEF Sized
<1>3. QED
  BY <1>1, <1>2, RadixRange

LEMMA AddressInjective ==
  ASSUME file \in ExrFiles, Sized, NEW y \in MinY .. MaxY, NEW x \in MinX .. MaxX,
         NEW v \in MinY .. MaxY, NEW u \in MinX .. MaxX, PlaneAddress(v, u) = PlaneAddress(y, x)
  PROVE  v = y /\ u = x
<1>1. /\ PlaneAddress(y, x) = (y - MinY) * width + (x - MinX)
      /\ PlaneAddress(v, u) = (v - MinY) * width + (u - MinX)
      /\ y - MinY \in Nat /\ x - MinX \in 0 .. width - 1
      /\ v - MinY \in Nat /\ u - MinX \in 0 .. width - 1
  BY PixelOffsets, AddressIs
<1>2. width \in Nat \ {0}
  BY DEF Sized
<1>3. v - MinY = y - MinY /\ u - MinX = x - MinX
  BY <1>1, <1>2, RadixInjective
<1>4. QED
  BY <1>3, WindowInt

-----------------------------------------------------------------------------
(* readPixels fills row after row without disturbing the ones before.      *)
LEMMA ReadRowInv ==
  ASSUME ImageInv, ReadRow
  PROVE  ImageInv'
<1>1. CASE Throw /\ UNCHANGED image
  BY <1>1 DEF Throw, ImageInv
<1>2. CASE ~ (Throw /\ UNCHANGED image)
  <2> DEFINE Here(i) == \E x \in MinX .. MaxX : PlaneAddress(row, x) = i
             New(c, i) == IF Here(i)
                          THEN <<labels[c], row, CHOOSE x \in MinX .. MaxX : PlaneAddress(row, x) = i>>
                          ELSE planes[c][i]
  <2>1. /\ planes' = [c \in DOMAIN planes |-> [i \in DOMAIN planes[c] |-> New(c, i)]]
        /\ row' = row + 1
        /\ UNCHANGED <<pc, loads, file, labels, width, height, available, loaded, tensor, written>>
        /\ pc = "read" /\ row <= MaxY
    BY <1>2 DEF ReadRow
  <2>2. /\ file \in ExrFiles /\ labels \in Seq(Labels) /\ Sized /\ Sliced /\ RowsRead
        /\ MinX \in Int /\ MinY \in Int /\ MaxX \in Int /\ MaxY \in Int
        /\ row \in MinY .. MaxY /\ available = file.channels
    BY <2>1, WindowInt DEF ImageInv, RowsRead
  <2>3. MinX' = MinX /\ MinY' = MinY /\ MaxX' = MaxX /\ MaxY' = MaxY /\ Plane' = Plane
    BY <2>1 DEF MinX, MinY, MaxX, MaxY, Plane
  <2>4. Sized'
    BY <2>1, <2>2, <2>3 DEF Sized
  <2>5. ASSUME NEW c \in 1 .. Len(planes)
        PROVE  /\ [i \in DOMAIN planes[c] |-> New(c, i)] \in Plane
               /\ DOMAIN planes[c] = 0 .. width * height - 1
    <3>1. labels[c] \in Labels /\ planes[c] \in Plane
      BY <2>2, ElementOfSeq DEF Sliced, RowsRead
    <3>2. \A i : Here(i) => (CHOOSE x \in MinX .. MaxX : PlaneAddress(row, x) = i) \in MinX .. MaxX
      OBVIOUS
    <3>3. ASSUME NEW i \in 0 .. width * height - 1 PROVE New(c, i) \in Value
      <4>1. row \in Int /\ planes[c][i] \in Value
        <5>1. row \in Int
          BY <2>2
        <5>2. planes[c][i] \in Value
          BY <3>1, Zenon DEF Plane
        <5>3. QED
          BY <5>1, <5>2
      <4>2. CASE Here(i)
        <5>1. (CHOOSE x \in MinX .. MaxX : PlaneAddress(row, x) = i) \in Int
          BY <2>2, <3>2, <4>2
        <5>2. QED
          BY <3>1, <4>1, <4>2, <5>1 DEF Value
      <4>3. CASE ~ Here(i)
        BY <4>1, <4>3
      <4>4. QED
        BY <4>2, <4>3
    <3>4. QED
      BY <3>1, <3>3 DEF Plane
  <2>6. /\ planes' \in Seq(Plane) /\ Len(planes') = Len(planes) /\ DOMAIN planes = 1 .. Len(planes)
    <3>1. Len(planes) \in Nat /\ DOMAIN planes = 1 .. Len(planes)
      BY <2>2, LenProperties DEF Sliced
    <3>2. planes' \in [1 .. Len(planes) -> Plane]
      BY <2>1, <2>5, <3>1
    <3>3. QED
      BY <3>1, <3>2
  <2>7. Sliced'
    BY <2>1, <2>2, <2>3, <2>6 DEF Sliced
  <2>8. ASSUME NEW c \in 1 .. Len(planes), NEW y \in MinY .. row, NEW x \in MinX .. MaxX
        PROVE  planes'[c][PlaneAddress(y, x)] = <<labels[c], y, x>>
    <3>1. y \in MinY .. MaxY
      BY <2>2
    <3> DEFINE i == PlaneAddress(y, x)
    <3>2. i \in DOMAIN planes[c] /\ planes'[c][i] = New(c, i)
      BY <2>1, <2>2, <2>5, <2>6, <3>1, AddressInPlane
    <3>3. CASE y = row
      <4>1. Here(i)
        BY <3>3
      <4>2. \A u \in MinX .. MaxX : PlaneAddress(row, u) = i => u = x
        BY <2>2, <3>1, <3>3, AddressInjective
      <4>3. (CHOOSE u \in MinX .. MaxX : PlaneAddress(row, u) = i) = x
        BY <4>1, <4>2
      <4>4. QED
        BY <3>2, <3>3, <4>1, <4>3
    <3>4. CASE y # row
      <4>1. ~ Here(i)
        BY <2>2, <3>1, <3>4, AddressInjective
      <4>2. y \in MinY .. row - 1
        BY <2>2, <3>4
      <4>3. QED
        BY <2>2, <3>2, <4>1, <4>2 DEF RowsRead
    <3>5. QED
      BY <3>3, <3>4
  <2>9. RowsRead'
    <3>1. ASSUME NEW y, NEW x PROVE PlaneAddress(y, x)' = PlaneAddress(y, x)
      BY <2>1, <2>3 DEF PlaneAddress, SliceAddress, BasePointer
    <3>2. row' \in MinY .. MaxY + 1 /\ MinY .. row' - 1 = MinY .. row
      BY <2>1, <2>2
    <3>3. ASSUME NEW c \in 1 .. Len(planes'), NEW y \in MinY' .. row' - 1, NEW x \in MinX' .. MaxX'
          PROVE  planes'[c][PlaneAddress(y, x)'] = <<labels'[c], y, x>>
      <4>1. c \in 1 .. Len(planes) /\ y \in MinY .. row /\ x \in MinX .. MaxX /\ labels' = labels
        BY <2>1, <2>3, <2>6, <3>2
      <4>2. planes'[c][PlaneAddress(y, x)] = <<labels[c], y, x>>
        BY <2>8, <4>1
      <4>3. QED
        BY <3>1, <4>1, <4>2, Zenon
    <3>4. Len(planes') = Len(labels') /\ row' \in MinY' .. MaxY' + 1
      BY <2>1, <2>2, <2>3, <2>6, <3>2 DEF RowsRead
    <3>5. QED
      BY <3>3, <3>4 DEF RowsRead
  <2>10. QED
    BY <2>1, <2>2, <2>4, <2>7, <2>9 DEF ImageInv
<1>3. QED
  BY <1>1, <1>2

-----------------------------------------------------------------------------
(* Packing: the place of an element of the tensor is its row, column and   *)
(* channel.                                                                *)
LEMMA PackedPlace ==
  ASSUME width \in Nat \ {0}, height \in Nat \ {0}, NEW n \in Nat \ {0},
         NEW i \in 0 .. width * height * n - 1
  PROVE  \E y \in 0 .. height - 1, x \in 0 .. width - 1, c \in 0 .. n - 1 :
           PackedIndex(y, x, c, n) = i
<1>1. width * height \in Nat \ {0}
  BY SMT
<1>2. PICK p \in 0 .. width * height - 1, c \in 0 .. n - 1 : i = p * n + c
  BY <1>1, RadixSurjective
<1>3. p \in 0 .. height * width - 1
  BY SMT
<1>4. PICK y \in 0 .. height - 1, x \in 0 .. width - 1 : p = y * width + x
  BY <1>3, RadixSurjective
<1>5. QED
  BY <1>2, <1>4 DEF PackedIndex

LEMMA PackedUnique ==
  ASSUME width \in Nat \ {0}, NEW n \in Nat \ {0}, NEW y \in Nat,
         NEW x \in 0 .. width - 1, NEW c \in 0 .. n - 1
  PROVE  /\ PackedIndex(y, x, c, n) % n = c
         /\ PackedIndex(y, x, c, n) \div n = y * width + x
         /\ (y * width + x) \div width = y /\ (y * width + x) % width = x
<1>1. y * width + x \in Nat
  BY SMT
<1>2. QED
  BY <1>1, RadixDivMod DEF PackedIndex

LEMMA PackInv ==
  ASSUME ImageInv, Pack
  PROVE  ImageInv'
<1> DEFINE n == Len(loaded)
           Place == (0 .. height - 1) \X (0 .. width - 1) \X (0 .. n - 1)
           At(i) == CHOOSE e \in Place : PackedIndex(e[1], e[2], e[3], n) = i
<1>1. /\ file \in ExrFiles /\ labels \in Seq(Labels) /\ Sized /\ Sliced /\ RowsRead
      /\ MinX \in Int /\ MinY \in Int /\ MaxX \in Int /\ MaxY \in Int
      /\ row = MaxY + 1 /\ n \in Nat /\ n = Len(labels) /\ n = Len(planes)
      /\ available = file.channels
  BY WindowInt, LenProperties DEF ImageInv, Pack, Sliced, RowsRead
<1>2. /\ tensor' = [i \in 0 .. width * height * n - 1 |->
                      IF At(i)[3] + 1 \in DOMAIN planes
                      THEN planes[At(i)[3] + 1][At(i)[1] * width + At(i)[2]] ELSE Junk]
      /\ planes' = <<>> /\ pc' = "loaded"
      /\ UNCHANGED <<loads, file, labels, width, height, available, loaded, row, written>>
  BY DEF Pack
<1>3. loaded = labels
  BY <1>1, SeqEqual DEF Sliced
<1>4. ASSUME NEW i \in 0 .. width * height * n - 1
      PROVE  tensor'[i] = <<labels[(i % n) + 1], MinY + ((i \div n) \div width),
                            MinX + ((i \div n) % width)>>
  <2>1. n \in Nat \ {0} /\ width \in Nat \ {0} /\ height \in Nat \ {0}
    BY <1>1, SMT DEF Sized
  <2>2. \E y \in 0 .. height - 1, x \in 0 .. width - 1, c \in 0 .. n - 1 : PackedIndex(y, x, c, n) = i
    BY <2>1, PackedPlace
  <2>3. \E e \in Place : PackedIndex(e[1], e[2], e[3], n) = i
    <3>1. PICK y \in 0 .. height - 1, x \in 0 .. width - 1, c \in 0 .. n - 1 : PackedIndex(y, x, c, n) = i
      BY <2>2
    <3>2. <<y, x, c>> \in Place
      OBVIOUS
    <3>3. QED
      BY <3>1, <3>2
  <2>4. At(i) \in Place /\ PackedIndex(At(i)[1], At(i)[2], At(i)[3], n) = i
    BY <2>3
  <2> DEFINE y == At(i)[1]
             x == At(i)[2]
             c == At(i)[3]
  <2>5. y \in 0 .. height - 1 /\ x \in 0 .. width - 1 /\ c \in 0 .. n - 1
        /\ PackedIndex(y, x, c, n) = i
    BY <2>4
  <2>6. tensor'[i] = IF c + 1 \in DOMAIN planes THEN planes[c + 1][y * width + x] ELSE Junk
    BY <1>2
  <2> HIDE DEF y, x, c, n
  <2>7. i % n = c /\ (i \div n) \div width = y /\ (i \div n) % width = x
    <3>1. y \in Nat
      BY <2>1, <2>5
    <3>2. /\ PackedIndex(y, x, c, n) % n = c
          /\ PackedIndex(y, x, c, n) \div n = y * width + x
          /\ (y * width + x) \div width = y /\ (y * width + x) % width = x
      BY <2>1, <2>5, <3>1, PackedUnique
    <3>3. QED
      BY <2>5, <3>2, Zenon
  <2>8. /\ MinY + y \in MinY .. MaxY /\ MinX + x \in MinX .. MaxX
        /\ (MinY + y) - MinY = y /\ (MinX + x) - MinX = x
    BY <1>1, <2>5 DEF Sized
  <2>9. PlaneAddress(MinY + y, MinX + x) = y * width + x
    BY <1>1, <2>8, AddressIs
  <2>10. c + 1 \in 1 .. Len(planes) /\ c + 1 \in DOMAIN planes
    BY <1>1, <2>5, LenProperties DEF Sliced
  <2>11. MinY + y \in MinY .. row - 1
    BY <1>1, <2>8
  <2>12. planes[c + 1][y * width + x] = <<labels[c + 1], MinY + y, MinX + x>>
    BY <1>1, <2>8, <2>9, <2>10, <2>11 DEF RowsRead
  <2>13. QED
    BY <2>6, <2>7, <2>10, <2>12
<1>5. LoadsRequest'
  <2>1. MinX' = MinX /\ MinY' = MinY /\ MaxX' = MaxX /\ MaxY' = MaxY
    BY <1>2 DEF MinX, MinY, MaxX, MaxY
  <2>2. DOMAIN tensor' = 0 .. width * height * n - 1
    BY <1>2
  <2>3. width' = MaxX - MinX + 1 /\ height' = MaxY - MinY + 1 /\ loaded' = labels' /\ Len(labels') = n
        /\ available' = file'.channels
    BY <1>1, <1>2, <1>3 DEF Sized
  <2>4. ASSUME NEW i \in DOMAIN tensor'
        PROVE  tensor'[i] = <<labels'[(i % n) + 1], MinY' + ((i \div n) \div width'),
                              MinX' + ((i \div n) % width')>>
    BY <1>2, <1>4, <2>1, <2>2
  <2>5. QED
    BY <1>2, <2>1, <2>2, <2>3, <2>4 DEF LoadsRequest
<1>6. Sized'
  BY <1>1, <1>2 DEF Sized, MinX, MinY, MaxX, MaxY
<1>7. QED
  BY <1>1, <1>2, <1>5, <1>6 DEF ImageInv

-----------------------------------------------------------------------------
LEMMA AddSliceInv ==
  ASSUME ImageInv, AddSlice
  PROVE  ImageInv'
<1>1. /\ file \in ExrFiles /\ labels \in Seq(Labels) /\ Sized /\ Sliced /\ pc = "slice"
      /\ Len(planes) \in Nat /\ Len(labels) \in Nat /\ Len(loaded) = Len(planes)
      /\ DOMAIN planes = 1 .. Len(planes) /\ available = file.channels
  BY LenProperties DEF ImageInv, AddSlice, Sliced
<1>2. UNCHANGED <<width, height, file, labels, available, tensor>>
  BY DEF AddSlice, Throw
<1>3. /\ MinX' = MinX /\ MinY' = MinY /\ MaxX' = MaxX /\ MaxY' = MaxY /\ Plane' = Plane /\ Sized'
  BY <1>1, <1>2 DEF MinX, MinY, MaxX, MaxY, Plane, Sized
<1>4. CASE Len(planes) = Len(labels)
  <2>1. pc' = "read" /\ row' = MinY /\ UNCHANGED <<loaded, planes>>
    BY <1>4 DEF AddSlice
  <2>2. MinY \in Int /\ MaxY \in Int /\ MinY .. row' - 1 = {} /\ row' \in MinY .. MaxY + 1
    BY <1>1, <2>1, WindowInt DEF Sized
  <2>3. RowsRead'
    BY <1>2, <1>3, <1>4, <2>1, <2>2 DEF RowsRead
  <2>4. Sliced'
    BY <1>1, <1>2, <1>3, <2>1 DEF Sliced
  <2>5. QED
    BY <1>1, <1>2, <1>3, <2>1, <2>3, <2>4 DEF ImageInv
<1>5. CASE Len(planes) # Len(labels) /\ labels[Len(planes) + 1] \notin available
  BY <1>1, <1>2, <1>5 DEF AddSlice, Throw, ImageInv
<1>6. CASE Len(planes) # Len(labels) /\ labels[Len(planes) + 1] \in available
  <2> DEFINE label == labels[Len(planes) + 1]
             plane == [i \in 0 .. width * height - 1 |-> Junk]
  <2>1. loaded' = Append(loaded, label) /\ planes' = Append(planes, plane) /\ pc' = pc
    BY <1>6 DEF AddSlice
  <2>2. plane \in Plane
    BY DEF Plane, Value
  <2>3. Len(planes) + 1 \in 1 .. Len(labels)
    BY <1>1, <1>6 DEF Sliced
  <2>4. label \in Labels
    BY <1>1, <2>3, ElementOfSeq
  <2> HIDE DEF plane, label
  <2>5. /\ planes' \in Seq(Plane) /\ Len(planes') = Len(planes) + 1
    BY <1>1, <2>1, <2>2, AppendProperties DEF Sliced
  <2>6. /\ loaded' \in Seq(Labels) /\ Len(loaded') = Len(loaded) + 1
        /\ \A c \in 1 .. Len(loaded) : loaded'[c] = loaded[c]
        /\ loaded'[Len(loaded) + 1] = label
    BY <1>1, <2>1, <2>4, AppendProperties DEF Sliced
  <2>7. ASSUME NEW c \in 1 .. Len(planes) + 1 PROVE loaded'[c] = labels[c]
    <3>1. CASE c \in 1 .. Len(planes)
      BY <1>1, <2>6, <3>1 DEF Sliced
    <3>2. CASE c = Len(planes) + 1
      BY <1>1, <2>6, <3>2 DEF label
    <3>3. QED
      BY <1>1, <3>1, <3>2
  <2>8. Sliced'
    BY <1>1, <1>2, <1>3, <2>3, <2>5, <2>6, <2>7 DEF Sliced
  <2>9. QED
    BY <1>1, <1>2, <1>3, <2>1, <2>8 DEF ImageInv
<1>7. QED
  BY <1>4, <1>5, <1>6

LEMMA ClearInv ==
  ASSUME ImageInv, Clear
  PROVE  ImageInv'
<1>1. file \in ExrFiles /\ labels \in Seq(Labels) /\ Sized /\ available = file.channels
  BY DEF ImageInv, Clear
<1>2. /\ loaded' = <<>> /\ planes' = <<>> /\ pc' = "slice"
      /\ UNCHANGED <<file, labels, width, height, available>>
  BY DEF Clear
<1>3. Len(labels) \in Nat /\ Len(<<>>) = 0 /\ <<>> \in Seq(Labels) /\ <<>> \in Seq(Plane')
  BY <1>1, LenProperties, EmptySeq
<1>4. Sliced' /\ Sized'
  BY <1>1, <1>2, <1>3 DEF Sliced, Sized, MinX, MinY, MaxX, MaxY
<1>5. QED
  BY <1>1, <1>2, <1>4 DEF ImageInv

LEMMA SetSizeInv ==
  ASSUME ImageInv, SetSize
  PROVE  ImageInv'
<1>1. file \in ExrFiles /\ labels \in Seq(Labels) /\ UNCHANGED <<file, labels>>
  BY DEF ImageInv, SetSize, Throw
<1>2. CASE pc' = "threw"
  BY <1>1, <1>2 DEF ImageInv
<1>3. CASE pc' = "clear" /\ ~ (width' <= 0 \/ height' <= 0) /\ available' = file.channels
  <2>1. /\ width' = MaxX - MinX + 1 /\ height' = MaxY - MinY + 1
        /\ MinX' = MinX /\ MinY' = MinY /\ MaxX' = MaxX /\ MaxY' = MaxY
    BY <1>1 DEF SetSize, MinX, MinY, MaxX, MaxY
  <2>2. Sized'
    BY <1>1, <1>3, <2>1, WindowInt DEF Sized
  <2>3. QED
    BY <1>1, <1>3, <2>2 DEF ImageInv
<1>4. QED
  BY <1>2, <1>3 DEF SetSize, Throw

LEMMA NextImage == ImageInv /\ [Next]_vars => ImageInv'
<1> SUFFICES ASSUME ImageInv, [Next]_vars PROVE ImageInv'
  OBVIOUS
<1>1. CASE Load
  BY <1>1, InputShape DEF ImageInv, Load
<1>2. CASE Dump \/ WriteRow \/ EndDump
  BY <1>2 DEF ImageInv, Dump, WriteRow, EndDump, Throw
<1>3. CASE UNCHANGED vars
  BY <1>3 DEF vars, ImageInv, Sized, Sliced, RowsRead, LoadsRequest, Plane, MinX, MinY, MaxX,
              MaxY, PlaneAddress, SliceAddress, BasePointer
<1>4. QED
  BY <1>1, <1>2, <1>3, SetSizeInv, ClearInv, AddSliceInv, ReadRowInv, PackInv DEF Next, Over

LEMMA InitImage == Init => ImageInv
  BY EmptySeq DEF Init, ImageInv

LEMMA ImageInvariant == Spec => []ImageInv
  BY InitImage, NextImage, PTL DEF Spec

-----------------------------------------------------------------------------
(* dump_image: the rows above row are in the file, and nothing else is.    *)

Packed == Sized /\ loaded = labels /\ labels \in Seq(Labels) /\ file \in ExrFiles
          /\ \A i \in 0 .. width * height * Len(labels) - 1 :
               tensor[i] = <<labels[(i % Len(labels)) + 1],
                             MinY + (i \div Len(labels)) \div width,
                             MinX + ((i \div Len(labels)) % width)>>

Above == {<<loaded[c], y, x>> : c \in DOMAIN loaded, y \in 0 .. row - 1, x \in 0 .. width - 1}

RowsWritten ==
  /\ row \in 0 .. height
  /\ DOMAIN written = Above
  /\ \A c \in DOMAIN loaded, y \in 0 .. row - 1, x \in 0 .. width - 1 :
       written[<<loaded[c], y, x>>] = <<loaded[c], MinY + y, MinX + x>>

DumpInv ==
  /\ pc \in {"write", "dumped"} => Packed /\ RowsWritten
  /\ pc = "dumped" => row = height

(* Channel c of pixel (y, x), at the address given to OpenEXR.             *)
LEMMA DumpedPixel ==
  ASSUME Packed, NEW c \in DOMAIN loaded, NEW y \in 0 .. height - 1, NEW x \in 0 .. width - 1
  PROVE  tensor[DumpAddress(c - 1, y, x)] = <<loaded[c], MinY + y, MinX + x>>
<1> DEFINE n == Len(loaded)
           i == DumpAddress(c - 1, y, x)
<1>1. /\ width \in Nat \ {0} /\ height \in Nat \ {0} /\ y \in Nat /\ x \in Nat
      /\ n \in Nat \ {0} /\ c \in 1 .. n /\ c - 1 \in 0 .. n - 1 /\ c \in Int
  <2>1. width \in Nat \ {0} /\ height \in Nat \ {0} /\ y \in Nat /\ x \in Nat
    BY DEF Packed, Sized
  <2>2. n \in Nat /\ DOMAIN loaded = 1 .. n
    BY LenProperties DEF Packed
  <2>3. c \in 1 .. n
    BY <2>2
  <2> HIDE DEF n
  <2>4. QED
    BY <2>1, <2>2, <2>3
<1>2. i = (c - 1) + y * (n * width) + x * n
  BY DEF DumpAddress, SliceAddress
<1> HIDE DEF n, i
<1>3. y * (n * width) + x * n = (y * width + x) * n
  BY <1>1, SMT
<1>4. (y * width + x) * n \in Int
  BY <1>1, SMT
<1>5. i = (y * width + x) * n + (c - 1)
  BY <1>1, <1>2, <1>3, <1>4
<1>6. i = PackedIndex(y, x, c - 1, n)
  BY <1>5 DEF PackedIndex
<1>7. i % n = c - 1 /\ (i \div n) \div width = y /\ (i \div n) % width = x
  <2>1. /\ PackedIndex(y, x, c - 1, n) % n = c - 1
        /\ PackedIndex(y, x, c - 1, n) \div n = y * width + x
        /\ (y * width + x) \div width = y /\ (y * width + x) % width = x
    BY <1>1, PackedUnique
  <2>2. QED
    BY <1>6, <2>1, Zenon
<1>8. y * width + x \in 0 .. height * width - 1 /\ height * width \in Nat \ {0}
  BY <1>1, RadixRange
<1>9. i \in 0 .. (height * width) * n - 1
  BY <1>1, <1>5, <1>8, RadixRange
<1>10. (height * width) * n = width * height * n
  BY <1>1, SMT
<1>11. i \in 0 .. width * height * n - 1
  BY <1>9, <1>10
<1>12. n = Len(labels) /\ loaded = labels
  BY DEF Packed, n
<1>13. tensor[i] = <<labels[(i % n) + 1], MinY + ((i \div n) \div width), MinX + ((i \div n) % width)>>
  BY <1>11, <1>12 DEF Packed
<1>14. c - 1 + 1 = c
  BY <1>1
<1>15. QED
  BY <1>7, <1>12, <1>13, <1>14 DEF i

LEMMA WriteRowInv ==
  ASSUME DumpInv, WriteRow
  PROVE  DumpInv'
<1>1. CASE Throw /\ UNCHANGED image
  BY <1>1 DEF Throw, DumpInv
<1>2. CASE ~ (Throw /\ UNCHANGED image)
  <2> DEFINE New == {<<loaded[c], row, x>> : c \in DOMAIN loaded, x \in 0 .. width - 1}
             Channel(name) == CHOOSE c \in DOMAIN loaded : loaded[c] = name
             Cell(p) == tensor[DumpAddress(Channel(p[1]) - 1, p[2], p[3])]
  <2>1. /\ pc = "write" /\ row < height
        /\ written' = [p \in DOMAIN written \cup New |-> IF p \in DOMAIN written THEN written[p] ELSE Cell(p)]
        /\ row' = row + 1
        /\ UNCHANGED <<pc, loads, file, labels, width, height, available, loaded, planes, tensor>>
    BY <1>2 DEF WriteRow
  <2>2. Packed /\ RowsWritten /\ row \in 0 .. height - 1 /\ height \in Nat /\ row \in Nat
    <3>1. Packed /\ RowsWritten
      BY <2>1 DEF DumpInv
    <3>2. row \in 0 .. height
      BY <3>1 DEF RowsWritten
    <3>3. height \in Nat
      BY <3>1 DEF Packed, Sized
    <3>4. QED
      BY <2>1, <3>1, <3>2, <3>3
  <2>3. MinX' = MinX /\ MinY' = MinY /\ MaxX' = MaxX /\ MaxY' = MaxY
    BY <2>1 DEF MinX, MinY, MaxX, MaxY
  <2>4. Packed'
    BY <2>1, <2>2, <2>3 DEF Packed, Sized
  <2>5. 0 .. row = (0 .. row - 1) \cup {row} /\ row \notin 0 .. row - 1
    BY <2>2
  <2>6. DOMAIN written' = Above'
    <3>1. DOMAIN written' = Above \cup New
      BY <2>1, <2>2 DEF RowsWritten
    <3>2. 0 .. row' - 1 = (0 .. row - 1) \cup {row} /\ loaded' = loaded /\ width' = width
      BY <2>1, <2>2
    <3>3. Above' = Above \cup New
      BY <3>2 DEF Above
    <3>4. QED
      BY <3>1, <3>3
  <2>7. ASSUME NEW c \in DOMAIN loaded, NEW y \in 0 .. row, NEW x \in 0 .. width - 1
        PROVE  written'[<<loaded[c], y, x>>] = <<loaded[c], MinY + y, MinX + x>>
    <3> DEFINE p == <<loaded[c], y, x>>
    <3>1. CASE y # row
      <4>1. y \in 0 .. row - 1
        BY <2>5, <3>1
      <4>2. p \in Above
        BY <4>1 DEF Above
      <4>3. p \in DOMAIN written
        BY <2>2, <4>2 DEF RowsWritten
      <4>4. written[p] = <<loaded[c], MinY + y, MinX + x>>
        BY <2>2, <4>1 DEF RowsWritten
      <4>5. QED
        BY <2>1, <4>3, <4>4
    <3>2. CASE y = row
      <4>1. p \notin DOMAIN written
        BY <2>2, <2>5, <3>2 DEF RowsWritten, Above
      <4>2. p \in New
        BY <3>2
      <4>3. written'[p] = Cell(p)
        BY <2>1, <4>1, <4>2
      <4>4. Channel(loaded[c]) \in DOMAIN loaded /\ loaded[Channel(loaded[c])] = loaded[c]
        OBVIOUS
      <4> HIDE DEF Channel
      <4>5. Cell(p) = tensor[DumpAddress(Channel(loaded[c]) - 1, row, x)]
        BY <3>2
      <4>6. tensor[DumpAddress(Channel(loaded[c]) - 1, row, x)]
              = <<loaded[Channel(loaded[c])], MinY + row, MinX + x>>
        BY <2>2, <4>4, DumpedPixel
      <4>7. QED
        BY <3>2, <4>3, <4>4, <4>5, <4>6
    <3>3. QED
      BY <3>1, <3>2
  <2>8. row' \in 0 .. height /\ 0 .. row' - 1 = 0 .. row
    BY <2>1, <2>2
  <2>9. RowsWritten'
    <3> HIDE DEF Above, Cell, New
    <3>1. \A c \in DOMAIN loaded', y \in 0 .. row' - 1, x \in 0 .. width' - 1 :
             written'[<<loaded'[c], y, x>>] = <<loaded'[c], MinY' + y, MinX' + x>>
      <4> TAKE c \in DOMAIN loaded', y \in 0 .. row' - 1, x \in 0 .. width' - 1
      <4>1. c \in DOMAIN loaded /\ y \in 0 .. row /\ x \in 0 .. width - 1
        BY <2>1, <2>8
      <4>2. written'[<<loaded[c], y, x>>] = <<loaded[c], MinY + y, MinX + x>>
        BY <2>7, <4>1
      <4>3. QED
        BY <2>1, <2>3, <4>2
    <3>2. row' \in 0 .. height'
      BY <2>1, <2>8
    <3>3. QED
      BY <2>6, <3>1, <3>2 DEF RowsWritten
  <2>10. QED
    BY <2>1, <2>4, <2>9 DEF DumpInv
<1>3. QED
  BY <1>1, <1>2

LEMMA NextDump == ImageInv /\ DumpInv /\ [Next]_vars => DumpInv'
<1> SUFFICES ASSUME ImageInv, DumpInv, [Next]_vars PROVE DumpInv'
  OBVIOUS
<1>1. CASE Load \/ SetSize \/ Clear \/ AddSlice \/ ReadRow \/ Pack
  BY <1>1 DEF DumpInv, Load, SetSize, Clear, AddSlice, ReadRow, Pack, Throw
<1>2. CASE Dump
  <2>1. pc = "loaded" /\ row' = 0 /\ written' = [p \in {} |-> Junk] /\ pc' = "write"
        /\ UNCHANGED <<file, labels, width, height, available, loaded, tensor>>
    BY <1>2 DEF Dump
  <2>2. Packed
    BY <2>1 DEF ImageInv, LoadsRequest, Packed
  <2>3. Packed'
    BY <2>1, <2>2 DEF Packed, Sized, MinX, MinY, MaxX, MaxY
  <2>4. height \in Nat /\ 0 .. row' - 1 = {}
    BY <2>1, <2>2 DEF Packed, Sized
  <2>5. RowsWritten'
    <3>1. DOMAIN written' = {} /\ row' \in 0 .. height'
      BY <2>1, <2>4
    <3>2. Above' = {}
      BY <2>4 DEF Above
    <3>3. QED
      BY <2>4, <3>1, <3>2 DEF RowsWritten
  <2>6. QED
    BY <2>1, <2>3, <2>5 DEF DumpInv
<1>3. CASE EndDump \/ UNCHANGED vars
  <2>1. UNCHANGED <<file, labels, width, height, available, loaded, tensor, row, written>>
    BY <1>3 DEF EndDump, vars
  <2>2. Packed' = Packed /\ RowsWritten' = RowsWritten
    BY <2>1 DEF Packed, RowsWritten, Above, Sized, MinX, MinY, MaxX, MaxY
  <2>3. QED
    BY <1>3, <2>1, <2>2 DEF DumpInv, EndDump, vars
<1>4. QED
  BY <1>1, <1>2, <1>3, WriteRowInv DEF Next, Over

-----------------------------------------------------------------------------
(* While OpenEXR reads, every pixel of the data window, wherever that is,  *)
(* has a place of its own in the plane it was given.                       *)
THEOREM PlanesSuffice == Spec => []PixelsInPlane
<1>1. ImageInv => PixelsInPlane
  BY AddressInPlane, AddressInjective DEF ImageInv, PixelsInPlane
<1>2. QED
  BY <1>1, ImageInvariant, PTL

(* A load that returns has the image of its own file and request, whatever *)
(* was loaded, or failed to load, into the same object before.             *)
THEOREM LoadCorrect == Spec => []LoadsRequest
<1>1. ImageInv => LoadsRequest
  BY DEF ImageInv, LoadsRequest
<1>2. QED
  BY <1>1, ImageInvariant, PTL

(* Dumping what was loaded gives every channel its own pixels back, moved  *)
(* to the origin, for any window and any list of names.                    *)
THEOREM PixelsComeBack == Spec => []RoundTrip
<1>1. Init => DumpInv
  BY DEF Init, DumpInv
<1>2. DumpInv => RoundTrip
  BY DEF DumpInv, RoundTrip, RowsWritten
<1>3. QED
  BY <1>1, <1>2, NextDump, ImageInvariant, PTL DEF Spec
=============================================================================
