------------------------ MODULE WeightStore_proofs ------------------------
(***************************************************************************)
(* loadTza, createUNetModel and freeUNetModel, for every weights file and  *)
(* network that WeightStore's assumptions admit.                           *)
(*                                                                         *)
(* The reader (ReadingInv).  Between two reads the cursor is at the place  *)
(* where the format puts what is read next, and what has been read is a    *)
(* prefix of the file's contents.                                          *)
(*                                                                         *)
(* Allocations (LiveInv).  What is allocated are the buffer, the model and *)
(* the arrays of the layers started; freeUNetModel's two loops walk over   *)
(* the places of exactly these layers.                                     *)
(*                                                                         *)
(* The copies (CopyInv).  The offset is the sum of the sizes of all        *)
(* tensors before the one that is copied next, and below it no half is     *)
(* junk.  The sums are those of the first pass, and a sum of some of its   *)
(* terms is at most the sum of all.                                        *)
(*                                                                         *)
(* The places (PlaceInv).  Every tensor copied so far is where the sum of  *)
(* the sizes before it says, and the layers' arrays hold these sums: the   *)
(* next copy starts where the last one ended and reaches none of them.     *)
(***************************************************************************)
EXTENDS WeightStore, Numbers, SequenceTheorems

-----------------------------------------------------------------------------
(* Sums and products of sequences of numbers, which are defined by         *)
(* recursion.                                                              *)

LEMMA SumsAre ==
  ASSUME NEW s, Len(s) \in Nat, \A i \in 1 .. Len(s) : s[i] \in Nat
  PROVE  LET f == Builder!Sums(s)
         IN /\ f \in [0 .. Len(s) -> Nat]
            /\ f[0] = 0
            /\ \A i \in 1 .. Len(s) : f[i] = f[i - 1] + s[i]
            /\ \A i, j \in 0 .. Len(s) : i <= j => f[i] <= f[j]
<1> DEFINE op == [u \in Nat |-> [v \in Nat |-> u + v]]
           N == Len(s)
           f == Builder!Sums(s)
<1>1. \A u, v \in Nat : op[u][v] = u + v
  OBVIOUS
<1>2. PICK e : /\ e \in [0 .. N -> Nat]
               /\ e[0] = 0
               /\ \A i \in 1 .. N : e[i] = op[e[i - 1]][s[i]]
  <2>1. \A u, v \in Nat : op[u][v] \in Nat
    BY <1>1
  <2>2. N \in Nat /\ \A i \in 1 .. N : s[i] \in Nat
    OBVIOUS
  <2>3. 0 \in Nat
    OBVIOUS
  <2> HIDE DEF op, N
  <2>4. HasFold(N, 0, s, op)
    BY <2>1, <2>2, <2>3, FoldExists
  <2>5. QED
    BY <2>4 DEF HasFold
<1> HIDE DEF op
<1>3. \A i \in 0 .. N : e[i] \in Nat
  BY <1>2
<1>4. \A i \in 0 .. N : e[i] = IF i = 0 THEN 0 ELSE e[i - 1] + s[i]
  <2> TAKE i \in 0 .. N
  <2>1. CASE i = 0
    BY <1>2, <2>1
  <2>2. CASE i # 0
    <3>1. i \in 1 .. N /\ i - 1 \in 0 .. N
      BY <2>2
    <3>2. e[i - 1] \in Nat /\ s[i] \in Nat
      BY <1>3, <3>1
    <3>3. QED
      BY <1>1, <1>2, <2>2, <3>1, <3>2
  <2>3. QED
    BY <2>1, <2>2
<1>5. e = [i \in 0 .. N |-> IF i = 0 THEN 0 ELSE e[i - 1] + s[i]]
  BY <1>2, <1>4
<1>6. f = [i \in 0 .. N |-> IF i = 0 THEN 0 ELSE f[i - 1] + s[i]]
  BY <1>5 DEF Builder!Sums
<1> HIDE DEF f
<1>7. /\ f[0] = 0
      /\ \A i \in 1 .. N : f[i] = f[i - 1] + s[i]
  BY <1>6
<1> DEFINE S == {i \in 0 .. N : f[i] \in Nat}
<1>8. 0 .. N \subseteq S
  <2>1. 0 \in S
    BY <1>7
  <2>2. \A i \in 0 .. N - 1 : i \in S => i + 1 \in S
    <3> TAKE i \in 0 .. N - 1
    <3> HAVE i \in S
    <3>1. f[i] \in Nat /\ s[i + 1] \in Nat /\ i + 1 \in 1 .. N /\ i + 1 - 1 = i
      OBVIOUS
    <3>2. f[i + 1] = f[i] + s[i + 1]
      BY <1>7, <3>1
    <3>3. QED
      BY <3>1, <3>2
  <2> HIDE DEF S
  <2>3. QED
    BY <2>1, <2>2, InductionUpTo
<1>9. f \in [0 .. N -> Nat]
  BY <1>6, <1>8
<1>10. \A i \in 1 .. N : f[i - 1] <= f[i]
  <2> TAKE i \in 1 .. N
  <2>1. f[i - 1] \in Nat /\ s[i] \in Nat /\ f[i] = f[i - 1] + s[i]
    BY <1>7, <1>8
  <2>2. QED
    BY <2>1
<1>11. \A i, j \in 0 .. N : i <= j => f[i] <= f[j]
  BY <1>9, <1>10, Grows
<1>12. QED
  BY <1>7, <1>9, <1>11 DEF f

Products(f, s) ==
  /\ f \in [0 .. Len(s) -> Nat]
  /\ f[0] = 1
  /\ \A i \in 1 .. Len(s) : f[i] = f[i - 1] * s[i]
  /\ Builder!Product(s) = f[Len(s)] /\ Parser!Product(s) = f[Len(s)]

LEMMA ProductsAre ==
  ASSUME NEW s, s \in Seq(Nat)
  PROVE  \E f : Products(f, s)
<1> DEFINE op == [u \in Nat |-> [v \in Nat |-> u * v]]
           N == Len(s)
           Upto == CHOOSE f : f = [i \in 0 .. N |-> IF i = 0 THEN 1 ELSE f[i - 1] * s[i]]
<1>0. N \in Nat /\ \A i \in 1 .. N : s[i] \in Nat
  OBVIOUS
<1>1. \A u, v \in Nat : op[u][v] = u * v
  OBVIOUS
<1>2. PICK e : /\ e \in [0 .. N -> Nat]
               /\ e[0] = 1
               /\ \A i \in 1 .. N : e[i] = op[e[i - 1]][s[i]]
  <2>1. \A u, v \in Nat : op[u][v] \in Nat
    BY <1>1
  <2>2. 1 \in Nat
    OBVIOUS
  <2> HIDE DEF op, N
  <2>3. HasFold(N, 1, s, op)
    BY <1>0, <2>1, <2>2, FoldExists
  <2>4. QED
    BY <2>3 DEF HasFold
<1> HIDE DEF op
<1>3. \A i \in 0 .. N : e[i] \in Nat
  BY <1>0, <1>2
<1>4. \A i \in 0 .. N : e[i] = IF i = 0 THEN 1 ELSE e[i - 1] * s[i]
  <2> TAKE i \in 0 .. N
  <2>1. CASE i = 0
    BY <1>2, <2>1
  <2>2. CASE i # 0
    <3>1. i \in 1 .. N /\ i - 1 \in 0 .. N
      BY <1>0, <2>2
    <3>2. e[i - 1] \in Nat /\ s[i] \in Nat
      BY <1>0, <1>3, <3>1
    <3>3. QED
      BY <1>1, <1>2, <2>2, <3>1, <3>2
  <2>3. QED
    BY <2>1, <2>2
<1>5. e = [i \in 0 .. N |-> IF i = 0 THEN 1 ELSE e[i - 1] * s[i]]
  BY <1>2, <1>4
<1>6. Upto = [i \in 0 .. N |-> IF i = 0 THEN 1 ELSE Upto[i - 1] * s[i]]
  BY <1>5
<1>7. Builder!Product(s) = Upto[N] /\ Parser!Product(s) = Upto[N]
  BY DEF Builder!Product, Parser!Product
<1> HIDE DEF Upto
<1>8. /\ Upto[0] = 1
      /\ \A i \in 1 .. N : Upto[i] = Upto[i - 1] * s[i]
  BY <1>0, <1>6
<1> DEFINE S == {i \in 0 .. N : Upto[i] \in Nat}
<1>9. 0 .. N \subseteq S
  <2>1. 0 \in S
    BY <1>0, <1>8
  <2>2. \A i \in 0 .. N - 1 : i \in S => i + 1 \in S
    <3> TAKE i \in 0 .. N - 1
    <3> HAVE i \in S
    <3>1. Upto[i] \in Nat /\ s[i + 1] \in Nat /\ i + 1 \in 1 .. N /\ i + 1 - 1 = i
      BY <1>0
    <3>2. Upto[i + 1] = Upto[i] * s[i + 1]
      BY <1>8, <3>1
    <3>3. QED
      BY <1>0, <3>1, <3>2
  <2> HIDE DEF S
  <2>3. QED
    BY <1>0, <2>1, <2>2, InductionUpTo
<1>10. Upto \in [0 .. N -> Nat]
  BY <1>6, <1>9
<1>11. Products(Upto, s)
  BY <1>7, <1>8, <1>10 DEF Products
<1>12. QED
  BY <1>11

-----------------------------------------------------------------------------
(* The inductive invariants.                                               *)

(* loadTza: where the cursor is while the next entry is read, and what of  *)
(* it has been read.                                                       *)
Current == Len(tensors) + 1
Entry == file.contents[Current]
EntryAt == file.entries[Current]
NameLength == Parser!Value(file, EntryAt)
DimsAt  == EntryAt + 2 + NameLength
TypeAt  == DimsAt + 1 + 5 * Len(Entry.dims)
DataAt  == Parser!Value(file, TypeAt + 1)

InTable == {"name", "dims", "type", "data"}

ReadingInv ==
  /\ file \in Files
  /\ reading \in {"magic", "header", "count"} \cup InTable \cup Parser!Ended
  /\ tensor = [name |-> tensor.name, dims |-> tensor.dims, type |-> tensor.type, data |-> tensor.data]
  /\ reading \notin {"magic", "threw", "undefined"} => Parser!Value(file, 0) = Magic
  /\ reading = "magic" => cursor = 0
  /\ reading = "header" => cursor = 2
  /\ reading = "count" => cursor = Parser!Value(file, 4)
  /\ reading \in InTable =>
       /\ Len(tensors) \in 0 .. Len(file.contents) - 1
       /\ tensors = SubSeq(file.contents, 1, Len(tensors))
       /\ left = Len(file.contents) - Len(tensors)
  /\ reading = "name" => cursor = EntryAt
  /\ reading = "dims" => cursor = DimsAt
  /\ reading = "type" => cursor = TypeAt
  /\ reading = "data" => cursor = TypeAt + 1
  /\ reading \in {"dims", "type", "data"} => tensor.name = Entry.name
  /\ reading \in {"type", "data"} => tensor.dims = Entry.dims
  /\ reading = "data" => tensor.type = Entry.type
  /\ reading = "returned" => tensors = file.contents
  /\ reading = "threw" => Parser!Value(file, 0) # Magic \/ ~Parser!KnownTypes
  /\ reading = "undefined" => ~file.whole

PlaceIn(o, i) == IF i - o >= 0 THEN <<"decoder", i - o>> ELSE <<"encoder", i>>
PlaceOf(i) == PlaceIn(net.offset, i)
ArraysOf(o, S) == UNION {Builder!Arrays(PlaceIn(o, i)) : i \in S}
InLayer == building \in {"weight", "bias"}
Building == building \in {"layer", "weight", "bias", "built"}
Started == 0 .. (IF InLayer THEN layer ELSE layer - 1)
Whole == {<<<<"TensorData">>, "host">>, <<<<"weights">>, IF cuda THEN "device" ELSE "host">>}

LiveInv ==
  /\ net \in Networks /\ cuda \in BOOLEAN
  /\ building \in {"create", "layer", "weight", "bias", "built", "freed", "exited", "crashed"}
  /\ building # "create" => reading = "returned"
  /\ building = "create" => layer = 0 /\ conv = 0 /\ offset = 0 /\ layers = [p \in {} |-> Junk] /\ live = {}
  /\ Building => layer \in 0 .. Len(net.layers)
  /\ InLayer => layer < Len(net.layers)
  /\ building = "built" => layer = Len(net.layers)
  /\ Building => live = Whole \cup ArraysOf(net.offset, Started)
  /\ building = "freed" => live = {}

(* createUNetModel.                                                        *)
TensorStarts(i) == Builder!Sums(Builder!Counts(net.layers[i + 1]))
LayerStarts == Builder!Sums([i \in DOMAIN net.layers |-> Builder!Elements(net.layers[i])])
Start(i, j) == LayerStarts[i] + TensorStarts(i)[j]

Done == CASE building = "weight" -> 2 * conv [] building = "bias" -> 2 * conv + 1 [] OTHER -> 0
DoneIn(i) == IF i < layer THEN Len(net.layers[i + 1]) ELSE IF i = layer THEN Done ELSE 0

AllFound ==
  \A i \in DOMAIN net.layers : \A j \in DOMAIN net.layers[i] : Builder!Found(net.layers[i][j])

CopyInv ==
  Building =>
    /\ AllFound
    /\ DOMAIN buffer = 0 .. LayerStarts[Len(net.layers)] - 1
    /\ building = "weight" => conv \in 0 .. Len(net.layers[layer + 1]) \div 2
    /\ building = "bias" => conv \in 0 .. Len(net.layers[layer + 1]) \div 2 - 1
    /\ offset = LayerStarts[layer] + (IF InLayer THEN TensorStarts(layer)[Done] ELSE 0)
    /\ \A p \in 0 .. offset - 1 : buffer[p] # Junk

InPlace(i, j) ==
  LET name == net.layers[i + 1][j + 1]
  IN \A d \in 0 .. Builder!ElementCount(name) - 1 : buffer[Start(i, j) + d] = Builder!Copied(name, j)[d]

WeightStarts(i, n) == [j \in 1 .. n |-> Start(i, 2 * (j - 1))]
BiasStarts(i, n) == [j \in 1 .. n |-> Start(i, 2 * (j - 1) + 1)]
Channels(i, n) == [j \in 1 .. n |-> Builder!Tensor(net.layers[i + 1][2 * j - 1]).dims[1]]
Blocks(i, n) == [j \in 1 .. n |-> <<i, j - 1>>]

Record(i, weights, biases) ==
  [weightIdxs |-> WeightStarts(i, weights), biasIdxs |-> BiasStarts(i, biases),
   outChannels |-> Channels(i, biases), blocks |-> IF cuda THEN Blocks(i, biases) ELSE <<>>]
RecordOf(i) == Record(i, (DoneIn(i) + 1) \div 2, DoneIn(i) \div 2)

Placed   == \A i \in Started : \A j \in 0 .. DoneIn(i) - 1 : InPlace(i, j)
Recorded == \A i \in Started : PlaceOf(i) \in DOMAIN layers /\ layers[PlaceOf(i)] = RecordOf(i)

PlaceInv == Building => Placed /\ Recorded

-----------------------------------------------------------------------------
(* loadTza.                                                                *)

LEMMA ReadsField ==
  ASSUME NEW p, NEW w, NEW v, Parser!HasField(file, p, w, v)
  PROVE  Parser!FieldAt(p, w) = v
  BY DEF Parser!HasField, Parser!FieldAt, Parser!Field

LEMMA TableThere ==
  ASSUME ReadingInv, Parser!Value(file, 0) = Magic
  PROVE  Parser!TableLaidOut(file)
  BY FilesAssumption DEF ReadingInv, Parser!IsTza

(* The format of the entry that is read.                                   *)
LEMMA EntryThere ==
  ASSUME ReadingInv, reading \in InTable
  PROVE  /\ Current \in DOMAIN file.contents /\ Current \in 1 .. Len(file.contents)
         /\ Len(file.contents) \in Nat /\ file.entries \in [1 .. Len(file.contents) + 1 -> Nat]
         /\ Parser!EntryLaidOut(file, Current)
         /\ NameLength \in Nat /\ EntryAt \in Nat /\ DimsAt \in Nat /\ TypeAt \in Nat
         /\ Entry.dims \in Seq(Nat) /\ Len(Entry.dims) \in Nat
         /\ file.size \in Nat
<1>1. Parser!Value(file, 0) = Magic
  BY DEF ReadingInv, InTable
<1>2. Parser!TableLaidOut(file)
  BY <1>1, TableThere
<1>3. /\ Len(file.contents) \in Nat /\ DOMAIN file.contents = 1 .. Len(file.contents)
      /\ file.entries \in [1 .. Len(file.contents) + 1 -> Nat]
  BY <1>2 DEF Parser!TableLaidOut
<1>4. Current \in 1 .. Len(file.contents)
  BY <1>3 DEF ReadingInv, Current
<1>5. Parser!EntryLaidOut(file, Current)
  BY <1>2, <1>3, <1>4 DEF Parser!TableLaidOut
<1>6. EntryAt \in Nat
  BY <1>3, <1>4 DEF EntryAt
<1>7. NameLength \in Nat /\ Entry.dims \in Seq(Nat)
  BY <1>5 DEF Parser!EntryLaidOut, NameLength, EntryAt, Entry
<1>8. DimsAt \in Nat /\ Len(Entry.dims) \in Nat /\ TypeAt \in Nat
  <2>1. Len(Entry.dims) \in Nat
    BY <1>7
  <2>2. DimsAt \in Nat
    BY <1>6, <1>7 DEF DimsAt
  <2> DEFINE n == Len(Entry.dims)
  <2>3. TypeAt = DimsAt + 1 + 5 * n
    BY DEF TypeAt
  <2> HIDE DEF n
  <2>4. n \in Nat => TypeAt \in Nat
    BY <2>2, <2>3
  <2>5. QED
    BY <2>1, <2>2, <2>4 DEF n
<1>9. file.size \in Nat
  BY FilesAssumption DEF ReadingInv, Parser!IsTza
<1>10. QED
  BY <1>3, <1>4, <1>5, <1>6, <1>7, <1>8, <1>9

LEMMA InitReading == Init => ReadingInv
  BY DEF Init, Parser!Init, ReadingInv, InTable, Parser!Ended

LEMMA MagicStep ==
  ASSUME ReadingInv, Parser!ReadMagic
  PROVE  ReadingInv'
<1>1. Parser!IsTza(file)
  BY FilesAssumption DEF ReadingInv
<1>2. cursor = 0 /\ file.size \in Nat /\ (file.whole => Parser!Inside(2))
  BY <1>1 DEF Parser!IsTza, Parser!Inside, Parser!ReadMagic, ReadingInv
<1>3. Parser!Read(2) = Parser!Value(file, 0)
  BY <1>1, <1>2, ReadsField DEF Parser!IsTza, Parser!Read
<1>4. CASE Parser!PastEnd(2)
  BY <1>2, <1>4 DEF Parser!PastEnd, Parser!Goto, ReadingInv, InTable, Parser!Ended
<1>5. CASE ~Parser!PastEnd(2)
  <2>1. /\ cursor' = 2 /\ UNCHANGED <<file, left, tensor, tensors>>
        /\ reading' = IF Parser!Value(file, 0) = Magic THEN "header" ELSE "threw"
    BY <1>2, <1>3, <1>5 DEF Parser!ReadMagic, Parser!Goto
  <2>2. QED
    BY <2>1 DEF ReadingInv, InTable, Parser!Ended, Parser!Value
<1>6. QED
  BY <1>4, <1>5

LEMMA HeaderStep ==
  ASSUME ReadingInv, Parser!ReadHeader
  PROVE  ReadingInv'
<1>1. Parser!TableLaidOut(file) /\ cursor = 2 /\ reading = "header"
  BY TableThere DEF ReadingInv, Parser!ReadHeader
<1>2. file.whole => Parser!Inside(10)
  BY <1>1 DEF Parser!TableLaidOut, Parser!Inside
<1>3. Parser!FieldAt(cursor + 2, 8) = Parser!Value(file, 4)
  BY <1>1, ReadsField DEF Parser!TableLaidOut
<1>4. CASE Parser!PastEnd(10)
  BY <1>2, <1>4 DEF Parser!PastEnd, Parser!Goto, ReadingInv, InTable, Parser!Ended
<1>5. CASE ~Parser!PastEnd(10)
  <2>1. /\ cursor' = Parser!Value(file, 4) /\ UNCHANGED <<file, left, tensor, tensors>>
        /\ reading' = "count"
    BY <1>3, <1>5 DEF Parser!ReadHeader, Parser!Goto
  <2>2. QED
    BY <1>1, <2>1 DEF ReadingInv, InTable, Parser!Ended, Parser!Value
<1>6. QED
  BY <1>4, <1>5

LEMMA CountStep ==
  ASSUME ReadingInv, Parser!ReadCount
  PROVE  ReadingInv'
<1> DEFINE N == Len(file.contents)
<1>1. Parser!TableLaidOut(file) /\ cursor = Parser!Value(file, 4) /\ reading = "count"
  BY TableThere DEF ReadingInv, Parser!ReadCount
<1>2. file.whole => Parser!Inside(4)
  BY <1>1 DEF Parser!TableLaidOut, Parser!Inside
<1>3. Parser!Read(4) = N
  BY <1>1, ReadsField DEF Parser!TableLaidOut, Parser!Read
<1>4. /\ N \in Nat /\ file.contents \in Seq({file.contents[i] : i \in DOMAIN file.contents})
      /\ file.entries[1] = cursor + 4
  BY <1>1 DEF Parser!TableLaidOut
<1>5. CASE Parser!PastEnd(4)
  BY <1>2, <1>5 DEF Parser!PastEnd, Parser!Goto, ReadingInv, InTable, Parser!Ended
<1>6. CASE ~Parser!PastEnd(4)
  <2>1. /\ cursor' = cursor + 4 /\ left' = N /\ tensors' = <<>> /\ UNCHANGED <<file, tensor>>
        /\ reading' = IF N = 0 THEN "returned" ELSE "name"
    BY <1>3, <1>6 DEF Parser!ReadCount, Parser!NextEntry, Parser!Goto
  <2>2. N = 0 => file.contents = <<>>
    BY <1>4
  <2>3. <<>> = SubSeq(file.contents, 1, 0)
    BY <1>4
  <2>4. EntryAt' = file.entries[1]
    BY <2>1 DEF EntryAt, Current
  <2>5. Parser!Value(file, 0) = Magic
    BY <1>1 DEF ReadingInv
  <2>6. QED
    BY <1>1, <1>4, <2>1, <2>2, <2>3, <2>4, <2>5 DEF ReadingInv, InTable, Parser!Ended, Parser!Value
<1>7. QED
  BY <1>5, <1>6


LEMMA SameEntry ==
  ASSUME UNCHANGED <<file, tensors>>
  PROVE  /\ Current' = Current /\ Entry' = Entry /\ EntryAt' = EntryAt
         /\ DimsAt' = DimsAt /\ TypeAt' = TypeAt
  BY DEF Current, Entry, EntryAt, NameLength, DimsAt, TypeAt, Parser!Value

LEMMA UndefinedStep ==
  ASSUME ReadingInv, NEW bytes, Parser!PastEnd(bytes), file.whole => Parser!Inside(bytes)
  PROVE  ReadingInv'
  BY DEF Parser!PastEnd, Parser!Goto, ReadingInv, InTable, Parser!Ended

LEMMA NameStep ==
  ASSUME ReadingInv, Parser!ReadName
  PROVE  ReadingInv'
<1>1. reading \in InTable /\ cursor = EntryAt /\ reading = "name"
  BY DEF Parser!ReadName, ReadingInv, InTable
<1>2. /\ Parser!HasField(file, EntryAt, 2, NameLength)
      /\ Parser!HasField(file, EntryAt + 2, NameLength, Entry.name)
      /\ file.whole => TypeAt + 9 <= file.size
      /\ NameLength \in Nat /\ EntryAt \in Nat /\ Len(Entry.dims) \in Nat /\ file.size \in Nat
  BY <1>1, EntryThere DEF Parser!EntryLaidOut, NameLength, EntryAt, DimsAt, TypeAt, Entry
<1>3. file.whole => Parser!Inside(2) /\ Parser!Inside(2 + NameLength)
  <2> DEFINE n == Len(Entry.dims)
  <2>1. TypeAt = EntryAt + 2 + NameLength + 1 + 5 * n /\ n \in Nat
    BY <1>2 DEF DimsAt, TypeAt
  <2> HIDE DEF n
  <2>2. QED
    BY <1>1, <1>2, <2>1 DEF Parser!Inside
<1>4. Parser!Read(2) = NameLength /\ Parser!FieldAt(cursor + 2, NameLength) = Entry.name
  BY <1>1, <1>2, ReadsField DEF Parser!Read
<1>5. CASE Parser!PastEnd(IF Parser!Inside(2) THEN 2 + NameLength ELSE 2)
  BY <1>3, <1>5, UndefinedStep
<1>6. CASE ~Parser!PastEnd(IF Parser!Inside(2) THEN 2 + NameLength ELSE 2)
  <2>1. /\ tensor' = [tensor EXCEPT !.name = Entry.name]
        /\ cursor' = cursor + (2 + NameLength) /\ UNCHANGED <<file, left, tensors>>
        /\ reading' = "dims"
    BY <1>4, <1>6 DEF Parser!ReadName, Parser!Goto
  <2>2. cursor' = DimsAt
    BY <1>1, <1>2, <2>1 DEF DimsAt
  <2>3. /\ tensor' = [name |-> tensor'.name, dims |-> tensor'.dims, type |-> tensor'.type, data |-> tensor'.data]
        /\ tensor'.name = Entry.name
    BY <2>1 DEF ReadingInv
  <2>4. QED
    BY <1>1, <2>1, <2>2, <2>3, SameEntry DEF ReadingInv, InTable, Parser!Ended, Parser!Value
<1>7. QED
  BY <1>5, <1>6

LEMMA DimsStep ==
  ASSUME ReadingInv, Parser!ReadDims
  PROVE  ReadingInv'
<1> DEFINE n == Len(Entry.dims)
<1>1. reading \in InTable /\ cursor = DimsAt /\ reading = "dims"
  BY DEF Parser!ReadDims, ReadingInv, InTable
<1>2. /\ Parser!HasField(file, DimsAt, 1, n)
      /\ \A d \in DOMAIN Entry.dims : Parser!HasField(file, DimsAt + 1 + 4 * (d - 1), 4, Entry.dims[d])
      /\ file.whole => TypeAt + 9 <= file.size
      /\ DimsAt \in Nat /\ Entry.dims \in Seq(Nat) /\ n \in Nat /\ file.size \in Nat
  BY <1>1, EntryThere DEF Parser!EntryLaidOut, NameLength, EntryAt, DimsAt, TypeAt, Entry
<1>3. Parser!DimsBytes(n) = 1 + 5 * n /\ TypeAt = DimsAt + 1 + 5 * n
  BY <1>2 DEF Parser!DimsBytes, TypeAt
<1> HIDE DEF n
<1>4. file.whole => Parser!Inside(1) /\ Parser!Inside(Parser!DimsBytes(n))
  BY <1>1, <1>2, <1>3 DEF Parser!Inside
<1>5. Parser!Read(1) = n
  BY <1>1, <1>2, ReadsField DEF Parser!Read
<1>6. \A d \in 1 .. n : Parser!FieldAt(cursor + 1 + 4 * (d - 1), 4) = Entry.dims[d]
  BY <1>1, <1>2, ReadsField DEF n
<1>7. [d \in 1 .. n |-> Parser!FieldAt(cursor + 1 + 4 * (d - 1), 4)] = Entry.dims
  <2>1. Entry.dims = [d \in 1 .. n |-> Entry.dims[d]]
    BY <1>2 DEF n
  <2> HIDE DEF n
  <2>2. QED
    BY <1>6, <2>1
<1>8. CASE Parser!PastEnd(IF Parser!Inside(1) THEN Parser!DimsBytes(n) ELSE 1)
  BY <1>4, <1>8, UndefinedStep
<1>9. CASE ~Parser!PastEnd(IF Parser!Inside(1) THEN Parser!DimsBytes(n) ELSE 1)
  <2>1. /\ tensor' = [tensor EXCEPT !.dims = Entry.dims]
        /\ cursor' = cursor + Parser!DimsBytes(n) /\ UNCHANGED <<file, left, tensors>>
        /\ reading' = "type"
    BY <1>5, <1>7, <1>9 DEF Parser!ReadDims, Parser!Goto
  <2>2. cursor' = TypeAt
    BY <1>1, <1>2, <1>3, <2>1
  <2>3. /\ tensor' = [name |-> tensor'.name, dims |-> tensor'.dims, type |-> tensor'.type, data |-> tensor'.data]
        /\ tensor'.name = tensor.name /\ tensor'.dims = Entry.dims
    BY <2>1 DEF ReadingInv
  <2>4. QED
    BY <1>1, <2>1, <2>2, <2>3, SameEntry DEF ReadingInv, InTable, Parser!Ended, Parser!Value
<1>10. QED
  BY <1>8, <1>9

LEMMA TypeStep ==
  ASSUME ReadingInv, Parser!ReadType
  PROVE  ReadingInv'
<1>1. reading \in InTable /\ cursor = TypeAt /\ reading = "type"
  BY DEF Parser!ReadType, ReadingInv, InTable
<1>2. /\ Parser!HasField(file, TypeAt, 1, Parser!Value(file, TypeAt))
      /\ Entry.type = IF Parser!Value(file, TypeAt) \in {"f", "h"} THEN Parser!Value(file, TypeAt) ELSE "unknown"
      /\ file.whole => TypeAt + 9 <= file.size
      /\ TypeAt \in Nat /\ file.size \in Nat
  BY <1>1, EntryThere DEF Parser!EntryLaidOut, NameLength, EntryAt, DimsAt, TypeAt, Entry
<1>3. file.whole => Parser!Inside(1)
  BY <1>1, <1>2 DEF Parser!Inside
<1>4. Parser!Read(1) = Parser!Value(file, TypeAt)
  BY <1>1, <1>2, ReadsField DEF Parser!Read
<1>5. CASE Parser!PastEnd(1)
  BY <1>3, <1>5, UndefinedStep
<1>6. CASE ~Parser!PastEnd(1)
  <2>1. /\ tensor' = [tensor EXCEPT !.type = Entry.type]
        /\ cursor' = cursor + 1 /\ UNCHANGED <<file, left, tensors>>
        /\ reading' = "data"
    BY <1>2, <1>4, <1>6 DEF Parser!ReadType, Parser!Goto
  <2>2. cursor' = TypeAt + 1
    BY <1>1, <2>1
  <2>3. /\ tensor' = [name |-> tensor'.name, dims |-> tensor'.dims, type |-> tensor'.type, data |-> tensor'.data]
        /\ tensor'.name = tensor.name /\ tensor'.dims = tensor.dims /\ tensor'.type = Entry.type
    BY <2>1 DEF ReadingInv
  <2>4. QED
    BY <1>1, <2>1, <2>2, <2>3, SameEntry DEF ReadingInv, InTable, Parser!Ended, Parser!Value
<1>7. QED
  BY <1>5, <1>6


(* The bytes that are copied are as many as the shape and type make them.  *)
LEMMA BytesAre ==
  ASSUME NEW t, t.dims \in Seq(Nat)
  PROVE  Parser!TotalBytes(t) \in Nat
<1>1. PICK f : f \in [0 .. Len(t.dims) -> Nat] /\ Parser!Product(t.dims) = f[Len(t.dims)]
  BY ProductsAre DEF Products
<1>2. Len(t.dims) \in 0 .. Len(t.dims)
  OBVIOUS
<1>3. Parser!Product(t.dims) \in Nat
  BY <1>1, <1>2
<1>4. QED
  BY <1>3 DEF Parser!TotalBytes, Parser!ElementSize

LEMMA DataStep ==
  ASSUME ReadingInv, Parser!ReadData
  PROVE  ReadingInv'
<1> DEFINE N == Len(file.contents)
           bytes == Parser!TotalBytes(Entry)
           k == Len(tensors)
<1>1. reading \in InTable /\ cursor = TypeAt + 1 /\ reading = "data"
  BY DEF Parser!ReadData, ReadingInv, InTable
<1>2. /\ Parser!HasField(file, TypeAt + 1, 8, DataAt) /\ DataAt \in Nat
      /\ Parser!HasField(file, DataAt, bytes, Entry.data)
      /\ Entry = [name |-> Entry.name, dims |-> Entry.dims, type |-> Entry.type, data |-> Entry.data]
      /\ file.entries[Current + 1] = TypeAt + 9
      /\ file.whole => TypeAt + 9 <= file.size /\ DataAt + bytes <= file.size
      /\ TypeAt \in Nat /\ file.size \in Nat /\ Entry.dims \in Seq(Nat)
      /\ N \in Nat /\ Current \in 1 .. N
  BY <1>1, EntryThere DEF Parser!EntryLaidOut, NameLength, EntryAt, DimsAt, TypeAt, DataAt, Entry
<1>3. file.whole => Parser!Inside(8)
  BY <1>1, <1>2 DEF Parser!Inside
<1>4. Parser!Read(8) = DataAt
  BY <1>1, <1>2, ReadsField DEF Parser!Read
<1>5. Parser!TotalBytes(tensor) = bytes
  BY <1>1 DEF ReadingInv, Parser!TotalBytes
<1>6. Parser!FieldAt(DataAt, bytes) = Entry.data
  BY <1>2, ReadsField
<1>7. bytes \in Nat
  BY <1>2, BytesAre
<1> HIDE DEF bytes
<1>8. [tensor EXCEPT !.data = Entry.data] = Entry
  <2>1. tensor.name = Entry.name /\ tensor.dims = Entry.dims /\ tensor.type = Entry.type
    BY <1>1 DEF ReadingInv
  <2>2. tensor = [name |-> tensor.name, dims |-> tensor.dims, type |-> tensor.type, data |-> tensor.data]
    BY DEF ReadingInv
  <2>3. QED
    BY <1>2, <2>1, <2>2
<1>9. CASE Parser!PastEnd(8)
  BY <1>3, <1>9, UndefinedStep
<1>10. CASE tensor.type = "unknown" /\ ~Parser!PastEnd(8)
  <2>1. reading' = "threw" /\ UNCHANGED <<file, left, tensor, tensors, cursor>>
    BY <1>10 DEF Parser!ReadData, Parser!Goto
  <2>2. Entry.type = "unknown"
    BY <1>1, <1>10 DEF ReadingInv
  <2>3. Current \in DOMAIN file.contents
    BY <1>1, EntryThere
  <2>4. ~Parser!KnownTypes
    BY <2>2, <2>3 DEF Parser!KnownTypes, Entry
  <2>5. (~Parser!KnownTypes)'
    BY <2>1, <2>4 DEF Parser!KnownTypes
  <2>6. QED
    BY <2>1, <2>5 DEF ReadingInv, InTable, Parser!Ended
<1>11. CASE tensor.type # "unknown" /\ ~Parser!PastEnd(8) /\ DataAt + bytes > file.size
  <2>1. reading' = "undefined" /\ UNCHANGED <<file, left, tensor, tensors, cursor>>
    BY <1>2, <1>4, <1>5, <1>7, <1>11 DEF Parser!ReadData, Parser!Goto
  <2>2. ~file.whole
    BY <1>2, <1>7, <1>11
  <2>3. QED
    BY <2>1, <2>2 DEF ReadingInv, InTable, Parser!Ended
<1>12. CASE tensor.type # "unknown" /\ ~Parser!PastEnd(8) /\ ~(DataAt + bytes > file.size)
  <2>1. /\ tensors' = Append(tensors, Entry) /\ left' = left - 1
        /\ reading' = IF left - 1 = 0 THEN "returned" ELSE "name"
        /\ cursor' = cursor + 8 /\ UNCHANGED <<file, tensor>>
    BY <1>4, <1>5, <1>6, <1>8, <1>12 DEF Parser!ReadData, Parser!NextEntry, Parser!Goto
  <2>2. /\ k \in 0 .. N - 1 /\ tensors = SubSeq(file.contents, 1, k) /\ left = N - k
        /\ Parser!Value(file, 0) = Magic
    BY <1>1 DEF ReadingInv, InTable
  <2>3. file.contents \in Seq({file.contents[i] : i \in DOMAIN file.contents})
    BY <2>2, TableThere DEF Parser!TableLaidOut
  <2>4. Entry = file.contents[k + 1]
    BY DEF Entry, Current
  <2>5. tensors' = SubSeq(file.contents, 1, k + 1) /\ Len(tensors') = k + 1
    <3> DEFINE S == {file.contents[i] : i \in DOMAIN file.contents}
               c == file.contents
    <3> HIDE DEF S, c
    <3>1. c \in Seq(S)
      BY <2>3 DEF S, c
    <3>2. tensors' = Append(SubSeq(c, 1, k), c[k + 1])
      BY <2>1, <2>2, <2>4 DEF c
    <3>3. k \in Nat /\ k + 1 \in 1 .. Len(c)
      BY <1>2, <2>2 DEF c
    <3>4. Append(SubSeq(c, 1, k), c[k + 1]) = SubSeq(c, 1, k + 1) /\ Len(SubSeq(c, 1, k + 1)) = k + 1
      BY <3>1, <3>3
    <3>5. QED
      BY <3>2, <3>4 DEF c
  <2>6. left' = N - (k + 1)
    BY <1>2, <2>1, <2>2
  <2>7. CASE k + 1 = N
    <3>1. SubSeq(file.contents, 1, N) = file.contents
      BY <1>2, <2>3
    <3>2. reading' = "returned" /\ tensors' = file.contents
      BY <1>2, <2>1, <2>2, <2>5, <2>6, <2>7, <3>1
    <3>3. QED
      BY <2>1, <2>2, <3>2 DEF ReadingInv, InTable, Parser!Ended, Parser!Value
  <2>8. CASE k + 1 # N
    <3>1. reading' = "name" /\ k + 1 \in 0 .. N - 1
      <4>1. left = N - k /\ k \in 0 .. N - 1
        BY <2>2
      <4>2. left - 1 # 0 /\ k + 1 \in 0 .. N - 1
        BY <1>2, <2>8, <4>1
      <4>3. QED
        BY <2>1, <4>2
    <3>2. EntryAt' = TypeAt + 9
      BY <1>2, <2>1, <2>5 DEF EntryAt, Current
    <3>3. cursor' = EntryAt'
      BY <1>1, <1>2, <2>1, <3>2
    <3>4. QED
      BY <2>1, <2>2, <2>5, <2>6, <3>1, <3>3 DEF ReadingInv, InTable, Parser!Ended, Parser!Value
  <2>9. QED
    BY <2>7, <2>8
<1>13. QED
  BY <1>9, <1>10, <1>11, <1>12

LEMMA StepReading == ReadingInv /\ [Next]_vars => ReadingInv'
<1> SUFFICES ASSUME ReadingInv, [Next]_vars PROVE ReadingInv'
  OBVIOUS
<1>1. CASE UNCHANGED loader
  BY <1>1 DEF loader, ReadingInv, EntryAt, DimsAt, TypeAt, NameLength, Entry, Current, Parser!Value,
              Parser!KnownTypes
<1>2. CASE Load
  <2>1. ~Parser!Over
    BY <1>2 DEF Load, Parser!Over
  <2>2. QED
    BY <1>2, <2>1, MagicStep, HeaderStep, CountStep, NameStep, DimsStep, TypeStep, DataStep
       DEF Load, Parser!Next
<1>3. QED
  BY <1>1, <1>2 DEF Next, Build, Over, vars, loader

LEMMA ReadingHolds == Spec => []ReadingInv
  BY InitReading, StepReading, PTL DEF Spec

(* Whatever the order of table and data in the file, and whatever gaps it  *)
(* has, a load that returns has every tensor of it, with its own bytes.    *)
THEOREM LoadReturnsContents == Spec => []LoadsContents
<1>1. ReadingInv => LoadsContents
  BY DEF ReadingInv, LoadsContents, Parser!LoadsContents
<1>2. QED
  BY <1>1, ReadingHolds, PTL

(* A complete weights file is never read past its end, and refused only    *)
(* for a tensor of unknown type.                                           *)
THEOREM CompleteFilesLoad == Spec => []RefusesOnlyUnknown
<1>1. ReadingInv => RefusesOnlyUnknown
  BY DEF ReadingInv, RefusesOnlyUnknown, Parser!RefusesOnlyUnknown
<1>2. QED
  BY <1>1, ReadingHolds, PTL

-----------------------------------------------------------------------------
(* createUNetModel and freeUNetModel: what is allocated.                   *)

LEMMA NetworkFacts ==
  ASSUME LiveInv
  PROVE  /\ Len(net.layers) \in Nat /\ DOMAIN net.layers = 1 .. Len(net.layers)
         /\ net.offset \in 0 .. Len(net.layers)
         /\ \A i \in 1 .. Len(net.layers) :
              /\ Len(net.layers[i]) \in Nat /\ DOMAIN net.layers[i] = 1 .. Len(net.layers[i])
              /\ Len(net.layers[i]) % 2 = 0
<1>1. net \in Networks
  BY DEF LiveInv
<1>2. /\ net.layers \in Seq({net.layers[i] : i \in DOMAIN net.layers})
      /\ \A i \in DOMAIN net.layers :
           /\ net.layers[i] \in Seq({net.layers[i][j] : j \in DOMAIN net.layers[i]})
           /\ Len(net.layers[i]) % 2 = 0
      /\ net.offset \in 0 .. Len(net.layers)
  BY <1>1, NetworksAssumption
<1>3. Len(net.layers) \in Nat /\ DOMAIN net.layers = 1 .. Len(net.layers)
  BY <1>2
<1>4. \A i \in 1 .. Len(net.layers) :
        Len(net.layers[i]) \in Nat /\ DOMAIN net.layers[i] = 1 .. Len(net.layers[i])
  BY <1>2, <1>3
<1>5. QED
  BY <1>2, <1>3, <1>4

LEMMA InitLive == Init => LiveInv
  BY DEF Init, Builder!Init, LiveInv, Building, InLayer

LEMMA LoadLive ==
  ASSUME LiveInv, Load
  PROVE  LiveInv'
<1>1. building = "create" /\ UNCHANGED builder
  BY DEF LiveInv, Load, Parser!Ended
<1>2. QED
  BY <1>1 DEF LiveInv, builder, Building, InLayer

LEMMA PlaceIs == Builder!Place = PlaceIn(net.offset, layer)
  BY DEF Builder!Place, PlaceIn

LEMMA ArraysAdd ==
  ASSUME NEW o, NEW S, NEW x
  PROVE  ArraysOf(o, S \cup {x}) = ArraysOf(o, S) \cup Builder!Arrays(PlaceIn(o, x))
  BY DEF ArraysOf

(* What has been allocated once all layers are there is what is released.  *)
LEMMA AllFreed ==
  ASSUME LiveInv, building = "built"
  PROVE  ArraysOf(net.offset, Started) = Builder!Freed
<1> DEFINE N == Len(net.layers)
           o == net.offset
           E == UNION {Builder!Arrays(<<"encoder", i>>) : i \in 0 .. o - 1}
           D == UNION {Builder!Arrays(<<"decoder", i>>) : i \in 0 .. N - o - 1}
<1>1. N \in Nat /\ o \in 0 .. N /\ Started = 0 .. N - 1
  BY NetworkFacts DEF LiveInv, Started, InLayer
<1>2. Builder!Freed = E \cup D
  BY DEF Builder!Freed
<1> HIDE DEF N, o
<1>3. \A i \in 0 .. o - 1 : i \in 0 .. N - 1 /\ PlaceIn(o, i) = <<"encoder", i>>
  BY <1>1 DEF PlaceIn
<1>4. \A i \in 0 .. N - o - 1 : i + o \in 0 .. N - 1 /\ PlaceIn(o, i + o) = <<"decoder", i>>
  BY <1>1 DEF PlaceIn
<1>5. \A i \in 0 .. N - 1 : i \in 0 .. o - 1 \/ (i - o \in 0 .. N - o - 1 /\ i - o + o = i)
  BY <1>1
<1>6. \A x : x \in ArraysOf(o, 0 .. N - 1) <=> x \in E \cup D
  <2> TAKE x
  <2>1. ASSUME NEW i \in 0 .. N - 1, x \in Builder!Arrays(PlaceIn(o, i)) PROVE x \in E \cup D
    <3>1. CASE i \in 0 .. o - 1
      BY <1>3, <2>1, <3>1
    <3>2. CASE i - o \in 0 .. N - o - 1 /\ i - o + o = i
      <4>1. PlaceIn(o, i) = <<"decoder", i - o>>
        BY <1>4, <3>2
      <4>2. QED
        BY <2>1, <3>2, <4>1
    <3>3. QED
      BY <1>5, <2>1, <3>1, <3>2
  <2>2. ASSUME NEW i \in 0 .. o - 1, x \in Builder!Arrays(<<"encoder", i>>)
        PROVE  x \in ArraysOf(o, 0 .. N - 1)
    BY <1>3, <2>2 DEF ArraysOf
  <2>3. ASSUME NEW i \in 0 .. N - o - 1, x \in Builder!Arrays(<<"decoder", i>>)
        PROVE  x \in ArraysOf(o, 0 .. N - 1)
    BY <1>4, <2>3 DEF ArraysOf
  <2>4. QED
    BY <2>1, <2>2, <2>3 DEF ArraysOf
<1>7. ArraysOf(o, 0 .. N - 1) = E \cup D
  BY <1>6
<1>8. QED
  BY <1>1, <1>2, <1>7 DEF o

LEMMA StepLive == LiveInv /\ [Next]_vars => LiveInv'
<1> SUFFICES ASSUME LiveInv, [Next]_vars PROVE LiveInv'
  OBVIOUS
<1> DEFINE N == Len(net.layers)
<1>0. N \in Nat
  BY NetworkFacts
<1> HIDE DEF N
<1>1. CASE UNCHANGED vars
  BY <1>1 DEF vars, loader, builder, LiveInv, Building, InLayer, Started, Whole
<1>2. CASE Load
  BY <1>2, LoadLive
<1>3. CASE Over
  BY <1>1, <1>3 DEF Over
<1>4. CASE Build
  <2>0. reading = "returned" /\ reading' = "returned"
    BY <1>4 DEF Build, loader
  <2>1. CASE Builder!Exit
    BY <2>0, <2>1 DEF Builder!Exit, LiveInv, Building, InLayer
  <2>2. CASE Builder!CreateBuffer /\ ~Builder!Exit
    <3>1. CASE building' = "crashed"
      BY <2>0, <2>2, <3>1 DEF Builder!CreateBuffer, LiveInv, Building, InLayer
    <3>2. CASE building' # "crashed"
      <4>1. /\ building = "create" /\ building' = "layer" /\ live' = Whole
            /\ UNCHANGED <<net, cuda, layer, conv, offset, layers>>
        BY <2>2, <3>2 DEF Builder!CreateBuffer, Whole
      <4>2. Started' = {} /\ layer = 0
        BY <4>1 DEF Started, InLayer, LiveInv
      <4>3. live' = Whole' \cup ArraysOf(net.offset, Started)'
        BY <4>1, <4>2 DEF Whole, ArraysOf
      <4>4. QED
        BY <1>0, <2>0, <4>1, <4>2, <4>3 DEF LiveInv, Building, InLayer, N
    <3>3. QED
      BY <3>1, <3>2
  <2>3. CASE Builder!StartLayer
    <3>1. /\ building = "layer" /\ building' = "weight" /\ layer < N
          /\ live' = live \cup Builder!Arrays(PlaceIn(net.offset, layer))
          /\ UNCHANGED <<net, cuda, layer, offset, buffer>>
      BY <2>3, PlaceIs DEF Builder!StartLayer, N
    <3>2. layer \in 0 .. N /\ live = Whole \cup ArraysOf(net.offset, Started)
      BY <3>1 DEF LiveInv, Building, N
    <3>3. Started' = Started \cup {layer}
      BY <1>0, <3>1, <3>2 DEF Started, InLayer
    <3>4. ArraysOf(net.offset, Started)' = ArraysOf(net.offset, Started) \cup Builder!Arrays(PlaceIn(net.offset, layer))
      BY <3>1, <3>3, ArraysAdd
    <3>5. live' = Whole' \cup ArraysOf(net.offset, Started)'
      BY <3>1, <3>2, <3>4 DEF Whole
    <3>6. QED
      BY <2>0, <3>1, <3>2, <3>5 DEF LiveInv, Building, InLayer, N
  <2>4. CASE (Builder!CopyWeight \/ Builder!CopyBias) /\ ~Builder!Exit
    <3>1. /\ InLayer /\ InLayer' /\ UNCHANGED <<net, cuda, layer, live>>
      BY <2>4 DEF Builder!CopyWeight, Builder!CopyBias, InLayer
    <3>2. QED
      BY <2>0, <3>1 DEF LiveInv, Building, InLayer, Started, Whole
  <2>5. CASE Builder!EndLayer
    <3>1. /\ building = "weight" /\ building' = "layer" /\ layer' = layer + 1
          /\ UNCHANGED <<net, cuda, live>>
      BY <2>5 DEF Builder!EndLayer
    <3>2. layer \in 0 .. N - 1 /\ live = Whole \cup ArraysOf(net.offset, Started)
      BY <1>0, <3>1 DEF LiveInv, Building, InLayer, N
    <3>3. Started' = Started
      BY <3>1, <3>2 DEF Started, InLayer
    <3>4. live' = Whole' \cup ArraysOf(net.offset, Started)'
      BY <3>1, <3>2, <3>3 DEF Whole
    <3>5. QED
      BY <1>0, <2>0, <3>1, <3>2, <3>4 DEF LiveInv, Building, InLayer, N
  <2>6. CASE Builder!Return
    <3>1. /\ building = "layer" /\ building' = "built" /\ layer = N
          /\ UNCHANGED <<net, cuda, layer, live>>
      BY <2>6 DEF Builder!Return, N
    <3>2. QED
      BY <2>0, <3>1 DEF LiveInv, Building, InLayer, Started, Whole, N
  <2>7. CASE Builder!Free /\ ~Builder!Exit
    <3>1. /\ building = "built" /\ building' = "freed" /\ UNCHANGED <<net, cuda>>
          /\ live' = (live \ Builder!Freed) \ Whole
      BY <2>7 DEF Builder!Free, Builder!CallerSaysCuda, Builder!Exit, Whole
    <3>2. live = Whole \cup ArraysOf(net.offset, Started)
      BY <3>1 DEF LiveInv, Building
    <3>3. live' = {}
      BY <3>1, <3>2, AllFreed
    <3>4. QED
      BY <2>0, <3>1, <3>3 DEF LiveInv, Building, InLayer
  <2>8. CASE Builder!Over
    <3>1. UNCHANGED vars
      BY <1>4, <2>8 DEF Build, Builder!Over, Builder!vars, vars, builder
    <3>2. QED
      BY <1>1, <3>1
  <2>9. QED
    BY <1>4, <2>1, <2>2, <2>3, <2>4, <2>5, <2>6, <2>7, <2>8 DEF Build, Builder!Next
<1>5. QED
  BY <1>1, <1>2, <1>3, <1>4 DEF Next

LEMMA LiveHolds == Spec => []LiveInv
  BY InitLive, StepLive, PTL DEF Spec

(* freeUNetModel leaves nothing behind, on the host or on the device,      *)
(* however the layers are split into encoder and decoder.                  *)
THEOREM EverythingFreed == Spec => []ReleasesAll
<1>1. LiveInv => ReleasesAll
  BY DEF LiveInv, ReleasesAll, Builder!ReleasesAll
<1>2. QED
  BY <1>1, LiveHolds, PTL

-----------------------------------------------------------------------------
(* createUNetModel: where the tensors are put.                             *)

(* Nothing of the file or the network changes while the model is built.    *)
LEMMA SameTensors ==
  ASSUME UNCHANGED <<net, tensors>>
  PROVE  /\ Loaded' = Loaded
         /\ \A name : Builder!Tensor(name)' = Builder!Tensor(name)
         /\ \A name : Builder!ElementCount(name)' = Builder!ElementCount(name)
         /\ \A name : Builder!Found(name)' = Builder!Found(name)
         /\ \A name, m : Builder!Copied(name, m)' = Builder!Copied(name, m)
         /\ LayerStarts' = LayerStarts
         /\ \A i : TensorStarts(i)' = TensorStarts(i)
         /\ \A i, j : Start(i, j)' = Start(i, j)
<1>1. Loaded' = Loaded
  BY DEF Loaded
<1>2. \A name : Builder!Tensor(name)' = Builder!Tensor(name)
  BY <1>1 DEF Builder!Tensor
<1>3. \A name : Builder!ElementCount(name)' = Builder!ElementCount(name)
  BY <1>2 DEF Builder!ElementCount
<1>4. \A name : Builder!Found(name)' = Builder!Found(name)
  BY <1>1 DEF Builder!Found
<1>5. \A name, n : Builder!Half(name, n)' = Builder!Half(name, n)
  BY <1>2 DEF Builder!Half
<1>6. \A name, d : Builder!Reordered(name, d)' = Builder!Reordered(name, d)
  BY <1>2, <1>5 DEF Builder!Reordered
<1>7. \A name, m : Builder!Copied(name, m)' = Builder!Copied(name, m)
  BY <1>2, <1>3, <1>5, <1>6 DEF Builder!Copied
<1>8. \A names : Builder!Counts(names)' = Builder!Counts(names)
  BY <1>3 DEF Builder!Counts
<1>9. \A names : Builder!Elements(names)' = Builder!Elements(names)
  BY <1>8 DEF Builder!Elements
<1>10. LayerStarts' = LayerStarts
  BY <1>9 DEF LayerStarts
<1>11. \A i : TensorStarts(i)' = TensorStarts(i)
  BY <1>8 DEF TensorStarts
<1>12. \A i, j : Start(i, j)' = Start(i, j)
  BY <1>10, <1>11 DEF Start
<1>13. QED
  BY <1>1, <1>2, <1>3, <1>4, <1>7, <1>10, <1>11, <1>12

(* What find returns for a name is a tensor of the file with that name.    *)
LEMMA LoadedIs ==
  ASSUME ReadingInv, reading = "returned", NEW name \in DOMAIN Loaded
  PROVE  \E i \in DOMAIN file.contents :
           file.contents[i].name = name /\ Builder!Tensor(name) = file.contents[i]
<1> DEFINE T == {i \in DOMAIN tensors : tensors[i].name = name}
<1>1. tensors = file.contents
  BY DEF ReadingInv
<1>2. Parser!TableLaidOut(file)
  BY TableThere DEF ReadingInv
<1>3. DOMAIN file.contents = 1 .. Len(file.contents) /\ Len(file.contents) \in Nat
  BY <1>2 DEF Parser!TableLaidOut
<1>4. name \in {tensors[i].name : i \in DOMAIN tensors} /\ Loaded[name] = tensors[Min(T)]
  BY DEF Loaded
<1>5. T \in SUBSET Nat /\ T # {}
  BY <1>1, <1>3, <1>4
<1>6. \E x \in T : \A y \in T : x <= y
  <2> HIDE DEF T
  <2>1. QED
    BY <1>5, LeastElement
<1>7. Min(T) \in T
  BY <1>6 DEF Min
<1>8. QED
  BY <1>1, <1>4, <1>7 DEF Builder!Tensor

LEMMA TensorFacts ==
  ASSUME ReadingInv, reading = "returned", NEW name, Builder!Found(name)
  PROVE  /\ Builder!Tensor(name).dims \in Seq(Nat)
         /\ Builder!Tensor(name).data \in Data
         /\ Builder!ElementCount(name) \in Nat
<1>1. PICK i \in DOMAIN file.contents : Builder!Tensor(name) = file.contents[i]
  BY LoadedIs DEF Builder!Found
<1>2. Parser!TableLaidOut(file) /\ file \in Files
  BY TableThere DEF ReadingInv
<1>3. file.contents[i].dims \in Seq(Nat)
  BY <1>1, <1>2 DEF Parser!TableLaidOut, Parser!EntryLaidOut
<1>4. file.contents[i].data \in Data
  BY <1>1, <1>2 DEF Data
<1> DEFINE s == Builder!Tensor(name).dims
<1>5. s \in Seq(Nat)
  BY <1>1, <1>3
<1> HIDE DEF s
<1>6. PICK f : f \in [0 .. Len(s) -> Nat] /\ Builder!Product(s) = f[Len(s)]
  BY <1>5, ProductsAre DEF Products
<1>7. Len(s) \in 0 .. Len(s)
  BY <1>5
<1>8. Builder!Product(s) \in Nat
  BY <1>6, <1>7
<1>9. QED
  BY <1>1, <1>4, <1>5, <1>8 DEF s, Builder!ElementCount

(* No half of a tensor of the file is junk, wherever the reordering of a   *)
(* weight takes it from.                                                   *)
LEMMA HalvesAreData ==
  ASSUME ReadingInv, reading = "returned", NEW name, Builder!Found(name), NEW n \in Nat
  PROVE  Builder!Half(name, n) # Junk
<1>1. Builder!Tensor(name).data \in Data
  BY TensorFacts
<1>2. n \div 2 \in Nat /\ n % 2 \in {0, 1}
  OBVIOUS
<1>3. QED
  BY <1>1, <1>2, JunkAssumption DEF Builder!Half

LEMMA FourNumbers ==
  ASSUME NEW s, s \in Seq(Nat), Len(s) = 4
  PROVE  s[1] \in Nat /\ s[2] \in Nat /\ s[3] \in Nat /\ s[4] \in Nat
<1>1. \A i \in 1 .. 4 : s[i] \in Nat
  BY ElementOfSeq
<1>2. QED
  BY <1>1

LEMMA FourFactors ==
  ASSUME NEW s, s \in Seq(Nat), Len(s) = 4
  PROVE  Builder!Product(s) = s[1] * s[2] * s[3] * s[4]
<1>1. PICK f : Products(f, s)
  BY ProductsAre
<1>2. s[1] \in Nat /\ s[2] \in Nat /\ s[3] \in Nat /\ s[4] \in Nat
  BY FourNumbers
<1>3. /\ f[0] = 1 /\ f[1] = f[0] * s[1] /\ f[2] = f[1] * s[2]
      /\ f[3] = f[2] * s[3] /\ f[4] = f[3] * s[4]
  BY <1>1 DEF Products
<1>4. f[1] = s[1]
  BY <1>2, <1>3
<1>5. Builder!Product(s) = f[4]
  BY <1>1 DEF Products
<1>6. QED
  BY <1>3, <1>4, <1>5

LEMMA CopiedAreData ==
  ASSUME ReadingInv, reading = "returned", NEW name, NEW idx, Builder!Found(name)
  PROVE  /\ DOMAIN Builder!Copied(name, idx) = 0 .. Builder!ElementCount(name) - 1
         /\ \A d \in 0 .. Builder!ElementCount(name) - 1 : Builder!Copied(name, idx)[d] # Junk
<1> DEFINE s == Builder!Tensor(name).dims
<1>1. DOMAIN Builder!Copied(name, idx) = 0 .. Builder!ElementCount(name) - 1
  BY DEF Builder!Copied
<1>2. s \in Seq(Nat) /\ Builder!ElementCount(name) \in Nat
  BY TensorFacts
<1>3. ASSUME NEW d \in 0 .. Builder!ElementCount(name) - 1 PROVE Builder!Copied(name, idx)[d] # Junk
  <2>1. CASE ~ (idx % 2 = 0 /\ Len(s) = 4)
    <3>1. Builder!Copied(name, idx)[d] = Builder!Half(name, d)
      BY <2>1 DEF Builder!Copied
    <3>2. QED
      BY <1>2, <3>1, HalvesAreData
  <2>2. CASE idx % 2 = 0 /\ Len(s) = 4
    <3> DEFINE C == s[2]
               R == s[3]
               S == s[4]
               k == d \div (C * S * R)
               n == ((k * C + (d % C)) * R + ((d \div (C * S)) % R)) * S + ((d \div C) % S)
    <3>1. Builder!Copied(name, idx)[d] = Builder!Half(name, n)
      BY <2>2 DEF Builder!Copied, Builder!Reordered
    <3>2. Builder!ElementCount(name) = s[1] * s[2] * s[3] * s[4]
      BY <1>2, <2>2, FourFactors DEF Builder!ElementCount
    <3>3. s[1] \in Nat /\ C \in Nat /\ R \in Nat /\ S \in Nat /\ d \in Nat
      <4>1. s[1] \in Nat /\ C \in Nat /\ R \in Nat /\ S \in Nat
        BY <1>2, <2>2, FourNumbers
      <4>2. d \in Nat
        BY <1>2
      <4>3. QED
        BY <4>1, <4>2
    <3>4. d < s[1] * C * R * S
      BY <1>2, <3>2
    <3> HIDE DEF C, R, S
    <3>5. C \in Nat \ {0} /\ R \in Nat \ {0} /\ S \in Nat \ {0}
      <4>1. C # 0
        BY <3>3, <3>4
      <4>2. R # 0
        BY <3>3, <3>4
      <4>3. S # 0
        BY <3>3, <3>4
      <4>4. QED
        BY <3>3, <4>1, <4>2, <4>3
    <3>6. C * S \in Nat \ {0} /\ C * S * R \in Nat \ {0}
      <4>1. C * S \in Nat \ {0}
        BY <3>5
      <4> DEFINE m == C * S
      <4> HIDE DEF m
      <4>2. m \in Nat \ {0} => m * R \in Nat \ {0}
        BY <3>5
      <4>3. QED
        BY <4>1, <4>2 DEF m
    <3> DEFINE e == d % C
               g == (d \div (C * S)) % R
               h == (d \div C) % S
    <3>7. k \in Nat /\ e \in Nat /\ g \in Nat /\ h \in Nat
      <4>1. k \in Nat
        BY <3>3, <3>6, DivMod
      <4>2. e \in Nat
        BY <3>3, <3>5, DivMod
      <4>3. d \div (C * S) \in Nat /\ d \div C \in Nat
        BY <3>3, <3>5, <3>6, DivMod
      <4>4. g \in Nat
        BY <3>5, <4>3, DivMod
      <4>5. h \in Nat
        BY <3>5, <4>3, DivMod
      <4>6. QED
        BY <4>1, <4>2, <4>4, <4>5
    <3>8. n \in Nat
      <4>1. n = ((k * C + e) * R + g) * S + h
        OBVIOUS
      <4> HIDE DEF e, g, h, k, n
      <4>2. (k * C + e) \in Nat
        BY <3>5, <3>7
      <4>3. ((k * C + e) * R + g) \in Nat
        BY <3>5, <3>7, <4>2
      <4>4. QED
        BY <3>5, <3>7, <4>1, <4>3
    <3>9. QED
      BY <3>1, <3>8, HalvesAreData
  <2>3. QED
    BY <2>1, <2>2
<1>4. QED
  BY <1>1, <1>3

(* The tensors of a layer, and the layers, lie one behind the other.       *)
LEMMA StartsAre ==
  ASSUME ReadingInv, LiveInv, reading = "returned", AllFound
  PROVE  /\ LayerStarts \in [0 .. Len(net.layers) -> Nat] /\ LayerStarts[0] = 0
         /\ \A i, j \in 0 .. Len(net.layers) : i <= j => LayerStarts[i] <= LayerStarts[j]
         /\ \A i \in 0 .. Len(net.layers) - 1 :
              LET n == Len(net.layers[i + 1])
              IN /\ TensorStarts(i) \in [0 .. n -> Nat] /\ TensorStarts(i)[0] = 0
                 /\ \A j \in 0 .. n - 1 :
                      TensorStarts(i)[j + 1] = TensorStarts(i)[j] + Builder!ElementCount(net.layers[i + 1][j + 1])
                 /\ \A j, k \in 0 .. n : j <= k => TensorStarts(i)[j] <= TensorStarts(i)[k]
                 /\ LayerStarts[i + 1] = LayerStarts[i] + TensorStarts(i)[n]
<1> DEFINE N == Len(net.layers)
           sizes == [i \in DOMAIN net.layers |-> Builder!Elements(net.layers[i])]
<1>1. /\ N \in Nat /\ DOMAIN net.layers = 1 .. N
      /\ \A i \in 1 .. N : Len(net.layers[i]) \in Nat /\ DOMAIN net.layers[i] = 1 .. Len(net.layers[i])
  BY NetworkFacts
<1>2. ASSUME NEW i \in 1 .. N
      PROVE  LET names  == net.layers[i]
                 n      == Len(names)
                 starts == Builder!Sums(Builder!Counts(names))
             IN /\ starts \in [0 .. n -> Nat] /\ starts[0] = 0
                /\ \A j \in 0 .. n - 1 : starts[j + 1] = starts[j] + Builder!ElementCount(names[j + 1])
                /\ \A j, k \in 0 .. n : j <= k => starts[j] <= starts[k]
                /\ Builder!Elements(names) = starts[n] /\ starts[n] \in Nat
  <2> DEFINE names  == net.layers[i]
             n      == Len(names)
             counts == Builder!Counts(names)
             starts == Builder!Sums(counts)
  <2>1. n \in Nat /\ DOMAIN names = 1 .. n
    BY <1>1
  <2>2. \A j \in 1 .. n : Builder!Found(names[j])
    BY <1>1, <2>1 DEF AllFound
  <2>3. \A j \in 1 .. n : Builder!ElementCount(names[j]) \in Nat
    BY <2>2, TensorFacts
  <2>4. counts = [j \in 1 .. n |-> Builder!ElementCount(names[j])]
    BY <2>1 DEF Builder!Counts
  <2>5. counts \in Seq(Nat) /\ Len(counts) = n
    <3>1. counts \in [1 .. n -> Nat]
      BY <2>3, <2>4
    <3> HIDE DEF counts, n
    <3>2. QED
      BY <2>1, <3>1, LenProperties, SeqDef
  <2>6. Builder!Elements(names) = starts[n]
    BY DEF Builder!Elements
  <2>7. /\ \A j \in 1 .. n : counts[j] = Builder!ElementCount(names[j])
        /\ \A j \in 1 .. n : counts[j] \in Nat
    BY <2>3, <2>4
  <2> HIDE DEF counts, n, names
  <2>8. /\ starts \in [0 .. n -> Nat] /\ starts[0] = 0
        /\ \A j \in 1 .. n : starts[j] = starts[j - 1] + counts[j]
        /\ \A j, k \in 0 .. n : j <= k => starts[j] <= starts[k]
    BY <2>1, <2>5, <2>7, SumsAre
  <2> HIDE DEF starts
  <2>9. \A j \in 0 .. n - 1 : starts[j + 1] = starts[j] + Builder!ElementCount(names[j + 1])
    <3> TAKE j \in 0 .. n - 1
    <3>1. j + 1 \in 1 .. n /\ j + 1 - 1 = j
      BY <2>1
    <3>2. QED
      BY <2>7, <2>8, <3>1
  <2>10. starts[n] \in Nat
    BY <2>1, <2>8
  <2>11. QED
    BY <2>6, <2>8, <2>9, <2>10 DEF starts, counts, n, names
<1>3. sizes \in [1 .. N -> Nat] /\ \A i \in 1 .. N : sizes[i] = Builder!Elements(net.layers[i])
  BY <1>1, <1>2
<1>4. Len(sizes) = N
  <2> HIDE DEF sizes, N
  <2>1. QED
    BY <1>1, <1>3, LenProperties, SeqDef
<1>5. LayerStarts = Builder!Sums(sizes)
  BY DEF LayerStarts
<1> HIDE DEF sizes, N
<1>6. /\ LayerStarts \in [0 .. N -> Nat] /\ LayerStarts[0] = 0
      /\ \A i \in 1 .. N : LayerStarts[i] = LayerStarts[i - 1] + sizes[i]
      /\ \A i, j \in 0 .. N : i <= j => LayerStarts[i] <= LayerStarts[j]
  <2>1. \A i \in 1 .. Len(sizes) : sizes[i] \in Nat
    BY <1>3, <1>4
  <2>2. QED
    BY <1>1, <1>4, <1>5, <2>1, SumsAre
<1>7. \A i \in 0 .. N - 1 :
        LET n == Len(net.layers[i + 1])
        IN /\ TensorStarts(i) \in [0 .. n -> Nat] /\ TensorStarts(i)[0] = 0
           /\ \A j \in 0 .. n - 1 :
                TensorStarts(i)[j + 1] = TensorStarts(i)[j] + Builder!ElementCount(net.layers[i + 1][j + 1])
           /\ \A j, k \in 0 .. n : j <= k => TensorStarts(i)[j] <= TensorStarts(i)[k]
           /\ LayerStarts[i + 1] = LayerStarts[i] + TensorStarts(i)[n]
  <2> TAKE i \in 0 .. N - 1
  <2>1. i + 1 \in 1 .. N /\ i + 1 - 1 = i
    BY <1>1
  <2>2. LayerStarts[i + 1] = LayerStarts[i] + Builder!Elements(net.layers[i + 1])
    BY <1>3, <1>6, <2>1
  <2>3. QED
    BY <1>2, <2>1, <2>2 DEF TensorStarts
<1>8. QED
  BY <1>6, <1>7 DEF N

(* A copy goes behind what is there.                                       *)
LEMMA UploadIs ==
  ASSUME ReadingInv, reading = "returned", NEW name, Builder!Found(name), offset \in Nat,
         NEW idx, NEW total \in Nat, DOMAIN buffer = 0 .. total - 1, offset + Builder!ElementCount(name) <= total,
         Builder!Upload(name, idx, offset)
  PROVE  /\ DOMAIN buffer' = DOMAIN buffer
         /\ \A p \in 0 .. offset - 1 : buffer'[p] = buffer[p]
         /\ \A d \in 0 .. Builder!ElementCount(name) - 1 : buffer'[offset + d] = Builder!Copied(name, idx)[d]
<1> DEFINE n == Builder!ElementCount(name)
           c == Builder!Copied(name, idx)
<1>1. n \in Nat /\ DOMAIN c = 0 .. n - 1
  BY TensorFacts, CopiedAreData
<1> HIDE DEF n, c
<1>2. buffer' = [p \in 0 .. total - 1 |-> IF p - offset \in 0 .. n - 1 THEN c[p - offset] ELSE buffer[p]]
  BY <1>1 DEF Builder!Upload, c
<1>3. DOMAIN buffer' = DOMAIN buffer
  BY <1>2
<1>4. \A p \in 0 .. offset - 1 : buffer'[p] = buffer[p]
  <2> TAKE p \in 0 .. offset - 1
  <2>1. p \in 0 .. total - 1 /\ p - offset \notin 0 .. n - 1
    BY <1>1 DEF n
  <2>2. QED
    BY <1>2, <2>1
<1>5. \A d \in 0 .. n - 1 : buffer'[offset + d] = c[d]
  <2> TAKE d \in 0 .. n - 1
  <2>1. offset + d \in 0 .. total - 1 /\ offset + d - offset = d
    BY <1>1 DEF n
  <2>2. QED
    BY <1>2, <2>1
<1>6. QED
  BY <1>3, <1>4, <1>5 DEF n, c

LEMMA DoneIs ==
  ASSUME LiveInv, CopyInv, InLayer
  PROVE  /\ layer \in 0 .. Len(net.layers) - 1
         /\ Done \in 0 .. Len(net.layers[layer + 1])
         /\ Len(net.layers[layer + 1]) \in Nat
         /\ Len(net.layers[layer + 1]) = 2 * (Len(net.layers[layer + 1]) \div 2)
         /\ building = "weight" => Done = 2 * conv /\ conv \in 0 .. Len(net.layers[layer + 1]) \div 2
         /\ building = "bias" => Done = 2 * conv + 1 /\ conv \in 0 .. Len(net.layers[layer + 1]) \div 2 - 1
<1> DEFINE N == Len(net.layers)
           n == Len(net.layers[layer + 1])
           h == n \div 2
<1>1. N \in Nat /\ layer \in 0 .. N /\ layer < N
  BY NetworkFacts DEF LiveInv, Building, InLayer
<1>2. layer + 1 \in 1 .. N
  BY <1>1
<1>3. n \in Nat /\ n % 2 = 0
  BY <1>2, NetworkFacts
<1>4. /\ building = "weight" => conv \in 0 .. h
      /\ building = "bias" => conv \in 0 .. h - 1
  BY DEF CopyInv, Building, InLayer
<1> HIDE DEF N, n
<1>5. h \in Nat /\ n = 2 * h
  BY <1>3
<1> HIDE DEF h
<1>6. /\ building = "weight" => Done = 2 * conv
      /\ building = "bias" => Done = 2 * conv + 1
  BY DEF Done
<1>7. Done \in 0 .. n
  BY <1>4, <1>5, <1>6 DEF InLayer
<1>8. layer \in 0 .. N - 1
  BY <1>1
<1>9. QED
  BY <1>3, <1>4, <1>5, <1>6, <1>7, <1>8 DEF N, n, h

(* The tensors that are done lie below the offset.                         *)
LEMMA DoneBelow ==
  ASSUME ReadingInv, LiveInv, CopyInv, Building,
         NEW i \in Started, NEW j \in 0 .. DoneIn(i) - 1
  PROVE  /\ i \in 0 .. Len(net.layers) - 1 /\ j \in 0 .. Len(net.layers[i + 1]) - 1
         /\ Builder!Found(net.layers[i + 1][j + 1])
         /\ Start(i, j) \in Nat /\ Builder!ElementCount(net.layers[i + 1][j + 1]) \in Nat
         /\ Start(i, j) + Builder!ElementCount(net.layers[i + 1][j + 1]) <= offset
<1> DEFINE N == Len(net.layers)
           n == Len(net.layers[i + 1])
           T == TensorStarts(i)
           L == LayerStarts
           count == Builder!ElementCount(net.layers[i + 1][j + 1])
<1>1. /\ N \in Nat /\ layer \in 0 .. N
      /\ reading = "returned" /\ AllFound
      /\ offset = L[layer] + (IF InLayer THEN TensorStarts(layer)[Done] ELSE 0)
  BY NetworkFacts DEF LiveInv, CopyInv, Building
<1>2. i \in 0 .. N - 1 /\ i \in 0 .. layer /\ (i = layer => InLayer)
  BY <1>1 DEF Started, LiveInv
<1>3. i + 1 \in 1 .. N
  BY <1>1, <1>2
<1>4. n \in Nat /\ DOMAIN net.layers = 1 .. N /\ DOMAIN net.layers[i + 1] = 1 .. n
  BY <1>3, NetworkFacts
<1>5. /\ L \in [0 .. N -> Nat]
      /\ \A k, m \in 0 .. N : k <= m => L[k] <= L[m]
      /\ T \in [0 .. n -> Nat]
      /\ \A k \in 0 .. n - 1 : T[k + 1] = T[k] + Builder!ElementCount(net.layers[i + 1][k + 1])
      /\ \A k, m \in 0 .. n : k <= m => T[k] <= T[m]
      /\ L[i + 1] = L[i] + T[n]
  BY <1>1, <1>2, StartsAre
<1>6. i = layer => DoneIn(i) = Done /\ Done \in 0 .. n
  BY <1>1, <1>2, DoneIs DEF DoneIn
<1>7. i # layer => DoneIn(i) = n /\ i + 1 <= layer
  BY <1>1, <1>2 DEF DoneIn
<1> HIDE DEF N, n, T, L
<1>8. j \in 0 .. n - 1
  BY <1>4, <1>6, <1>7
<1>9. j + 1 \in 1 .. n
  BY <1>4, <1>8
<1>10. Builder!Found(net.layers[i + 1][j + 1])
  BY <1>1, <1>3, <1>4, <1>9 DEF AllFound
<1>11. count \in Nat
  BY <1>1, <1>10, TensorFacts
<1> HIDE DEF count
<1>12. Start(i, j) = L[i] + T[j] /\ L[i] \in Nat /\ T[j] \in Nat /\ T[j + 1] \in Nat
  BY <1>1, <1>2, <1>4, <1>5, <1>8 DEF Start, L, T
<1>13. Start(i, j) + count = L[i] + T[j + 1]
  BY <1>5, <1>8, <1>11, <1>12 DEF count
<1>14. CASE i = layer
  <2>1. offset = L[i] + T[Done]
    BY <1>1, <1>2, <1>14 DEF T
  <2>2. Done \in 0 .. n /\ j + 1 \in 0 .. n /\ j + 1 <= Done
    BY <1>4, <1>6, <1>8, <1>14
  <2>3. T[j + 1] <= T[Done] /\ T[Done] \in Nat
    BY <1>5, <2>2
  <2>4. Start(i, j) \in Nat /\ Start(i, j) + count <= offset
    BY <1>12, <1>13, <2>1, <2>3
  <2>5. QED
    BY <1>2, <1>8, <1>10, <1>11, <2>4 DEF N, n, count
<1>15. CASE i # layer
  <2>1. T[j + 1] <= T[n] /\ T[n] \in Nat
    BY <1>4, <1>5, <1>8, <1>9
  <2>2. L[i + 1] <= L[layer] /\ L[layer] \in Nat /\ L[i + 1] \in Nat
    BY <1>1, <1>2, <1>5, <1>7, <1>15
  <2>3. L[layer] <= offset /\ offset \in Nat
    <3>1. CASE InLayer
      <4>1. layer \in 0 .. N - 1 /\ Done \in 0 .. Len(net.layers[layer + 1])
        BY <3>1, DoneIs DEF N
      <4>2. TensorStarts(layer)[Done] \in Nat
        BY <1>1, <4>1, StartsAre DEF N
      <4>3. QED
        BY <1>1, <2>2, <3>1, <4>2
    <3>2. CASE ~InLayer
      BY <1>1, <2>2, <3>2
    <3>3. QED
      BY <3>1, <3>2
  <2>4. L[i] + T[j + 1] <= offset
    BY <1>5, <1>12, <2>1, <2>2, <2>3
  <2>5. Start(i, j) \in Nat /\ Start(i, j) + count <= offset
    BY <1>12, <1>13, <2>4
  <2>6. QED
    BY <1>2, <1>8, <1>10, <1>11, <2>5 DEF N, n, count
<1>16. QED
  BY <1>14, <1>15

(* Where the next tensor goes.                                             *)
LEMMA NextIs ==
  ASSUME ReadingInv, LiveInv, CopyInv, InLayer, Done < Len(Builder!Names)
  PROVE  /\ Builder!Found(Builder!Names[Done + 1])
         /\ Builder!ElementCount(Builder!Names[Done + 1]) \in Nat
         /\ offset = Start(layer, Done) /\ offset \in Nat
         /\ offset + Builder!ElementCount(Builder!Names[Done + 1])
              = LayerStarts[layer] + TensorStarts(layer)[Done + 1]
         /\ LayerStarts[Len(net.layers)] \in Nat
         /\ offset + Builder!ElementCount(Builder!Names[Done + 1]) <= LayerStarts[Len(net.layers)]
<1> DEFINE N == Len(net.layers)
           n == Len(net.layers[layer + 1])
           T == TensorStarts(layer)
           L == LayerStarts
           count == Builder!ElementCount(net.layers[layer + 1][Done + 1])
<1>1. /\ N \in Nat /\ layer \in 0 .. N - 1
      /\ reading = "returned" /\ AllFound
      /\ offset = L[layer] + T[Done]
      /\ n \in Nat /\ Done \in 0 .. n /\ Done < n /\ Builder!Names = net.layers[layer + 1]
  BY NetworkFacts, DoneIs DEF LiveInv, CopyInv, Building, InLayer, Builder!Names
<1>2. layer + 1 \in 1 .. N /\ Done + 1 \in 1 .. n /\ Done \in 0 .. n - 1
  BY <1>1
<1>3. DOMAIN net.layers = 1 .. N /\ DOMAIN net.layers[layer + 1] = 1 .. n
  BY <1>2, NetworkFacts
<1>4. /\ L \in [0 .. N -> Nat]
      /\ \A k, m \in 0 .. N : k <= m => L[k] <= L[m]
      /\ T \in [0 .. n -> Nat]
      /\ \A k \in 0 .. n - 1 : T[k + 1] = T[k] + Builder!ElementCount(net.layers[layer + 1][k + 1])
      /\ \A k, m \in 0 .. n : k <= m => T[k] <= T[m]
      /\ L[layer + 1] = L[layer] + T[n]
  BY <1>1, StartsAre
<1>5. Builder!Found(net.layers[layer + 1][Done + 1])
  BY <1>1, <1>2, <1>3 DEF AllFound
<1>6. count \in Nat
  BY <1>1, <1>5, TensorFacts
<1> HIDE DEF N, n, T, L, count
<1>7. T[Done + 1] = T[Done] + count
  BY <1>2, <1>4 DEF count
<1>8. /\ L[layer] \in Nat /\ L[layer + 1] \in Nat /\ L[N] \in Nat
      /\ T[Done] \in Nat /\ T[Done + 1] \in Nat /\ T[n] \in Nat
  <2>1. layer \in 0 .. N /\ layer + 1 \in 0 .. N /\ N \in 0 .. N
    BY <1>1
  <2>2. Done \in 0 .. n /\ Done + 1 \in 0 .. n /\ n \in 0 .. n
    BY <1>1
  <2> HIDE DEF N
  <2>3. QED
    BY <1>4, <2>1, <2>2
<1>9. T[Done + 1] <= T[n] /\ L[layer + 1] <= L[N]
  BY <1>1, <1>2, <1>4
<1>10. offset \in Nat /\ offset + count = L[layer] + T[Done + 1] /\ offset + count <= L[N]
  <2>1. offset \in Nat /\ offset + count = L[layer] + T[Done + 1]
    <3> DEFINE a == L[layer]
               b == T[Done]
               c == T[Done + 1]
    <3>1. a \in Nat /\ b \in Nat /\ c = b + count /\ offset = a + b
      BY <1>1, <1>7, <1>8
    <3> HIDE DEF a, b, c
    <3>2. offset \in Nat /\ offset + count = a + c
      BY <1>6, <3>1
    <3>3. QED
      BY <3>2 DEF a, c
  <2>2. L[layer] + T[Done + 1] <= L[N]
    BY <1>4, <1>8, <1>9
  <2>3. QED
    BY <2>1, <2>2
<1>11. QED
  BY <1>1, <1>5, <1>6, <1>8, <1>10 DEF N, n, T, L, count, Start

(* One tensor is copied.                                                   *)
CopyTensor ==
  LET name == Builder!Names[Done + 1]
  IN /\ InLayer /\ InLayer' /\ Done < Len(Builder!Names) /\ Done' = Done + 1
     /\ Builder!Upload(name, Done, offset)
     /\ offset' = offset + Builder!ElementCount(name)
     /\ building' = "weight" => conv' \in 0 .. Len(net.layers[layer + 1]) \div 2
     /\ building' = "bias" => conv' \in 0 .. Len(net.layers[layer + 1]) \div 2 - 1
     /\ UNCHANGED <<net, cuda, file, tensors, reading, layer>>

LEMMA CopiesTensor ==
  ASSUME ReadingInv, LiveInv, CopyInv,
         Builder!CopyWeight \/ Builder!CopyBias, ~Builder!Exit, UNCHANGED loader
  PROVE  CopyTensor
<1> DEFINE n == Len(net.layers[layer + 1])
           h == n \div 2
<1>1. InLayer
  BY DEF Builder!CopyWeight, Builder!CopyBias, InLayer
<1>2. /\ Builder!Names = net.layers[layer + 1] /\ Builder!NumConvs = h
      /\ n \in Nat /\ n = 2 * h
      /\ building = "weight" => Done = 2 * conv /\ conv \in 0 .. h
      /\ building = "bias" => Done = 2 * conv + 1 /\ conv \in 0 .. h - 1
  BY <1>1, DoneIs DEF Builder!Names, Builder!NumConvs
<1>3. h \in Nat
  <2>1. n \in Nat
    BY <1>2
  <2> HIDE DEF n
  <2>2. QED
    BY <2>1
<1> HIDE DEF n, h
<1>4. CASE Builder!CopyWeight
  <2>1. /\ building = "weight" /\ building' = "bias" /\ conv < h /\ conv' = conv
        /\ Builder!Upload(Builder!Names[2 * conv + 1], 2 * conv, offset)
        /\ offset' = offset + Builder!ElementCount(Builder!Names[2 * conv + 1])
        /\ UNCHANGED <<net, cuda, layer>>
    BY <1>2, <1>4 DEF Builder!CopyWeight
  <2>2. Done = 2 * conv /\ conv \in 0 .. h - 1 /\ Done < n
    BY <1>2, <1>3, <2>1
  <2>3. Done' = Done + 1 /\ Done + 1 = 2 * conv + 1
    BY <2>1, <2>2 DEF Done
  <2>4. QED
    BY <1>1, <1>2, <2>1, <2>2, <2>3 DEF CopyTensor, InLayer, loader, n, h
<1>5. CASE Builder!CopyBias
  <2>1. /\ building = "bias" /\ building' = "weight" /\ conv' = conv + 1
        /\ Builder!Upload(Builder!Names[2 * conv + 2], 2 * conv + 1, offset)
        /\ offset' = offset + Builder!ElementCount(Builder!Names[2 * conv + 2])
        /\ UNCHANGED <<net, cuda, layer>>
    BY <1>5 DEF Builder!CopyBias
  <2>2. Done = 2 * conv + 1 /\ conv \in 0 .. h - 1 /\ Done < n /\ conv + 1 \in 0 .. h
    BY <1>2, <1>3, <2>1
  <2>3. Done' = 2 * (conv + 1)
    BY <2>1 DEF Done
  <2>4. Done' = Done + 1 /\ Done + 1 = 2 * conv + 2
    BY <2>2, <2>3
  <2>5. QED
    BY <1>1, <1>2, <2>1, <2>2, <2>4 DEF CopyTensor, InLayer, loader, n, h
<1>6. QED
  BY <1>4, <1>5

LEMMA TensorCopy ==
  ASSUME ReadingInv, LiveInv, CopyInv, CopyTensor
  PROVE  CopyInv'
<1> DEFINE name == Builder!Names[Done + 1]
           n == Builder!ElementCount(name)
           total == LayerStarts[Len(net.layers)]
<1>1. /\ InLayer /\ InLayer' /\ Done < Len(Builder!Names) /\ Done' = Done + 1
      /\ Builder!Upload(name, Done, offset) /\ offset' = offset + n
      /\ building' = "weight" => conv' \in 0 .. Len(net.layers[layer + 1]) \div 2
      /\ building' = "bias" => conv' \in 0 .. Len(net.layers[layer + 1]) \div 2 - 1
      /\ UNCHANGED <<net, cuda, file, tensors, reading, layer>>
  BY DEF CopyTensor
<1>2. Building /\ Building' /\ reading = "returned" /\ AllFound /\ DOMAIN buffer = 0 .. total - 1
      /\ \A p \in 0 .. offset - 1 : buffer[p] # Junk
  BY <1>1 DEF Building, InLayer, LiveInv, CopyInv
<1>3. /\ Builder!Found(name) /\ n \in Nat /\ offset \in Nat /\ total \in Nat /\ offset + n <= total
      /\ offset + n = LayerStarts[layer] + TensorStarts(layer)[Done + 1]
  BY <1>1, NextIs
<1> HIDE DEF total, n, name
<1>4. /\ DOMAIN buffer' = DOMAIN buffer
      /\ \A p \in 0 .. offset - 1 : buffer'[p] = buffer[p]
      /\ \A d \in 0 .. n - 1 : buffer'[offset + d] = Builder!Copied(name, Done)[d]
  BY <1>1, <1>2, <1>3, UploadIs DEF n
<1>5. \A p \in 0 .. offset' - 1 : buffer'[p] # Junk
  <2>0. offset' = offset + n
    BY <1>1
  <2> TAKE p \in 0 .. offset' - 1
  <2>1. CASE p \in 0 .. offset - 1
    BY <1>2, <1>4, <2>1
  <2>2. CASE p \notin 0 .. offset - 1
    <3>1. p - offset \in 0 .. n - 1 /\ offset + (p - offset) = p
      BY <1>3, <2>0, <2>2
    <3>2. buffer'[p] = Builder!Copied(name, Done)[p - offset]
      BY <1>4, <3>1
    <3>3. QED
      BY <1>2, <1>3, <3>1, <3>2, CopiedAreData DEF n
  <2>3. QED
    BY <2>1, <2>2
<1>6. /\ LayerStarts' = LayerStarts
      /\ \A i : TensorStarts(i)' = TensorStarts(i)
      /\ \A x : Builder!Found(x)' = Builder!Found(x)
  BY <1>1, SameTensors
<1>7. AllFound'
  BY <1>1, <1>2, <1>6 DEF AllFound
<1>8. offset' = LayerStarts'[layer'] + TensorStarts(layer)[Done']
  BY <1>1, <1>3, <1>6
<1>9. TensorStarts(layer)' = TensorStarts(layer)
  BY <1>1, <1>6
<1>10. QED
  BY <1>1, <1>2, <1>4, <1>5, <1>6, <1>7, <1>8, <1>9 DEF CopyInv, total


LEMMA StepCopy == ReadingInv /\ LiveInv /\ CopyInv /\ [Next]_vars => CopyInv'
<1> SUFFICES ASSUME ReadingInv, LiveInv, CopyInv, [Next]_vars PROVE CopyInv'
  OBVIOUS
<1>1. CASE UNCHANGED vars
  <2>1. UNCHANGED <<net, tensors, building, layer, conv, offset, buffer>>
    BY <1>1 DEF vars, loader, builder
  <2>2. /\ LayerStarts' = LayerStarts /\ TensorStarts(layer)' = TensorStarts(layer)
        /\ \A name : Builder!Found(name)' = Builder!Found(name)
    BY <2>1, SameTensors
  <2>3. QED
    BY <2>1, <2>2 DEF CopyInv, Building, InLayer, AllFound, Done
<1>2. CASE Load
  <2>1. building = "create" /\ building' = "create"
    BY <1>2 DEF LiveInv, Load, Parser!Ended, builder
  <2>2. QED
    BY <2>1 DEF CopyInv, Building
<1>3. CASE Build
  <2>0. reading = "returned" /\ UNCHANGED loader /\ UNCHANGED tensors
    BY <1>3 DEF Build, loader
  <2>1. CASE Builder!Exit \/ building' \in {"crashed", "freed"}
    BY <2>1 DEF Builder!Exit, CopyInv, Building
  <2>2. CASE Builder!CreateBuffer /\ ~Builder!Exit /\ building' # "crashed"
    <3>1. /\ building' = "layer" /\ UNCHANGED <<net, layer, offset>> /\ layer = 0 /\ offset = 0
          /\ buffer' = [p \in 0 .. Builder!TotalElements - 1 |-> Junk]
          /\ AllFound
      BY <2>2 DEF Builder!CreateBuffer, LiveInv, AllFound
    <3>2. /\ LayerStarts' = LayerStarts
          /\ \A name : Builder!Found(name)' = Builder!Found(name)
      BY <2>0, <3>1, SameTensors
    <3>3. AllFound'
      BY <3>1, <3>2 DEF AllFound
    <3>4. LayerStarts[0] = 0
      BY <2>0, <3>1, StartsAre
    <3>5. DOMAIN buffer' = 0 .. LayerStarts[Len(net.layers)] - 1
      BY <3>1 DEF Builder!TotalElements, LayerStarts
    <3>6. QED
      BY <3>1, <3>2, <3>3, <3>4, <3>5 DEF CopyInv, Building, InLayer
  <2>3. CASE Builder!StartLayer
    <3>1. /\ building = "layer" /\ building' = "weight" /\ conv' = 0
          /\ UNCHANGED <<net, layer, offset, buffer>> /\ layer < Len(net.layers)
      BY <2>3 DEF Builder!StartLayer
    <3>2. layer \in 0 .. Len(net.layers) - 1 /\ Len(net.layers) \in Nat /\ Building /\ AllFound
      BY <3>1, NetworkFacts DEF LiveInv, Building, CopyInv
    <3>3. Len(net.layers[layer + 1]) \in Nat
      <4>1. layer + 1 \in 1 .. Len(net.layers)
        BY <3>2
      <4>2. QED
        BY <4>1, NetworkFacts
    <3>4. /\ LayerStarts' = LayerStarts /\ TensorStarts(layer)' = TensorStarts(layer)
          /\ \A name : Builder!Found(name)' = Builder!Found(name)
      BY <2>0, <3>1, SameTensors
    <3>5. TensorStarts(layer)[0] = 0 /\ LayerStarts[layer] \in Nat
      <4>1. LayerStarts \in [0 .. Len(net.layers) -> Nat] /\ TensorStarts(layer)[0] = 0
        BY <2>0, <3>2, StartsAre
      <4>2. layer \in 0 .. Len(net.layers)
        BY <3>2
      <4>3. QED
        BY <4>1, <4>2
    <3>6. /\ offset = LayerStarts[layer] /\ DOMAIN buffer = 0 .. LayerStarts[Len(net.layers)] - 1
          /\ \A p \in 0 .. offset - 1 : buffer[p] # Junk
      BY <3>1, <3>5 DEF CopyInv, Building, InLayer
    <3>7. Done' = 0
      BY <3>1 DEF Done
    <3>8. offset' = LayerStarts'[layer'] + TensorStarts(layer)'[Done']
      BY <3>1, <3>4, <3>5, <3>6, <3>7
    <3>9. 0 \in 0 .. Len(net.layers[layer + 1]) \div 2
      <4> DEFINE n == Len(net.layers[layer + 1])
      <4>1. n \in Nat
        BY <3>3
      <4> DEFINE h == n \div 2
      <4> HIDE DEF n
      <4>2. h \in Nat
        BY <4>1
      <4> HIDE DEF h
      <4>3. 0 \in 0 .. h
        BY <4>2
      <4>4. QED
        BY <4>3 DEF n, h
    <3>10. AllFound'
      BY <3>1, <3>2, <3>4 DEF AllFound
    <3>11. QED
      BY <3>1, <3>4, <3>6, <3>8, <3>9, <3>10 DEF CopyInv, Building, InLayer
  <2>4. CASE (Builder!CopyWeight \/ Builder!CopyBias) /\ ~Builder!Exit
    BY <2>0, <2>4, CopiesTensor, TensorCopy
  <2>5. CASE Builder!EndLayer
    <3>1. /\ building = "weight" /\ building' = "layer" /\ conv = Builder!NumConvs
          /\ layer' = layer + 1 /\ UNCHANGED <<net, offset, buffer>>
      BY <2>5 DEF Builder!EndLayer
    <3>2. /\ layer \in 0 .. Len(net.layers) - 1 /\ Building /\ InLayer /\ AllFound
          /\ Done = Len(net.layers[layer + 1])
      BY <3>1, DoneIs DEF Building, InLayer, Builder!NumConvs, Builder!Names, CopyInv
    <3>3. LayerStarts[layer + 1] = offset
      BY <2>0, <3>2, StartsAre DEF CopyInv
    <3>4. LayerStarts \in [0 .. Len(net.layers) -> Nat] /\ layer + 1 \in 0 .. Len(net.layers)
      <4>1. Len(net.layers) \in Nat
        BY NetworkFacts
      <4>2. QED
        BY <2>0, <3>2, <4>1, StartsAre
    <3>5. LayerStarts[layer + 1] \in Nat
      BY <3>4
    <3>6. /\ LayerStarts' = LayerStarts
          /\ \A name : Builder!Found(name)' = Builder!Found(name)
      BY <2>0, <3>1, SameTensors
    <3>7. AllFound'
      BY <3>1, <3>2, <3>6 DEF AllFound
    <3>8. offset' = LayerStarts'[layer'] + 0
      BY <3>1, <3>3, <3>5, <3>6
    <3>9. QED
      BY <3>1, <3>2, <3>6, <3>7, <3>8 DEF CopyInv, Building, InLayer
  <2>6. CASE Builder!Return
    <3>1. /\ building = "layer" /\ building' = "built" /\ UNCHANGED <<net, layer, offset, buffer>>
      BY <2>6 DEF Builder!Return
    <3>2. /\ LayerStarts' = LayerStarts
          /\ \A name : Builder!Found(name)' = Builder!Found(name)
      BY <2>0, <3>1, SameTensors
    <3>3. QED
      BY <3>1, <3>2 DEF CopyInv, Building, InLayer, AllFound
  <2>7. CASE Builder!Free /\ ~Builder!Exit
    BY <2>1, <2>7 DEF Builder!Free
  <2>8. CASE Builder!Over
    <3>1. UNCHANGED vars
      BY <1>3, <2>8 DEF Build, Builder!Over, Builder!vars, vars, builder
    <3>2. QED
      BY <1>1, <3>1
  <2>9. QED
    BY <1>3, <2>1, <2>2, <2>3, <2>4, <2>5, <2>6, <2>7, <2>8 DEF Build, Builder!Next
<1>4. CASE Over
  BY <1>1, <1>4 DEF Over
<1>5. QED
  BY <1>1, <1>2, <1>3, <1>4 DEF Next

LEMMA CopyHolds == Spec => []CopyInv
<1>1. Init => CopyInv
  BY DEF Init, Builder!Init, CopyInv, Building
<1>2. QED
  BY <1>1, StepCopy, ReadingHolds, LiveHolds, PTL DEF Spec

(* The pass that counts the elements and the pass that copies them agree:  *)
(* no copy leaves the buffer, and of a model that is handed over every     *)
(* half has been written.                                                  *)
THEOREM CopiesFillBuffer == Spec => []CopiesFill
<1>1. ReadingInv /\ LiveInv /\ CopyInv => CopiesFill
  <2> SUFFICES ASSUME ReadingInv, LiveInv, CopyInv PROVE CopiesFill
    OBVIOUS
  <2> DEFINE N == Len(net.layers)
             total == LayerStarts[N]
  <2>1. N \in Nat
    BY NetworkFacts
  <2>2. Builder!TotalElements = total
    BY DEF Builder!TotalElements, LayerStarts
  <2> HIDE DEF N, total
  <2>3. ASSUME Building
        PROVE  /\ layer \in 0 .. N /\ offset \in Nat /\ total \in Nat /\ offset <= total
               /\ ~InLayer => offset = LayerStarts[layer]
    <3>1. layer \in 0 .. N /\ reading = "returned" /\ AllFound
      BY <2>3 DEF LiveInv, CopyInv, Building, N
    <3>2. /\ LayerStarts \in [0 .. N -> Nat]
          /\ \A i, j \in 0 .. N : i <= j => LayerStarts[i] <= LayerStarts[j]
      BY <3>1, StartsAre DEF N
    <3>3. N \in 0 .. N /\ layer <= N
      BY <2>1, <3>1
    <3>4. LayerStarts[layer] \in Nat /\ total \in Nat /\ LayerStarts[layer] <= total
      BY <3>1, <3>2, <3>3 DEF total
    <3>5. CASE ~InLayer
      <4>1. offset = LayerStarts[layer]
        BY <2>3, <3>4, <3>5 DEF CopyInv
      <4>2. QED
        BY <3>1, <3>4, <3>5, <4>1
    <3>6. CASE InLayer
      <4> DEFINE n == Len(net.layers[layer + 1])
                 T == TensorStarts(layer)
      <4>1. layer \in 0 .. N - 1 /\ Done \in 0 .. n /\ n \in Nat
        BY <3>6, DoneIs DEF N
      <4>2. /\ T \in [0 .. n -> Nat]
            /\ \A j, k \in 0 .. n : j <= k => T[j] <= T[k]
            /\ LayerStarts[layer + 1] = LayerStarts[layer] + T[n]
        BY <3>1, <4>1, StartsAre DEF N
      <4>3. offset = LayerStarts[layer] + T[Done]
        BY <2>3, <3>6 DEF CopyInv
      <4> HIDE DEF T, n
      <4>4. n \in 0 .. n /\ Done <= n /\ layer + 1 \in 0 .. N /\ layer + 1 <= N
        BY <2>1, <4>1
      <4>5. T[Done] \in Nat /\ T[n] \in Nat /\ T[Done] <= T[n] /\ LayerStarts[layer + 1] \in Nat
        BY <3>2, <4>1, <4>2, <4>4
      <4>6. LayerStarts[layer + 1] <= total
        BY <3>2, <3>3, <4>4 DEF total
      <4>7. offset \in Nat /\ offset <= total
        BY <3>4, <4>2, <4>3, <4>5, <4>6
      <4>8. QED
        BY <3>1, <3>4, <3>6, <4>7
    <3>7. QED
      BY <3>5, <3>6
  <2>4. building \in {"layer", "weight", "bias"} => offset <= total
    BY <2>3 DEF Building
  <2>5. building = "built" => \A p \in DOMAIN buffer : buffer[p] # Junk
    <3> HAVE building = "built"
    <3>1. Building /\ ~InLayer /\ layer = N
      BY DEF Building, InLayer, LiveInv, N
    <3>2. offset = total
      BY <2>3, <3>1 DEF total
    <3>3. DOMAIN buffer = 0 .. total - 1 /\ \A p \in 0 .. offset - 1 : buffer[p] # Junk
      BY <3>1 DEF CopyInv, total, N
    <3>4. QED
      BY <3>2, <3>3
  <2>6. QED
    BY <2>2, <2>4, <2>5 DEF CopiesFill, Builder!CopiesFill
<1>2. QED
  BY <1>1, ReadingHolds, LiveHolds, CopyHolds, PTL


-----------------------------------------------------------------------------
(* createUNetModel: every tensor is in its place, and known to be there.   *)

LEMMA AppendIs ==
  ASSUME NEW n \in Nat, NEW S, NEW f \in [1 .. n -> S], NEW g \in [1 .. n + 1 -> S],
         \A j \in 1 .. n : f[j] = g[j]
  PROVE  Append(f, g[n + 1]) = g
<1> DEFINE h == Append(f, g[n + 1])
<1>1. f \in Seq(S) /\ Len(f) = n
  <2>1. f \in Seq(S)
    BY SeqDef
  <2>2. QED
    BY <2>1, LenProperties
<1>2. g[n + 1] \in S
  OBVIOUS
<1>3. /\ h \in Seq(S) /\ Len(h) = n + 1
      /\ \A j \in 1 .. n : h[j] = f[j]
      /\ h[n + 1] = g[n + 1]
  BY <1>1, <1>2, AppendProperties
<1> HIDE DEF h
<1>4. h = [j \in 1 .. n + 1 |-> h[j]]
  BY <1>3, LenProperties
<1>5. \A j \in 1 .. n + 1 : h[j] = g[j]
  BY <1>3
<1>6. QED
  BY <1>4, <1>5 DEF h

LEMMA RecordGrows ==
  ASSUME NEW i, NEW n \in Nat
  PROVE  /\ Append(WeightStarts(i, n), Start(i, 2 * n)) = WeightStarts(i, n + 1)
         /\ Append(BiasStarts(i, n), Start(i, 2 * n + 1)) = BiasStarts(i, n + 1)
         /\ Append(Channels(i, n), Builder!Tensor(net.layers[i + 1][2 * n + 1]).dims[1]) = Channels(i, n + 1)
         /\ Append(Blocks(i, n), <<i, n>>) = Blocks(i, n + 1)
<1>0. n + 1 \in 1 .. n + 1 /\ 2 * (n + 1 - 1) = 2 * n /\ 2 * (n + 1) - 1 = 2 * n + 1 /\ n + 1 - 1 = n
      /\ \A j \in 1 .. n : j \in 1 .. n + 1
  OBVIOUS
<1>1. Append(WeightStarts(i, n), Start(i, 2 * n)) = WeightStarts(i, n + 1)
  <2> DEFINE f == WeightStarts(i, n)
             g == WeightStarts(i, n + 1)
             S == {g[j] : j \in 1 .. n + 1}
  <2>1. /\ f \in [1 .. n -> S] /\ g \in [1 .. n + 1 -> S]
        /\ \A j \in 1 .. n : f[j] = g[j]
        /\ g[n + 1] = Start(i, 2 * n)
    BY <1>0 DEF WeightStarts
  <2> HIDE DEF f, g, S
  <2>2. Append(f, g[n + 1]) = g
    BY <2>1, AppendIs
  <2>3. QED
    BY <2>1, <2>2 DEF f, g
<1>2. Append(BiasStarts(i, n), Start(i, 2 * n + 1)) = BiasStarts(i, n + 1)
  <2> DEFINE f == BiasStarts(i, n)
             g == BiasStarts(i, n + 1)
             S == {g[j] : j \in 1 .. n + 1}
  <2>1. /\ f \in [1 .. n -> S] /\ g \in [1 .. n + 1 -> S]
        /\ \A j \in 1 .. n : f[j] = g[j]
        /\ g[n + 1] = Start(i, 2 * n + 1)
    BY <1>0 DEF BiasStarts
  <2> HIDE DEF f, g, S
  <2>2. Append(f, g[n + 1]) = g
    BY <2>1, AppendIs
  <2>3. QED
    BY <2>1, <2>2 DEF f, g
<1>3. Append(Channels(i, n), Builder!Tensor(net.layers[i + 1][2 * n + 1]).dims[1]) = Channels(i, n + 1)
  <2> DEFINE f == Channels(i, n)
             g == Channels(i, n + 1)
             S == {g[j] : j \in 1 .. n + 1}
  <2>1. /\ f \in [1 .. n -> S] /\ g \in [1 .. n + 1 -> S]
        /\ \A j \in 1 .. n : f[j] = g[j]
        /\ g[n + 1] = Builder!Tensor(net.layers[i + 1][2 * n + 1]).dims[1]
    BY <1>0 DEF Channels
  <2> HIDE DEF f, g, S
  <2>2. Append(f, g[n + 1]) = g
    BY <2>1, AppendIs
  <2>3. QED
    BY <2>1, <2>2 DEF f, g
<1>4. Append(Blocks(i, n), <<i, n>>) = Blocks(i, n + 1)
  <2> DEFINE f == Blocks(i, n)
             g == Blocks(i, n + 1)
             S == {g[j] : j \in 1 .. n + 1}
  <2>1. /\ f \in [1 .. n -> S] /\ g \in [1 .. n + 1 -> S]
        /\ \A j \in 1 .. n : f[j] = g[j]
        /\ g[n + 1] = <<i, n>>
    BY <1>0 DEF Blocks
  <2> HIDE DEF f, g, S
  <2>2. Append(f, g[n + 1]) = g
    BY <2>1, AppendIs
  <2>3. QED
    BY <2>1, <2>2 DEF f, g
<1>5. QED
  BY <1>1, <1>2, <1>3, <1>4

LEMMA SameRecords ==
  ASSUME UNCHANGED <<net, cuda, tensors>>
  PROVE  \A i, w, b : Record(i, w, b)' = Record(i, w, b)
<1>1. /\ \A i, j : Start(i, j)' = Start(i, j)
      /\ \A name : Builder!Tensor(name)' = Builder!Tensor(name)
  BY SameTensors
<1>2. \A i, n : /\ WeightStarts(i, n)' = WeightStarts(i, n) /\ BiasStarts(i, n)' = BiasStarts(i, n)
                /\ Channels(i, n)' = Channels(i, n) /\ Blocks(i, n)' = Blocks(i, n)
  BY <1>1 DEF WeightStarts, BiasStarts, Channels, Blocks
<1>3. QED
  BY <1>2 DEF Record

LEMMA PlacesDiffer ==
  ASSUME NEW o \in Int, NEW i \in Int, NEW j \in Int, PlaceIn(o, i) = PlaceIn(o, j)
  PROVE  i = j
  BY DEF PlaceIn

(* What is in place stays there while one more tensor is copied.           *)
LEMMA TensorPlaced ==
  ASSUME ReadingInv, LiveInv, CopyInv, PlaceInv, CopyTensor
  PROVE  Placed'
<1> DEFINE name == Builder!Names[Done + 1]
           n == Builder!ElementCount(name)
           total == LayerStarts[Len(net.layers)]
<1>1. /\ InLayer /\ InLayer' /\ Done < Len(Builder!Names) /\ Done' = Done + 1
      /\ Builder!Upload(name, Done, offset)
      /\ UNCHANGED <<net, cuda, file, tensors, reading, layer>>
  BY DEF CopyTensor
<1>2. Building /\ reading = "returned" /\ DOMAIN buffer = 0 .. total - 1
  BY <1>1 DEF Building, InLayer, LiveInv, CopyInv
<1>3. /\ Builder!Found(name) /\ n \in Nat /\ offset \in Nat /\ total \in Nat /\ offset + n <= total
      /\ offset = Start(layer, Done)
  BY <1>1, NextIs
<1> HIDE DEF total, n, name
<1>4. /\ \A p \in 0 .. offset - 1 : buffer'[p] = buffer[p]
      /\ \A d \in 0 .. n - 1 : buffer'[offset + d] = Builder!Copied(name, Done)[d]
  BY <1>1, <1>2, <1>3, UploadIs DEF n
<1>5. /\ \A x : Builder!ElementCount(x)' = Builder!ElementCount(x)
      /\ \A x, m : Builder!Copied(x, m)' = Builder!Copied(x, m)
      /\ \A i, j : Start(i, j)' = Start(i, j)
  BY <1>1, SameTensors
<1>6. Started' = Started /\ layer \in Nat /\ Started = 0 .. layer /\ Done \in Nat
  BY <1>1, DoneIs DEF Started
<1>7. ASSUME NEW i \in Started', NEW j \in 0 .. DoneIn(i)' - 1
      PROVE  InPlace(i, j)'
  <2> DEFINE x == net.layers[i + 1][j + 1]
             k == Builder!ElementCount(x)
  <2>0. i \in Started
    BY <1>6
  <2>1. CASE j \in 0 .. DoneIn(i) - 1
    <3>1. Start(i, j) \in Nat /\ k \in Nat /\ Start(i, j) + k <= offset
      BY <1>2, <2>0, <2>1, DoneBelow
    <3>2. \A d \in 0 .. k - 1 : buffer[Start(i, j) + d] = Builder!Copied(x, j)[d]
      BY <1>2, <2>0, <2>1 DEF PlaceInv, Placed, InPlace
    <3> HIDE DEF k
    <3>3. \A d \in 0 .. k - 1 : Start(i, j) + d \in 0 .. offset - 1
      BY <1>3, <3>1
    <3>4. \A d \in 0 .. k - 1 : buffer'[Start(i, j) + d] = Builder!Copied(x, j)[d]
      BY <1>4, <3>2, <3>3
    <3>5. QED
      BY <1>1, <1>5, <3>4 DEF InPlace, k
  <2>2. CASE j \notin 0 .. DoneIn(i) - 1
    <3>1. i = layer /\ DoneIn(i) = Done /\ DoneIn(i)' = Done + 1
      BY <1>1, <1>6, <2>0, <2>2 DEF DoneIn
    <3>2. j = Done
      BY <1>6, <2>2, <3>1
    <3>3. x = name /\ Start(i, j) = offset
      BY <1>3, <3>1, <3>2 DEF name, Builder!Names
    <3>4. \A d \in 0 .. k - 1 : buffer'[Start(i, j) + d] = Builder!Copied(x, j)[d]
      BY <1>4, <3>2, <3>3 DEF n
    <3>5. QED
      BY <1>1, <1>5, <3>4 DEF InPlace
  <2>3. QED
    BY <2>1, <2>2
<1>8. QED
  BY <1>7 DEF Placed

(* The layers that are done keep their records while another is worked on. *)
OthersUntouched ==
  \A p \in DOMAIN layers : p # Builder!Place => p \in DOMAIN layers' /\ layers'[p] = layers[p]

LEMMA OthersKeep ==
  ASSUME LiveInv, Recorded, OthersUntouched, UNCHANGED <<net, cuda, tensors, layer>>, layer \in Nat
  PROVE  \A i \in 0 .. layer - 1 :
           PlaceOf(i)' \in DOMAIN layers' /\ layers'[PlaceOf(i)'] = RecordOf(i)'
<1> TAKE i \in 0 .. layer - 1
<1>1. net.offset \in Int /\ i \in Int /\ layer \in Int /\ i \in Started
  <2>1. Len(net.layers) \in Nat /\ net.offset \in 0 .. Len(net.layers)
    BY NetworkFacts
  <2>2. QED
    BY <2>1 DEF Started
<1>2. PlaceOf(i) # Builder!Place
  BY <1>1, PlacesDiffer, PlaceIs DEF PlaceOf
<1>3. PlaceOf(i)' = PlaceOf(i)
  BY DEF PlaceOf
<1>4. DoneIn(i)' = DoneIn(i)
  BY DEF DoneIn
<1>5. RecordOf(i)' = RecordOf(i)
  BY <1>4, SameRecords DEF RecordOf
<1>6. PlaceOf(i) \in DOMAIN layers /\ layers[PlaceOf(i)] = RecordOf(i)
  BY <1>1 DEF Recorded
<1>7. PlaceOf(i) \in DOMAIN layers' /\ layers'[PlaceOf(i)] = layers[PlaceOf(i)]
  BY <1>2, <1>6 DEF OthersUntouched
<1>8. QED
  BY <1>3, <1>5, <1>6, <1>7

LEMMA WeightRecorded ==
  ASSUME ReadingInv, LiveInv, CopyInv, Recorded, Builder!CopyWeight, ~Builder!Exit, UNCHANGED loader
  PROVE  Recorded'
<1> DEFINE P == Builder!Place
           r == layers[P]
<1>1. /\ CopyTensor /\ InLayer /\ InLayer' /\ UNCHANGED <<net, cuda, tensors, layer>>
      /\ building = "weight" /\ building' = "bias" /\ conv' = conv
      /\ layers' = [layers EXCEPT ![P].weightIdxs = Append(@, offset)]
  BY CopiesTensor DEF CopyTensor, Builder!CopyWeight
<1>2. /\ layer \in Nat /\ conv \in Nat /\ Done = 2 * conv /\ Done' = 2 * conv + 1
      /\ Started = 0 .. layer /\ Started' = 0 .. layer
  BY <1>1, DoneIs DEF Done, Started
<1>3. offset = Start(layer, 2 * conv)
  BY <1>1, <1>2, NextIs DEF CopyTensor
<1>4. DoneIn(layer) = 2 * conv /\ DoneIn(layer)' = 2 * conv + 1 /\ P = PlaceOf(layer) /\ PlaceOf(layer)' = P
  BY <1>1, <1>2, PlaceIs DEF DoneIn, PlaceOf
<1>5. /\ (2 * conv + 1) \div 2 = conv /\ (2 * conv) \div 2 = conv
      /\ (2 * conv + 1 + 1) \div 2 = conv + 1
  BY <1>2
<1>6. P \in DOMAIN layers /\ r = Record(layer, conv, conv)
  <2>1. layer \in Started
    BY <1>2
  <2>2. QED
    BY <1>4, <1>5, <2>1 DEF Recorded, RecordOf
<1>7. layers' = [layers EXCEPT ![P] = [r EXCEPT !.weightIdxs = Append(@, offset)]]
  BY <1>1
<1> HIDE DEF P
<1>8. /\ DOMAIN layers' = DOMAIN layers
      /\ layers'[P] = [r EXCEPT !.weightIdxs = Append(@, offset)]
      /\ \A p \in DOMAIN layers : p # P => layers'[p] = layers[p]
  BY <1>6, <1>7
<1>9. [r EXCEPT !.weightIdxs = Append(@, offset)] = Record(layer, conv + 1, conv)
  <2>1. Append(WeightStarts(layer, conv), offset) = WeightStarts(layer, conv + 1)
    BY <1>2, <1>3, RecordGrows
  <2>2. QED
    BY <1>6, <2>1 DEF Record
<1>10. ASSUME NEW i \in Started'
       PROVE  PlaceOf(i)' \in DOMAIN layers' /\ layers'[PlaceOf(i)'] = RecordOf(i)'
  <2>1. CASE i = layer
    <3>1. PlaceOf(i)' = P
      BY <1>1, <1>4, <2>1 DEF PlaceOf
    <3>2. DoneIn(i)' = 2 * conv + 1
      BY <1>1, <1>2, <2>1 DEF DoneIn
    <3>3. RecordOf(i)' = Record(layer, conv + 1, conv)
      BY <1>1, <1>5, <2>1, <3>2, SameRecords DEF RecordOf
    <3>4. QED
      BY <1>6, <1>8, <1>9, <3>1, <3>3
  <2>2. CASE i # layer
    <3>1. i \in 0 .. layer - 1
      BY <1>2, <2>2
    <3>2. OthersUntouched
      BY <1>8 DEF OthersUntouched, P
    <3>3. QED
      BY <1>1, <1>2, <3>1, <3>2, OthersKeep
  <2>3. QED
    BY <2>1, <2>2
<1>11. QED
  BY <1>10 DEF Recorded

LEMMA BiasRecorded ==
  ASSUME ReadingInv, LiveInv, CopyInv, Recorded, Builder!CopyBias, ~Builder!Exit, UNCHANGED loader
  PROVE  Recorded'
<1> DEFINE P == Builder!Place
           r == layers[P]
           K == Builder!Tensor(Builder!Names[2 * conv + 1]).dims[1]
           q == [weightIdxs |-> r.weightIdxs, biasIdxs |-> Append(r.biasIdxs, offset),
                 outChannels |-> Append(r.outChannels, K),
                 blocks |-> IF cuda THEN Append(r.blocks, <<layer, conv>>) ELSE r.blocks]
<1>1. /\ CopyTensor /\ InLayer /\ InLayer' /\ UNCHANGED <<net, cuda, tensors, layer>>
      /\ building = "bias" /\ building' = "weight" /\ conv' = conv + 1
      /\ layers' = [layers EXCEPT ![P].biasIdxs = Append(@, offset), ![P].outChannels = Append(@, K),
                                 ![P].blocks = IF cuda THEN Append(@, <<layer, conv>>) ELSE @]
  BY CopiesTensor DEF CopyTensor, Builder!CopyBias
<1>2. /\ layer \in Nat /\ conv \in Nat /\ Done = 2 * conv + 1 /\ Done' = 2 * (conv + 1)
      /\ Started = 0 .. layer /\ Started' = 0 .. layer
  BY <1>1, DoneIs DEF Done, Started
<1>3. offset = Start(layer, 2 * conv + 1)
  BY <1>1, <1>2, NextIs DEF CopyTensor
<1>4. /\ DoneIn(layer) = 2 * conv + 1 /\ DoneIn(layer)' = 2 * (conv + 1)
      /\ P = PlaceOf(layer) /\ PlaceOf(layer)' = P
  BY <1>1, <1>2, PlaceIs DEF DoneIn, PlaceOf
<1>5. /\ (2 * conv + 1 + 1) \div 2 = conv + 1 /\ (2 * conv + 1) \div 2 = conv
      /\ (2 * (conv + 1) + 1) \div 2 = conv + 1 /\ (2 * (conv + 1)) \div 2 = conv + 1
  BY <1>2
<1>6. P \in DOMAIN layers /\ r = Record(layer, conv + 1, conv)
  <2>1. layer \in Started
    BY <1>2
  <2>2. QED
    BY <1>4, <1>5, <2>1 DEF Recorded, RecordOf
<1> HIDE DEF P, K
<1>7. r = [weightIdxs |-> r.weightIdxs, biasIdxs |-> r.biasIdxs, outChannels |-> r.outChannels,
           blocks |-> r.blocks]
  BY <1>6 DEF Record
<1>8. /\ DOMAIN layers' = DOMAIN layers
      /\ layers'[P] = q
      /\ \A p \in DOMAIN layers : p # P => layers'[p] = layers[p]
  BY <1>1, <1>6, <1>7
<1>9. q = Record(layer, conv + 1, conv + 1)
  <2>1. /\ Append(BiasStarts(layer, conv), offset) = BiasStarts(layer, conv + 1)
        /\ Append(Channels(layer, conv), K) = Channels(layer, conv + 1)
        /\ Append(Blocks(layer, conv), <<layer, conv>>) = Blocks(layer, conv + 1)
    BY <1>2, <1>3, RecordGrows DEF K, Builder!Names
  <2>2. /\ r.weightIdxs = WeightStarts(layer, conv + 1) /\ r.biasIdxs = BiasStarts(layer, conv)
        /\ r.outChannels = Channels(layer, conv)
        /\ r.blocks = IF cuda THEN Blocks(layer, conv) ELSE <<>>
    BY <1>6 DEF Record
  <2> HIDE DEF r
  <2>3. (IF cuda THEN Append(r.blocks, <<layer, conv>>) ELSE r.blocks)
          = IF cuda THEN Blocks(layer, conv + 1) ELSE <<>>
    BY <2>1, <2>2
  <2>4. QED
    BY <2>1, <2>2, <2>3 DEF Record
<1>10. ASSUME NEW i \in Started'
       PROVE  PlaceOf(i)' \in DOMAIN layers' /\ layers'[PlaceOf(i)'] = RecordOf(i)'
  <2>1. CASE i = layer
    <3>1. PlaceOf(i)' = P
      BY <1>1, <1>4, <2>1 DEF PlaceOf
    <3>2. DoneIn(i)' = 2 * (conv + 1)
      BY <1>1, <1>2, <2>1 DEF DoneIn
    <3>3. RecordOf(i)' = Record(layer, conv + 1, conv + 1)
      BY <1>1, <1>5, <2>1, <3>2, SameRecords DEF RecordOf
    <3>4. QED
      BY <1>6, <1>8, <1>9, <3>1, <3>3
  <2>2. CASE i # layer
    <3>1. i \in 0 .. layer - 1
      BY <1>2, <2>2
    <3>2. OthersUntouched
      BY <1>8 DEF OthersUntouched, P
    <3>3. QED
      BY <1>1, <1>2, <3>1, <3>2, OthersKeep
  <2>3. QED
    BY <2>1, <2>2
<1>11. QED
  BY <1>10 DEF Recorded
(* What is in place and recorded stays so while no layer or tensor is      *)
(* added.                                                                  *)
LEMMA Steady ==
  ASSUME Placed, Recorded, UNCHANGED <<net, cuda, tensors, buffer, layers>>, Started' = Started,
         \A i \in Started : DoneIn(i)' = DoneIn(i)
  PROVE  Placed' /\ Recorded'
<1>1. /\ \A x : Builder!ElementCount(x)' = Builder!ElementCount(x)
      /\ \A x, m : Builder!Copied(x, m)' = Builder!Copied(x, m)
      /\ \A i, j : Start(i, j)' = Start(i, j)
  BY SameTensors
<1>2. \A i, j : InPlace(i, j)' = InPlace(i, j)
  BY <1>1 DEF InPlace
<1>3. Placed'
  BY <1>2 DEF Placed
<1>4. \A i \in Started : RecordOf(i)' = RecordOf(i)
  BY SameRecords DEF RecordOf
<1>5. \A i : PlaceOf(i)' = PlaceOf(i)
  BY DEF PlaceOf
<1>6. Recorded'
  BY <1>4, <1>5 DEF Recorded
<1>7. QED
  BY <1>3, <1>6

(* A layer is started: nothing of it is there yet.                         *)
LEMMA LayerStarted ==
  ASSUME LiveInv, Placed, Recorded, Builder!StartLayer, UNCHANGED tensors
  PROVE  Placed' /\ Recorded'
<1>1. /\ building = "layer" /\ building' = "weight" /\ conv' = 0
      /\ layers' = [p \in DOMAIN layers \cup {Builder!Place} |->
                      IF p = Builder!Place
                      THEN [weightIdxs |-> <<>>, biasIdxs |-> <<>>, outChannels |-> <<>>, blocks |-> <<>>]
                      ELSE layers[p]]
      /\ UNCHANGED <<net, cuda, tensors, layer, buffer>>
  BY DEF Builder!StartLayer
<1>2. layer \in Nat /\ Started = 0 .. layer - 1 /\ Started' = 0 .. layer /\ Done' = 0
  <2>1. Len(net.layers) \in Nat /\ layer \in 0 .. Len(net.layers)
    BY <1>1, NetworkFacts DEF LiveInv, Building
  <2>2. QED
    BY <1>1, <2>1 DEF Started, InLayer, Done
<1>3. \A i : i < layer => DoneIn(i)' = DoneIn(i)
  BY <1>1 DEF DoneIn
<1>4. /\ \A x : Builder!ElementCount(x)' = Builder!ElementCount(x)
      /\ \A x, m : Builder!Copied(x, m)' = Builder!Copied(x, m)
      /\ \A i, j : Start(i, j)' = Start(i, j)
  BY <1>1, SameTensors
<1>5. \A i, j : InPlace(i, j)' = InPlace(i, j)
  BY <1>1, <1>4 DEF InPlace
<1>6. ASSUME NEW i \in Started'
      PROVE  /\ \A j \in 0 .. DoneIn(i)' - 1 : InPlace(i, j)'
             /\ PlaceOf(i)' \in DOMAIN layers' /\ layers'[PlaceOf(i)'] = RecordOf(i)'
  <2>1. CASE i = layer
    <3>1. DoneIn(i)' = 0
      BY <1>1, <1>2, <2>1 DEF DoneIn
    <3>2. PlaceOf(i)' = Builder!Place
      BY <1>1, <2>1, PlaceIs DEF PlaceOf
    <3>3. RecordOf(i)' = Record(i, 0, 0)
      BY <1>1, <3>1, SameRecords DEF RecordOf
    <3>4. WeightStarts(i, 0) = <<>> /\ BiasStarts(i, 0) = <<>> /\ Channels(i, 0) = <<>> /\ Blocks(i, 0) = <<>>
      BY DEF WeightStarts, BiasStarts, Channels, Blocks
    <3>5. Record(i, 0, 0) = [weightIdxs |-> <<>>, biasIdxs |-> <<>>, outChannels |-> <<>>, blocks |-> <<>>]
      BY <3>4 DEF Record
    <3>6. QED
      BY <1>1, <3>1, <3>2, <3>3, <3>5
  <2>2. CASE i # layer
    <3>1. i \in 0 .. layer - 1 /\ i \in Started /\ i < layer
      BY <1>2, <2>2
    <3>2. OthersUntouched
      BY <1>1 DEF OthersUntouched
    <3>3. QED
      BY <1>1, <1>2, <1>3, <1>5, <3>1, <3>2, OthersKeep DEF Placed
  <2>3. QED
    BY <2>1, <2>2
<1>7. QED
  BY <1>6 DEF Placed, Recorded

LEMMA StepPlace == ReadingInv /\ LiveInv /\ CopyInv /\ PlaceInv /\ [Next]_vars => PlaceInv'
<1> SUFFICES ASSUME ReadingInv, LiveInv, CopyInv, PlaceInv, [Next]_vars PROVE PlaceInv'
  OBVIOUS
<1>1. CASE UNCHANGED vars
  <2>1. UNCHANGED <<net, cuda, tensors, building, layer, conv, offset, buffer, layers>>
    BY <1>1 DEF vars, loader, builder
  <2>2. Building' = Building /\ Started' = Started /\ \A i : DoneIn(i)' = DoneIn(i)
    BY <2>1 DEF Building, InLayer, Started, DoneIn, Done
  <2>3. QED
    BY <2>1, <2>2, Steady DEF PlaceInv
<1>2. CASE Load
  <2>1. building = "create" /\ building' = "create"
    BY <1>2 DEF LiveInv, Load, Parser!Ended, builder
  <2>2. QED
    BY <2>1 DEF PlaceInv, Building
<1>3. CASE Build
  <2>0. UNCHANGED loader /\ UNCHANGED tensors
    BY <1>3 DEF Build, loader
  <2>1. CASE Builder!Exit \/ building' \in {"crashed", "freed"}
    BY <2>1 DEF Builder!Exit, PlaceInv, Building
  <2>2. CASE Builder!CreateBuffer /\ ~Builder!Exit /\ building' # "crashed"
    <3>1. building' = "layer" /\ layer' = 0
      BY <2>2 DEF Builder!CreateBuffer, LiveInv
    <3>2. Started' = {}
      BY <3>1 DEF Started, InLayer
    <3>3. QED
      BY <3>2 DEF PlaceInv, Placed, Recorded
  <2>3. CASE Builder!StartLayer
    <3>1. Building
      BY <2>3 DEF Builder!StartLayer, Building
    <3>2. QED
      BY <2>0, <2>3, <3>1, LayerStarted DEF PlaceInv
  <2>4. CASE (Builder!CopyWeight \/ Builder!CopyBias) /\ ~Builder!Exit
    <3>1. CopyTensor /\ Recorded
      BY <2>0, <2>4, CopiesTensor DEF CopyTensor, PlaceInv, Building, InLayer
    <3>2. Placed'
      BY <3>1, TensorPlaced
    <3>3. Recorded'
      BY <2>0, <2>4, <3>1, WeightRecorded, BiasRecorded
    <3>4. QED
      BY <3>2, <3>3 DEF PlaceInv
  <2>5. CASE Builder!EndLayer
    <3>1. /\ building = "weight" /\ building' = "layer" /\ conv = Builder!NumConvs
          /\ layer' = layer + 1 /\ UNCHANGED <<net, cuda, buffer, layers>>
      BY <2>5 DEF Builder!EndLayer
    <3>2. layer \in Nat /\ Building /\ InLayer /\ Done = Len(net.layers[layer + 1])
      <4>1. Building /\ InLayer
        BY <3>1 DEF Building, InLayer
      <4>2. layer \in 0 .. Len(net.layers) - 1 /\ Done = Len(net.layers[layer + 1])
        BY <3>1, <4>1, DoneIs DEF Builder!NumConvs, Builder!Names
      <4>3. layer \in Nat
        BY <4>2, NetworkFacts
      <4>4. QED
        BY <4>1, <4>2, <4>3
    <3>3. Started = 0 .. layer /\ Started' = 0 .. layer
      BY <3>1, <3>2 DEF Started, InLayer
    <3>4. \A i \in Started : DoneIn(i)' = DoneIn(i)
      <4> TAKE i \in Started
      <4>1. i < layer + 1 /\ (i < layer \/ i = layer)
        BY <3>2, <3>3
      <4>2. DoneIn(i)' = Len(net.layers[i + 1])
        BY <3>1, <4>1 DEF DoneIn
      <4>3. QED
        BY <3>2, <4>1, <4>2 DEF DoneIn
    <3>5. QED
      BY <2>0, <3>1, <3>2, <3>3, <3>4, Steady DEF PlaceInv
  <2>6. CASE Builder!Return
    <3>1. /\ building = "layer" /\ building' = "built" /\ UNCHANGED <<net, cuda, layer, buffer, layers>>
      BY <2>6 DEF Builder!Return
    <3>2. Building /\ Started = 0 .. layer - 1 /\ Started' = 0 .. layer - 1 /\ layer \in Int
      <4>1. Len(net.layers) \in Nat
        BY NetworkFacts
      <4>2. QED
        BY <3>1, <4>1 DEF Started, InLayer, Building, LiveInv
    <3>3. \A i \in Started : DoneIn(i)' = DoneIn(i)
      BY <3>1, <3>2 DEF DoneIn
    <3>4. QED
      BY <2>0, <3>1, <3>2, <3>3, Steady DEF PlaceInv
  <2>7. CASE Builder!Free /\ ~Builder!Exit
    BY <2>1, <2>7 DEF Builder!Free
  <2>8. CASE Builder!Over
    <3>1. UNCHANGED vars
      BY <1>3, <2>8 DEF Build, Builder!Over, Builder!vars, vars, builder
    <3>2. QED
      BY <1>1, <3>1
  <2>9. QED
    BY <1>3, <2>1, <2>2, <2>3, <2>4, <2>5, <2>6, <2>7, <2>8 DEF Build, Builder!Next
<1>4. CASE Over
  BY <1>1, <1>4 DEF Over
<1>5. QED
  BY <1>1, <1>2, <1>3, <1>4 DEF Next

LEMMA PlaceHolds == Spec => []PlaceInv
<1>1. Init => PlaceInv
  BY DEF Init, Builder!Init, PlaceInv, Building
<1>2. QED
  BY <1>1, StepPlace, ReadingHolds, LiveHolds, CopyHolds, PTL DEF Spec

(* Of a model that is handed over, every tensor is in the buffer.          *)
LEMMA TensorThere ==
  ASSUME ReadingInv, LiveInv, CopyInv, PlaceInv, building = "built",
         NEW i \in 0 .. Len(net.layers) - 1, NEW m \in 0 .. Len(net.layers[i + 1]) - 1
  PROVE  LET name == net.layers[i + 1][m + 1]
         IN /\ Builder!Found(name)
            /\ \A d \in 0 .. Builder!ElementCount(name) - 1 :
                 /\ Start(i, m) + d \in DOMAIN buffer
                 /\ buffer[Start(i, m) + d] = Builder!Copied(name, m)[d]
<1> DEFINE names == net.layers[i + 1]
           k == Builder!ElementCount(names[m + 1])
           total == LayerStarts[Len(net.layers)]
<1>1. /\ Building /\ ~InLayer /\ reading = "returned" /\ layer = Len(net.layers) /\ layer \in Nat
  BY NetworkFacts DEF Building, InLayer, LiveInv
<1>2. i \in Started /\ DoneIn(i) = Len(names)
  BY <1>1 DEF Started, DoneIn
<1>3. Start(i, m) \in Nat /\ k \in Nat /\ Start(i, m) + k <= offset
  BY <1>1, <1>2, DoneBelow
<1>4. \A d \in 0 .. k - 1 : buffer[Start(i, m) + d] = Builder!Copied(names[m + 1], m)[d]
  BY <1>1, <1>2 DEF PlaceInv, Placed, InPlace
<1>5. offset = total + 0 /\ DOMAIN buffer = 0 .. total - 1 /\ AllFound
  BY <1>1 DEF CopyInv
<1>6. total \in Nat
  <2>1. LayerStarts \in [0 .. Len(net.layers) -> Nat]
    BY <1>1, <1>5, StartsAre
  <2>2. Len(net.layers) \in 0 .. Len(net.layers)
    BY <1>1
  <2>3. QED
    BY <2>1, <2>2
<1>7. Builder!Found(names[m + 1])
  BY <1>1, <1>2, DoneBelow
<1> HIDE DEF k, total
<1>8. \A d \in 0 .. k - 1 : Start(i, m) + d \in DOMAIN buffer
  BY <1>3, <1>5, <1>6
<1>9. QED
  BY <1>4, <1>7, <1>8 DEF k

(* The position of a weight in KRSC order takes the reordering back to its *)
(* position in OIHW order.                                                 *)
LEMMA KrscIs ==
  ASSUME NEW K \in Nat, NEW C \in Nat, NEW o \in 0 .. K - 1, NEW c \in 0 .. C - 1,
         NEW fh \in 0 .. 2, NEW fw \in 0 .. 2
  PROVE  LET d == Builder!Kernel(C)!Krsc(o, fh, fw, c)
         IN /\ d \in 0 .. K * C * 3 * 3 - 1
            /\ d % C = c /\ (d \div C) % 3 = fw /\ (d \div (C * 3)) % 3 = fh
            /\ d \div (C * 3 * 3) = o
<1> DEFINE b == o * 3 + fh
           a == b * 3 + fw
           d == a * C + c
           e == fw * C + c
           g == fh * (C * 3) + e
<1>0. Builder!Kernel(C)!Krsc(o, fh, fw, c) = d
  BY DEF Builder!Kernel!Krsc
<1>1. C \in Nat \ {0} /\ C * 3 \in Nat \ {0} /\ C * 3 * 3 \in Nat \ {0} /\ K \in Nat \ {0} /\ o \in Nat
  OBVIOUS
<1>2. b \in Nat /\ a \in Nat
  BY <1>1
<1>3. d \div C = a /\ d % C = c
  <2> HIDE DEF a
  <2>1. QED
    BY <1>1, <1>2, RadixDivMod
<1>4. a % 3 = fw /\ b % 3 = fh
  <2>1. fw \in 0 .. 3 - 1 /\ fh \in 0 .. 3 - 1 /\ 3 \in Nat \ {0}
    OBVIOUS
  <2>2. b % 3 = fh
    BY <1>1, <2>1, RadixDivMod
  <2> HIDE DEF b
  <2>3. a % 3 = fw
    BY <1>2, <2>1, RadixDivMod
  <2>4. QED
    BY <2>2, <2>3
<1>5. e \in 0 .. C * 3 - 1
  <2>1. fw \in 0 .. 3 - 1 /\ 3 \in Nat \ {0}
    OBVIOUS
  <2>2. e \in 0 .. 3 * C - 1
    BY <1>1, <2>1, RadixRange
  <2>3. QED
    BY <1>1, <2>2
<1>6. d = b * (C * 3) + e
  <2> HIDE DEF b
  <2>1. QED
    BY <1>1, <1>2
<1>7. d \div (C * 3) = b
  <2> DEFINE n == C * 3
  <2>1. n \in Nat \ {0} /\ e \in 0 .. n - 1 /\ d = b * n + e
    BY <1>1, <1>5, <1>6
  <2> HIDE DEF n, b, e, d
  <2>2. d \div n = b
    BY <1>2, <2>1, RadixDivMod
  <2>3. QED
    BY <2>2 DEF n
<1>8. g \in 0 .. C * 3 * 3 - 1
  <2> DEFINE n == C * 3
  <2>1. n \in Nat \ {0} /\ e \in 0 .. n - 1 /\ fh \in 0 .. 3 - 1 /\ 3 \in Nat \ {0}
    BY <1>1, <1>5
  <2> HIDE DEF n, e
  <2>2. fh * n + e \in 0 .. 3 * n - 1
    BY <2>1, RadixRange
  <2>3. 3 * n = n * 3
    BY <2>1
  <2>4. QED
    BY <2>2, <2>3 DEF n
<1>9. d = o * (C * 3 * 3) + g
  <2>1. b * (C * 3) = o * (C * 3 * 3) + fh * (C * 3)
    BY <1>1
  <2>2. o * (C * 3 * 3) \in Int /\ fh * (C * 3) \in Int /\ e \in Int
    BY <1>1, <1>5
  <2> HIDE DEF d, e, b
  <2>3. QED
    BY <1>6, <2>1, <2>2
<1>10. d \div (C * 3 * 3) = o /\ d \in 0 .. K * (C * 3 * 3) - 1
  <2> DEFINE n == C * 3 * 3
  <2>1. n \in Nat \ {0} /\ g \in 0 .. n - 1 /\ d = o * n + g
    BY <1>1, <1>8, <1>9
  <2> HIDE DEF n, g, d
  <2>2. d \div n = o /\ d \in 0 .. K * n - 1
    BY <1>1, <2>1, RadixDivMod, RadixRange
  <2>3. QED
    BY <2>2 DEF n
<1>11. K * (C * 3 * 3) = K * C * 3 * 3
  BY <1>1
<1> HIDE DEF a, b, d
<1>12. QED
  BY <1>0, <1>3, <1>4, <1>7, <1>10, <1>11

(* A weight and a bias of the file, in the buffer as the kernels expect.   *)
IsKernel(t, name) ==
  Len(t.dims) = 4 /\ t.dims[3] = 3 /\ t.dims[4] = 3 /\ t.type = "h" /\ t.data = name

LEMMA WeightIs ==
  ASSUME ReadingInv, reading = "returned", NEW name, NEW idx, idx % 2 = 0, Builder!Found(name),
         IsKernel(Builder!Tensor(name), name),
         NEW o \in 0 .. Builder!Tensor(name).dims[1] - 1, NEW c \in 0 .. Builder!Tensor(name).dims[2] - 1,
         NEW fh \in 0 .. 2, NEW fw \in 0 .. 2
  PROVE  LET C == Builder!Tensor(name).dims[2]
             d == Builder!Kernel(C)!Krsc(o, fh, fw, c)
         IN /\ d \in 0 .. Builder!ElementCount(name) - 1
            /\ Builder!Copied(name, idx)[d] = <<name, ((o * C + c) * 3 + fh) * 3 + fw>>
<1> DEFINE s == Builder!Tensor(name).dims
           K == s[1]
           C == s[2]
           d == Builder!Kernel(C)!Krsc(o, fh, fw, c)
<1>0. LET t == Builder!Tensor(name) IN t.type = "h" /\ t.data = name
  BY DEF IsKernel
<1>1. s \in Seq(Nat) /\ Len(s) = 4 /\ s[3] = 3 /\ s[4] = 3
  BY TensorFacts DEF IsKernel
<1>2. K \in Nat /\ C \in Nat
  BY <1>1
<1>3. Builder!ElementCount(name) = K * C * 3 * 3
  BY <1>1, FourFactors DEF Builder!ElementCount
<1>4. /\ d \in 0 .. K * C * 3 * 3 - 1
      /\ d % C = c /\ (d \div C) % 3 = fw /\ (d \div (C * 3)) % 3 = fh
      /\ d \div (C * 3 * 3) = o
  <2>1. o \in 0 .. K - 1 /\ c \in 0 .. C - 1
    OBVIOUS
  <2> HIDE DEF K, C
  <2>2. QED
    BY <1>2, <2>1, KrscIs
<1> HIDE DEF d
<1>5. Builder!Copied(name, idx)[d] = Builder!Reordered(name, d)
  BY <1>1, <1>3, <1>4 DEF Builder!Copied
<1>6. Builder!Reordered(name, d) = Builder!Half(name, ((o * C + c) * 3 + fh) * 3 + fw)
  BY <1>1, <1>4 DEF Builder!Reordered
<1>7. QED
  BY <1>0, <1>3, <1>4, <1>5, <1>6 DEF Builder!Half, d

LEMMA BiasIs ==
  ASSUME ReadingInv, reading = "returned", NEW name, NEW idx, Builder!Found(name), NEW K,
         LET t == Builder!Tensor(name) IN t.dims = <<K>> /\ t.type = "h" /\ t.data = name,
         NEW o \in 0 .. K - 1
  PROVE  o \in 0 .. Builder!ElementCount(name) - 1 /\ Builder!Copied(name, idx)[o] = <<name, o>>
<1> DEFINE s == Builder!Tensor(name).dims
<1>1. s \in Seq(Nat) /\ Len(s) = 1 /\ s[1] = K
  <2>1. s \in Seq(Nat)
    BY TensorFacts
  <2>2. s = <<K>>
    OBVIOUS
  <2> HIDE DEF s
  <2>3. QED
    BY <2>1, <2>2
<1>2. Builder!ElementCount(name) = K
  <2> HIDE DEF s
  <2>1. PICK f : Products(f, s)
    BY <1>1, ProductsAre
  <2>2. f[1] = f[0] * s[1] /\ f[0] = 1 /\ s[1] \in Nat
    BY <1>1, <2>1 DEF Products
  <2>3. Builder!Product(s) = f[1]
    BY <1>1, <2>1 DEF Products
  <2>4. QED
    BY <1>1, <2>2, <2>3 DEF Builder!ElementCount, s
<1>3. Builder!Copied(name, idx)[o] = Builder!Half(name, o)
  BY <1>1, <1>2 DEF Builder!Copied
<1>4. QED
  BY <1>2, <1>3 DEF Builder!Half

LEMMA ConvThere ==
  ASSUME TensorsFit, ReadingInv, LiveInv, CopyInv, PlaceInv, building = "built",
         NEW i \in 0 .. Len(net.layers) - 1, NEW j \in 1 .. Len(net.layers[i + 1]) \div 2
  PROVE  LET names == net.layers[i + 1]
         IN Builder!ConvInPlace(layers[PlaceOf(i)], names[2 * j - 1], names[2 * j], j)
<1> DEFINE names == net.layers[i + 1]
           n == Len(names)
           h == n \div 2
           weight == names[2 * j - 1]
           bias == names[2 * j]
           built == layers[PlaceOf(i)]
           K == Builder!Tensor(weight).dims[1]
           C == Builder!Tensor(weight).dims[2]
<1>1. /\ Building /\ ~InLayer /\ reading = "returned" /\ layer = Len(net.layers) /\ layer \in Nat
      /\ net \in Networks /\ file \in Files
  BY NetworkFacts DEF Building, InLayer, LiveInv, ReadingInv
<1>2. i + 1 \in DOMAIN net.layers /\ n \in Nat /\ n % 2 = 0
  <2>1. i + 1 \in 1 .. Len(net.layers)
    BY <1>1
  <2>2. QED
    BY <2>1, NetworkFacts
<1>3. h \in Nat /\ n = 2 * h /\ (n + 1) \div 2 = h
  <2> HIDE DEF n
  <2>1. QED
    BY <1>2
<1>4. j \in 1 .. h
  OBVIOUS
<1> HIDE DEF h
<1>5. /\ 2 * (j - 1) \in 0 .. n - 1 /\ 2 * (j - 1) + 1 \in 0 .. n - 1
      /\ 2 * (j - 1) + 1 = 2 * j - 1 /\ 2 * (j - 1) + 1 + 1 = 2 * j
  <2> HIDE DEF n
  <2>1. QED
    BY <1>3, <1>4
<1>6. built = Record(i, h, h)
  <2>1. i \in Started /\ DoneIn(i) = n
    BY <1>1 DEF Started, DoneIn
  <2>2. built = RecordOf(i)
    BY <1>1, <2>1 DEF PlaceInv, Recorded
  <2>3. QED
    BY <1>3, <2>1, <2>2 DEF RecordOf, h
<1>7. /\ built.weightIdxs[j] = Start(i, 2 * (j - 1))
      /\ built.biasIdxs[j] = Start(i, 2 * (j - 1) + 1)
      /\ built.outChannels[j] = K
  <2> HIDE DEF built
  <2>1. QED
    BY <1>4, <1>6 DEF Record, WeightStarts, BiasStarts, Channels
<1>8. /\ Builder!Found(weight)
      /\ \A d \in 0 .. Builder!ElementCount(weight) - 1 :
           /\ Start(i, 2 * (j - 1)) + d \in DOMAIN buffer
           /\ buffer[Start(i, 2 * (j - 1)) + d] = Builder!Copied(weight, 2 * (j - 1))[d]
  <2>1. 2 * (j - 1) \in 0 .. n - 1 /\ names[2 * (j - 1) + 1] = weight
    BY <1>5
  <2> DEFINE m == 2 * (j - 1)
  <2>2. m \in 0 .. Len(net.layers[i + 1]) - 1 /\ net.layers[i + 1][m + 1] = weight
    BY <2>1
  <2> HIDE DEF m, weight
  <2>3. /\ Builder!Found(weight)
        /\ \A d \in 0 .. Builder!ElementCount(weight) - 1 :
             /\ Start(i, m) + d \in DOMAIN buffer
             /\ buffer[Start(i, m) + d] = Builder!Copied(weight, m)[d]
    BY <2>2, TensorThere
  <2>4. QED
    BY <2>3 DEF m
<1>9. /\ Builder!Found(bias)
      /\ \A d \in 0 .. Builder!ElementCount(bias) - 1 :
           /\ Start(i, 2 * (j - 1) + 1) + d \in DOMAIN buffer
           /\ buffer[Start(i, 2 * (j - 1) + 1) + d] = Builder!Copied(bias, 2 * (j - 1) + 1)[d]
  <2>1. 2 * (j - 1) + 1 \in 0 .. n - 1 /\ names[2 * (j - 1) + 1 + 1] = bias
    BY <1>5
  <2> DEFINE m == 2 * (j - 1) + 1
  <2>2. m \in 0 .. Len(net.layers[i + 1]) - 1 /\ net.layers[i + 1][m + 1] = bias
    BY <2>1
  <2> HIDE DEF m, bias
  <2>3. /\ Builder!Found(bias)
        /\ \A d \in 0 .. Builder!ElementCount(bias) - 1 :
             /\ Start(i, m) + d \in DOMAIN buffer
             /\ buffer[Start(i, m) + d] = Builder!Copied(bias, m)[d]
    BY <2>2, TensorThere
  <2>4. QED
    BY <2>3 DEF m
<1>10. /\ IsConvolution(Builder!Tensor(weight), Builder!Tensor(bias))
       /\ Builder!Tensor(weight).name = weight /\ Builder!Tensor(bias).name = bias
  <2>1. PICK w \in DOMAIN file.contents :
          file.contents[w].name = weight /\ Builder!Tensor(weight) = file.contents[w]
    BY <1>1, <1>8, LoadedIs DEF Builder!Found
  <2>2. PICK b \in DOMAIN file.contents :
          file.contents[b].name = bias /\ Builder!Tensor(bias) = file.contents[b]
    BY <1>1, <1>9, LoadedIs DEF Builder!Found
  <2>3. QED
    BY <1>1, <1>2, <2>1, <2>2 DEF TensorsFit
<1>11. IsKernel(Builder!Tensor(weight), weight)
  BY <1>10 DEF IsConvolution, IsKernel
<1>12. LET t == Builder!Tensor(bias) IN t.dims = <<K>> /\ t.type = "h" /\ t.data = bias
  BY <1>10 DEF IsConvolution
<1> HIDE DEF weight, bias, built
<1>13. ASSUME NEW o \in 0 .. K - 1, NEW c \in 0 .. C - 1, NEW fh \in 0 .. 2, NEW fw \in 0 .. 2
       PROVE  LET d == Builder!Kernel(C)!Krsc(o, fh, fw, c)
              IN /\ built.weightIdxs[j] + d \in DOMAIN buffer
                 /\ buffer[built.weightIdxs[j] + d] = <<weight, ((o * C + c) * 3 + fh) * 3 + fw>>
  <2> DEFINE d == Builder!Kernel(C)!Krsc(o, fh, fw, c)
             m == 2 * (j - 1)
  <2>1. m % 2 = 0 /\ Builder!Found(weight)
    BY <1>3, <1>4, <1>8
  <2> HIDE DEF m
  <2>2. /\ d \in 0 .. Builder!ElementCount(weight) - 1
        /\ Builder!Copied(weight, m)[d] = <<weight, ((o * C + c) * 3 + fh) * 3 + fw>>
    BY <1>1, <1>11, <2>1, WeightIs
  <2> HIDE DEF d
  <2>3. QED
    BY <1>7, <1>8, <2>2 DEF d, m
<1>14. ASSUME NEW o \in 0 .. K - 1
       PROVE  built.biasIdxs[j] + o \in DOMAIN buffer /\ buffer[built.biasIdxs[j] + o] = <<bias, o>>
  <2> DEFINE m == 2 * (j - 1) + 1
  <2>1. Builder!Found(bias)
    BY <1>9
  <2> HIDE DEF m
  <2>2. o \in 0 .. Builder!ElementCount(bias) - 1 /\ Builder!Copied(bias, m)[o] = <<bias, o>>
    BY <1>1, <1>12, <2>1, BiasIs
  <2>3. QED
    BY <1>7, <1>9, <2>2 DEF m
<1>15. Builder!ConvInPlace(built, weight, bias, j)
  BY <1>7, <1>13, <1>14 DEF Builder!ConvInPlace
<1>16. QED
  BY <1>15 DEF built, weight, bias

(* createUNetModel: a model that is handed over has every tensor of every  *)
(* layer where the kernels' index arithmetic looks for it, provided that   *)
(* the tensors of the file are those of the network's 3x3 convolutions.    *)
THEOREM WeightsFound ==
  ASSUME TensorsFit PROVE Spec => []WeightsInPlace
<1>1. ReadingInv /\ LiveInv /\ CopyInv /\ PlaceInv => WeightsInPlace
  <2> SUFFICES ASSUME ReadingInv, LiveInv, CopyInv, PlaceInv PROVE WeightsInPlace
    OBVIOUS
  <2>1. \A i \in 0 .. Len(net.layers) - 1 :
          (IF i < net.offset THEN <<"encoder", i>> ELSE <<"decoder", i - net.offset>>) = PlaceOf(i)
    <3>1. Len(net.layers) \in Nat /\ net.offset \in 0 .. Len(net.layers)
      BY NetworkFacts
    <3>2. QED
      BY <3>1 DEF PlaceOf, PlaceIn
  <2>2. ASSUME building = "built", NEW i \in 0 .. Len(net.layers) - 1
        PROVE  LET names == net.layers[i + 1]
               IN /\ PlaceOf(i) \in DOMAIN layers
                  /\ Len(layers[PlaceOf(i)].outChannels) = Len(names) \div 2
                  /\ \A j \in 1 .. Len(names) \div 2 :
                       /\ Builder!ConvInPlace(layers[PlaceOf(i)], names[2 * j - 1], names[2 * j], j)
                       /\ cuda => layers[PlaceOf(i)].blocks[j] = <<i, j - 1>>
    <3> DEFINE n == Len(net.layers[i + 1])
               h == n \div 2
    <3>1. Building /\ ~InLayer /\ layer = Len(net.layers) /\ layer \in Nat
      BY <2>2, NetworkFacts DEF Building, InLayer, LiveInv
    <3>2. n \in Nat /\ n % 2 = 0
      <4>1. i + 1 \in 1 .. Len(net.layers)
        BY <3>1
      <4>2. QED
        BY <4>1, NetworkFacts
    <3>3. i \in Started /\ DoneIn(i) = n
      BY <3>1 DEF Started, DoneIn
    <3>4. PlaceOf(i) \in DOMAIN layers /\ layers[PlaceOf(i)] = RecordOf(i)
      BY <3>1, <3>3 DEF PlaceInv, Recorded
    <3>5. layers[PlaceOf(i)].outChannels = Channels(i, h)
          /\ (cuda => layers[PlaceOf(i)].blocks = Blocks(i, h))
      <4>1. layers[PlaceOf(i)] = Record(i, (n + 1) \div 2, h)
        BY <3>3, <3>4 DEF RecordOf
      <4> HIDE DEF n, h
      <4>2. QED
        BY <4>1 DEF Record
    <3>6. h \in Nat
      <4> HIDE DEF n
      <4>1. QED
        BY <3>2
    <3>7. Len(Channels(i, h)) = h /\ \A j \in 1 .. h : Blocks(i, h)[j] = <<i, j - 1>>
      <4> HIDE DEF h
      <4>1. QED
        BY <3>6 DEF Channels, Blocks
    <3>8. \A j \in 1 .. h :
            Builder!ConvInPlace(layers[PlaceOf(i)], net.layers[i + 1][2 * j - 1], net.layers[i + 1][2 * j], j)
      BY <2>2, ConvThere
    <3>9. QED
      BY <3>4, <3>5, <3>7, <3>8
  <2>3. QED
    BY <2>1, <2>2 DEF WeightsInPlace, Builder!WeightsInPlace
<1>2. QED
  BY <1>1, ReadingHolds, LiveHolds, CopyHolds, PlaceHolds, PTL

=============================================================================
