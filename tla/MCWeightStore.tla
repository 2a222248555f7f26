--------------------------- MODULE MCWeightStore ---------------------------
(* Small weights files and networks for TLC: the table before or after the *)
(* data, gaps, every type, tensors that a network lacks or does not need,  *)
(* files cut short at any byte, and a Git LFS pointer.                     *)
EXTENDS WeightStore, SequencesExt

Field(width, value) == [width |-> width, value |-> value]

(* Fields laid out one after the other from a position on.                 *)
Offsets(fields) ==
  LET to[i \in 0 .. Len(fields)] == IF i = 0 THEN 0 ELSE to[i - 1] + fields[i].width
  IN to
Widths(fields) == Offsets(fields)[Len(fields)]
Place(from, fields) ==
  LET to == Offsets(fields)
      at(i) == from + to[i - 1]
      start == {at(i) : i \in DOMAIN fields}
  IN [p \in start |-> fields[CHOOSE i \in DOMAIN fields : at(i) = p /\ fields[i].width > 0]]

MCTensor(name, dims, type) == [name |-> name, dims |-> dims, type |-> type, data |-> name]

(* A tensor for every name, but for the last n of them, each bias as long  *)
(* as its weight's first dimension, and a scalar that no network uses.     *)
Weights(K, C, n) ==
  LET all == <<MCTensor("w0", <<K, C, 3, 3>>, "h"), MCTensor("b0", <<K>>, "h"),
               MCTensor("xx", <<>>, "f"),
               MCTensor("w1", <<C, K, 3, 3>>, "h"), MCTensor("b1", <<C>>, "h"),
               MCTensor("w2", <<1, C, 3, 3>>, "h"), MCTensor("b2", <<1>>, "h")>>
  IN SubSeq(all, 1, Len(all) - n)

Contents ==
  {Weights(K, C, 0) : K \in 1 .. 3, C \in 1 .. 2} \cup {Weights(1, 2, n) : n \in {1, 7}}
  \cup {<<MCTensor("xx", <<1, 2>>, a), MCTensor("w0", <<1, 1, 3, 3>>, b)>> :
          a \in {"f", "unknown"}, b \in {"h", "unknown"}}

(* The entry of a tensor whose data is at a position.                      *)
Entry(t, at) ==
  <<Field(2, 2), Field(2, t.name), Field(1, Len(t.dims))>>
  \o [d \in DOMAIN t.dims |-> Field(4, t.dims[d])]
  \o (IF t.dims = <<>> THEN <<>> ELSE <<Field(Len(t.dims), "layout")>>)
  \o <<Field(1, IF t.type = "unknown" THEN "x" ELSE t.type), Field(8, at)>>

(* The data of a tensor takes four bytes per element if they are floats,   *)
(* two if they are halfs.                                                  *)
Bytes(t) == FoldSeq(LAMBDA d, n : d * n, IF t.type = "f" THEN 4 ELSE 2, t.dims)
Blobs(ts) == [i \in DOMAIN ts |-> Field(Bytes(ts[i]), ts[i].data)]
Entries(ts, dataAt) ==
  [i \in DOMAIN ts |-> Entry(ts[i], dataAt + Widths(SubSeq(Blobs(ts), 1, i - 1)))]
Table(ts, dataAt) == <<Field(4, Len(ts))>> \o FlattenSeq(Entries(ts, dataAt))
EntriesAt(ts, tableAt) ==
  [i \in 1 .. Len(ts) + 1 |-> tableAt + 4 + Widths(FlattenSeq(SubSeq(Entries(ts, 0), 1, i - 1)))]

Head12(magic, tableAt) == Place(0, <<Field(2, magic), Field(1, 2), Field(1, 0), Field(8, tableAt)>>)

TableFirst(ts, gap) ==
  LET tableAt == 12 + gap
      dataAt  == tableAt + Widths(Table(ts, 0)) + gap
  IN [size |-> dataAt + Widths(Blobs(ts)), whole |-> TRUE, contents |-> ts,
      entries |-> EntriesAt(ts, tableAt),
      fields |-> Place(tableAt, Table(ts, dataAt)) @@ Place(dataAt, Blobs(ts)) @@ Head12(Magic, tableAt)]
DataFirst(ts, gap) ==
  LET dataAt  == 12 + gap
      tableAt == dataAt + Widths(Blobs(ts)) + gap
  IN [size |-> tableAt + Widths(Table(ts, dataAt)), whole |-> TRUE, contents |-> ts,
      entries |-> EntriesAt(ts, tableAt),
      fields |-> Place(tableAt, Table(ts, dataAt)) @@ Place(dataAt, Blobs(ts)) @@ Head12(Magic, tableAt)]

Pointer == [size |-> 132, whole |-> TRUE, contents |-> <<>>, entries |-> <<>>,
            fields |-> Place(0, <<Field(2, Magic + 1)>>)]

Cut(f, n) == [f EXCEPT !.size = n, !.whole = FALSE]

WholeFiles == {TableFirst(ts, gap) : ts \in Contents, gap \in {0, 5}}
              \cup {DataFirst(ts, gap) : ts \in Contents, gap \in {0, 5}}
CutFiles == UNION {{Cut(f, n) : n \in 0 .. f.size - 1} :
                     f \in {DataFirst(<<MCTensor("b0", <<1>>, "h")>>, 0),
                            TableFirst(<<MCTensor("b0", <<1>>, "h")>>, 0)}}

MCFiles == WholeFiles \cup CutFiles \cup {Pointer}

(* Up to three layers, one with two convolutions, split anywhere in two    *)
(* halves; and the network without layers of a name that get_model_spec    *)
(* does not know.                                                          *)
Network(parts, split) == [layers |-> parts, offset |-> split]
MCNetworks ==
  {Network(<<<<"w0", "b0">>, <<"w1", "b1", "w2", "b2">>>>, n) : n \in 0 .. 2}
  \cup {Network(<<<<"w0", "b0">>, <<"w1", "b1">>, <<"w2", "b2">>>>, n) : n \in 1 .. 2}
  \cup {Network(<<>>, 0)}

ASSUME TensorsFit
=============================================================================
