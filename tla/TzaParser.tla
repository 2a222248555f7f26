----------------------------- MODULE TzaParser -----------------------------
(***************************************************************************)
(* loadTza: a cursor over the bytes of a weights file.  The header names   *)
(* the place of the table, an entry of the table the place of the data of  *)
(* its tensor; the two may be in either order, with gaps.                  *)
(*                                                                         *)
(* A file has a size and fields: fields[p] is the field that starts at     *)
(* byte p, with its width and its value.  Bytes read as anything else      *)
(* than the field they hold are Junk.  The vector is never asked for its   *)
(* size: what happens after a read past its end is undefined.              *)
(***************************************************************************)
EXTENDS Integers, Sequences

CONSTANTS Files, Magic, Junk

VARIABLES
  file,      \* the file being loaded
  pc,        \* which value is read next, or how the load ended
  cursor,    \* offset
  left,      \* entries of the table still to read
  tensor,    \* the tensor being read
  tensors    \* out_file.tensors

vars == <<file, pc, cursor, left, tensor, tensors>>

Ended == {"returned", "threw", "undefined"}

FieldAt(p, width) ==
  IF p \in DOMAIN file.fields /\ file.fields[p].width = width
  THEN file.fields[p].value ELSE Junk

(* readValue and readString: what is at the cursor.                        *)
Read(width) == FieldAt(cursor, width)

Inside(bytes) == cursor + bytes <= file.size

(* elementSize, and elementCount times it.                                 *)
ElementSize(type) == IF type = "f" THEN 4 ELSE 2
Product(dims) ==
  LET upTo[i \in 0 .. Len(dims)] == IF i = 0 THEN 1 ELSE upTo[i - 1] * dims[i]
  IN upTo[Len(dims)]
TotalBytes(t) == Product(t.dims) * ElementSize(t.type)

-----------------------------------------------------------------------------
(* One action per group of reads at the cursor.                            *)

Goto(p) == pc' = p /\ UNCHANGED file

PastEnd(bytes) ==
  ~Inside(bytes) /\ Goto("undefined") /\ UNCHANGED <<cursor, left, tensor, tensors>>

ReadMagic ==
  /\ pc = "magic"
  /\ \/ /\ Inside(2)
        /\ IF Read(2) = Magic THEN Goto("header") ELSE Goto("threw")
        /\ cursor' = cursor + 2
        /\ UNCHANGED <<left, tensor, tensors>>
     \/ PastEnd(2)

(* The major and minor version are skipped; then the cursor jumps to the   *)
(* table.                                                                  *)
ReadHeader ==
  /\ pc = "header"
  /\ \/ /\ Inside(10)
        /\ cursor' = FieldAt(cursor + 2, 8)
        /\ Goto("count")
        /\ UNCHANGED <<left, tensor, tensors>>
     \/ PastEnd(10)

NextEntry_OneShort(n) == IF n <= 1 THEN Goto("returned") ELSE Goto("name")
(* The head of the loop over the table.                                    *)
NextEntry(n) == IF n = 0 THEN Goto("returned") ELSE Goto("name")

ReadCount ==
  /\ pc = "count"
  /\ \/ /\ Inside(4)
        /\ left' = Read(4) /\ NextEntry(Read(4))
        /\ tensors' = <<>>
        /\ cursor' = cursor + 4
        /\ UNCHANGED tensor
     \/ PastEnd(4)

ReadName ==
  /\ pc = "name"
  /\ LET bytes == 2 + Read(2)
     IN \/ /\ Inside(2) /\ Inside(bytes)
           /\ tensor' = [tensor EXCEPT !.name = FieldAt(cursor + 2, Read(2))]
           /\ cursor' = cursor + bytes
           /\ Goto("dims")
           /\ UNCHANGED <<left, tensors>>
        \/ PastEnd(IF Inside(2) THEN bytes ELSE 2)

DimsBytes_NoLayout(ndims) == 1 + 4 * ndims
(* ndims, as many dimensions, and the layout, a character for each.        *)
DimsBytes(ndims) == 1 + 4 * ndims + ndims
ReadDims ==
  /\ pc = "dims"
  /\ \/ /\ Inside(1) /\ Inside(DimsBytes(Read(1)))
        /\ tensor' = [tensor EXCEPT !.dims =
                        [d \in 1 .. Read(1) |-> FieldAt(cursor + 1 + 4 * (d - 1), 4)]]
        /\ cursor' = cursor + DimsBytes(Read(1))
        /\ Goto("type")
        /\ UNCHANGED <<left, tensors>>
     \/ PastEnd(IF Inside(1) THEN DimsBytes(Read(1)) ELSE 1)

ReadType ==
  /\ pc = "type"
  /\ \/ /\ Inside(1)
        /\ tensor' = [tensor EXCEPT !.type = IF Read(1) \in {"f", "h"} THEN Read(1) ELSE "unknown"]
        /\ cursor' = cursor + 1
        /\ Goto("data")
        /\ UNCHANGED <<left, tensors>>
     \/ PastEnd(1)

(* elementSizeBytes throws for an unknown type; else the bytes are copied  *)
(* from the other part of the file.                                        *)
ReadData ==
  /\ pc = "data"
  /\ LET at == Read(8)
     IN \/ /\ Inside(8) /\ tensor.type = "unknown"
           /\ Goto("threw")
           /\ UNCHANGED <<left, tensor, tensors, cursor>>
        \/ /\ Inside(8) /\ tensor.type # "unknown" /\ at + TotalBytes(tensor) <= file.size
           /\ tensors' = Append(tensors, [tensor EXCEPT !.data = FieldAt(at, TotalBytes(tensor))])
           /\ left' = left - 1 /\ NextEntry(left - 1)
           /\ cursor' = cursor + 8
           /\ UNCHANGED tensor
        \/ /\ Inside(8) /\ tensor.type # "unknown" /\ at + TotalBytes(tensor) > file.size
           /\ Goto("undefined")
           /\ UNCHANGED <<left, tensor, tensors, cursor>>
        \/ PastEnd(8)

Over == pc \in Ended /\ UNCHANGED vars

Init ==
  /\ file \in Files
  /\ pc = "magic" /\ cursor = 0 /\ left = 0
  /\ tensor = [name |-> "", dims |-> <<>>, type |-> "unknown", data |-> Junk]
  /\ tensors = <<>>

Next ==
  \/ ReadMagic \/ ReadHeader \/ ReadCount \/ ReadName \/ ReadDims \/ ReadType
  \/ ReadData \/ Over

Spec == Init /\ [][Next]_vars

-----------------------------------------------------------------------------
(* The format.  A file also says which tensors it was written with         *)
(* (contents), where the entry of each starts in the table and where the   *)
(* last one ends (entries), and whether nothing of it is missing (whole).  *)

Field(width, value) == [width |-> width, value |-> value]
Value(f, p) == f.fields[p].value
HasField(f, p, width, value) == p \in DOMAIN f.fields /\ f.fields[p] = Field(width, value)

(* An entry: the name behind its length, the dimensions and the layout     *)
(* behind their number, the type, and where the data is.                   *)
EntryLaidOut(f, i) ==
  LET t      == f.contents[i]
      start  == f.entries[i]
      dimsAt == start + 2 + Value(f, start)
      typeAt == dimsAt + 1 + 5 * Len(t.dims)
      dataAt == Value(f, typeAt + 1)
  IN /\ t = [name |-> t.name, dims |-> t.dims, type |-> t.type, data |-> t.data]
     /\ t.dims \in Seq(Nat)
     /\ start \in DOMAIN f.fields /\ Value(f, start) \in Nat
     /\ HasField(f, start, 2, Value(f, start))
     /\ HasField(f, start + 2, Value(f, start), t.name)
     /\ HasField(f, dimsAt, 1, Len(t.dims))
     /\ \A d \in DOMAIN t.dims : HasField(f, dimsAt + 1 + 4 * (d - 1), 4, t.dims[d])
     /\ HasField(f, typeAt, 1, Value(f, typeAt))
     /\ t.type = IF Value(f, typeAt) \in {"f", "h"} THEN Value(f, typeAt) ELSE "unknown"
     /\ HasField(f, typeAt + 1, 8, dataAt) /\ dataAt \in Nat
     /\ HasField(f, dataAt, TotalBytes(t), t.data)
     /\ f.entries[i + 1] = typeAt + 9
     /\ f.whole => typeAt + 9 <= f.size /\ dataAt + TotalBytes(t) <= f.size

TableLaidOut(f) ==
  LET table == Value(f, 4)
  IN /\ HasField(f, 4, 8, table) /\ table \in Nat
     /\ HasField(f, table, 4, Len(f.contents))
     /\ f.contents \in Seq({f.contents[i] : i \in DOMAIN f.contents})
     /\ f.entries \in [1 .. Len(f.contents) + 1 -> Nat] /\ f.entries[1] = table + 4
     /\ \A i \in DOMAIN f.contents : EntryLaidOut(f, i)
     /\ f.whole => 12 <= f.size /\ table + 4 <= f.size

(* A weights file, or one that starts with something else than those do.   *)
IsTza(f) ==
  /\ f.size \in Nat /\ (f.whole => 2 <= f.size)
  /\ HasField(f, 0, 2, Value(f, 0))
  /\ Value(f, 0) = Magic => TableLaidOut(f)

-----------------------------------------------------------------------------
(* Properties.                                                             *)

KnownTypes == \A i \in DOMAIN file.contents : file.contents[i].type \in {"f", "h"}

(* A load that returns has every tensor of the file with its name, shape,  *)
(* type and own bytes, wherever the table and the data are.                *)
LoadsContents == pc = "returned" => tensors = file.contents

(* A complete file is read without leaving it, and refused only for a      *)
(* tensor of unknown type or for not being a weights file at all, as the   *)
(* pointers that stand for the weights in a clone without Git LFS are.     *)
RefusesOnlyUnknown ==
  file.whole => /\ pc # "undefined"
                /\ pc = "threw" => ~KnownTypes \/ Value(file, 0) # Magic
=============================================================================
