---------------------------- MODULE WeightStore ----------------------------
(***************************************************************************)
(* From the bytes of a weights file to the model and back to nothing:      *)
(* loadTza, then createUNetModel on what it returned and freeUNetModel, in *)
(* the order in which main and the pipelines call them.                    *)
(***************************************************************************)
EXTENDS Integers, Sequences, FiniteSetsExt

CONSTANTS
  Files,      \* the weights files considered
  Networks,   \* what get_model_spec may describe
  Magic, Junk

VARIABLES
  file, reading, cursor, left, tensor, tensors,                      \* loadTza
  net, cuda, building, layer, conv, offset, buffer, layers, live     \* the builder

loader  == <<file, reading, cursor, left, tensor, tensors>>
builder == <<net, cuda, building, layer, conv, offset, buffer, layers, live>>
vars == <<loader, builder>>

Parser == INSTANCE TzaParser WITH pc <- reading

(* TzaFile::find: the first tensor of that name.                           *)
Loaded ==
  [n \in {tensors[i].name : i \in DOMAIN tensors} |->
     tensors[Min({i \in DOMAIN tensors : tensors[i].name = n})]]

Builder == INSTANCE ModelBuilder WITH file <- Loaded, pc <- building

-----------------------------------------------------------------------------
(* Assumptions.                                                            *)

ASSUME FilesAssumption == \A f \in Files : Parser!IsTza(f)

(* get_model_spec names a weight and a bias per convolution, and no more   *)
(* encoder layers than there are layers.                                   *)
ASSUME NetworksAssumption ==
  \A n \in Networks :
    /\ n.layers \in Seq({n.layers[i] : i \in DOMAIN n.layers})
    /\ \A i \in DOMAIN n.layers :
         /\ n.layers[i] \in Seq({n.layers[i][j] : j \in DOMAIN n.layers[i]})
         /\ Len(n.layers[i]) % 2 = 0
    /\ n.offset \in 0 .. Len(n.layers)

(* What memory holds before it is written is no half of a tensor.          *)
Data == UNION {{f.contents[i].data : i \in DOMAIN f.contents} : f \in Files}
ASSUME JunkAssumption == Junk \notin Data \X Nat /\ Junk \notin Data \X Nat \X {0, 1}

(* What createUNetModel takes for granted of a file: where a network has a *)
(* weight and a bias, they are those of a 3x3 convolution, in halfs.  The  *)
(* data of a tensor is written as its name.                                *)
IsConvolution(weight, bias) ==
  /\ Len(weight.dims) = 4 /\ weight.dims[3] = 3 /\ weight.dims[4] = 3
  /\ bias.dims = <<weight.dims[1]>>
  /\ \A t \in {weight, bias} : t.type = "h" /\ t.data = t.name
TensorsFit ==
  \A f \in Files, n \in Networks :
    \A i \in DOMAIN n.layers : \A j \in 1 .. Len(n.layers[i]) \div 2 :
      \A w, b \in DOMAIN f.contents :
        f.contents[w].name = n.layers[i][2 * j - 1] /\ f.contents[b].name = n.layers[i][2 * j]
          => IsConvolution(f.contents[w], f.contents[b])

-----------------------------------------------------------------------------

Init == Parser!Init /\ Builder!Init

Load  == reading \notin Parser!Ended /\ Parser!Next /\ UNCHANGED builder
Build == reading = "returned" /\ UNCHANGED loader /\ Builder!Next
Over  == reading \in {"threw", "undefined"} /\ UNCHANGED vars

Next == Load \/ Build \/ Over

Spec == Init /\ [][Next]_vars

-----------------------------------------------------------------------------
(* Properties.                                                             *)

(* loadTza: a load that returns has every tensor of the file, and only a   *)
(* file that is not complete is read past its end.                         *)
LoadsContents == Parser!LoadsContents
RefusesOnlyUnknown == Parser!RefusesOnlyUnknown

(* createUNetModel: the kernels find, by their own index arithmetic, the   *)
(* weights and biases that were in the file, wherever in it they were.     *)
WeightsInPlace == Builder!WeightsInPlace

(* Its two passes over the tensors agree on the size of the buffer.        *)
CopiesFill == Builder!CopiesFill

(* freeUNetModel leaves nothing behind, on the host or on the device.      *)
ReleasesAll == Builder!ReleasesAll
=============================================================================
