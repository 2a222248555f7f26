------------------------------ MODULE ExrImage ------------------------------
(***************************************************************************)
(* EXR::Image::load and EXR::dump_image.  load gives OpenEXR one plane per *)
(* requested channel, addressed in the coordinates of the file's data      *)
(* window, lets it fill the planes row by row and packs them into an NHWC  *)
(* tensor.  Most of its steps may throw, and the members set before stay   *)
(* as they are; the image may be loaded again.                             *)
(*                                                                         *)
(* A file is [window, channels]: the data window <<min x, min y, max x,    *)
(* max y>> and the names of its channels.  The value of a pixel is its     *)
(* name in the file, <<channel, y, x>>.                                    *)
(***************************************************************************)
EXTENDS Integers, Sequences

CONSTANTS
  ExrFiles,   \* the files considered
  Requests,   \* the lists of labels asked for
  MaxLoads,   \* bound on the calls of load
  Junk        \* what a new plane holds

ASSUME LoadBound == MaxLoads \in Nat

Labels == UNION {{request[i] : i \in DOMAIN request} : request \in Requests}

ASSUME InputShape == /\ \A f \in ExrFiles : f.window \in Int \X Int \X Int \X Int
                     /\ Requests \subseteq Seq(Labels)

VARIABLES
  pc, loads,
  file, labels,            \* the arguments
  width, height,           \* members of the image
  available,               \* available_channels
  loaded, planes, tensor,  \* loaded_channels, channel_planes, tensor
  row,                     \* next row of the data window to read or write
  written                  \* what dump_image stored: <<channel, y, x>> -> value

image == <<width, height, available, loaded, planes, tensor>>
vars == <<pc, loads, file, labels, width, height, available, loaded, planes, tensor, row, written>>

MinX == file.window[1]
MinY == file.window[2]
MaxX == file.window[3]
MaxY == file.window[4]

-----------------------------------------------------------------------------
(* load.                                                                   *)

Throw == pc' = "threw" /\ UNCHANGED <<loads, file, labels, row, written>>

(* An empty request and a file that cannot be opened are refused before    *)
(* the image is touched.                                                   *)
Load ==
  /\ pc \in {"ready", "threw", "loaded"} /\ loads < MaxLoads
  /\ loads' = loads + 1
  /\ \E f \in ExrFiles, request \in Requests :
       /\ file' = f /\ labels' = request
       /\ pc' \in (IF request = <<>> THEN {} ELSE {"size"}) \cup {"threw"}
  /\ UNCHANGED <<width, height, available, loaded, planes, tensor, row, written>>

SetSize ==
  /\ pc = "size"
  /\ width' = MaxX - MinX + 1 /\ height' = MaxY - MinY + 1
  /\ UNCHANGED <<loaded, planes, tensor>>
  /\ IF width' <= 0 \/ height' <= 0 THEN Throw /\ UNCHANGED available
     ELSE /\ available' = file.channels
          /\ \/ available' = {} /\ Throw
             \/ /\ available' # {} /\ pc' = "clear"
                /\ UNCHANGED <<loads, file, labels, row, written>>

Clear_KeepNames ==
  /\ pc = "clear"
  /\ planes' = <<>>
  /\ pc' = "slice"
  /\ UNCHANGED <<loads, file, labels, width, height, available, loaded, tensor, row, written>>
Clear ==
  /\ pc = "clear"
  /\ loaded' = <<>> /\ planes' = <<>>
  /\ pc' = "slice"
  /\ UNCHANGED <<loads, file, labels, width, height, available, tensor, row, written>>

(* One turn of the loop over the labels: a new plane, or no such channel.  *)
AddSlice ==
  /\ pc = "slice"
  /\ UNCHANGED <<width, height, available, tensor>>
  /\ IF Len(planes) = Len(labels)
     THEN /\ pc' = "read" /\ row' = MinY
          /\ UNCHANGED <<loads, file, labels, loaded, planes, written>>
     ELSE LET label == labels[Len(planes) + 1]
          IN IF label \notin available THEN Throw /\ UNCHANGED <<loaded, planes>>
             ELSE /\ loaded' = Append(loaded, label)
                  /\ planes' = Append(planes, [i \in 0 .. width * height - 1 |-> Junk])
                  /\ UNCHANGED <<pc, loads, file, labels, row, written>>

BasePointer_NoRows == 0 - MinX
(* base_pointer, relative to the start of the plane: where pixel (0, 0) of *)
(* the file's coordinates would be, which need not be in the plane.        *)
BasePointer == 0 - MinX - MinY * width

(* Where OpenEXR puts pixel (y, x) of a slice with these strides.          *)
SliceAddress(base, xStride, yStride, y, x) == base + y * yStride + x * xStride

PlaneAddress(y, x) == SliceAddress(BasePointer, 1, width, y, x)

(* readPixels, a row at a time; an incomplete file stops it at any row.    *)
ReadRow ==
  /\ pc = "read" /\ row <= MaxY
  /\ \/ /\ planes' = [c \in DOMAIN planes |->
             [i \in DOMAIN planes[c] |->
                IF \E x \in MinX .. MaxX : PlaneAddress(row, x) = i
                THEN <<labels[c], row, CHOOSE x \in MinX .. MaxX : PlaneAddress(row, x) = i>>
                ELSE planes[c][i]]]
        /\ row' = row + 1
        /\ UNCHANGED <<pc, loads, file, labels, width, height, available, loaded, tensor, written>>
     \/ Throw /\ UNCHANGED image

(* Pixel y, x, channel c of an interleaved image.                          *)
PackedIndex(y, x, c, count) == (y * width + x) * count + c

Pack ==
  /\ pc = "read" /\ row > MaxY
  /\ LET count == Len(loaded)
         Place == (0 .. height - 1) \X (0 .. width - 1) \X (0 .. count - 1)
     IN tensor' = [i \in 0 .. width * height * count - 1 |->
          LET e == CHOOSE e \in Place : PackedIndex(e[1], e[2], e[3], count) = i
          IN IF e[3] + 1 \in DOMAIN planes THEN planes[e[3] + 1][e[1] * width + e[2]] ELSE Junk]
  /\ planes' = <<>>
  /\ pc' = "loaded"
  /\ UNCHANGED <<loads, file, labels, width, height, available, loaded, row, written>>

-----------------------------------------------------------------------------
(* dump_image of the loaded tensor under the loaded names.  The header's   *)
(* data window starts at (0, 0), wherever the loaded file's did.           *)

Dump ==
  /\ pc = "loaded"
  /\ pc' = "write" /\ row' = 0
  /\ written' = [p \in {} |-> Junk]
  /\ UNCHANGED <<loads, file, labels, width, height, available, loaded, planes, tensor>>

(* The slice of channel i starts i floats into the data.                   *)
DumpAddress_Planar(i, y, x) == SliceAddress(i * width * height, 1, width, y, x)
DumpAddress(i, y, x) ==
  SliceAddress(i, Len(loaded), Len(loaded) * width, y, x)

WriteRow ==
  /\ pc = "write" /\ row < height
  /\ \/ /\ written' = [p \in DOMAIN written \cup {<<loaded[c], row, x>> : c \in DOMAIN loaded, x \in 0 .. width - 1} |->
             IF p \in DOMAIN written THEN written[p]
             ELSE tensor[DumpAddress((CHOOSE c \in DOMAIN loaded : loaded[c] = p[1]) - 1, p[2], p[3])]]
        /\ row' = row + 1
        /\ UNCHANGED <<pc, loads, file, labels, width, height, available, loaded, planes, tensor>>
     \/ Throw /\ UNCHANGED image

EndDump ==
  /\ pc = "write" /\ row = height
  /\ pc' = "dumped"
  /\ UNCHANGED <<loads, file, labels, width, height, available, loaded, planes, tensor, row, written>>

Over == (pc = "dumped" \/ (loads = MaxLoads /\ pc = "threw")) /\ UNCHANGED vars

Init ==
  /\ pc = "ready" /\ loads = 0
  /\ file \in ExrFiles /\ labels = <<>>
  /\ width = 0 /\ height = 0 /\ available = {}
  /\ loaded = <<>> /\ planes = <<>> /\ tensor = [i \in {} |-> Junk]
  /\ row = 0 /\ written = [p \in {} |-> Junk]

Next ==
  \/ Load \/ SetSize \/ Clear \/ AddSlice \/ ReadRow \/ Pack
  \/ Dump \/ WriteRow \/ EndDump \/ Over

Spec == Init /\ [][Next]_vars

-----------------------------------------------------------------------------
(* Properties.                                                             *)

(* A load that returns has set every member for this file and this request *)
(* and nothing is left of an earlier load, whether that returned or threw  *)
(* half way: each element of the tensor is the pixel of the data window it *)
(* stands for, the channels in the order of the request.                   *)
LoadsRequest ==
  pc = "loaded" =>
    /\ <<width, height>> = <<MaxX - MinX + 1, MaxY - MinY + 1>>
    /\ available = file.channels /\ loaded = labels /\ planes = <<>>
    /\ DOMAIN tensor = 0 .. width * height * Len(labels) - 1
    /\ \A i \in DOMAIN tensor :
         tensor[i] = <<labels[(i % Len(labels)) + 1],
                       MinY + (i \div Len(labels)) \div width,
                       MinX + ((i \div Len(labels)) % width)>>

(* OpenEXR, given a base that may be far outside the plane, writes inside  *)
(* it, to a place of its own for every pixel of the window.                *)
PixelsInPlane ==
  pc = "read" =>
    \A y \in MinY .. MaxY, x \in MinX .. MaxX :
      /\ PlaneAddress(y, x) \in 0 .. width * height - 1
      /\ \A v \in MinY .. MaxY, u \in MinX .. MaxX :
           PlaneAddress(v, u) = PlaneAddress(y, x) => <<v, u>> = <<y, x>>

(* Dumping what was loaded gives every channel its own pixels back, moved  *)
(* to the origin.                                                          *)
RoundTrip ==
  pc = "dumped" =>
    \A c \in DOMAIN loaded, y \in 0 .. height - 1, x \in 0 .. width - 1 :
      written[<<loaded[c], y, x>>] = <<loaded[c], MinY + y, MinX + x>>
=============================================================================
