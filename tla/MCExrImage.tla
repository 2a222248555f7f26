----------------------------- MODULE MCExrImage -----------------------------
(* Small images for TLC: windows at, above and below the origin, an empty  *)
(* one, and files that lack a channel or all of them.                      *)
EXTENDS ExrImage

Exr(left, top, w, h, channels) ==
  [window |-> <<left, top, left + w - 1, top + h - 1>>, channels |-> channels]

MCFiles ==
  {Exr(0, 0, 2, 2, {"A", "B", "R"}), Exr(-1, 3, 3, 2, {"B", "R"}), Exr(2, -1, 1, 3, {"R", "B"}),
   Exr(0, 0, 2, 1, {"R"}), Exr(0, 0, 0, 2, {"R"}), Exr(1, 1, 1, 1, {})}

MCRequests == {<<"R", "B">>, <<"B">>, <<>>}
=============================================================================
