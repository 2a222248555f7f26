--------------------------- MODULE MCApplication ---------------------------
(* Command lines of zero to five arguments for TLC.                        *)
EXTENDS Application, RtHdr

MCImages == {<<5, 17>>, <<2, 2>>}
MCDisk == [n \in {"in.exr", "other.exr"} |->
             IF n = "in.exr" THEN Raw(<<5, 17>>) ELSE Raw(<<2, 2>>)]

Lines(names) ==
  LET inputs  == {"in.exr", "missing.exr"}
      targets == {"cpu", "cuda", "gpu"}
      outputs == {"out.exr", "in.exr", "other.exr"}
  IN {<<>>} \cup {<<i>> : i \in inputs} \cup inputs \X targets
     \cup inputs \X targets \X names \cup inputs \X targets \X names \X outputs
     \cup {<<"in.exr", "cpu", "rt_hdr", "out.exr", "more">>}

(* A name that the program knows, one that only has a weights file, and    *)
(* one that nobody knows, each for every target and output.                *)
MCLines == Lines({"rt_hdr", "rt_ldr", "no_such_model"})
=============================================================================
