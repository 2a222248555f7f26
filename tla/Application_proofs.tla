------------------------- MODULE Application_proofs -------------------------
(***************************************************************************)
(* What main reports is true, for every disk, every set of command lines   *)
(* and every network.                                                      *)
(***************************************************************************)
EXTENDS Application, TLAPS

-----------------------------------------------------------------------------
(* What holds at each point of main on the way to the end: the disk is as  *)
(* it was, the image is the input's, and at the dump output_img has been   *)
(* set by a pipeline that there is.                                        *)
Running ==
  /\ exitCode = -1
  /\ files = Disk
  /\ pc \in {"start", "load", "weights", "model", "call", "dump"}
  /\ pc \in {"weights", "model", "call", "dump"} =>
       /\ argv[1] \in DOMAIN Disk
       /\ image = <<Disk[argv[1]].h, Disk[argv[1]].w>>
  /\ pc = "dump" =>
       /\ Asked.target \in {"cpu", "cuda"}
       /\ Asked.model \in KnownNames => outputImg = Denoised(image)
       /\ Asked.model \notin KnownNames => Asked.target = "cpu"

(* What an ended process leaves behind.                                    *)
Reported ==
  /\ pc = "ended"
  /\ FailsCleanly
  /\ exitCode \in {0, 1, 2}
  /\ SavesDenoised

AppInv == argv \in CommandLines /\ (Running \/ Reported)

LEMMA InitApp == Init => AppInv
  BY DEF Init, AppInv, Running

LEMMA AskedIs == Asked.target = Target /\ Asked.model = ModelName /\ Asked.output = OutputFile
  BY DEF Asked, Target, ModelName, OutputFile, Argument

(* A run that ends without having written anything is reported as failed.  *)
LEMMA EndsUnharmed ==
  ASSUME Running, pc' = "ended", exitCode' \in {1, 2}, UNCHANGED <<argv, files>>
  PROVE  Reported'
  BY DEF Running, Reported, FailsCleanly, SavesDenoised, Unchanged, Asked

LEMMA AbortInv == Running /\ Abort => Reported'
  BY EndsUnharmed DEF Abort, Exit

LEMMA CallInv == Running /\ CallPipeline => Running' \/ Reported'
<1> SUFFICES ASSUME Running, CallPipeline PROVE Running' \/ Reported'
  OBVIOUS
<1>1. CASE Target \in {"cpu", "cuda"} /\ ModelName \in KnownNames /\ CallKnown
  <2>1. CASE Pipeline!Return /\ pc' = "dump" /\ UNCHANGED <<argv, files, exitCode>>
    <3>1. outputImg' = Denoised(image) /\ UNCHANGED image
      BY <2>1 DEF Pipeline!Return
    <3>2. QED
      BY <1>1, <2>1, <3>1, AskedIs DEF Running, CallPipeline, Asked
  <2>2. CASE Exit(2) /\ UNCHANGED <<argv, files>>
    BY <2>2, EndsUnharmed DEF Exit
  <2>3. QED
    BY <1>1, <2>1, <2>2 DEF CallKnown
<1>2. CASE Target \in {"cpu", "cuda"} /\ ModelName \notin KnownNames /\ CallUnknown
  <2>1. CASE Target = "cpu" /\ pc' = "dump" /\ UNCHANGED <<argv, image, files, exitCode>>
    BY <1>2, <2>1, AskedIs DEF Running, CallPipeline, Asked
  <2>2. QED
    BY <1>2, <2>1, AbortInv DEF CallUnknown
<1>3. CASE Exit(1) /\ UNCHANGED <<argv, files>>
  BY <1>3, EndsUnharmed DEF Exit
<1>4. QED
  BY <1>1, <1>2, <1>3 DEF CallPipeline

LEMMA DumpInv == Running /\ DumpImage => Reported'
<1> SUFFICES ASSUME Running, DumpImage PROVE Reported'
  OBVIOUS
<1> /\ UNCHANGED <<argv, image, outputImg>>
    /\ argv[1] \in DOMAIN Disk
    /\ image = <<Disk[argv[1]].h, Disk[argv[1]].w>>
    /\ Asked.target \in {"cpu", "cuda"}
    /\ Asked.model \in KnownNames => outputImg = Denoised(image)
    /\ Asked.model \notin KnownNames => Asked.target = "cpu"
  BY DEF DumpImage, Running
<1> Asked' = Asked /\ Asked.output = OutputFile
  BY AskedIs DEF Asked
<1>1. ASSUME NEW content, Put(content)
      PROVE  /\ Unchanged(DOMAIN Disk \ {Asked.output})'
             /\ Asked.output \in DOMAIN files' /\ files'[Asked.output] = content
  BY <1>1 DEF Put, Unchanged, Running
<1>2. CASE Put(outputImg) /\ Exit(0)
  BY <1>1, <1>2 DEF Exit, Reported, SavesDenoised, FailsCleanly
<1>3. CASE Put(Truncated) /\ Exit(2)
  BY <1>1, <1>3 DEF Exit, Reported, SavesDenoised, FailsCleanly
<1>4. CASE files' = files /\ Exit(2)
  BY <1>4, EndsUnharmed DEF Exit
<1>5. QED
  BY <1>2, <1>3, <1>4 DEF DumpImage

LEMMA NextApp == AppInv /\ [Next]_vars => AppInv'
<1> SUFFICES ASSUME AppInv, [Next]_vars PROVE AppInv'
  OBVIOUS
<1>1. argv' = argv /\ argv \in CommandLines
  BY DEF AppInv, Next, vars, CheckArguments, LoadImage, LoadTza, CreateModel, CallPipeline,
         CallKnown, CallUnknown, Abort, DumpImage, Ended
<1> SUFFICES Running' \/ Reported'
  BY <1>1 DEF AppInv
<1>2. CASE UNCHANGED vars
  BY <1>2 DEF AppInv, vars, Running, Reported, FailsCleanly, SavesDenoised, Unchanged, Asked
<1>3. CASE Reported
  BY <1>2, <1>3 DEF Reported, Next, CheckArguments, LoadImage, LoadTza, CreateModel,
                    CallPipeline, DumpImage, Ended
<1>4. CASE Running /\ CheckArguments
  <2>1. CASE Exit(1)
    BY <1>4, <2>1, EndsUnharmed DEF CheckArguments, Exit
  <2>2. CASE pc' = "load" /\ exitCode' = exitCode
    BY <1>4, <2>2 DEF CheckArguments, Running
  <2>3. QED
    BY <1>4, <2>1, <2>2 DEF CheckArguments
<1>5. CASE Running /\ LoadImage
  BY <1>5, AbortInv DEF LoadImage, Running, InputFile
<1>6. CASE Running /\ LoadTza
  BY <1>6, AbortInv DEF LoadTza, Running
<1>7. CASE Running /\ CreateModel
  BY <1>7, AbortInv DEF CreateModel, Running
<1>8. QED
  BY <1>2, <1>3, <1>4, <1>5, <1>6, <1>7, CallInv, DumpInv DEF AppInv, Next, Ended

-----------------------------------------------------------------------------
LEMMA AppInvariant == Spec => []AppInv
  BY InitApp, NextApp, PTL DEF Spec

(* A run that reports failure has harmed nothing but the output file,      *)
(* whatever the arguments, the disk and the step that failed.              *)
THEOREM FailureHarmless == Spec => []FailsCleanly
<1>1. AppInv => FailsCleanly
  BY DEF AppInv, Running, Reported, FailsCleanly
<1>2. QED
  BY <1>1, AppInvariant, PTL

(* A run that reports success used a target that there is and has written  *)
(* the output file and no other, for all arguments, disks and names; for a *)
(* model that get_model_spec describes it has written the denoised image.  *)
THEOREM SuccessSaved == Spec => []SavesDenoised
<1>1. AppInv => SavesDenoised
  BY DEF AppInv, Running, Reported, SavesDenoised
<1>2. QED
  BY <1>1, AppInvariant, PTL
=============================================================================
