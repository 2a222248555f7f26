---------------------------- MODULE Application ----------------------------
(***************************************************************************)
(* main: the arguments, the two files it reads, the model, the call of one *)
(* of the two pipelines and the file it writes.  The pipelines appear as   *)
(* what CudaUNet and CpuUNet are shown to implement, Denoise.  Nothing is  *)
(* caught: an exception anywhere aborts the process, and CUDA_ERR exits.   *)
(*                                                                         *)
(* The disk maps names of image files to their content, a tensor of        *)
(* Network; an image is loaded as Raw(size).                               *)
(***************************************************************************)
EXTENDS Network

CONSTANTS
  CommandLines,   \* sequences of arguments, the program's name left out
  Disk,           \* the image files there are at the start: name -> content
  WeightsFiles,   \* the model names that have a file in ../weights
  KnownNames,     \* the model names that get_model_spec describes: one network
  NoOutput,
  Truncated       \* a file whose writing was interrupted

VARIABLES
  argv, pc,
  image,       \* <<height, width>> of the image loaded
  weights,     \* where the weights of the model are: "host", "device" or "freed"
  call,        \* status of the pipeline, as Denoise has it
  outputImg,   \* output_img
  files,       \* the disk
  exitCode     \* -1 while the process runs

vars == <<argv, pc, image, weights, call, outputImg, files, exitCode>>

Argument_EarlyOutput(i, default) ==
  IF i = 4 /\ Len(argv) >= 3 THEN argv[3] ELSE IF Len(argv) >= i THEN argv[i] ELSE default
Argument(i, default) == IF Len(argv) >= i THEN argv[i] ELSE default

InputFile  == argv[1]
Target     == Argument(2, "cpu")
ModelName  == Argument(3, "rt_hdr")
OutputFile == Argument(4, "output.exr")

Exit(code) == pc' = "ended" /\ exitCode' = code

(* An exception that nobody catches, a signal, or exit() in gpuAssert.     *)
Abort == Exit(2) /\ UNCHANGED <<argv, image, weights, call, outputImg, files>>

CheckArguments ==
  /\ pc = "start"
  /\ \/ /\ Len(argv) \in 1 .. 4
        /\ pc' = "load" /\ exitCode' = exitCode
     \/ Len(argv) \notin 1 .. 4 /\ Exit(1)
  /\ UNCHANGED <<argv, image, weights, call, outputImg, files>>

LoadImage ==
  /\ pc = "load"
  /\ \/ /\ InputFile \in DOMAIN files
        /\ image' = <<files[InputFile].h, files[InputFile].w>>
        /\ pc' = "weights"
        /\ UNCHANGED <<argv, weights, call, outputImg, files, exitCode>>
     \/ Abort

LoadTza ==
  /\ pc = "weights"
  /\ \/ /\ ModelName \in WeightsFiles
        /\ pc' = "model"
        /\ UNCHANGED <<argv, image, weights, call, outputImg, files, exitCode>>
     \/ Abort

(* The model goes to the device for the target cuda only.  ModelBuilder is *)
(* about what it holds; for a name get_model_spec does not know, no layer. *)
ForDevice(target) == target = "cuda"

CreateModel ==
  /\ pc = "model"
  /\ \/ /\ weights' = IF ForDevice(Target) THEN "device" ELSE "host"
        /\ pc' = "call"
        /\ UNCHANGED <<argv, image, call, outputImg, files, exitCode>>
     \/ Abort

Pipeline == INSTANCE Denoise WITH status <- call, output <- outputImg

(* The pipeline returns, having freed the model if it is the CUDA one, or  *)
(* ends the process.                                                       *)
CallKnown ==
  /\ Target = "cpu" => weights = "host"
  /\ Target = "cuda" => weights = "device"
  /\ \/ /\ Pipeline!Return
        /\ weights' = IF Target = "cuda" THEN "freed" ELSE weights
        /\ pc' = "dump"
        /\ UNCHANGED <<argv, files, exitCode>>
     \/ /\ Pipeline!Fail
        /\ Exit(2)
        /\ UNCHANGED <<argv, weights, files>>

(* Without layers, oidn_unet is left with its transfer functions, and      *)
(* oidn_unet_cuda writes to the first element of an empty vector.          *)
CallUnknown ==
  \/ /\ Target = "cpu"
     /\ outputImg' = Inverted(Transferred(Raw(image)), image)
     /\ call' = "returned"
     /\ pc' = "dump"
     /\ UNCHANGED <<argv, image, weights, files, exitCode>>
  \/ Abort

CallPipeline_FallThrough ==
  /\ pc = "call"
  /\ \/ Target \in {"cpu", "cuda"} /\ ModelName \in KnownNames /\ CallKnown
     \/ Target \in {"cpu", "cuda"} /\ ModelName \notin KnownNames /\ CallUnknown
     \/ /\ Target \notin {"cpu", "cuda"}
        /\ pc' = "dump"
        /\ UNCHANGED <<argv, image, weights, call, outputImg, files, exitCode>>

CallPipeline ==
  /\ pc = "call"
  /\ \/ Target \in {"cpu", "cuda"} /\ ModelName \in KnownNames /\ CallKnown
     \/ Target \in {"cpu", "cuda"} /\ ModelName \notin KnownNames /\ CallUnknown
     \/ /\ Target \notin {"cpu", "cuda"}
        /\ Exit(1)
        /\ UNCHANGED <<argv, image, weights, call, outputImg, files>>

(* dump_image may throw, before it creates the file or while it writes.    *)
Put(content) == files' = [n \in DOMAIN files \cup {OutputFile} |->
                            IF n = OutputFile THEN content ELSE files[n]]
DumpImage ==
  /\ pc = "dump"
  /\ \/ Put(outputImg) /\ Exit(0)
     \/ Put(Truncated) /\ Exit(2)
     \/ files' = files /\ Exit(2)
  /\ UNCHANGED <<argv, image, weights, call, outputImg>>

Ended == pc = "ended" /\ UNCHANGED vars

Init ==
  /\ argv \in CommandLines
  /\ pc = "start"
  /\ image = <<0, 0>>
  /\ weights = "freed" /\ call = "running" /\ outputImg = NoOutput
  /\ files = Disk
  /\ exitCode = -1

Next ==
  \/ CheckArguments \/ LoadImage \/ LoadTza \/ CreateModel \/ CallPipeline
  \/ DumpImage \/ Ended

Spec == Init /\ [][Next]_vars

-----------------------------------------------------------------------------
(* Properties.                                                             *)

(* "Usage: %s <input_file> [target=cpu|cuda] [model_name=rt_hdr]           *)
(* [output_file=output.exr]", as functions of what the user wrote.         *)
Asked == [target |-> IF Len(argv) < 2 THEN "cpu" ELSE argv[2],
          model  |-> IF Len(argv) < 3 THEN "rt_hdr" ELSE argv[3],
          output |-> IF Len(argv) < 4 THEN "output.exr" ELSE argv[4]]

Unchanged(names) == \A n \in names : n \in DOMAIN files /\ files[n] = Disk[n]

(* A process that reports success used a target that there is, has written *)
(* the file asked for, over the input too if that is its name, and nothing *)
(* else.  What it has written is the denoised image of the input for the   *)
(* models that get_model_spec describes.  Of any other nothing is promised *)
(* (main does not notice that such a model has no layers, and reports      *)
(* success) but that the target is cpu: the target cuda ends in an error.  *)
SavesDenoised ==
  exitCode = 0 =>
    /\ Asked.target \in {"cpu", "cuda"}
    /\ Asked.output \in DOMAIN files
    /\ Unchanged(DOMAIN Disk \ {Asked.output})
    /\ Asked.model \in KnownNames =>
         files[Asked.output] = Denoised(<<Disk[argv[1]].h, Disk[argv[1]].w>>)
    /\ Asked.model \notin KnownNames => Asked.target = "cpu"

(* One that reports failure has harmed no file but the output, and has not *)
(* left anything there that passes for a result.                           *)
FailsCleanly ==
  exitCode > 0 =>
    /\ Unchanged(DOMAIN Disk \ {Asked.output})
    /\ \/ Asked.output \in DOMAIN files /\ files[Asked.output] = Truncated
       \/ files = Disk
=============================================================================
