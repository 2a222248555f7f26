------------------------------ MODULE Denoise ------------------------------
(***************************************************************************)
(* What oidn_unet and oidn_unet_cuda promise main: the call either hands   *)
(* over the denoised image or ends the process with an error.  It never    *)
(* returns anything else.                                                  *)
(***************************************************************************)
CONSTANTS
  ImageSizes,   \* the <<height, width>> of the images considered
  Denoised(_),  \* the denoised image of an image of that size
  NoOutput

VARIABLES
  image,    \* <<height, width>> of the image to denoise
  status,   \* "running", then "returned" or "failed"
  output    \* output_img as main sees it

vars == <<image, status, output>>

Init == /\ image \in ImageSizes
        /\ status = "running"
        /\ output = NoOutput

Return == /\ status = "running"
          /\ status' = "returned"
          /\ output' = Denoised(image)
          /\ UNCHANGED image

Fail == /\ status = "running"
        /\ status' = "failed"
        /\ UNCHANGED <<image, output>>

Next == Return \/ Fail

Spec == Init /\ [][Next]_vars

(* The call ends.                                                          *)
Ends == <>(status # "running")
=============================================================================
