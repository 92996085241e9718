-------------------------------- MODULE MCNet --------------------------------
(***************************************************************************)
(* A budget of two, so that a loop ends by it; frames that wait, are       *)
(* overtaken by a reset or lose their queue; packets larger than a buffer. *)
(***************************************************************************)
EXTENDS Net
=============================================================================
