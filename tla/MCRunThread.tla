----------------------------- MODULE MCRunThread -----------------------------
(* Module RunThread on small instances for TLC.                              *)
EXTENDS RunThread
==============================================================================
