------------------------------- MODULE MCCpus --------------------------------
(* Module Cpus with few vCPUs for TLC.                                        *)
EXTENDS Cpus
==============================================================================
