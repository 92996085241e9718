----------------------------- MODULE MCVirtioMem -----------------------------
(***************************************************************************)
(* Two blocks are enough for a transaction that fails half-way, one other  *)
(* device for a ring or a buffer that is not virtio-mem's own, and two     *)
(* requests for a batch that outlives the state its pins were taken in.    *)
(***************************************************************************)
EXTENDS VirtioMem, TLC

CONSTANT disk, mem

MCRing == (disk :> 1) @@ (mem :> 2)
OneEach == (disk :> 1) @@ (mem :> 1)
=============================================================================
