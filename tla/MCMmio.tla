------------------------------- MODULE MCMmio -------------------------------
(***************************************************************************)
(* virtio-mem's features (one required bit next to VERSION_1), a bit it    *)
(* does not offer in each half, and the two queues of a network device.    *)
(***************************************************************************)
EXTENDS Mmio
=============================================================================
