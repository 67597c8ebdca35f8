------------------------- MODULE MCAtomicRingBuffer -------------------------
(***************************************************************************)
(* The ring buffer with a few slots and a data area that is not a whole    *)
(* number of elements long, as in the kernel (4096 - 192 bytes, 24 bytes   *)
(* per element).                                                           *)
(***************************************************************************)
EXTENDS AtomicRingBuffer
=============================================================================
