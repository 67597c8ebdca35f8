------------------------------- MODULE MCKmem -------------------------------
(* Kmem for TLC.  With two descriptors in a slab, the nested allocation of *)
(* a descriptor needs a page of its own from time to time.                 *)
EXTENDS Kmem

MCCapacity == [slab |-> 2, small |-> 2, big |-> 2]
=============================================================================
